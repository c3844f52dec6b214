--------------------------------- MODULE Decimal ---------------------------------
(***************************************************************************)
(* feed/src/bin/recorder.rs: the exact conversion of the exchange's        *)
(* decimal strings to integer ticks.  A string is [neg, int, frac, len,    *)
(* junk]: whether it begins with a minus, the value of the digits before   *)
(* the point (None when there are none), the value and the number of those *)
(* after it, and whether anything else is in it.                           *)
(***************************************************************************)
EXTENDS Integers, Sequences

CONSTANTS I128Max,   \* 2^127 - 1 in the code
          I64Max     \* 2^63 - 1

ASSUME DecimalAssumption == I128Max \in Nat /\ I64Max \in Nat /\ I64Max <= I128Max

NoDigits == -1

Text(neg, int, frac, len) ==
  [neg |-> neg, int |-> int, frac |-> frac, len |-> len, junk |-> FALSE]

Value(text) == IF text.int = NoDigits THEN 0 ELSE text.int

\* A conversion that succeeded, or its ConvError.
Converted(x)      == [ok |-> TRUE, val |-> x, error |-> ""]
ConvError(error) == [ok |-> FALSE, val |-> 0, error |-> error]

NotDecimal(text, d) ==
  \/ text.int = NoDigits /\ text.len = 0
  \/ text.junk
  \/ text.len > d

\* What is computed on the way: each of them is checked.
Magnitude(text, d) == Value(text) * 10^d + text.frac * 10^(d - text.len)

Overflows(text, d) == 10^d > I128Max \/ Value(text) > I128Max \/ Magnitude(text, d) > I128Max

\* scale_to_int: the value times 10^d.
ScaleToInt(text, d) ==
  CASE NotDecimal(text, d) -> ConvError("NotDecimal")
    [] ~NotDecimal(text, d) /\ Overflows(text, d) -> ConvError("Overflow")
    [] OTHER -> Converted(IF text.neg THEN -Magnitude(text, d) ELSE Magnitude(text, d))

\* As the common scale taken from the tick alone.
ScaleOfTick(value, tick) == tick.len

\* The scale both are brought to: the longer of the two fractions.
CommonScale(value, tick) == IF value.len > tick.len THEN value.len ELSE tick.len

\* to_ticks: value / tick where that is a whole number.  A tick size has no minus.
ToTicks(value, tick) ==
  LET d == CommonScale(value, tick)
      v == ScaleToInt(value, d)
      t == ScaleToInt(tick, d)
  IN CASE ~v.ok -> v
       [] v.ok /\ ~t.ok -> t
       [] v.ok /\ t.ok ->
            IF t.val = 0 THEN ConvError("OffTickGrid")
            ELSE IF v.val % t.val # 0 THEN ConvError("OffTickGrid")
            ELSE IF v.val \div t.val \in -I64Max - 1 .. I64Max THEN Converted(v.val \div t.val)
            ELSE ConvError("Overflow")

-------------------------------------------------------------------------------
(* resolve_scales: the tick sizes among the filters of the exchange's answer, *)
(* each [filterType, size], where size is <<text>> or, if there is none, <<>>  *)

LastSize(filters, filterType) ==
  LET all == SelectSeq(filters, LAMBDA f : f.filterType = filterType)
  IN IF all = <<>> THEN <<>> ELSE all[Len(all)].size

\* As resolve_scales with the step size of the quantities taken for that of the prices.
ResolveStep(filters) ==
  [tick_size |-> LastSize(filters, "LOT_SIZE"), step_size |-> LastSize(filters, "LOT_SIZE")]

ResolveScales(filters) ==
  [tick_size |-> LastSize(filters, "PRICE_FILTER"), step_size |-> LastSize(filters, "LOT_SIZE")]

\* An answer without both of them is refused.
Resolved(scales) == scales.tick_size # <<>> /\ scales.step_size # <<>>

-------------------------------------------------------------------------------
(* Correctness *)

\* The rational number of a text, as a numerator over 10^len.
Numerator(text) ==
  (IF text.neg THEN -1 ELSE 1) * (Value(text) * 10^text.len + text.frac)

\* value = k * tick, cross-multiplied.
IsTicks(k, value, tick) ==
  Numerator(value) * 10^tick.len = k * Numerator(tick) * 10^value.len

WellFormed(text) == ~text.junk /\ (text.int # NoDigits \/ text.len > 0)

\* What to_ticks promises: a count is exactly value / tick; it refuses as off the grid
\* only what is no whole number of ticks, up to counts of bound, and as an overflow
\* only what does not fit.
ExactOn(value, tick, bound) ==
  LET r == ToTicks(value, tick)
      d == CommonScale(value, tick) IN
    /\ r.ok => WellFormed(value) /\ WellFormed(tick) /\ IsTicks(r.val, value, tick)
    /\ r.error = "OffTickGrid" =>
         Numerator(tick) = 0 \/ \A k \in -bound .. bound : ~IsTicks(k, value, tick)
    /\ r.error = "Overflow" =>
         \/ Overflows(value, d) \/ Overflows(tick, d)
         \/ \A k \in -I64Max - 1 .. I64Max : ~IsTicks(k, value, tick)
    /\ r.error = "NotDecimal" => ~WellFormed(value) \/ ~WellFormed(tick)
===============================================================================
