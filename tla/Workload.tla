-------------------------------- MODULE Workload --------------------------------
(***************************************************************************)
(* bench/src/workload.rs and the measuring loops of bench/src/benches/     *)
(* service.rs: a book of a given depth, and the events applied to it while *)
(* they are timed.  A loop's warm-up makes the same passes, untimed.  The  *)
(* book under test is taken for the map it implements (see BookOracle).    *)
(***************************************************************************)
EXTENDS PriceLevels, FiniteSets

CONSTANTS FirstQty,   \* 1000 in the code: the best level has one more
          QtyMod,     \* 0x8000 in the code: next_qty masks with one less
          Depths,     \* the depths measured
          Mid         \* MID

ASSUME WorkloadAssumption ==
  FirstQty \in Nat /\ QtyMod \in Nat \ {0} /\ Depths \subseteq Nat \ {0} /\ Mid \in Int

STEP == 2

Op == {"update", "insert", "remove", "trade"}

VARIABLES cellDepth, \* of the cell
          op,       \* what is measured
          gap,      \* between the two applies of a pass: <<side, price>>, else <<>>
          q,        \* the counter of next_qty
          ladder,   \* the levels of the book under test, per side
          traded    \* its last trade

serviceVars == <<cellDepth, op, gap, q, ladder, traded>>

-------------------------------------------------------------------------------
(* workload.rs *)

\* So many ticks away from the mid, on the side.
Out(side, px, ticks) == IF side = "Bid" THEN px - ticks ELSE px + ticks

Rung(side, i) == LevelEvent(side, Out(side, Mid, STEP * i), FirstQty + i)

\* build_at_depth: the levels in the order they are applied, outwards.
BuildOrder(d) ==
  [j \in 1 .. 2 * d |-> Rung(IF j % 2 = 1 THEN "Bid" ELSE "Ask", (j + 1) \div 2)]

\* As build_at_depth_fast with a range of bids that leaves out the outermost.
BuildFastOrderShort(d) ==
  [j \in 1 .. 2 * d - 1 |-> IF j < d THEN Rung("Bid", d - j) ELSE Rung("Ask", j - d + 1)]

\* build_at_depth_fast: from the lowest price up.
BuildFastOrder(d) ==
  [j \in 1 .. 2 * d |-> IF j <= d THEN Rung("Bid", d + 1 - j) ELSE Rung("Ask", j - d)]

\* touch_offset: uniform or by coin flips, from the best level to the outermost.
TouchOffset(d) == 0 .. d - 1

\* As touch_price with the offset counted from the mid.
TouchPriceFromMid(side, off) == Out(side, Mid, STEP * off)

TouchPrice(side, off) == Out(side, Mid, STEP * (off + 1))

\* As gap_price by a whole step.
GapPriceOnRung(existing, side) == Out(side, existing, -STEP)

\* gap_price: one tick toward the mid.
GapPrice(existing, side) == Out(side, existing, -1)

-------------------------------------------------------------------------------
(* service.rs *)

\* As next_qty without its lowest bit set.
NextQtyMasked(n) == (n + 1) % QtyMod

NextQty(n) == LET masked == (n + 1) % QtyMod IN IF masked % 2 = 0 THEN masked + 1 ELSE masked

\* Each operation of a cell gets a book of its own.
ServiceInit ==
  /\ cellDepth \in Depths /\ op \in Op
  /\ gap = <<>> /\ q = 1
  /\ ladder = Replay(BuildOrder(cellDepth)) /\ traded = None

MeasureUpdate ==
  /\ op = "update"
  /\ \E side \in Side, off \in TouchOffset(cellDepth) :
       ladder' = Play(ladder, LevelEvent(side, TouchPrice(side, off), NextQty(q)))
  /\ q' = NextQty(q)
  /\ UNCHANGED <<cellDepth, op, gap, traded>>

\* The first apply of a pass of measure_insert, timed, and of measure_remove, untimed.
OpenGap ==
  /\ op \in {"insert", "remove"} /\ gap = <<>>
  /\ \E side \in Side, off \in TouchOffset(cellDepth) :
       LET px == GapPrice(TouchPrice(side, off), side) IN
         /\ gap' = <<side, px>>
         /\ ladder' = Play(ladder, LevelEvent(side, px, NextQty(q)))
  /\ q' = NextQty(q)
  /\ UNCHANGED <<cellDepth, op, traded>>

\* The second: the restore of measure_insert, what measure_remove times.
CloseGap ==
  /\ gap # <<>>
  /\ ladder' = Play(ladder, LevelEvent(gap[1], gap[2], 0))
  /\ gap' = <<>>
  /\ UNCHANGED <<cellDepth, op, q, traded>>

MeasureTrade ==
  /\ op = "trade"
  /\ \E side \in Side, off \in TouchOffset(cellDepth) : traded' = <<TouchPrice(side, off), 1, side>>
  /\ UNCHANGED <<cellDepth, op, gap, q, ladder>>

ServiceNext == MeasureUpdate \/ OpenGap \/ CloseGap \/ MeasureTrade

-------------------------------------------------------------------------------
(* Correctness *)

\* Between two passes the book has exactly the prices it was built with, so every
\* sample of a cell is taken at the cell's depth (service.rs:6-12, 74-75, 98, 123).
HoldsDepth ==
  gap = <<>> =>
    \A side \in Side :
      DOMAIN ladder[side] = {TouchPrice(side, off) : off \in TouchOffset(cellDepth)}

\* Both ways of building a book of a depth give the same one (workload.rs:52-53).
BuildsAgree == Replay(BuildOrder(cellDepth)) = Replay(BuildFastOrder(cellDepth))

\* What is timed as an insert adds a level, as a remove takes one away, and as an
\* update or a trade does neither (service.rs:6-13, workload.rs:108-110).
TimesWhatItNames ==
  [][\A side \in Side :
       LET before == Cardinality(DOMAIN ladder[side])
           after == Cardinality(DOMAIN ladder'[side])
       IN CASE gap = <<>> /\ gap' # <<>> -> after - before = IF side = gap'[1] THEN 1 ELSE 0
            [] gap # <<>> -> before - after = IF side = gap[1] THEN 1 ELSE 0
            [] OTHER -> DOMAIN ladder'[side] = DOMAIN ladder[side]]_serviceVars

\* The ladder measured is the one built, whichever way it was built
\* (workload.rs:52-53, service.rs:6-12).
LadderHeld == HoldsDepth /\ BuildsAgree
===============================================================================
