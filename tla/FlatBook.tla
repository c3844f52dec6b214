-------------------------------- MODULE FlatBook --------------------------------
(***************************************************************************)
(* book/src/flat.rs: the book over two dense arrays of quantities, one     *)
(* slot per tick of an allocated window, with cached best slots and        *)
(* depths.  The window starts around the first price and grows to cover    *)
(* every later one; beyond MAX_SPAN ticks apply panics.                    *)
(***************************************************************************)
EXTENDS BookEvents, Sequences, FiniteSets

CONSTANTS HALF,       \* INIT_HALF_SPAN, 4096 in the code
          MAX_SPAN    \* 8M ticks in the code

ASSUME FlatBookAssumption ==
  /\ HALF \in Nat /\ MAX_SPAN \in Nat
  /\ 2 * HALF + 1 <= MAX_SPAN

VARIABLES base,      \* the tick of slot 0, once inited
          inited,
          slots,     \* per side, the array of quantities (bid_qty, ask_qty)
          best,      \* per side, the cached best slot
          depth,     \* per side, the cached number of occupied slots
          trade,     \* last_trade
          panicked,  \* apply has panicked: the thread is gone
          touched,   \* history: the prices of the Level events so far
          last       \* history: the event last applied

vars == <<base, inited, slots, best, depth, trade, panicked, touched, last>>

\* The arrays are functions on 0 .. len - 1; NoSlot is None.
NoSlot == -1
Span == Cardinality(DOMAIN slots["Bid"])
Zeros(len) == [i \in 0 .. len - 1 |-> 0]

Init ==
  /\ base = 0 /\ inited = FALSE
  /\ slots = [side \in Side |-> Zeros(0)]
  /\ best = [side \in Side |-> NoSlot]
  /\ depth = [side \in Side |-> 0]
  /\ trade = None
  /\ panicked = FALSE
  /\ touched = {}
  /\ last = ClearEvent

-------------------------------------------------------------------------------
(* ensure_range *)

\* As the growth with the margin added on both sides.
WindowBothMargins(px) ==
  LET high == base + Span IN
    IF ~inited THEN <<px - HALF, 2 * HALF + 1>>
    ELSE IF base <= px /\ px < high THEN <<base, Span>>
    ELSE LET lo == (IF px < base THEN px ELSE base) - HALF
             hi == (IF px + 1 > high THEN px + 1 ELSE high) + HALF
         IN <<lo, hi - lo>>

\* The window that covers px: <<first tick, length>>.
Window(px) ==
  LET high == base + Span IN
    IF ~inited THEN <<px - HALF, 2 * HALF + 1>>
    ELSE IF base <= px /\ px < high THEN <<base, Span>>
    ELSE LET lo == IF px - HALF < base THEN px - HALF ELSE base
             hi == IF px + 1 + HALF > high THEN px + 1 + HALF ELSE high
         IN <<lo, hi - lo>>

Fits(window) == inited => window[2] <= MAX_SPAN

\* As the growth with the old contents copied to the front.
MovedToFront(a, shift, len) ==
  [i \in 0 .. len - 1 |-> IF i \in DOMAIN a THEN a[i] ELSE 0]

\* The arrays moved into a window whose first tick is `shift' below the base.
Moved(a, shift, len) ==
  [i \in 0 .. len - 1 |-> IF i - shift \in DOMAIN a THEN a[i - shift] ELSE 0]

\* As the growth with the cached best left at its old slot.
BestUnmoved(b, shift) == b

BestMoved(b, shift) == IF b = NoSlot THEN NoSlot ELSE b + shift

-------------------------------------------------------------------------------
(* apply *)

Occupied(a) == {i \in DOMAIN a : a[i] # 0}

\* The cached best after the level at slot i of array a was set; b was cached.
BestAfterAdd(side, i, b) == IF b = NoSlot \/ Better(side, i, b) THEN i ELSE b

\* The probe from slot i toward the worse prices.
Probe(side, a, i) ==
  LET worse == {j \in Occupied(a) : Better(side, i, j)} IN
    IF worse = {} THEN NoSlot
    ELSE CHOOSE j \in worse : \A k \in worse : k = j \/ Better(side, j, k)

\* As a removal that counts a slot which was empty.
DepthBlind(was, qty, d) == IF qty = 0 THEN d - 1 ELSE IF was = 0 THEN d + 1 ELSE d

DepthAfter(was, qty, d) ==
  IF was # 0 /\ qty = 0 THEN d - 1 ELSE IF was = 0 /\ qty # 0 THEN d + 1 ELSE d

\* As a removal that leaves the cached best where it is.
BestKept(side, a, i, was, qty, b) == IF qty # 0 THEN BestAfterAdd(side, i, b) ELSE b

BestAfter(side, a, i, was, qty, b) ==
  IF qty # 0 THEN BestAfterAdd(side, i, b)
  ELSE IF was # 0 /\ b = i THEN Probe(side, a, i) ELSE b

ApplyLevel(ev) ==
  /\ ev.kind = "Level"
  /\ LET window == Window(ev.px)
         shift == IF inited THEN base - window[1] ELSE 0
         moved == [side \in Side |-> Moved(slots[side], shift, window[2])]
         bests == [side \in Side |-> BestMoved(best[side], shift)]
         side == ev.side
         i == ev.px - window[1]
         was == moved[side][i]
         a == [moved[side] EXCEPT ![i] = ev.qty]
     IN
       /\ Fits(window)
       /\ base' = window[1] /\ inited' = TRUE
       /\ slots' = [moved EXCEPT ![side] = a]
       /\ depth' = [depth EXCEPT ![side] = DepthAfter(was, ev.qty, @)]
       /\ best' = [bests EXCEPT ![side] = BestAfter(side, a, i, was, ev.qty, @)]
  /\ touched' = touched \cup {ev.px}
  /\ last' = ev
  /\ UNCHANGED <<trade, panicked>>

\* The assertion of ensure_range fails before anything is changed.
ApplyPanics(ev) ==
  /\ ev.kind = "Level"
  /\ ~Fits(Window(ev.px))
  /\ panicked' = TRUE
  /\ touched' = touched \cup {ev.px}
  /\ UNCHANGED <<base, inited, slots, best, depth, trade, last>>

ApplyTrade(ev) ==
  /\ ev.kind = "Trade"
  /\ trade' = <<ev.px, ev.qty, ev.side>>
  /\ last' = ev
  /\ UNCHANGED <<base, inited, slots, best, depth, panicked, touched>>

\* Content goes, the window stays.
ApplyClear(ev) ==
  /\ ev.kind = "Clear"
  /\ slots' = [side \in Side |-> Zeros(Span)]
  /\ best' = [side \in Side |-> NoSlot]
  /\ depth' = [side \in Side |-> 0]
  /\ trade' = None
  /\ last' = ev
  /\ UNCHANGED <<base, inited, panicked, touched>>

Apply(ev) ==
  /\ ~panicked
  /\ ApplyLevel(ev) \/ ApplyPanics(ev) \/ ApplyTrade(ev) \/ ApplyClear(ev)

Next == \E ev \in Event : Apply(ev)

Spec == Init /\ [][Next]_vars

-------------------------------------------------------------------------------
(* The queries *)

\* best_bid and best_ask, from the cache.
Best(side) ==
  IF best[side] = NoSlot THEN None
  ELSE <<base + best[side], slots[side][best[side]]>>

Depth(side) == depth[side]

\* top_n: walk from the cached best toward the worse end, n levels at most.  A state of
\* the walk is a slot and the levels written so far.
TopN(side, n) ==
  LET a == slots[side]
      reach == IF side = "Bid" THEN -1 .. Span - 1 ELSE 0 .. Span
      Past(i) == IF side = "Bid" THEN i < 0 ELSE i > Span - 1
      step == IF side = "Bid" THEN -1 ELSE 1
      walk[s \in reach \X Seq(Int \X Int)] ==
        IF Past(s[1]) \/ Len(s[2]) = n THEN s[2]
        ELSE walk[<<s[1] + step,
                    IF a[s[1]] = 0 THEN s[2] ELSE Append(s[2], <<base + s[1], a[s[1]]>>)>>]
  IN IF best[side] = NoSlot THEN <<>> ELSE walk[<<best[side], <<>>>>]

-------------------------------------------------------------------------------
(* Correctness *)

\* Every variable has its type: cached slots are in the arrays, and no count of
\* levels goes below zero (flat.rs:26-36).
TypeOK ==
  /\ base \in Int /\ inited \in BOOLEAN /\ panicked \in BOOLEAN
  /\ Span <= MAX_SPAN
  /\ slots \in [Side -> [0 .. Span - 1 -> Lots]]
  /\ best \in [Side -> {NoSlot} \cup 0 .. Span - 1]
  /\ depth \in [Side -> 0 .. Span]
  /\ touched \subseteq Prices
  /\ trade \in LastTrade

\* The cached best is the best occupied slot and the cached depth is the
\* number of occupied ones, after growths, probes and clears
\* (flat.rs:31-34, 94-95, 113-126).
CachesAgree ==
  \A side \in Side : LET occupied == Occupied(slots[side]) IN
    /\ depth[side] = Cardinality(occupied)
    /\ IF occupied = {} THEN best[side] = NoSlot
       ELSE /\ best[side] \in occupied
            /\ \A i \in occupied \ {best[side]} : Better(side, best[side], i)

\* No panic while the prices seen stay in a band that leaves a margin of HALF on
\* both sides within MAX_SPAN (flat.rs:19-23, 72-82): growth never allocates more
\* than the band and its margins, in whatever order the prices come.
PanicsOnlyOutsideBand ==
  panicked => \E p, q \in touched : q - p + 2 * HALF + 1 > MAX_SPAN

\* The map a side stands for.
Map(side) ==
  [p \in {base + i : i \in Occupied(slots[side])} |-> slots[side][p - base]]

Book == INSTANCE BTreeBook WITH book <- [side \in Side |-> Map(side)]

\* Every apply that does not panic is the BTreeBook's of the same event
\* (tests/oracle.rs:3-13).
IsBTreeBook == Book!Spec
===============================================================================
