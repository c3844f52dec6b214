---------------------------- MODULE BookOracleProofs ----------------------------
(***************************************************************************)
(* Proofs about FlatBook, and about the four books in lockstep, for every  *)
(* set of prices and quantities and every initial margin and limit of      *)
(* FlatBook's window.                                                      *)
(***************************************************************************)
EXTENDS BookOracle, SequencesExt, FiniteSetTheorems, SequenceTheorems, TLAPS

-------------------------------------------------------------------------------
(* The best of a set of slots *)

\* A set of naturals that is not empty has a least element: the probes of flat.rs
\* stop, and induction over the positions of a vector is by least counterexample.
LEMMA Least ==
  ASSUME NEW S, S \subseteq Nat, S # {}
  PROVE  \E x \in S : \A y \in S : x <= y
<1> DEFINE R == OpToRel(<, Nat)
<1>1. IsWellFoundedOn(R, Nat) BY NatLessThanWellFounded
<1> HIDE DEF R
<1>2. PICK x \in S : \A y \in S : ~(<<y, x>> \in R) BY <1>1, WFMin
<1>3. \A y \in S : y < x => <<y, x>> \in R BY DEF R, OpToRel
<1>4. \A y \in S : ~(y < x) BY <1>2, <1>3
<1>5. \A y \in S : x \in Nat /\ y \in Nat OBVIOUS
<1> QED BY <1>4, <1>5

\* A bounded one has a greatest.
LEMMA Greatest ==
  ASSUME NEW S, S \subseteq Nat, S # {}, NEW n \in Nat, \A y \in S : y <= n
  PROVE  \E x \in S : \A y \in S : y <= x
<1> DEFINE T == {n - y : y \in S}
<1>1. T \subseteq Nat /\ T # {}
  <2>1. \A y \in S : n - y \in Nat OBVIOUS
  <2> QED BY <2>1
<1>2. PICK t \in T : \A u \in T : t <= u BY <1>1, Least
<1>3. PICK x \in S : t = n - x OBVIOUS
<1>4. \A y \in S : n - y \in T OBVIOUS
<1>5. \A y \in S : n - x <= n - y BY <1>2, <1>3, <1>4
<1> QED BY <1>3, <1>5

\* Among slots of a bounded array one is the best of its side (flat.rs:115-119, 137-141).
LEMMA BestExists ==
  ASSUME NEW S, S \subseteq Nat, S # {}, NEW n \in Nat, \A y \in S : y <= n,
         NEW side \in Side
  PROVE  \E x \in S : \A y \in S : x = y \/ Better(side, x, y)
<1>1. CASE side = "Bid"
  <2>1. PICK x \in S : \A y \in S : y <= x BY Greatest
  <2> QED BY <1>1, <2>1 DEF Better
<1>2. CASE side # "Bid"
  <2>1. PICK x \in S : \A y \in S : x <= y BY Least
  <2> QED BY <1>2, <2>1 DEF Better
<1> QED BY <1>1, <1>2

\* Two maps are one when they agree on every price.
LEMMA SameMap ==
  ASSUME NEW f, NEW g, f = [p \in DOMAIN f |-> f[p]], g = [p \in DOMAIN g |-> g[p]],
         \A p : p \in DOMAIN f <=> p \in DOMAIN g,
         \A p \in DOMAIN f : f[p] = g[p]
  PROVE  f = g
<1>1. DOMAIN f = DOMAIN g OBVIOUS
<1>2. [p \in DOMAIN f |-> f[p]] = [p \in DOMAIN g |-> g[p]] BY <1>1
<1> QED BY <1>2

-------------------------------------------------------------------------------
(* The constants and the events *)

\* The ranges of the constants.
LEMMA FlatBounds ==
  /\ Prices \subseteq Int /\ Lots \subseteq Int /\ 0 \in Lots
  /\ HALF \in Nat /\ MAX_SPAN \in Nat /\ 2 * HALF + 1 <= MAX_SPAN
BY BookEventsAssumption, FlatBookAssumption

\* What an event carries, by its kind (event.rs:33-58).
LEMMA EventParts ==
  ASSUME NEW ev \in Event
  PROVE  /\ ev.kind = "Level" => /\ ev.side \in Side /\ ev.px \in Prices
                                 /\ ev.qty \in Lots
         /\ ev.kind = "Trade" => /\ ev.side \in Side /\ ev.px \in Prices
                                 /\ ev.qty \in Lots \ {0}
         /\ ev.kind \in {"Level", "Trade", "Clear"}
BY DEF Event, Levels, Trades, LevelEvent, TradeEvent, ClearEvent

-------------------------------------------------------------------------------
(* The inductive invariant *)

\* What the caches of a side say of its array.
Sound(side, a, b, d) ==
  /\ d = Cardinality(Occupied(a))
  /\ IF Occupied(a) = {} THEN b = NoSlot
     ELSE /\ b \in Occupied(a)
          /\ \A i \in Occupied(a) \ {b} : Better(side, b, i)

\* The window covers no more than the prices seen and a margin on both sides.
InBand(first, len, seen) ==
  \E p, q \in seen : first >= p - HALF /\ first + len <= q + 1 + HALF

BandInv == IF inited THEN InBand(base, Span, touched) ELSE Span = 0

IInv ==
  /\ TypeOK /\ Span \in Nat
  /\ BandInv
  /\ \A side \in Side : Sound(side, slots[side], best[side], depth[side])
  /\ PanicsOnlyOutsideBand

-------------------------------------------------------------------------------
(* The arrays *)

\* An array on 0 .. n - 1 of quantities.
Arrays(n) == [0 .. n - 1 -> Lots]

\* An array has no more levels than slots.
LEMMA OccupiedFinite ==
  ASSUME NEW n \in Nat, NEW a \in Arrays(n)
  PROVE  /\ Occupied(a) \subseteq 0 .. n - 1 /\ Occupied(a) \subseteq Nat
         /\ IsFiniteSet(Occupied(a)) /\ Cardinality(Occupied(a)) \in 0 .. n
<1>1. Occupied(a) \subseteq 0 .. n - 1 BY DEF Occupied, Arrays
<1>2. IsFiniteSet(0 .. n - 1) /\ Cardinality(0 .. n - 1) = n BY FS_Interval
<1>3. /\ IsFiniteSet(Occupied(a))
      /\ Cardinality(Occupied(a)) <= Cardinality(0 .. n - 1)
  BY <1>1, <1>2, FS_Subset
<1>4. Cardinality(Occupied(a)) \in Nat BY <1>3, FS_CardinalityType
<1> QED BY <1>1, <1>2, <1>3, <1>4

\* The length of the arrays is the span of the window.
LEMMA SpanOf ==
  ASSUME NEW n \in Nat, NEW a \in Arrays(n)
  PROVE  Cardinality(DOMAIN a) = n
<1>1. DOMAIN a = 0 .. n - 1 BY DEF Arrays
<1> QED BY <1>1, FS_Interval

\* Moving an array into a larger window keeps its levels, and what is cached of
\* them moves with it (flat.rs:84-96).
LEMMA MovedSound ==
  ASSUME NEW n \in Nat, NEW a \in Arrays(n), NEW shift \in Nat, NEW len \in Nat,
         shift + n <= len
  PROVE  /\ Moved(a, shift, len) \in Arrays(len)
         /\ \A i : i \in Occupied(Moved(a, shift, len))
                     <=> i \in Int /\ i - shift \in Occupied(a)
         /\ \A i \in Occupied(a) : Moved(a, shift, len)[i + shift] = a[i]
         /\ \A side \in Side : \A b, d :
              Sound(side, a, b, d) =>
                Sound(side, Moved(a, shift, len), BestMoved(b, shift), d)
<1> DEFINE m == Moved(a, shift, len)
<1>1. DOMAIN a = 0 .. n - 1 /\ \A i \in 0 .. n - 1 : a[i] \in Lots BY DEF Arrays
<1>2. m \in Arrays(len) BY <1>1, FlatBounds DEF Moved, Arrays
<1>3. ASSUME NEW i PROVE i \in Occupied(m) <=> i \in Int /\ i - shift \in Occupied(a)
  <2>1. i \in Occupied(m) <=> i \in 0 .. len - 1 /\ m[i] # 0
    BY DEF Occupied, Moved
  <2>2. ASSUME i \in 0 .. len - 1
        PROVE  m[i] = IF i - shift \in 0 .. n - 1 THEN a[i - shift] ELSE 0
    BY <1>1, <2>2 DEF Moved
  <2>3. \A j : j \in Occupied(a) <=> j \in 0 .. n - 1 /\ a[j] # 0
    BY <1>1 DEF Occupied
  <2> HIDE DEF m
  <2>4. ASSUME i \in Occupied(m) PROVE i \in Int /\ i - shift \in Occupied(a)
    BY <2>1, <2>2, <2>3, <2>4
  <2>5. ASSUME i \in Int, i - shift \in Occupied(a) PROVE i \in Occupied(m)
    <3>1. i \in 0 .. len - 1 /\ i - shift \in 0 .. n - 1 /\ a[i - shift] # 0
      BY <2>3, <2>5
    <3> QED BY <2>1, <2>2, <3>1
  <2> QED BY <2>4, <2>5
<1>4. \A i \in Occupied(a) : i \in 0 .. n - 1 BY <1>1 DEF Occupied
<1>5. ASSUME NEW i \in Occupied(a) PROVE m[i + shift] = a[i]
  <2>1. i \in 0 .. n - 1 BY <1>4
  <2>2. i + shift \in 0 .. len - 1 /\ (i + shift) - shift = i BY <2>1
  <2> QED BY <1>1, <2>1, <2>2 DEF Moved
<1> HIDE DEF m
<1>6. ASSUME NEW i \in Occupied(m) PROVE i - shift \in Occupied(a) /\ i \in Int
  BY <1>3
<1>7. ASSUME NEW i \in Occupied(a) PROVE i + shift \in Occupied(m)
  <2>1. i \in Int /\ i + shift \in Int /\ (i + shift) - shift = i BY <1>4
  <2> QED BY <1>3, <2>1
<1>8. Cardinality(Occupied(m)) = Cardinality(Occupied(a))
  <2> DEFINE f == [i \in Occupied(a) |-> i + shift]
  <2>1. f \in [Occupied(a) -> Occupied(m)] BY <1>7
  <2>2. \A i, j \in Occupied(a) : f[i] = f[j] => i = j BY <1>4
  <2>3. ASSUME NEW j \in Occupied(m) PROVE \E i \in Occupied(a) : f[i] = j
    <3>1. j - shift \in Occupied(a) /\ j \in Int BY <1>6
    <3>2. f[j - shift] = j BY <3>1
    <3> QED BY <3>1, <3>2
  <2> HIDE DEF f
  <2>4. f \in Bijection(Occupied(a), Occupied(m))
    BY <2>1, <2>2, <2>3 DEF Bijection, Injection, Surjection, IsInjective
  <2>5. IsFiniteSet(Occupied(a)) BY OccupiedFinite
  <2> QED BY <2>4, <2>5, FS_Bijection DEF ExistsBijection
<1>9. ASSUME NEW side \in Side, NEW b, NEW d, Sound(side, a, b, d)
      PROVE  Sound(side, m, BestMoved(b, shift), d)
  <2>1. CASE Occupied(a) = {}
    <3>1. Occupied(m) = {} BY <1>6, <2>1
    <3> QED BY <1>8, <1>9, <2>1, <3>1 DEF Sound, BestMoved
  <2>2. CASE Occupied(a) # {}
    <3>1. b \in Occupied(a) /\ \A i \in Occupied(a) \ {b} : Better(side, b, i)
      BY <1>9, <2>2 DEF Sound
    <3>2. b \in Nat /\ b # NoSlot BY <1>4, <3>1 DEF NoSlot
    <3>3. BestMoved(b, shift) = b + shift BY <3>2 DEF BestMoved
    <3>4. b + shift \in Occupied(m) BY <1>7, <3>1
    <3>5. ASSUME NEW i \in Occupied(m), i # b + shift PROVE Better(side, b + shift, i)
      <4>1. i - shift \in Occupied(a) /\ i \in Int BY <1>6
      <4>2. i - shift # b BY <3>2, <3>5, <4>1
      <4>3. Better(side, b, i - shift) BY <3>1, <4>1, <4>2
      <4> QED BY <3>2, <4>1, <4>3 DEF Better
    <3> QED BY <1>8, <1>9, <3>3, <3>4, <3>5 DEF Sound
  <2> QED BY <2>1, <2>2
<1> QED BY <1>2, <1>3, <1>5, <1>9 DEF m

\* Array a with slot i set.
SetSlot(a, i, qty) == [a EXCEPT ![i] = qty]

\* What setting one slot does to the occupied ones, and to their number.
LEMMA SetOccupied ==
  ASSUME NEW n \in Nat, NEW a \in Arrays(n), NEW i \in 0 .. n - 1, NEW qty \in Lots
  PROVE  /\ SetSlot(a, i, qty) \in Arrays(n) /\ SetSlot(a, i, qty)[i] = qty
         /\ \A j \in 0 .. n - 1 : j # i => SetSlot(a, i, qty)[j] = a[j]
         /\ Occupied(SetSlot(a, i, qty)) =
              IF qty = 0 THEN Occupied(a) \ {i} ELSE Occupied(a) \cup {i}
         /\ Cardinality(Occupied(SetSlot(a, i, qty))) =
              DepthAfter(a[i], qty, Cardinality(Occupied(a)))
<1> DEFINE s == [a EXCEPT ![i] = qty]
<1>1. DOMAIN a = 0 .. n - 1 /\ \A j \in 0 .. n - 1 : a[j] \in Lots BY DEF Arrays
<1>2. s \in Arrays(n) /\ s[i] = qty /\ \A j \in 0 .. n - 1 : j # i => s[j] = a[j]
  BY <1>1 DEF Arrays
<1>3. DOMAIN s = 0 .. n - 1 BY <1>1
<1> HIDE DEF s
<1>4. \A j : j \in Occupied(a) <=> j \in 0 .. n - 1 /\ a[j] # 0 BY <1>1 DEF Occupied
<1>5. \A j : j \in Occupied(s) <=> j \in 0 .. n - 1 /\ s[j] # 0 BY <1>3 DEF Occupied
<1>6. Occupied(s) = IF qty = 0 THEN Occupied(a) \ {i} ELSE Occupied(a) \cup {i}
  BY <1>2, <1>4, <1>5
<1>7. IsFiniteSet(Occupied(a)) /\ Cardinality(Occupied(a)) \in Nat BY OccupiedFinite
<1>8. i \in Occupied(a) <=> a[i] # 0 BY <1>4
<1>9. /\ Cardinality(Occupied(a) \cup {i}) =
           IF i \in Occupied(a) THEN Cardinality(Occupied(a))
           ELSE Cardinality(Occupied(a)) + 1
      /\ Cardinality(Occupied(a) \ {i}) =
           IF i \in Occupied(a) THEN Cardinality(Occupied(a)) - 1
           ELSE Cardinality(Occupied(a))
  BY <1>7, FS_AddElement, FS_RemoveElement
<1>10. Cardinality(Occupied(s)) = DepthAfter(a[i], qty, Cardinality(Occupied(a)))
  BY <1>6, <1>8, <1>9 DEF DepthAfter
<1> QED BY <1>2, <1>6, <1>10 DEF s, SetSlot

\* Setting a slot and the caches with it leaves them right (flat.rs:103-151).
LEMMA SetSound ==
  ASSUME NEW n \in Nat, NEW a \in Arrays(n), NEW i \in 0 .. n - 1, NEW qty \in Lots,
         NEW side \in Side, NEW b, NEW d, Sound(side, a, b, d)
  PROVE  LET s == [a EXCEPT ![i] = qty] IN
           Sound(side, s, BestAfter(side, s, i, a[i], qty, b), DepthAfter(a[i], qty, d))
<1> DEFINE s == [a EXCEPT ![i] = qty]
           occ == Occupied(a)
           c == BestAfter(side, s, i, a[i], qty, b)
<1>1. /\ s \in Arrays(n)
      /\ Occupied(s) = IF qty = 0 THEN occ \ {i} ELSE occ \cup {i}
      /\ Cardinality(Occupied(s)) = DepthAfter(a[i], qty, Cardinality(occ))
  <2>1. s = SetSlot(a, i, qty) BY DEF SetSlot
  <2> HIDE DEF s
  <2> QED BY <2>1, SetOccupied
<1>2. occ \subseteq Nat /\ \A j \in occ : j <= n - 1 /\ j \in 0 .. n - 1
  BY OccupiedFinite
<1>3. i \in occ <=> a[i] # 0 BY DEF Occupied, Arrays
<1>4. /\ d = Cardinality(occ)
      /\ occ = {} => b = NoSlot
      /\ occ # {} => b \in occ /\ b # NoSlot /\ \A j \in occ \ {b} : Better(side, b, j)
  BY <1>2 DEF Sound, NoSlot
<1> SUFFICES Sound(side, s, c, DepthAfter(a[i], qty, d)) OBVIOUS
<1>8. i \in Nat /\ n - 1 \in Nat /\ (occ # {} => b \in Nat)
  BY <1>2, <1>4
<1> HIDE DEF s, occ
<1> SUFFICES IF Occupied(s) = {} THEN c = NoSlot
             ELSE /\ c \in Occupied(s)
                  /\ \A j \in Occupied(s) \ {c} : Better(side, c, j)
  BY <1>1, <1>4 DEF Sound
<1>5. CASE qty # 0
  <2>1. c = BestAfterAdd(side, i, b) BY <1>5 DEF BestAfter
  <2>2. Occupied(s) = occ \cup {i} BY <1>1, <1>5
  <2>3. CASE occ = {} BY <1>4, <2>1, <2>2, <2>3 DEF BestAfterAdd
  <2>4. CASE occ # {} /\ Better(side, i, b)
    <3>1. c = i BY <2>1, <2>4 DEF BestAfterAdd
    <3>2. ASSUME NEW j \in occ, j # i PROVE Better(side, i, j)
      <4>1. j = b \/ Better(side, b, j) BY <1>4, <2>4
      <4>2. j \in Int /\ b \in Int /\ i \in Int BY <1>2, <1>8, <2>4
      <4> QED BY <2>4, <4>1, <4>2 DEF Better
    <3> QED BY <2>2, <3>1, <3>2
  <2>5. CASE occ # {} /\ ~Better(side, i, b)
    <3>1. c = b BY <1>4, <2>1, <2>5 DEF BestAfterAdd
    <3>2. b \in Int /\ i \in Int BY <1>8, <2>5
    <3>3. i # b => Better(side, b, i) BY <2>5, <3>2 DEF Better
    <3> QED BY <1>4, <2>2, <2>5, <3>1, <3>3
  <2> QED BY <2>3, <2>4, <2>5
<1>6. CASE qty = 0 /\ ~(a[i] # 0 /\ b = i)
  <2>1. c = b BY <1>6 DEF BestAfter
  <2>2. Occupied(s) = occ \ {i} BY <1>1, <1>6
  <2>3. occ # {} => b # i
    <3>1. occ # {} => b \in occ BY <1>4
    <3> QED BY <1>3, <1>6, <3>1
  <2> QED BY <1>4, <2>1, <2>2, <2>3
<1>7. CASE qty = 0 /\ a[i] # 0 /\ b = i
  <2> DEFINE worse == {j \in Occupied(s) : Better(side, i, j)}
  <2>1. c = Probe(side, s, i) BY <1>7 DEF BestAfter
  <2>2. Occupied(s) = occ \ {i} BY <1>1, <1>7
  <2>3. worse = Occupied(s) BY <1>3, <1>4, <1>7, <2>2
  <2>4. CASE worse = {} BY <2>1, <2>3, <2>4 DEF Probe
  <2>5. CASE worse # {}
    <3>1. c = CHOOSE j \in worse : \A k \in worse : k = j \/ Better(side, j, k)
      BY <2>1, <2>5 DEF Probe
    <3>2. worse \subseteq Nat /\ n - 1 \in Nat /\ \A k \in worse : k <= n - 1
      BY <1>2, <1>8, <2>2, <2>3
    <3> HIDE DEF worse
    <3>3. \E j \in worse : \A k \in worse : j = k \/ Better(side, j, k)
      BY <2>5, <3>2, BestExists
    <3>4. \E j \in worse : \A k \in worse : k = j \/ Better(side, j, k) BY <3>3
    <3>5. c \in worse /\ \A k \in worse : k = c \/ Better(side, c, k)
      BY <3>1, <3>4
    <3> QED BY <2>3, <2>5, <3>5
  <2> QED BY <2>4, <2>5
<1> QED BY <1>5, <1>6, <1>7

\* An array of nothing but zeros has no level, and empty caches (flat.rs:153-162).
LEMMA ZerosSound ==
  ASSUME NEW n \in Nat
  PROVE  /\ Zeros(n) \in Arrays(n) /\ Occupied(Zeros(n)) = {}
         /\ \A side \in Side : Sound(side, Zeros(n), NoSlot, 0)
<1>1. Zeros(n) \in Arrays(n) BY FlatBounds DEF Zeros, Arrays
<1>2. Occupied(Zeros(n)) = {} BY DEF Zeros, Occupied
<1> QED BY <1>1, <1>2, FS_EmptySet DEF Sound

-------------------------------------------------------------------------------
(* The window *)

\* The window that covers px contains the one there was, within the limit, and
\* stays within a margin of the prices seen (flat.rs:53-97).
LEMMA WindowCovers ==
  ASSUME IInv, NEW px \in Int, NEW first, NEW len, NEW shift,
         Window(px) = <<first, len>>, Fits(Window(px)),
         shift = IF inited THEN base - first ELSE 0
  PROVE  /\ first \in Int /\ len \in Nat /\ len <= MAX_SPAN
         /\ shift \in Nat /\ shift + Span <= len
         /\ px - first \in 0 .. len - 1
         /\ inited => base = first + shift
         /\ InBand(first, len, touched \cup {px})
<1>1. base \in Int /\ Span \in Nat /\ Span <= MAX_SPAN /\ touched \subseteq Int
  BY FlatBounds DEF IInv, TypeOK
<1>2. HALF \in Nat /\ MAX_SPAN \in Nat /\ 2 * HALF + 1 <= MAX_SPAN BY FlatBounds
<1>3. inited => len <= MAX_SPAN BY DEF Fits
<1>4. CASE ~inited
  <2>1. first = px - HALF /\ len = 2 * HALF + 1 BY <1>4 DEF Window
  <2>2. Span = 0 /\ shift = 0 BY <1>4 DEF IInv, BandInv
  <2>3. InBand(first, len, touched \cup {px})
    <3>1. first >= px - HALF /\ first + len <= px + 1 + HALF BY <1>2, <2>1
    <3> QED BY <3>1 DEF InBand
  <2> QED BY <1>2, <1>4, <2>1, <2>2, <2>3
<1>5. CASE inited
  <2> DEFINE high == base + Span
  <2>1. PICK p, q \in touched : base >= p - HALF /\ high <= q + 1 + HALF
    BY <1>5 DEF IInv, BandInv, InBand
  <2>2. p \in Int /\ q \in Int /\ high \in Int BY <1>1
  <2>3. shift = base - first BY <1>5
  <2>4. CASE base <= px /\ px < high
    <3>1. first = base /\ len = Span BY <1>5, <2>4 DEF Window
    <3>2. InBand(first, len, touched \cup {px}) BY <2>1, <3>1 DEF InBand
    <3> QED BY <1>1, <1>3, <1>5, <2>3, <2>4, <3>1, <3>2
  <2>5. CASE ~(base <= px /\ px < high)
    <3> DEFINE lo == IF px - HALF < base THEN px - HALF ELSE base
               hi == IF px + 1 + HALF > high THEN px + 1 + HALF ELSE high
    <3>1. Window(px) = <<lo, hi - lo>> BY <1>5, <2>5 DEF Window
    <3>2. first = lo /\ len = hi - lo BY <3>1
    <3>3. /\ lo \in Int /\ hi \in Int /\ lo <= base /\ high <= hi
          /\ lo <= px /\ px < hi
      BY <1>1, <1>2, <2>2
    <3>4. InBand(first, len, touched \cup {px})
      <4>1. \E x \in touched \cup {px} : lo >= x - HALF
        BY <1>1, <1>2, <2>1, <2>2
      <4>2. \E y \in touched \cup {px} : hi <= y + 1 + HALF
        BY <1>1, <1>2, <2>1, <2>2
      <4>3. first + len = hi BY <3>2, <3>3
      <4> QED BY <3>2, <4>1, <4>2, <4>3 DEF InBand
    <3> HIDE DEF lo, hi
    <3> QED BY <1>1, <1>3, <1>5, <2>2, <2>3, <3>2, <3>3, <3>4
  <2> QED BY <2>4, <2>5
<1> QED BY <1>4, <1>5

\* The assertion of ensure_range fails only for prices too far apart
\* (flat.rs:72-82).
LEMMA RefusedOutsideBand ==
  ASSUME IInv, NEW px \in Int, ~Fits(Window(px))
  PROVE  \E p, q \in touched \cup {px} : q - p + 2 * HALF + 1 > MAX_SPAN
<1>1. base \in Int /\ Span \in Nat /\ Span <= MAX_SPAN /\ touched \subseteq Int
  BY FlatBounds DEF IInv, TypeOK
<1>2. HALF \in Nat /\ MAX_SPAN \in Nat BY FlatBounds
<1>3. inited /\ ~(Window(px)[2] <= MAX_SPAN) BY DEF Fits
<1> DEFINE high == base + Span
           lo == IF px - HALF < base THEN px - HALF ELSE base
           hi == IF px + 1 + HALF > high THEN px + 1 + HALF ELSE high
<1>4. Window(px)[2] = hi - lo
  <2>1. CASE base <= px /\ px < high
    <3>1. Window(px)[2] = Span BY <1>3, <2>1 DEF Window
    <3> QED BY <1>1, <1>3, <3>1
  <2>2. CASE ~(base <= px /\ px < high) BY <1>3, <2>2 DEF Window
  <2> QED BY <2>1, <2>2
<1>5. PICK p0, q0 \in touched : base >= p0 - HALF /\ high <= q0 + 1 + HALF
  BY <1>3 DEF IInv, BandInv, InBand
<1>6. p0 \in Int /\ q0 \in Int BY <1>1
<1>7. \E p \in touched \cup {px} : lo >= p - HALF BY <1>1, <1>2, <1>5, <1>6
<1>8. \E q \in touched \cup {px} : hi <= q + 1 + HALF BY <1>1, <1>2, <1>5, <1>6
<1>9. PICK p \in touched \cup {px} : lo >= p - HALF BY <1>7
<1>10. PICK q \in touched \cup {px} : hi <= q + 1 + HALF BY <1>8
<1>11. p \in Int /\ q \in Int /\ lo \in Int /\ hi \in Int BY <1>1, <1>2
<1>12. hi - lo > MAX_SPAN BY <1>2, <1>3, <1>4, <1>11
<1> HIDE DEF lo, hi
<1>13. q - p + 2 * HALF + 1 > MAX_SPAN BY <1>2, <1>9, <1>10, <1>11, <1>12
<1> QED BY <1>13

-------------------------------------------------------------------------------
(* The steps *)

\* The parts of the invariant, per side.
LEMMA Arrayed ==
  ASSUME IInv
  PROVE  /\ Span \in Nat /\ DOMAIN slots = Side /\ DOMAIN best = Side
         /\ DOMAIN depth = Side
         /\ \A s \in Side : /\ slots[s] \in Arrays(Span)
                            /\ Sound(s, slots[s], best[s], depth[s])
BY DEF IInv, TypeOK, Arrays

\* Sound arrays and caches of length len have their types.
LEMMA Rearranged ==
  ASSUME NEW len \in Nat, NEW f, NEW b, NEW d,
         f = [s \in Side |-> f[s]], b = [s \in Side |-> b[s]],
         d = [s \in Side |-> d[s]],
         \A s \in Side : f[s] \in Arrays(len) /\ Sound(s, f[s], b[s], d[s])
  PROVE  /\ Cardinality(DOMAIN f["Bid"]) = len
         /\ f \in [Side -> [0 .. len - 1 -> Lots]]
         /\ b \in [Side -> {NoSlot} \cup 0 .. len - 1]
         /\ d \in [Side -> 0 .. len]
<1>1. "Bid" \in Side BY DEF Side
<1>2. f["Bid"] \in Arrays(len) BY <1>1
<1>3. Cardinality(DOMAIN f["Bid"]) = len BY <1>2, SpanOf
<1>4. ASSUME NEW s \in Side
      PROVE  b[s] \in {NoSlot} \cup 0 .. len - 1 /\ d[s] \in 0 .. len
  <2>1. /\ Occupied(f[s]) \subseteq 0 .. len - 1
        /\ Cardinality(Occupied(f[s])) \in 0 .. len
    BY OccupiedFinite
  <2> QED BY <2>1 DEF Sound
<1>5. f \in [Side -> Arrays(len)] BY Zenon
<1>6. /\ b \in [Side -> {NoSlot} \cup 0 .. len - 1]
      /\ d \in [Side -> 0 .. len]
  BY <1>4
<1> QED BY <1>3, <1>5, <1>6 DEF Arrays

\* What a Level event that fits leaves: a window that covers the price, and in
\* it the arrays and caches moved, the slot of the price set (flat.rs:102-151).
Levelled(ev, first, len, shift) ==
  /\ first \in Int /\ len \in Nat /\ len <= MAX_SPAN
  /\ shift \in Nat /\ shift + Span <= len
  /\ ev.px - first \in 0 .. len - 1
  /\ inited => base = first + shift
  /\ InBand(first, len, touched')
  /\ base' = first /\ inited' = TRUE
  /\ slots' = [s \in Side |->
       IF s = ev.side
         THEN [Moved(slots[s], shift, len) EXCEPT ![ev.px - first] = ev.qty]
         ELSE Moved(slots[s], shift, len)]
  /\ depth' = [s \in Side |->
       IF s = ev.side
         THEN DepthAfter(Moved(slots[s], shift, len)[ev.px - first],
                         ev.qty, depth[s])
         ELSE depth[s]]
  /\ best' = [s \in Side |->
       IF s = ev.side
         THEN BestAfter(s,
                [Moved(slots[s], shift, len) EXCEPT ![ev.px - first] = ev.qty],
                ev.px - first, Moved(slots[s], shift, len)[ev.px - first],
                ev.qty, BestMoved(best[s], shift))
         ELSE BestMoved(best[s], shift)]

\* Every Level event FlatBook applies is such a step (flat.rs:102-151).
LEMMA LevelStep ==
  ASSUME IInv, NEW ev \in Event, ApplyLevel(ev)
  PROVE  \E first, len, shift : Levelled(ev, first, len, shift)
<1>1. ev.kind = "Level" /\ ev.side \in Side /\ ev.px \in Int /\ ev.qty \in Lots
  BY EventParts, FlatBounds DEF ApplyLevel
<1> DEFINE first == Window(ev.px)[1]
           len == Window(ev.px)[2]
           shift == IF inited THEN base - first ELSE 0
           i == ev.px - first
           m(s) == Moved(slots[s], shift, len)
           a == [m(ev.side) EXCEPT ![i] = ev.qty]
           b(s) == BestMoved(best[s], shift)
<1>2. Window(ev.px) = <<first, len>>
  BY DEF Window
<1>3. Fits(Window(ev.px)) BY DEF ApplyLevel
<1>4. /\ base' = first /\ inited' = TRUE
      /\ slots' = [[s \in Side |-> m(s)] EXCEPT ![ev.side] = a]
      /\ depth' = [depth EXCEPT ![ev.side] =
                     DepthAfter(m(ev.side)[i], ev.qty, depth[ev.side])]
      /\ best' = [[s \in Side |-> b(s)] EXCEPT ![ev.side] =
                    BestAfter(ev.side, a, i, m(ev.side)[i], ev.qty, b(ev.side))]
      /\ touched' = touched \cup {ev.px}
  BY <1>1 DEF ApplyLevel
<1>5. shift = IF inited THEN base - first ELSE 0 OBVIOUS
<1> HIDE DEF first, len, shift
<1>6. /\ first \in Int /\ len \in Nat /\ len <= MAX_SPAN
      /\ shift \in Nat /\ shift + Span <= len
      /\ ev.px - first \in 0 .. len - 1
      /\ inited => base = first + shift
      /\ InBand(first, len, touched \cup {ev.px})
  BY <1>1, <1>2, <1>3, <1>5, WindowCovers
<1>7. DOMAIN depth = Side BY Arrayed
<1>8. depth = [s \in Side |-> depth[s]] BY DEF IInv, TypeOK
<1>9. slots' = [s \in Side |-> IF s = ev.side THEN a ELSE m(s)] BY <1>1, <1>4
<1>10. depth' = [s \in Side |-> IF s = ev.side
                   THEN DepthAfter(m(s)[i], ev.qty, depth[s]) ELSE depth[s]]
  BY <1>1, <1>4, <1>7, <1>8
<1>11. best' = [s \in Side |-> IF s = ev.side
                  THEN BestAfter(s, a, i, m(s)[i], ev.qty, b(s)) ELSE b(s)]
  BY <1>1, <1>4
<1>12. slots' = [s \in Side |-> IF s = ev.side
                   THEN [m(s) EXCEPT ![i] = ev.qty] ELSE m(s)]
  BY <1>9
<1>13. best' = [s \in Side |-> IF s = ev.side
                  THEN BestAfter(s, [m(s) EXCEPT ![i] = ev.qty], i, m(s)[i],
                                 ev.qty, b(s))
                  ELSE b(s)]
  BY <1>11
<1>14. InBand(first, len, touched') BY <1>4, <1>6
<1>15. Levelled(ev, first, len, shift)
  BY <1>4, <1>6, <1>10, <1>12, <1>13, <1>14 DEF Levelled
<1> QED BY <1>15

\* A new book has no window and no level (flat.rs:25-36).
LEMMA InitInv == Init => IInv
<1> SUFFICES ASSUME Init PROVE IInv OBVIOUS
<1>1. \A s \in Side : /\ slots[s] = Zeros(0) /\ best[s] = NoSlot /\ depth[s] = 0
  BY DEF Init
<1>2. \A s \in Side : slots[s] \in Arrays(0) /\ Sound(s, slots[s], best[s], depth[s])
  BY <1>1, ZerosSound
<1>3. /\ slots = [s \in Side |-> slots[s]] /\ best = [s \in Side |-> best[s]]
      /\ depth = [s \in Side |-> depth[s]]
  BY DEF Init
<1>4. /\ Span = 0
      /\ slots \in [Side -> [0 .. 0 - 1 -> Lots]]
      /\ best \in [Side -> {NoSlot} \cup 0 .. 0 - 1]
      /\ depth \in [Side -> 0 .. 0]
  BY <1>2, <1>3, Rearranged DEF Span
<1>5. TypeOK
  <2>1. /\ slots \in [Side -> [0 .. Span - 1 -> Lots]]
        /\ best \in [Side -> {NoSlot} \cup 0 .. Span - 1]
        /\ depth \in [Side -> 0 .. Span] /\ Span <= MAX_SPAN
    BY <1>4, FlatBounds
  <2>2. base \in Int /\ touched \subseteq Prices /\ trade \in LastTrade
    BY DEF Init, LastTrade
  <2>3. inited \in BOOLEAN /\ panicked \in BOOLEAN BY Zenon DEF Init
  <2> QED BY <2>1, <2>2, <2>3 DEF TypeOK
<1>6. BandInv /\ PanicsOnlyOutsideBand
  BY <1>4 DEF Init, BandInv, PanicsOnlyOutsideBand
<1> QED BY <1>2, <1>4, <1>5, <1>6 DEF IInv

\* A Level event within reach keeps the caches true, wherever the window moves
\* (flat.rs:102-151).
LEMMA LevelKeeps ==
  ASSUME IInv, ~panicked, NEW ev \in Event, ApplyLevel(ev)
  PROVE  IInv'
<1>0. PICK first, len, shift : Levelled(ev, first, len, shift) BY LevelStep
<1>1. /\ first \in Int /\ len \in Nat /\ len <= MAX_SPAN
      /\ shift \in Nat /\ shift + Span <= len
      /\ ev.px - first \in 0 .. len - 1
      /\ inited => base = first + shift
      /\ InBand(first, len, touched')
      /\ base' = first /\ inited' = TRUE
      /\ slots' = [s \in Side |->
           IF s = ev.side
             THEN [Moved(slots[s], shift, len) EXCEPT ![ev.px - first] = ev.qty]
             ELSE Moved(slots[s], shift, len)]
      /\ depth' = [s \in Side |->
           IF s = ev.side
             THEN DepthAfter(Moved(slots[s], shift, len)[ev.px - first],
                             ev.qty, depth[s])
             ELSE depth[s]]
      /\ best' = [s \in Side |->
           IF s = ev.side
             THEN BestAfter(s,
                    [Moved(slots[s], shift, len) EXCEPT ![ev.px - first] = ev.qty],
                    ev.px - first, Moved(slots[s], shift, len)[ev.px - first],
                    ev.qty, BestMoved(best[s], shift))
             ELSE BestMoved(best[s], shift)]
  BY <1>0 DEF Levelled
<1>2. ev.kind = "Level" /\ ev.side \in Side /\ ev.px \in Prices /\ ev.qty \in Lots
  BY EventParts DEF ApplyLevel
<1>3. /\ Span \in Nat
      /\ \A s \in Side : /\ slots[s] \in Arrays(Span)
                         /\ Sound(s, slots[s], best[s], depth[s])
  BY Arrayed
<1>4. ASSUME NEW s \in Side
      PROVE  slots'[s] \in Arrays(len) /\ Sound(s, slots'[s], best'[s], depth'[s])
  <2> DEFINE m == Moved(slots[s], shift, len)
             b == BestMoved(best[s], shift)
             i == ev.px - first
  <2>1. m \in Arrays(len) /\ Sound(s, m, b, depth[s])
    BY <1>1, <1>3, MovedSound
  <2>2. CASE s # ev.side
    <3>1. slots'[s] = m /\ best'[s] = b /\ depth'[s] = depth[s] BY <1>1, <2>2
    <3> QED BY <2>1, <3>1
  <2>3. CASE s = ev.side
    <3> DEFINE a == [m EXCEPT ![i] = ev.qty]
    <3>1. /\ slots'[s] = a /\ best'[s] = BestAfter(s, a, i, m[i], ev.qty, b)
          /\ depth'[s] = DepthAfter(m[i], ev.qty, depth[s])
      BY <1>1, <2>3
    <3>2. i \in 0 .. len - 1 /\ len \in Nat BY <1>1
    <3> HIDE DEF m, b, i
    <3>3. a \in Arrays(len) BY <1>2, <2>1 DEF Arrays
    <3>4. Sound(s, a, BestAfter(s, a, i, m[i], ev.qty, b),
                DepthAfter(m[i], ev.qty, depth[s]))
      BY <1>2, <2>1, <3>2, SetSound
    <3> QED BY <3>1, <3>3, <3>4
  <2> QED BY <2>2, <2>3
<1>5. /\ slots' = [s \in Side |-> slots'[s]] /\ best' = [s \in Side |-> best'[s]]
      /\ depth' = [s \in Side |-> depth'[s]]
  BY <1>1
<1>6. /\ Span' = len
      /\ slots' \in [Side -> [0 .. len - 1 -> Lots]]
      /\ best' \in [Side -> {NoSlot} \cup 0 .. len - 1]
      /\ depth' \in [Side -> 0 .. len]
  <2>0. /\ len \in Nat
        /\ \A s \in Side : /\ slots'[s] \in Arrays(len)
                           /\ Sound(s, slots'[s], best'[s], depth'[s])
    BY <1>1, <1>4
  <2>1. /\ Cardinality(DOMAIN slots'["Bid"]) = len
        /\ slots' \in [Side -> [0 .. len - 1 -> Lots]]
        /\ best' \in [Side -> {NoSlot} \cup 0 .. len - 1]
        /\ depth' \in [Side -> 0 .. len]
    BY <1>5, <2>0, Rearranged
  <2> QED BY <2>1 DEF Span
<1>7. trade' = trade /\ panicked' = panicked /\ touched' = touched \cup {ev.px}
  BY DEF ApplyLevel
<1>8. TypeOK' BY <1>1, <1>2, <1>6, <1>7 DEF IInv, TypeOK
<1>9. BandInv' /\ PanicsOnlyOutsideBand'
  BY <1>1, <1>6, <1>7 DEF BandInv, PanicsOnlyOutsideBand
<1> QED BY <1>1, <1>4, <1>6, <1>8, <1>9 DEF IInv

\* A refused event changes nothing and is of a price out of the band
\* (flat.rs:72-82).
LEMMA PanicKeeps ==
  ASSUME IInv, NEW ev \in Event, ApplyPanics(ev)
  PROVE  IInv'
<1>1. ev.px \in Prices /\ ev.px \in Int BY EventParts, FlatBounds DEF ApplyPanics
<1>2. UNCHANGED <<base, inited, slots, best, depth, trade>>
  BY DEF ApplyPanics
<1>3. touched' = touched \cup {ev.px} /\ panicked' = TRUE /\ ~Fits(Window(ev.px))
  BY DEF ApplyPanics
<1>4. \E p, q \in touched' : q - p + 2 * HALF + 1 > MAX_SPAN
  BY <1>1, <1>3, RefusedOutsideBand
<1>5. PanicsOnlyOutsideBand' BY <1>4 DEF PanicsOnlyOutsideBand
<1>6. Span' = Span BY <1>2 DEF Span
<1>7. TypeOK' BY <1>1, <1>2, <1>3, <1>6 DEF IInv, TypeOK
<1>8. BandInv' BY <1>2, <1>3, <1>6 DEF IInv, BandInv, InBand
<1>9. \A s \in Side : Sound(s, slots'[s], best'[s], depth'[s]) BY <1>2, Arrayed
<1> QED BY <1>5, <1>6, <1>7, <1>8, <1>9 DEF IInv

\* A trade moves no level (flat.rs:152).
LEMMA TradeKeeps ==
  ASSUME IInv, NEW ev \in Event, ApplyTrade(ev)
  PROVE  IInv'
<1>1. UNCHANGED <<base, inited, slots, best, depth, panicked, touched>>
      /\ trade' = <<ev.px, ev.qty, ev.side>>
  BY DEF ApplyTrade
<1>2. trade' \in LastTrade BY <1>1, EventParts DEF ApplyTrade, LastTrade
<1>3. Span' = Span BY <1>1 DEF Span
<1>4. TypeOK' BY <1>1, <1>2, <1>3 DEF IInv, TypeOK
<1>5. BandInv' /\ PanicsOnlyOutsideBand'
  BY <1>1, <1>3 DEF IInv, BandInv, PanicsOnlyOutsideBand
<1>6. \A s \in Side : Sound(s, slots'[s], best'[s], depth'[s]) BY <1>1, Arrayed
<1> QED BY <1>3, <1>4, <1>5, <1>6 DEF IInv

\* Clear empties the window and keeps it (flat.rs:153-162).
LEMMA ClearKeeps ==
  ASSUME IInv, NEW ev \in Event, ApplyClear(ev)
  PROVE  IInv'
<1>1. /\ slots' = [s \in Side |-> Zeros(Span)] /\ best' = [s \in Side |-> NoSlot]
      /\ depth' = [s \in Side |-> 0] /\ trade' = None
      /\ UNCHANGED <<base, inited, panicked, touched>>
  BY DEF ApplyClear
<1>2. Span \in Nat /\ Span <= MAX_SPAN BY DEF IInv, TypeOK
<1>3. \A s \in Side : /\ slots'[s] \in Arrays(Span)
                      /\ Sound(s, slots'[s], best'[s], depth'[s])
  BY <1>1, <1>2, ZerosSound
<1>4. /\ slots' = [s \in Side |-> slots'[s]] /\ best' = [s \in Side |-> best'[s]]
      /\ depth' = [s \in Side |-> depth'[s]]
  BY <1>1
<1>5. /\ Span' = Span
      /\ slots' \in [Side -> [0 .. Span - 1 -> Lots]]
      /\ best' \in [Side -> {NoSlot} \cup 0 .. Span - 1]
      /\ depth' \in [Side -> 0 .. Span]
  <2>1. Cardinality(DOMAIN slots'["Bid"]) = Span BY <1>2, <1>3, <1>4, Rearranged
  <2>2. Span' = Span BY <2>1 DEF Span
  <2> QED BY <1>2, <1>3, <1>4, <2>2, Rearranged
<1>6. TypeOK' BY <1>1, <1>2, <1>5 DEF IInv, TypeOK, LastTrade
<1>7. BandInv' /\ PanicsOnlyOutsideBand'
  BY <1>1, <1>5 DEF IInv, BandInv, PanicsOnlyOutsideBand
<1> QED BY <1>2, <1>3, <1>5, <1>6, <1>7 DEF IInv

\* Every event, applied or refused, keeps the invariant (flat.rs:101-165).
LEMMA StepInv == IInv /\ [Next]_vars => IInv'
<1> SUFFICES ASSUME IInv, [Next]_vars PROVE IInv' OBVIOUS
<1>1. ASSUME NEW ev \in Event, Apply(ev) PROVE IInv'
  <2>1. ~panicked BY <1>1 DEF Apply
  <2>2. CASE ApplyLevel(ev) BY <2>1, <2>2, LevelKeeps
  <2>3. CASE ApplyPanics(ev) BY <2>3, PanicKeeps
  <2>4. CASE ApplyTrade(ev) BY <2>4, TradeKeeps
  <2>5. CASE ApplyClear(ev) BY <2>5, ClearKeeps
  <2> QED BY <1>1, <2>2, <2>3, <2>4, <2>5 DEF Apply
<1>2. CASE UNCHANGED vars
  <2>1. /\ slots' = slots /\ best' = best /\ depth' = depth /\ inited' = inited
        /\ base' = base /\ touched' = touched /\ trade' = trade
        /\ panicked' = panicked
    BY <1>2 DEF vars
  <2>2. Span' = Span BY <2>1 DEF Span
  <2> QED BY <2>1, <2>2 DEF IInv, TypeOK, BandInv, PanicsOnlyOutsideBand
<1> QED BY <1>1, <1>2 DEF Next

-------------------------------------------------------------------------------
(* The theorems *)

\* The window, the arrays and the caches keep to their invariant.
THEOREM Invariant == Spec => []IInv
BY InitInv, StepInv, PTL DEF Spec

\* Every variable keeps its type: no count of levels goes below zero, no cached
\* slot leaves the array, no window outgrows the limit (flat.rs:19-36, 72-82).
THEOREM TypeCorrect == Spec => []TypeOK
<1>1. IInv => TypeOK BY DEF IInv
<1> QED BY <1>1, Invariant, PTL

\* The cached bests and depths always say what the arrays hold, through growths,
\* probes and clears (flat.rs:31-34, 94-95, 113-126).
THEOREM CachesTrue == Spec => []CachesAgree
<1>1. IInv => CachesAgree BY DEF IInv, CachesAgree, Sound
<1> QED BY <1>1, Invariant, PTL

\* apply never panics on prices that stay in a band which leaves the margins
\* within the limit (flat.rs:19-23, 72-82).
THEOREM NoPanicInBand == Spec => []PanicsOnlyOutsideBand
<1>1. IInv => PanicsOnlyOutsideBand BY DEF IInv
<1> QED BY <1>1, Invariant, PTL

-------------------------------------------------------------------------------
(* FlatBook implements BTreeBook *)

\* The map that array a stands for, its first slot at tick `first'.
MapOf(first, a) == [p \in {first + i : i \in Occupied(a)} |-> a[p - first]]

Maps == [side \in Side |-> MapOf(base, slots[side])]

\* The steps of the BTreeBook under the refinement mapping.
LEMMA BookSteps ==
  /\ Book!Init <=> /\ Maps = [side \in Side |-> [px \in {} |-> 0]]
                   /\ trade = None /\ last = ClearEvent
  /\ \A ev : ev.kind = "Level" =>
       (Book!Apply(ev) <=>
          /\ Maps' = [Maps EXCEPT ![ev.side] = Book!Update(@, ev.px, ev.qty)]
          /\ trade' = trade /\ last' = ev)
  /\ \A ev : ev.kind = "Trade" =>
       (Book!Apply(ev) <=>
          /\ Maps' = Maps /\ trade' = <<ev.px, ev.qty, ev.side>> /\ last' = ev)
  /\ \A ev : ev.kind = "Clear" =>
       (Book!Apply(ev) <=>
          /\ Maps' = [side \in Side |-> [px \in {} |-> 0]]
          /\ trade' = None /\ last' = ev)
  /\ UNCHANGED Book!bookVars <=> Maps' = Maps /\ trade' = trade /\ last' = last
<1>1. Maps = [side \in Side |-> Map(side)] BY DEF Maps, MapOf, Map
<1>2. Maps' = [side \in Side |-> Map(side)'] BY DEF Maps, MapOf, Map
<1>3. Book!Side = Side /\ Book!None = None /\ Book!ClearEvent = ClearEvent
  BY DEF Book!Side, Side, Book!None, None, Book!ClearEvent, ClearEvent
<1>4. Book!NoLevels = [side \in Side |-> [px \in {} |-> 0]]
  BY DEF Book!NoLevels, Book!Empty, Book!Side, Side
<1> QED
  BY <1>1, <1>2, <1>3, <1>4
  DEF Book!Init, Book!Apply, Book!ApplyLevel, Book!ApplyTrade, Book!ApplyClear,
      Book!bookVars

\* A map and the array that stands for it.
LEMMA MapParts ==
  ASSUME NEW n \in Nat, NEW a \in Arrays(n), NEW first \in Int
  PROVE  /\ \A p : p \in DOMAIN MapOf(first, a) <=> p \in Int /\ p - first \in Occupied(a)
         /\ \A p \in DOMAIN MapOf(first, a) : MapOf(first, a)[p] = a[p - first]
<1>1. \A i \in Occupied(a) : i \in Int BY OccupiedFinite
<1>2. DOMAIN MapOf(first, a) = {first + i : i \in Occupied(a)} BY DEF MapOf
<1>3. ASSUME NEW p
      PROVE  p \in {first + i : i \in Occupied(a)} <=> p \in Int /\ p - first \in Occupied(a)
  <2>1. ASSUME p \in {first + i : i \in Occupied(a)}
        PROVE  p \in Int /\ p - first \in Occupied(a)
    <3>1. PICK i \in Occupied(a) : p = first + i BY <2>1
    <3>2. p \in Int /\ p - first = i BY <1>1, <3>1
    <3> QED BY <3>2
  <2>2. ASSUME p \in Int, p - first \in Occupied(a)
        PROVE  p \in {first + i : i \in Occupied(a)}
    <3>1. p = first + (p - first) BY <2>2
    <3> QED BY <2>2, <3>1
  <2> QED BY <2>1, <2>2
<1>4. \A p \in DOMAIN MapOf(first, a) : MapOf(first, a)[p] = a[p - first]
  BY <1>2 DEF MapOf
<1> QED BY <1>2, <1>3, <1>4

\* Growing the window does not change the map (flat.rs:84-96).
LEMMA MapMoved ==
  ASSUME NEW n \in Nat, NEW a \in Arrays(n), NEW shift \in Nat, NEW len \in Nat,
         shift + n <= len, NEW first \in Int
  PROVE  MapOf(first, Moved(a, shift, len)) = MapOf(first + shift, a)
<1> DEFINE m == Moved(a, shift, len)
           f == MapOf(first, m)
           g == MapOf(first + shift, a)
<1>1. /\ m \in Arrays(len)
      /\ \A i : i \in Occupied(m) <=> i \in Int /\ i - shift \in Occupied(a)
      /\ \A i \in Occupied(a) : m[i + shift] = a[i]
  BY MovedSound
<1> HIDE DEF m
<1>2. /\ \A p : p \in DOMAIN f <=> p \in Int /\ p - first \in Occupied(m)
      /\ \A p \in DOMAIN f : f[p] = m[p - first]
  BY <1>1, MapParts
<1>3. first + shift \in Int OBVIOUS
<1>4. /\ \A p : p \in DOMAIN g <=> p \in Int /\ p - (first + shift) \in Occupied(a)
      /\ \A p \in DOMAIN g : g[p] = a[p - (first + shift)]
  BY <1>3, MapParts
<1>5. f = [p \in DOMAIN f |-> f[p]] /\ g = [p \in DOMAIN g |-> g[p]] BY DEF MapOf
<1> HIDE DEF f, g
<1>6. \A p \in Int : (p - first) - shift = p - (first + shift) OBVIOUS
<1>7. \A p : p \in DOMAIN f <=> p \in DOMAIN g
  <2> SUFFICES ASSUME NEW p PROVE p \in DOMAIN f <=> p \in DOMAIN g OBVIOUS
  <2>1. p \in Int => (p - first \in Int /\ (p - first) - shift = p - (first + shift))
    OBVIOUS
  <2>2. p \in Int =>
          (p - first \in Occupied(m) <=> p - (first + shift) \in Occupied(a))
    BY <1>1, <2>1
  <2> QED BY <1>2, <1>4, <2>2
<1>8. ASSUME NEW p \in DOMAIN f PROVE f[p] = g[p]
  <2>1. p \in Int /\ p \in DOMAIN g BY <1>2, <1>7
  <2>2. p - (first + shift) \in Occupied(a) BY <1>4, <2>1
  <2>3. (p - (first + shift)) + shift = p - first BY <2>1
  <2>4. m[p - first] = a[p - (first + shift)] BY <1>1, <2>2, <2>3
  <2> QED BY <1>2, <1>4, <2>1, <2>4
<1> QED BY <1>5, <1>7, <1>8, SameMap DEF f, g, m

\* Setting a slot updates the map, a zero removes its price (flat.rs:103-151).
LEMMA MapSet ==
  ASSUME NEW n \in Nat, NEW a \in Arrays(n), NEW first \in Int, NEW px \in Int,
         px - first \in 0 .. n - 1, NEW qty \in Lots
  PROVE  MapOf(first, [a EXCEPT ![px - first] = qty])
           = Book!Update(MapOf(first, a), px, qty)
<1> DEFINE i == px - first
           s == [a EXCEPT ![i] = qty]
           f == MapOf(first, s)
           h == MapOf(first, a)
           g == Book!Update(h, px, qty)
<1>0. i \in 0 .. n - 1 OBVIOUS
<1> HIDE DEF i
<1>1. /\ s \in Arrays(n) /\ s[i] = qty
      /\ \A j \in 0 .. n - 1 : j # i => s[j] = a[j]
      /\ Occupied(s) = IF qty = 0 THEN Occupied(a) \ {i} ELSE Occupied(a) \cup {i}
  <2>1. s = SetSlot(a, i, qty) BY DEF SetSlot
  <2> HIDE DEF s
  <2> QED BY <1>0, <2>1, SetOccupied
<1> HIDE DEF s
<1>2. /\ \A p : p \in DOMAIN f <=> p \in Int /\ p - first \in Occupied(s)
      /\ \A p \in DOMAIN f : f[p] = s[p - first]
  BY <1>1, MapParts
<1>3. /\ \A p : p \in DOMAIN h <=> p \in Int /\ p - first \in Occupied(a)
      /\ \A p \in DOMAIN h : h[p] = a[p - first]
  BY MapParts
<1>4. f = [p \in DOMAIN f |-> f[p]] BY DEF MapOf
<1>5. g = [p \in DOMAIN g |-> g[p]]
  BY DEF Book!Update, Book!With, Book!Without
<1> HIDE DEF f, h
<1>6. /\ DOMAIN g = IF qty = 0 THEN DOMAIN h \ {px} ELSE DOMAIN h \cup {px}
      /\ \A p \in DOMAIN g : g[p] = IF p = px THEN qty ELSE h[p]
  BY DEF Book!Update, Book!With, Book!Without
<1> HIDE DEF g
<1>7. \A p \in Int : p - first = i <=> p = px BY DEF i
<1>8. \A j \in Occupied(a) : j \in 0 .. n - 1 BY OccupiedFinite
<1>9. ASSUME NEW p PROVE p \in DOMAIN f <=> p \in DOMAIN g
  BY <1>1, <1>2, <1>3, <1>6, <1>7
<1>10. ASSUME NEW p \in DOMAIN f PROVE f[p] = g[p]
  <2>1. p \in DOMAIN g /\ p \in Int /\ f[p] = s[p - first] BY <1>2, <1>9
  <2>2. CASE p = px BY <1>1, <1>6, <1>7, <2>1, <2>2
  <2>3. CASE p # px
    <3>1. p \in DOMAIN h /\ g[p] = h[p] BY <1>6, <2>1, <2>3
    <3>2. p - first \in Occupied(a) /\ p - first # i BY <1>3, <1>7, <2>1, <2>3, <3>1
    <3>3. s[p - first] = a[p - first] BY <1>1, <1>8, <3>2
    <3> QED BY <1>3, <2>1, <3>1, <3>3
  <2> QED BY <2>2, <2>3
<1> QED BY <1>4, <1>5, <1>9, <1>10, SameMap DEF f, g, h, s, i

\* A Level event within reach is the BTreeBook's (flat.rs:102-151).
LEMMA BookLevel ==
  ASSUME IInv, ~panicked, NEW ev \in Event, ApplyLevel(ev)
  PROVE  Book!Apply(ev)
<1>0. PICK first, len, shift : Levelled(ev, first, len, shift) BY LevelStep
<1>1. /\ first \in Int /\ len \in Nat
      /\ shift \in Nat /\ shift + Span <= len
      /\ ev.px - first \in 0 .. len - 1
      /\ inited => base = first + shift
      /\ base' = first
      /\ slots' = [s \in Side |->
           IF s = ev.side
             THEN [Moved(slots[s], shift, len) EXCEPT ![ev.px - first] = ev.qty]
             ELSE Moved(slots[s], shift, len)]
  BY <1>0 DEF Levelled
<1>2. /\ ev.kind = "Level" /\ ev.side \in Side /\ ev.px \in Int /\ ev.qty \in Lots
      /\ trade' = trade /\ last' = ev
  BY EventParts, FlatBounds DEF ApplyLevel
<1>3. Span \in Nat /\ \A s \in Side : slots[s] \in Arrays(Span) BY Arrayed
<1>4. ~inited => Span = 0 BY DEF IInv, BandInv
<1>5. ASSUME NEW s \in Side
      PROVE  MapOf(first, Moved(slots[s], shift, len)) = MapOf(base, slots[s])
  <2>1. MapOf(first, Moved(slots[s], shift, len)) = MapOf(first + shift, slots[s])
    BY <1>1, <1>3, MapMoved
  <2>2. CASE inited BY <1>1, <2>1, <2>2
  <2>3. CASE ~inited
    <3>1. Occupied(slots[s]) \subseteq 0 .. 0 - 1 BY <1>3, <1>4, <2>3, OccupiedFinite
    <3>2. Occupied(slots[s]) = {} BY <3>1
    <3> QED BY <2>1, <3>2 DEF MapOf
  <2> QED BY <2>2, <2>3
<1>6. ASSUME NEW s \in Side
      PROVE  Maps'[s] = IF s = ev.side THEN Book!Update(Maps[s], ev.px, ev.qty)
                        ELSE Maps[s]
  <2> DEFINE m == Moved(slots[s], shift, len)
  <2>1. Maps[s] = MapOf(base, slots[s]) /\ Maps'[s] = MapOf(first, slots'[s])
    BY <1>1 DEF Maps
  <2>2. m \in Arrays(len) BY <1>1, <1>3, MovedSound
  <2>3. MapOf(first, m) = Maps[s] BY <1>5, <2>1
  <2>4. slots'[s] = IF s = ev.side THEN [m EXCEPT ![ev.px - first] = ev.qty] ELSE m
    BY <1>1
  <2> HIDE DEF m
  <2>5. MapOf(first, [m EXCEPT ![ev.px - first] = ev.qty])
          = Book!Update(MapOf(first, m), ev.px, ev.qty)
    BY <1>1, <1>2, <2>2, MapSet
  <2> QED BY <2>1, <2>3, <2>4, <2>5
<1>7. Maps' = [s \in Side |-> Maps'[s]] /\ Maps = [s \in Side |-> Maps[s]]
  BY DEF Maps
<1>8. Maps' = [Maps EXCEPT ![ev.side] = Book!Update(@, ev.px, ev.qty)]
  <2> DEFINE new == [Maps EXCEPT ![ev.side] = Book!Update(@, ev.px, ev.qty)]
  <2>1. DOMAIN Maps = Side BY DEF Maps
  <2>2. new = [s \in Side |-> new[s]] BY <2>1
  <2>3. \A s \in Side : new[s] = Maps'[s] BY <1>6, <2>1
  <2> HIDE DEF new
  <2>4. [s \in Side |-> new[s]] = [s \in Side |-> Maps'[s]] BY <2>3
  <2>5. new = Maps' BY <1>7, <2>2, <2>4
  <2> QED BY <2>5 DEF new
<1> QED BY <1>2, <1>8, BookSteps

\* Every event FlatBook applies is the BTreeBook's (flat.rs:101-165).
LEMMA BookEvent ==
  ASSUME IInv, ~panicked, NEW ev \in Event,
         ApplyLevel(ev) \/ ApplyTrade(ev) \/ ApplyClear(ev)
  PROVE  Book!Apply(ev)
<1>1. CASE ApplyLevel(ev) BY <1>1, BookLevel
<1>2. CASE ApplyTrade(ev)
  <2>1. /\ UNCHANGED <<base, slots>> /\ ev.kind = "Trade" /\ last' = ev
        /\ trade' = <<ev.px, ev.qty, ev.side>>
    BY <1>2 DEF ApplyTrade
  <2>2. Maps' = Maps BY <2>1 DEF Maps
  <2> QED BY <2>1, <2>2, BookSteps
<1>3. CASE ApplyClear(ev)
  <2>1. /\ base' = base /\ ev.kind = "Clear" /\ last' = ev /\ trade' = None
        /\ slots' = [side \in Side |-> Zeros(Span)]
    BY <1>3 DEF ApplyClear
  <2>2. Occupied(Zeros(Span)) = {} BY ZerosSound DEF IInv
  <2>3. MapOf(base, Zeros(Span)) = [px \in {} |-> 0]
    BY <2>2 DEF MapOf
  <2>4. Maps' = [side \in Side |-> [px \in {} |-> 0]] BY <2>1, <2>3 DEF Maps
  <2> QED BY <2>1, <2>4, BookSteps
<1> QED BY <1>1, <1>2, <1>3

\* A refused event leaves the levels (flat.rs:72-82).
LEMMA BookRefused ==
  ASSUME NEW ev, ApplyPanics(ev)
  PROVE  Maps' = Maps /\ trade' = trade /\ last' = last
BY DEF ApplyPanics, Maps

\* Every step is one of the BTreeBook, a refused one none (tests/oracle.rs:3-13).
LEMMA BookStep == IInv /\ [Next]_vars => [Book!Next]_(Book!bookVars)
<1> SUFFICES ASSUME IInv, [Next]_vars PROVE Book!Next \/ UNCHANGED Book!bookVars
  OBVIOUS
<1>1. ASSUME NEW ev \in Event, Apply(ev)
      PROVE  Book!Apply(ev) \/ UNCHANGED Book!bookVars
  <2>1. ~panicked BY <1>1 DEF Apply
  <2>2. CASE ApplyLevel(ev) \/ ApplyTrade(ev) \/ ApplyClear(ev) BY <2>1, <2>2, BookEvent
  <2>3. CASE ApplyPanics(ev) BY <2>3, BookRefused, BookSteps
  <2> QED BY <1>1, <2>2, <2>3 DEF Apply
<1>2. Book!Event = Event
  BY DEF Book!Event, Event, Book!Levels, Levels, Book!Trades, Trades,
         Book!LevelEvent, LevelEvent, Book!TradeEvent, TradeEvent,
         Book!ClearEvent, ClearEvent, Book!Side, Side
<1>3. CASE Next BY <1>1, <1>2, <1>3 DEF Next, Book!Next
<1>4. CASE UNCHANGED vars
  <2>1. UNCHANGED <<base, slots, trade, last>> BY <1>4 DEF vars
  <2>2. Maps' = Maps BY <2>1 DEF Maps
  <2> QED BY <2>1, <2>2, BookSteps
<1> QED BY <1>3, <1>4

\* Over its dense window FlatBook is the ordered-map book: every event it does
\* not refuse has the same effect on the levels and the last trade
\* (tests/oracle.rs:3-13).
THEOREM Implements == Spec => IsBTreeBook
<1>1. Init => Book!Init
  <2> SUFFICES ASSUME Init PROVE Book!Init OBVIOUS
  <2>1. MapOf(0, Zeros(0)) = [px \in {} |-> 0] BY ZerosSound DEF MapOf
  <2>2. Maps = [side \in Side |-> [px \in {} |-> 0]] BY <2>1 DEF Init, Maps
  <2> QED BY <2>2, BookSteps DEF Init
<1> QED BY <1>1, Invariant, BookStep, PTL DEF Spec, IsBTreeBook, Book!Spec

-------------------------------------------------------------------------------
(* Vectors of levels *)

\* A vector of levels <<price, quantity>>.
Ladders == Seq(Int \X Int)

\* A vector with one element removed.
LEMMA Removed ==
  ASSUME NEW S, NEW v \in Seq(S), NEW at \in 1 .. Len(v)
  PROVE  /\ RemoveAt(v, at) \in Seq(S) /\ Len(RemoveAt(v, at)) = Len(v) - 1
         /\ \A i \in 1 .. Len(v) - 1 :
              RemoveAt(v, at)[i] = IF i < at THEN v[i] ELSE v[i + 1]
<1> DEFINE a == SubSeq(v, 1, at - 1)
           b == SubSeq(v, at + 1, Len(v))
           n == Len(v)
<1>1. n \in Nat /\ at \in 1 .. n OBVIOUS
<1>2. \A i \in 1 .. n : v[i] \in S BY ElementOfSeq
<1>3. a \in Seq(S) /\ Len(a) = at - 1 /\ \A i \in 1 .. at - 1 : a[i] = v[i]
  <2>1. \A i \in 1 .. at - 1 : v[i] \in S BY <1>1, <1>2
  <2>2. 1 \in Int /\ at - 1 \in Int /\ at >= 1 BY <1>1
  <2>3. /\ a \in Seq(S) /\ Len(a) = IF 1 <= at - 1 THEN (at - 1) - 1 + 1 ELSE 0
        /\ \A i \in 1 .. (at - 1) - 1 + 1 : a[i] = v[1 + i - 1]
    BY <2>1, <2>2, SubSeqProperties
  <2> HIDE DEF a
  <2> QED BY <2>2, <2>3
<1>4. /\ b \in Seq(S) /\ Len(b) = n - at
      /\ \A i \in 1 .. n - at : b[i] = v[at + i]
  <2>1. \A i \in at + 1 .. n : v[i] \in S BY <1>1, <1>2
  <2>2. at + 1 \in Int /\ n \in Int /\ at <= n /\ at \in Int BY <1>1
  <2>3. /\ b \in Seq(S)
        /\ Len(b) = IF at + 1 <= n THEN n - (at + 1) + 1 ELSE 0
        /\ \A i \in 1 .. n - (at + 1) + 1 : b[i] = v[(at + 1) + i - 1]
    BY <2>1, <2>2, SubSeqProperties
  <2> HIDE DEF b, n
  <2>4. \A i \in 1 .. n - at : i \in 1 .. n - (at + 1) + 1 /\ (at + 1) + i - 1 = at + i
    BY <2>2
  <2> QED BY <2>2, <2>3, <2>4
<1>5. RemoveAt(v, at) = a \o b BY DEF RemoveAt
<1> HIDE DEF a, b, n
<1>6. /\ a \o b \in Seq(S) /\ Len(a \o b) = Len(a) + Len(b)
      /\ \A i \in 1 .. Len(a) + Len(b) :
           (a \o b)[i] = IF i <= Len(a) THEN a[i] ELSE b[i - Len(a)]
  BY <1>3, <1>4, ConcatProperties
<1>7. ASSUME NEW i \in 1 .. n - 1
      PROVE  (a \o b)[i] = IF i < at THEN v[i] ELSE v[i + 1]
  <2>1. i \in 1 .. Len(a) + Len(b) BY <1>1, <1>3, <1>4
  <2>2. CASE i < at
    <3>1. i <= Len(a) /\ i \in 1 .. at - 1 BY <1>1, <1>3, <2>2
    <3> QED BY <1>3, <1>6, <2>1, <2>2, <3>1
  <2>3. CASE ~(i < at)
    <3>1. ~(i <= Len(a)) /\ i - Len(a) \in 1 .. n - at /\ at + (i - Len(a)) = i + 1
      BY <1>1, <1>3, <2>3
    <3> QED BY <1>4, <1>6, <2>1, <2>3, <3>1
  <2> QED BY <2>2, <2>3
<1>8. Len(a \o b) = n - 1 BY <1>1, <1>3, <1>4, <1>6
<1> QED BY <1>5, <1>6, <1>7, <1>8 DEF n

\* A vector with one element inserted.
LEMMA Inserted ==
  ASSUME NEW S, NEW v \in Seq(S), NEW at \in 1 .. Len(v) + 1, NEW e \in S
  PROVE  /\ InsertAt(v, at, e) \in Seq(S) /\ Len(InsertAt(v, at, e)) = Len(v) + 1
         /\ \A i \in 1 .. Len(v) + 1 :
              InsertAt(v, at, e)[i] =
                IF i < at THEN v[i] ELSE IF i = at THEN e ELSE v[i - 1]
<1> DEFINE a == SubSeq(v, 1, at - 1)
           b == SubSeq(v, at, Len(v))
           n == Len(v)
           o == <<e>>
<1>1. n \in Nat /\ at \in 1 .. n + 1 OBVIOUS
<1>2. \A i \in 1 .. n : v[i] \in S BY ElementOfSeq
<1>3. a \in Seq(S) /\ Len(a) = at - 1 /\ \A i \in 1 .. at - 1 : a[i] = v[i]
  <2>1. \A i \in 1 .. at - 1 : v[i] \in S BY <1>1, <1>2
  <2>2. 1 \in Int /\ at - 1 \in Int /\ at >= 1 BY <1>1
  <2>3. /\ a \in Seq(S) /\ Len(a) = IF 1 <= at - 1 THEN (at - 1) - 1 + 1 ELSE 0
        /\ \A i \in 1 .. (at - 1) - 1 + 1 : a[i] = v[1 + i - 1]
    BY <2>1, <2>2, SubSeqProperties
  <2> HIDE DEF a
  <2> QED BY <2>2, <2>3
<1>4. /\ b \in Seq(S) /\ Len(b) = n - at + 1
      /\ \A i \in 1 .. n - at + 1 : b[i] = v[at + i - 1]
  <2>1. \A i \in at .. n : v[i] \in S BY <1>1, <1>2
  <2>2. at \in Int /\ n \in Int /\ at <= n + 1 BY <1>1
  <2>3. /\ b \in Seq(S) /\ Len(b) = IF at <= n THEN n - at + 1 ELSE 0
        /\ \A i \in 1 .. n - at + 1 : b[i] = v[at + i - 1]
    BY <2>1, <2>2, SubSeqProperties
  <2> HIDE DEF b, n
  <2> QED BY <2>2, <2>3
<1>5. InsertAt(v, at, e) = (a \o o) \o b BY DEF InsertAt
<1>6. o \in Seq(S) /\ Len(o) = 1 /\ o[1] = e OBVIOUS
<1> HIDE DEF a, b, n, o
<1> DEFINE c == a \o o
<1>7. /\ c \in Seq(S) /\ Len(c) = Len(a) + Len(o)
      /\ \A i \in 1 .. Len(a) + Len(o) :
           c[i] = IF i <= Len(a) THEN a[i] ELSE o[i - Len(a)]
  BY <1>3, <1>6, ConcatProperties
<1> HIDE DEF c
<1>8. Len(c) = at /\ \A i \in 1 .. at : c[i] = IF i < at THEN v[i] ELSE e
  <2>1. Len(c) = at BY <1>1, <1>3, <1>6, <1>7
  <2> SUFFICES ASSUME NEW i \in 1 .. at PROVE c[i] = IF i < at THEN v[i] ELSE e
    BY <2>1
  <2>2. i \in 1 .. Len(a) + Len(o) BY <1>1, <1>3, <1>6
  <2>3. CASE i < at
    <3>1. i <= Len(a) /\ i \in 1 .. at - 1 BY <1>1, <1>3, <2>3
    <3> QED BY <1>3, <1>7, <2>2, <2>3, <3>1
  <2>4. CASE ~(i < at)
    <3>1. ~(i <= Len(a)) /\ i - Len(a) = 1 BY <1>1, <1>3, <2>4
    <3> QED BY <1>6, <1>7, <2>2, <2>4, <3>1
  <2> QED BY <2>3, <2>4
<1>9. /\ c \o b \in Seq(S) /\ Len(c \o b) = Len(c) + Len(b)
      /\ \A i \in 1 .. Len(c) + Len(b) :
           (c \o b)[i] = IF i <= Len(c) THEN c[i] ELSE b[i - Len(c)]
  <2>1. c \in Seq(S) /\ b \in Seq(S) BY <1>4, <1>7
  <2> QED BY <2>1, ConcatProperties
<1>10. ASSUME NEW i \in 1 .. n + 1
       PROVE  (c \o b)[i] = IF i < at THEN v[i] ELSE IF i = at THEN e ELSE v[i - 1]
  <2>1. i \in 1 .. Len(c) + Len(b) BY <1>1, <1>4, <1>8
  <2>2. CASE i <= at
    <3>1. i <= Len(c) /\ i \in 1 .. at BY <1>1, <1>8, <2>2
    <3>2. (c \o b)[i] = IF i < at THEN v[i] ELSE e BY <1>8, <1>9, <2>1, <3>1
    <3> QED BY <1>1, <2>2, <3>2
  <2>3. CASE i > at
    <3>1. /\ ~(i <= Len(c)) /\ i - Len(c) \in 1 .. n - at + 1
          /\ at + (i - Len(c)) - 1 = i - 1
      BY <1>1, <1>8, <2>3
    <3>2. (c \o b)[i] = v[i - 1] BY <1>4, <1>9, <2>1, <3>1
    <3>3. ~(i < at) /\ i # at BY <1>1, <2>3
    <3> QED BY <3>2, <3>3
  <2>4. i <= at \/ i > at BY <1>1
  <2> QED BY <2>2, <2>3, <2>4
<1>11. Len(c \o b) = n + 1 BY <1>1, <1>4, <1>8, <1>9
<1> QED BY <1>5, <1>9, <1>10, <1>11 DEF n, c

\* Strictly best first (sorted_vec.rs:10-11, rev_vec.rs:12-13); the ascending
\* order is the one that is best for asks.
Ordered(side, v) == \A i \in 1 .. Len(v) - 1 : Better(side, v[i][1], v[i + 1][1])

\* The vector has the level.
Has(v, p, q) == \E i \in 1 .. Len(v) : v[i] = <<p, q>>

\* Where price px is, or belongs.
Place(side, v, px, at) ==
  /\ at \in 1 .. Len(v) + 1
  /\ \A i \in 1 .. Len(v) : Better(side, v[i][1], px) <=> i < at

\* The vector with price px set at its place, or removed by a zero.
Edited(v, px, qty, at) ==
  IF at <= Len(v) /\ v[at][1] = px
    THEN IF qty = 0 THEN RemoveAt(v, at) ELSE ReplaceAt(v, at, <<px, qty>>)
    ELSE IF qty = 0 THEN v ELSE InsertAt(v, at, <<px, qty>>)

LadderMap(v) ==
  [p \in {v[i][1] : i \in DOMAIN v} |-> v[CHOOSE i \in DOMAIN v : v[i][1] = p][2]]

\* What a level of a vector is.
LEMMA LevelParts ==
  ASSUME NEW v \in Ladders
  PROVE  /\ Len(v) \in Nat /\ DOMAIN v = 1 .. Len(v)
         /\ \A i \in 1 .. Len(v) : /\ v[i] \in Int \X Int
                                   /\ v[i][1] \in Int /\ v[i][2] \in Int
                                   /\ v[i] = <<v[i][1], v[i][2]>>
<1>1. \A i \in 1 .. Len(v) : v[i] \in Int \X Int BY ElementOfSeq DEF Ladders
<1>2. Len(v) \in Nat /\ DOMAIN v = 1 .. Len(v) BY LenProperties DEF Ladders
<1> QED BY <1>1, <1>2

\* Better is a strict total order of the prices.
LEMMA BetterOrder ==
  ASSUME NEW side
  PROVE  /\ \A p, q, r \in Int : Better(side, p, q) /\ Better(side, q, r)
                                   => Better(side, p, r)
         /\ \A p \in Int : ~Better(side, p, p)
         /\ \A p, q \in Int : p = q \/ Better(side, p, q) \/ Better(side, q, p)
         /\ \A p, q \in Int : ~(Better(side, p, q) /\ Better(side, q, p))
BY DEF Better

\* Neighbours in order, so all in order.
LEMMA Pairwise ==
  ASSUME NEW side, NEW v \in Ladders, Ordered(side, v)
  PROVE  \A i, j \in 1 .. Len(v) : i < j => Better(side, v[i][1], v[j][1])
<1> SUFFICES ASSUME NEW i \in 1 .. Len(v),
                    \E j \in 1 .. Len(v) : i < j /\ ~Better(side, v[i][1], v[j][1])
             PROVE  FALSE
  OBVIOUS
<1> DEFINE S == {j \in 1 .. Len(v) : i < j /\ ~Better(side, v[i][1], v[j][1])}
<1>1. Len(v) \in Nat /\ \A j \in 1 .. Len(v) : v[j][1] \in Int BY LevelParts
<1>2. S \subseteq Nat /\ S # {} OBVIOUS
<1> HIDE DEF S
<1>3. PICK j \in S : \A k \in S : j <= k BY <1>2, Least
<1>4. j \in 1 .. Len(v) /\ i < j /\ ~Better(side, v[i][1], v[j][1]) BY DEF S
<1>5. /\ j - 1 \in 1 .. Len(v) - 1 /\ (j - 1) + 1 = j /\ j - 1 \in 1 .. Len(v)
      /\ ~(j <= j - 1) /\ i <= j - 1
  BY <1>1, <1>4
<1>6. Better(side, v[j - 1][1], v[j][1])
  <2>1. Better(side, v[j - 1][1], v[(j - 1) + 1][1]) BY <1>5 DEF Ordered
  <2> QED BY <1>5, <2>1
<1>7. j - 1 \notin S BY <1>3, <1>5
<1>8. CASE i = j - 1 BY <1>4, <1>6, <1>8
<1>9. CASE i # j - 1
  <2>1. i < j - 1 BY <1>1, <1>4, <1>5, <1>9
  <2>2. Better(side, v[i][1], v[j - 1][1]) BY <1>5, <1>7, <2>1 DEF S
  <2>3. v[i][1] \in Int /\ v[j - 1][1] \in Int /\ v[j][1] \in Int BY <1>1, <1>4, <1>5
  <2>4. Better(side, v[i][1], v[j][1])
    BY <1>6, <2>2, <2>3, BetterOrder, SMTT(60)
  <2> QED BY <1>4, <2>4
<1> QED BY <1>8, <1>9

\* A level is the only one of its price.
LEMMA OneLevel ==
  ASSUME NEW side, NEW v \in Ladders, Ordered(side, v),
         NEW i \in 1 .. Len(v), NEW j \in 1 .. Len(v), v[i][1] = v[j][1]
  PROVE  i = j
<1>1. /\ Len(v) \in Nat /\ v[i][1] \in Int /\ v[j][1] \in Int BY LevelParts
<1>2. i < j \/ j < i \/ i = j BY <1>1
<1>3. i < j => Better(side, v[i][1], v[j][1]) BY Pairwise
<1>4. j < i => Better(side, v[j][1], v[i][1]) BY Pairwise
<1> QED BY <1>1, <1>2, <1>3, <1>4, BetterOrder

\* The map an ordered vector stands for.
LEMMA LadderMapParts ==
  ASSUME NEW side, NEW v \in Ladders, Ordered(side, v)
  PROVE  /\ \A p : p \in DOMAIN LadderMap(v) <=> \E q : Has(v, p, q)
         /\ \A p, q : Has(v, p, q) => LadderMap(v)[p] = q
<1>1. DOMAIN v = 1 .. Len(v) /\ \A i \in 1 .. Len(v) : v[i] = <<v[i][1], v[i][2]>>
  BY LevelParts
<1>2. \A p : p \in DOMAIN LadderMap(v) <=> \E i \in 1 .. Len(v) : p = v[i][1]
  BY <1>1 DEF LadderMap
<1>3. ASSUME NEW p PROVE (\E i \in 1 .. Len(v) : p = v[i][1]) <=> \E q : Has(v, p, q)
  <2>1. ASSUME NEW i \in 1 .. Len(v), p = v[i][1] PROVE \E q : Has(v, p, q)
    <3>1. v[i] = <<p, v[i][2]>> BY <1>1, <2>1
    <3> QED BY <3>1 DEF Has
  <2>2. ASSUME NEW q, Has(v, p, q) PROVE \E i \in 1 .. Len(v) : p = v[i][1]
    BY <2>2 DEF Has
  <2> QED BY <2>1, <2>2
<1>4. ASSUME NEW p, NEW q, Has(v, p, q) PROVE LadderMap(v)[p] = q
  <2>1. PICK i \in 1 .. Len(v) : v[i] = <<p, q>> BY <1>4 DEF Has
  <2>2. v[i][1] = p /\ v[i][2] = q BY <2>1
  <2> DEFINE c == CHOOSE k \in DOMAIN v : v[k][1] = p
  <2>3. c \in 1 .. Len(v) /\ v[c][1] = p BY <1>1, <2>2
  <2>4. p \in {v[k][1] : k \in DOMAIN v} BY <1>1, <2>2
  <2>5. LadderMap(v)[p] = v[c][2] BY <2>4 DEF LadderMap
  <2> HIDE DEF c
  <2>6. c = i BY <2>2, <2>3, OneLevel
  <2> QED BY <2>2, <2>5, <2>6
<1> QED BY <1>2, <1>3, <1>4

\* A zero removes the price, a quantity sets it, and the order is kept
\* (sorted_vec.rs:24-39, rev_vec.rs:26-49).
LEMMA EditedOrdered ==
  ASSUME NEW side, NEW v \in Ladders, Ordered(side, v), NEW px \in Int,
         NEW qty \in Int, NEW at, Place(side, v, px, at)
  PROVE  Edited(v, px, qty, at) \in Ladders /\ Ordered(side, Edited(v, px, qty, at))
<1> DEFINE w == Edited(v, px, qty, at)
           n == Len(v)
           e == <<px, qty>>
<1>1. n \in Nat /\ \A i \in 1 .. n : v[i] \in Int \X Int /\ v[i][1] \in Int
  BY LevelParts
<1>2. /\ at \in 1 .. n + 1
      /\ \A i \in 1 .. n : Better(side, v[i][1], px) <=> i < at
  BY DEF Place
<1>3. \A i, j \in 1 .. n : i < j => Better(side, v[i][1], v[j][1]) BY Pairwise
<1>4. e \in Int \X Int /\ e[1] = px OBVIOUS
<1>5. Ladders = Seq(Int \X Int) BY DEF Ladders
<1> HIDE DEF n, e
<1>6. CASE at <= n /\ v[at][1] = px /\ qty = 0
  <2>1. w = RemoveAt(v, at) BY <1>6 DEF Edited, n
  <2>2. at \in 1 .. n BY <1>1, <1>2, <1>6
  <2>3. /\ RemoveAt(v, at) \in Seq(Int \X Int) /\ Len(RemoveAt(v, at)) = n - 1
        /\ \A i \in 1 .. n - 1 :
             RemoveAt(v, at)[i] = IF i < at THEN v[i] ELSE v[i + 1]
    BY <1>5, <2>2, Removed DEF n
  <2> HIDE DEF w
  <2>4. ASSUME NEW i \in 1 .. Len(w) - 1 PROVE Better(side, w[i][1], w[i + 1][1])
    <3>0. Len(w) = n - 1 BY <2>1, <2>3
    <3>1. i \in 1 .. n - 1 /\ i + 1 \in 1 .. n - 1 /\ i \in 1 .. n /\ i + 1 \in 1 .. n
      BY <1>1, <3>0
    <3>2. /\ w[i] = IF i < at THEN v[i] ELSE v[i + 1]
          /\ w[i + 1] = IF i + 1 < at THEN v[i + 1] ELSE v[(i + 1) + 1]
      BY <2>1, <2>3, <3>1
    <3>3. (i + 1) + 1 \in 1 .. n BY <1>1, <3>1
    <3>4. i < i + 1 /\ i + 1 < (i + 1) + 1 /\ i < (i + 1) + 1 BY <3>1
    <3>5. i + 1 < at => i < at BY <1>2, <3>1
    <3> QED BY <1>3, <3>1, <3>2, <3>3, <3>4, <3>5
  <2> QED BY <1>5, <2>1, <2>3, <2>4 DEF Ordered, w
<1>7. CASE at <= n /\ v[at][1] = px /\ qty # 0
  <2>1. w = ReplaceAt(v, at, e) BY <1>7 DEF Edited, n, e
  <2>2. at \in 1 .. n BY <1>1, <1>2, <1>7
  <2>3. DOMAIN v = 1 .. n BY LevelParts DEF n
  <2>4. /\ w = [i \in 1 .. n |-> IF i = at THEN e ELSE v[i]] BY <2>1, <2>3 DEF ReplaceAt
  <2> HIDE DEF w
  <2>5. w \in Seq(Int \X Int) /\ Len(w) = n
    BY <1>1, <1>4, <2>4
  <2>6. \A i \in 1 .. n : w[i][1] = v[i][1] BY <1>4, <1>7, <2>4
  <2>7. ASSUME NEW i \in 1 .. Len(w) - 1 PROVE Better(side, w[i][1], w[i + 1][1])
    <3>1. i \in 1 .. n /\ i + 1 \in 1 .. n /\ i < i + 1 BY <1>1, <2>5
    <3> QED BY <1>3, <2>6, <3>1
  <2> QED BY <1>5, <2>5, <2>7 DEF Ordered, w
<1>8. CASE ~(at <= n /\ v[at][1] = px) /\ qty = 0
  BY <1>8 DEF Edited, n
<1>9. CASE ~(at <= n /\ v[at][1] = px) /\ qty # 0
  <2>1. w = InsertAt(v, at, e) BY <1>9 DEF Edited, n, e
  <2>2. /\ InsertAt(v, at, e) \in Seq(Int \X Int) /\ Len(InsertAt(v, at, e)) = n + 1
        /\ \A i \in 1 .. n + 1 : InsertAt(v, at, e)[i] =
             IF i < at THEN v[i] ELSE IF i = at THEN e ELSE v[i - 1]
    <3>1. v \in Seq(Int \X Int) /\ at \in 1 .. Len(v) + 1 BY <1>2, <1>5 DEF n
    <3> DEFINE S == Int \X Int
    <3>2. v \in Seq(S) /\ e \in S BY <1>4, <3>1
    <3> HIDE DEF S
    <3>3. /\ InsertAt(v, at, e) \in Seq(S) /\ Len(InsertAt(v, at, e)) = Len(v) + 1
          /\ \A i \in 1 .. Len(v) + 1 : InsertAt(v, at, e)[i] =
               IF i < at THEN v[i] ELSE IF i = at THEN e ELSE v[i - 1]
      BY <3>1, <3>2, Inserted
    <3> QED BY <3>3 DEF n, S
  <2>3. ASSUME NEW i \in 1 .. n, ~(i < at) PROVE Better(side, px, v[i][1])
    <3>1. ~Better(side, v[i][1], px) BY <1>2, <2>3
    <3>2. at \in 1 .. n /\ v[at][1] # px BY <1>1, <1>2, <1>9, <2>3
    <3>3. v[i][1] # px
      <4>1. CASE i = at BY <3>2, <4>1
      <4>2. CASE i # at
        <5>1. at < i BY <1>2, <1>1, <2>3, <4>2
        <5>2. Better(side, v[at][1], v[i][1]) BY <1>3, <3>2, <5>1
        <5>3. ~Better(side, v[at][1], px) BY <1>2, <3>2
        <5> QED BY <5>2, <5>3
      <4> QED BY <4>1, <4>2
    <3> QED BY <1>1, <3>1, <3>3, BetterOrder
  <2> HIDE DEF w
  <2>4. ASSUME NEW i \in 1 .. Len(w) - 1 PROVE Better(side, w[i][1], w[i + 1][1])
    <3>0. Len(w) = n + 1 BY <2>1, <2>2
    <3>1. i \in 1 .. n /\ i \in 1 .. n + 1 /\ i + 1 \in 1 .. n + 1 /\ (i + 1) - 1 = i
      BY <1>1, <3>0
    <3>2. /\ w[i] = IF i < at THEN v[i] ELSE IF i = at THEN e ELSE v[i - 1]
          /\ w[i + 1] = IF i + 1 < at THEN v[i + 1] ELSE IF i + 1 = at THEN e ELSE v[i]
      BY <2>1, <2>2, <3>1
    <3>3. CASE i + 1 < at
      <4>1. i < at /\ i + 1 \in 1 .. n /\ i < i + 1 BY <1>1, <1>2, <3>1, <3>3
      <4> QED BY <1>3, <3>1, <3>2, <3>3, <4>1
    <3>4. CASE i + 1 = at
      <4>1. i < at /\ ~(i + 1 < at) BY <1>1, <1>2, <3>1, <3>4
      <4>2. w[i] = v[i] /\ w[i + 1] = e BY <3>2, <3>4, <4>1
      <4> QED BY <1>2, <1>4, <3>1, <4>1, <4>2
    <3>5. CASE i = at
      <4>1. ~(i + 1 < at) /\ i + 1 # at /\ ~(i < at) BY <1>2, <3>1, <3>5
      <4> QED BY <1>4, <2>3, <3>1, <3>2, <3>5, <4>1
    <3>6. CASE i > at
      <4>1. /\ ~(i + 1 < at) /\ i + 1 # at /\ ~(i < at) /\ i # at
            /\ i - 1 \in 1 .. n /\ i - 1 < i
        BY <1>1, <1>2, <3>1, <3>6
      <4> QED BY <1>3, <3>1, <3>2, <4>1
    <3> QED BY <1>2, <3>1, <3>3, <3>4, <3>5, <3>6
  <2> QED BY <1>5, <2>1, <2>2, <2>4 DEF Ordered, w
<1> QED BY <1>6, <1>7, <1>8, <1>9

\* Every other level stays, and the price has the quantity unless it is zero
\* (sorted_vec.rs:24-39, rev_vec.rs:26-49).
LEMMA EditedHas ==
  ASSUME NEW side, NEW v \in Ladders, Ordered(side, v), NEW px \in Int,
         NEW qty \in Int, NEW at, Place(side, v, px, at)
  PROVE  \A p, q : Has(Edited(v, px, qty, at), p, q)
                     <=> IF p = px THEN qty # 0 /\ q = qty ELSE Has(v, p, q)
<1> DEFINE w == Edited(v, px, qty, at)
           n == Len(v)
           e == <<px, qty>>
<1>1. /\ n \in Nat
      /\ \A i \in 1 .. n : v[i] \in Int \X Int /\ v[i][1] \in Int
                           /\ v[i] = <<v[i][1], v[i][2]>>
  BY LevelParts
<1>2. /\ at \in 1 .. n + 1
      /\ \A i \in 1 .. n : Better(side, v[i][1], px) <=> i < at
  BY DEF Place
<1>3. \A p, q : <<p, q>>[1] = p /\ <<p, q>>[2] = q OBVIOUS
<1>4. e \in Int \X Int /\ e[1] = px /\ e = <<px, qty>> OBVIOUS
<1>5. Ladders = Seq(Int \X Int) BY DEF Ladders
<1>6. ASSUME NEW i \in 1 .. n, v[i][1] = px PROVE i = at /\ at <= n /\ v[at][1] = px
  <2>1. ~(i < at) BY <1>1, <1>2, <1>6, BetterOrder
  <2>2. at \in 1 .. n BY <1>1, <1>2, <2>1
  <2>3. v[at][1] \in Int /\ ~Better(side, v[at][1], px) BY <1>1, <1>2, <2>2
  <2>4. CASE i # at
    <3>1. at < i BY <1>2, <2>1, <2>4
    <3>2. Better(side, v[at][1], v[i][1]) BY <2>2, <3>1, Pairwise
    <3> QED BY <1>6, <2>3, <3>2
  <2> QED BY <1>6, <2>2, <2>4
<1> HIDE DEF n, e
<1>7. \A p, q : Has(v, p, q) <=> \E i \in 1 .. n : v[i] = <<p, q>> BY DEF Has, n
<1>8. \A p, q : Has(w, p, q) <=> \E i \in 1 .. Len(w) : w[i] = <<p, q>> BY DEF Has
<1>9. CASE at <= n /\ v[at][1] = px /\ qty = 0
  <2>1. w = RemoveAt(v, at) BY <1>9 DEF Edited, n
  <2>2. at \in 1 .. n BY <1>1, <1>2, <1>9
  <2>3. /\ Len(RemoveAt(v, at)) = n - 1
        /\ \A i \in 1 .. n - 1 :
             RemoveAt(v, at)[i] = IF i < at THEN v[i] ELSE v[i + 1]
    BY <1>5, <2>2, Removed DEF n
  <2> HIDE DEF w
  <2>4. ASSUME NEW p, NEW q, NEW i \in 1 .. Len(w), w[i] = <<p, q>>
        PROVE  p # px /\ Has(v, p, q)
    <3>1. i \in 1 .. n - 1 BY <2>1, <2>3
    <3>2. \E j \in 1 .. n : j # at /\ w[i] = v[j]
      <4>1. w[i] = IF i < at THEN v[i] ELSE v[i + 1] BY <2>1, <2>3, <3>1
      <4>2. i < at => i \in 1 .. n /\ i # at BY <1>1, <1>2, <3>1
      <4>3. ~(i < at) => i + 1 \in 1 .. n /\ i + 1 # at BY <1>1, <1>2, <3>1
      <4> QED BY <4>1, <4>2, <4>3
    <3>3. PICK j \in 1 .. n : j # at /\ w[i] = v[j] BY <3>2
    <3>4. v[j][1] = p BY <1>3, <2>4, <3>3
    <3> QED BY <1>6, <1>7, <2>4, <3>3, <3>4
  <2>5. ASSUME NEW p, NEW q, p # px, NEW j \in 1 .. n, v[j] = <<p, q>>
        PROVE  \E i \in 1 .. Len(w) : w[i] = <<p, q>>
    <3>1. j # at BY <1>3, <1>9, <2>5
    <3>2. CASE j < at
      <4>1. j \in 1 .. n - 1 BY <1>1, <2>2, <3>2
      <4> QED BY <2>1, <2>3, <2>5, <3>2, <4>1
    <3>3. CASE j > at
      <4>1. j - 1 \in 1 .. n - 1 /\ ~(j - 1 < at) /\ (j - 1) + 1 = j
        BY <1>1, <2>2, <3>3
      <4>2. w[j - 1] = v[j] BY <2>1, <2>3, <4>1
      <4> QED BY <2>1, <2>3, <2>5, <4>1, <4>2
    <3> QED BY <2>2, <3>1, <3>2, <3>3
  <2>10. ASSUME NEW p, NEW q
         PROVE  Has(w, p, q) <=> IF p = px THEN qty # 0 /\ q = qty ELSE Has(v, p, q)
    <3>1. CASE p = px
      <4>1. ASSUME Has(w, p, q) PROVE FALSE
        <5>1. PICK i \in 1 .. Len(w) : w[i] = <<p, q>> BY <1>8, <4>1
        <5> QED BY <2>4, <3>1, <5>1
      <4> QED BY <1>9, <3>1, <4>1
    <3>2. CASE p # px
      <4>1. ASSUME Has(w, p, q) PROVE Has(v, p, q)
        <5>1. PICK i \in 1 .. Len(w) : w[i] = <<p, q>> BY <1>8, <4>1
        <5> QED BY <2>4, <3>2, <5>1
      <4>2. ASSUME Has(v, p, q) PROVE Has(w, p, q)
        <5>1. PICK j \in 1 .. n : v[j] = <<p, q>> BY <1>7, <4>2
        <5> QED BY <1>8, <2>5, <3>2, <5>1
      <4> QED BY <3>2, <4>1, <4>2
    <3> QED BY <3>1, <3>2
  <2> QED BY <2>10 DEF w
<1>10. CASE at <= n /\ v[at][1] = px /\ qty # 0
  <2>1. w = ReplaceAt(v, at, e) BY <1>10 DEF Edited, n, e
  <2>2. at \in 1 .. n BY <1>1, <1>2, <1>10
  <2>3. DOMAIN v = 1 .. n BY LevelParts DEF n
  <2>4. w = [i \in 1 .. n |-> IF i = at THEN e ELSE v[i]] BY <2>1, <2>3 DEF ReplaceAt
  <2> HIDE DEF w
  <2>5. Len(w) = n BY <1>1, <2>4
  <2>6. w[at] = e /\ \A i \in 1 .. n : i # at => w[i] = v[i] BY <2>2, <2>4
  <2>7. ASSUME NEW p, NEW q, NEW i \in 1 .. n, w[i] = <<p, q>>
        PROVE  IF p = px THEN q = qty ELSE \E j \in 1 .. n : v[j] = <<p, q>>
    <3>1. CASE i = at
      <4>1. <<p, q>> = <<px, qty>> BY <1>4, <2>6, <2>7, <3>1
      <4> QED BY <1>3, <4>1
    <3>2. CASE i # at
      <4>1. v[i] = <<p, q>> /\ v[i][1] = p BY <1>3, <2>6, <2>7, <3>2
      <4> QED BY <1>6, <3>2, <4>1
    <3> QED BY <3>1, <3>2
  <2>8. ASSUME NEW p, NEW q, p # px, NEW j \in 1 .. n, v[j] = <<p, q>>
        PROVE  w[j] = <<p, q>>
    <3>1. j # at BY <1>3, <1>10, <2>8
    <3> QED BY <2>6, <2>8, <3>1
  <2>9. w[at] = <<px, qty>> BY <1>4, <2>6
  <2>10. ASSUME NEW p, NEW q
         PROVE  Has(w, p, q) <=> IF p = px THEN qty # 0 /\ q = qty ELSE Has(v, p, q)
    <3>1. CASE p = px BY <1>7, <1>8, <1>10, <2>2, <2>5, <2>7, <2>8, <2>9, <3>1
    <3>2. CASE p # px
      <4>1. ASSUME Has(w, p, q) PROVE Has(v, p, q)
        <5>1. PICK i \in 1 .. Len(w) : w[i] = <<p, q>> BY <1>8, <4>1
        <5> QED BY <1>7, <2>5, <2>7, <3>2, <5>1
      <4>2. ASSUME Has(v, p, q) PROVE Has(w, p, q)
        <5>1. PICK j \in 1 .. n : v[j] = <<p, q>> BY <1>7, <4>2
        <5> QED BY <1>8, <2>5, <2>8, <3>2, <5>1
      <4> QED BY <3>2, <4>1, <4>2
    <3> QED BY <3>1, <3>2
  <2> QED BY <2>10 DEF w
<1>11. CASE ~(at <= n /\ v[at][1] = px) /\ qty = 0
  <2>1. w = v BY <1>11 DEF Edited, n
  <2>2. ASSUME NEW q, Has(v, px, q) PROVE FALSE
    <3>1. PICK i \in 1 .. n : v[i] = <<px, q>> BY <1>7, <2>2
    <3>2. v[i][1] = px BY <1>3, <3>1
    <3> QED BY <1>6, <1>11, <3>2
  <2> QED BY <1>11, <2>1, <2>2
<1>12. CASE ~(at <= n /\ v[at][1] = px) /\ qty # 0
  <2>1. w = InsertAt(v, at, e) BY <1>12 DEF Edited, n, e
  <2>2. /\ Len(InsertAt(v, at, e)) = n + 1
        /\ \A i \in 1 .. n + 1 : InsertAt(v, at, e)[i] =
             IF i < at THEN v[i] ELSE IF i = at THEN e ELSE v[i - 1]
    <3>1. v \in Seq(Int \X Int) /\ at \in 1 .. Len(v) + 1 BY <1>2, <1>5 DEF n
    <3> DEFINE S == Int \X Int
    <3>2. v \in Seq(S) /\ e \in S BY <1>4, <3>1
    <3> HIDE DEF S
    <3>3. /\ InsertAt(v, at, e) \in Seq(S) /\ Len(InsertAt(v, at, e)) = Len(v) + 1
          /\ \A i \in 1 .. Len(v) + 1 : InsertAt(v, at, e)[i] =
               IF i < at THEN v[i] ELSE IF i = at THEN e ELSE v[i - 1]
      BY <3>1, <3>2, Inserted
    <3> QED BY <3>3 DEF n
  <2> HIDE DEF w
  <2>3. Len(w) = n + 1 BY <2>1, <2>2
  <2>4. ASSUME NEW p, NEW q, NEW i \in 1 .. n + 1, w[i] = <<p, q>>
        PROVE  IF p = px THEN q = qty ELSE \E j \in 1 .. n : v[j] = <<p, q>>
    <3>1. CASE i = at
      <4>1. w[i] = e BY <2>1, <2>2, <3>1
      <4>2. <<p, q>> = <<px, qty>> BY <1>4, <2>4, <4>1
      <4> QED BY <1>3, <4>2
    <3>2. CASE i # at
      <4>1. w[i] = IF i < at THEN v[i] ELSE v[i - 1] BY <2>1, <2>2, <3>2
      <4>2. i < at => i \in 1 .. n BY <1>1, <1>2
      <4>3. ~(i < at) => i - 1 \in 1 .. n BY <1>1, <1>2, <3>2
      <4>4. PICK j \in 1 .. n : w[i] = v[j] BY <4>1, <4>2, <4>3
      <4>5. v[j] = <<p, q>> /\ v[j][1] = p BY <1>3, <2>4, <4>4
      <4>6. p # px BY <1>6, <1>12, <4>5
      <4> QED BY <4>5, <4>6
    <3> QED BY <3>1, <3>2
  <2>5. ASSUME NEW p, NEW q, p # px, NEW j \in 1 .. n, v[j] = <<p, q>>
        PROVE  \E i \in 1 .. n + 1 : w[i] = <<p, q>>
    <3>1. CASE j < at
      <4>1. j \in 1 .. n + 1 BY <1>1
      <4> QED BY <2>1, <2>2, <2>5, <3>1, <4>1
    <3>2. CASE ~(j < at)
      <4>1. j + 1 \in 1 .. n + 1 /\ ~(j + 1 < at) /\ j + 1 # at /\ (j + 1) - 1 = j
        BY <1>1, <1>2, <3>2
      <4>2. w[j + 1] = v[j] BY <2>1, <2>2, <4>1
      <4> QED BY <2>5, <4>1, <4>2
    <3> QED BY <3>1, <3>2
  <2>6. at \in 1 .. n + 1 /\ w[at] = <<px, qty>>
    <3>1. at \in 1 .. n + 1 /\ ~(at < at) BY <1>1, <1>2
    <3>2. w[at] = e BY <2>1, <2>2, <3>1
    <3> QED BY <1>4, <3>1, <3>2
  <2>10. ASSUME NEW p, NEW q
         PROVE  Has(w, p, q) <=> IF p = px THEN qty # 0 /\ q = qty ELSE Has(v, p, q)
    <3>1. CASE p = px BY <1>7, <1>8, <1>12, <2>3, <2>4, <2>5, <2>6, <3>1
    <3>2. CASE p # px
      <4>1. ASSUME Has(w, p, q) PROVE Has(v, p, q)
        <5>1. PICK i \in 1 .. Len(w) : w[i] = <<p, q>> BY <1>8, <4>1
        <5> QED BY <1>7, <2>3, <2>4, <3>2, <5>1
      <4>2. ASSUME Has(v, p, q) PROVE Has(w, p, q)
        <5>1. PICK j \in 1 .. n : v[j] = <<p, q>> BY <1>7, <4>2
        <5> QED BY <1>8, <2>3, <2>5, <3>2, <5>1
      <4> QED BY <3>2, <4>1, <4>2
    <3> QED BY <3>1, <3>2
  <2> QED BY <2>10 DEF w
<1> QED BY <1>9, <1>10, <1>11, <1>12

\* A map with price px set, or removed by a zero.
Updated(m, px, qty) ==
  IF qty = 0 THEN [p \in DOMAIN m \ {px} |-> m[p]]
             ELSE [p \in DOMAIN m \cup {px} |-> IF p = px THEN qty ELSE m[p]]

\* The edited vector stands for the updated map (sorted_vec.rs:24-39,
\* rev_vec.rs:26-49).
LEMMA EditedMap ==
  ASSUME NEW side, NEW v \in Ladders, Ordered(side, v), NEW px \in Int,
         NEW qty \in Int, NEW at, Place(side, v, px, at)
  PROVE  LadderMap(Edited(v, px, qty, at)) = Updated(LadderMap(v), px, qty)
<1> DEFINE w == Edited(v, px, qty, at)
           f == LadderMap(w)
           h == LadderMap(v)
           g == Updated(h, px, qty)
<1>1. w \in Ladders /\ Ordered(side, w) BY EditedOrdered
<1>2. \A p, q : Has(w, p, q) <=> IF p = px THEN qty # 0 /\ q = qty ELSE Has(v, p, q)
  BY EditedHas
<1> HIDE DEF w
<1>3. /\ \A p : p \in DOMAIN f <=> \E q : Has(w, p, q)
      /\ \A p, q : Has(w, p, q) => f[p] = q
  BY <1>1, LadderMapParts
<1>4. /\ \A p : p \in DOMAIN h <=> \E q : Has(v, p, q)
      /\ \A p, q : Has(v, p, q) => h[p] = q
  BY LadderMapParts
<1>5. f = [p \in DOMAIN f |-> f[p]] BY DEF LadderMap
<1>6. g = [p \in DOMAIN g |-> g[p]] BY DEF Updated
<1> HIDE DEF f, h
<1>7. /\ DOMAIN g = IF qty = 0 THEN DOMAIN h \ {px} ELSE DOMAIN h \cup {px}
      /\ \A p \in DOMAIN g : g[p] = IF p = px THEN qty ELSE h[p]
  BY DEF Updated
<1> HIDE DEF g
<1>8. \A p : p \in DOMAIN f <=> p \in DOMAIN g
  <2> SUFFICES ASSUME NEW p PROVE p \in DOMAIN f <=> p \in DOMAIN g OBVIOUS
  <2>1. CASE p = px
    <3>1. p \in DOMAIN f <=> qty # 0 BY <1>2, <1>3, <2>1
    <3>2. p \in DOMAIN g <=> qty # 0 BY <1>7, <2>1
    <3> QED BY <3>1, <3>2
  <2>2. CASE p # px
    <3>1. p \in DOMAIN f <=> p \in DOMAIN h BY <1>2, <1>3, <1>4, <2>2
    <3>2. p \in DOMAIN g <=> p \in DOMAIN h BY <1>7, <2>2
    <3> QED BY <3>1, <3>2
  <2> QED BY <2>1, <2>2
<1>9. \A p \in DOMAIN f : f[p] = g[p]
  <2> SUFFICES ASSUME NEW p \in DOMAIN f PROVE f[p] = g[p] OBVIOUS
  <2>1. PICK q : Has(w, p, q) BY <1>3
  <2>2. f[p] = q BY <1>3, <2>1
  <2>3. g[p] = IF p = px THEN qty ELSE h[p] BY <1>7, <1>8
  <2>4. p # px => h[p] = q BY <1>2, <1>4, <2>1
  <2>5. p = px => q = qty BY <1>2, <2>1
  <2> QED BY <2>2, <2>3, <2>4, <2>5
<1>10. f = g BY <1>5, <1>6, <1>8, <1>9, SameMap
<1> QED BY <1>10 DEF f, g, h, w

\* The empty vector is in order and stands for the empty map.
LEMMA EmptyLadder ==
  /\ <<>> \in Ladders /\ \A side : Ordered(side, <<>>)
  /\ LadderMap(<<>>) = [p \in {} |-> 0]
<1>1. <<>> \in Ladders BY DEF Ladders
<1>2. \A side : Ordered(side, <<>>) BY DEF Ordered
<1>3. {<<>>[i][1] : i \in DOMAIN <<>>} = {} OBVIOUS
<1>4. LadderMap(<<>>) = [p \in {} |-> 0]
  <2> DEFINE f == LadderMap(<<>>)
             g == [p \in {} |-> 0]
  <2>1. f = [p \in DOMAIN f |-> f[p]] /\ DOMAIN f = {} BY <1>3 DEF LadderMap
  <2>2. g = [p \in DOMAIN g |-> g[p]] /\ DOMAIN g = {} OBVIOUS
  <2> HIDE DEF f, g
  <2>3. \A p : p \in DOMAIN f <=> p \in DOMAIN g BY <2>1, <2>2
  <2>4. \A p \in DOMAIN f : f[p] = g[p] BY <2>1
  <2>5. f = g BY <2>1, <2>2, <2>3, <2>4, SameMap
  <2> QED BY <2>5 DEF f, g
<1> QED BY <1>1, <1>2, <1>4

\* The map has as many prices as the vector has levels.
LEMMA LadderDepth ==
  ASSUME NEW side, NEW v \in Ladders, Ordered(side, v)
  PROVE  Cardinality(DOMAIN LadderMap(v)) = Len(v)
<1> DEFINE n == Len(v)
           P == {v[i][1] : i \in 1 .. n}
           f == [i \in 1 .. n |-> v[i][1]]
<1>1. n \in Nat /\ DOMAIN v = 1 .. n BY LevelParts
<1>2. \A i, j \in 1 .. n : v[i][1] = v[j][1] => i = j BY OneLevel
<1>3. DOMAIN LadderMap(v) = P BY <1>1 DEF LadderMap
<1> HIDE DEF n
<1>4. f \in Bijection(1 .. n, P)
  <2>1. f \in [1 .. n -> P] /\ DOMAIN f = 1 .. n BY DEF f, P
  <2>2. \A i \in 1 .. n : f[i] = v[i][1] BY DEF f
  <2>3. \A p \in P : \E i \in 1 .. n : p = v[i][1] BY DEF P
  <2> HIDE DEF f, P
  <2>4. \A i, j \in 1 .. n : f[i] = f[j] => i = j BY <1>2, <2>2
  <2>5. \A p \in P : \E i \in 1 .. n : f[i] = p BY <2>2, <2>3
  <2> QED BY <2>1, <2>4, <2>5 DEF Bijection, Injection, Surjection, IsInjective
<1>5. IsFiniteSet(1 .. n) /\ Cardinality(1 .. n) = n BY <1>1, FS_Interval
<1> HIDE DEF f, P
<1>6. ExistsBijection(1 .. n, P) BY <1>4 DEF ExistsBijection
<1>7. Cardinality(P) = n BY <1>5, <1>6, FS_Bijection
<1> QED BY <1>3, <1>7 DEF n

-------------------------------------------------------------------------------
(* The searches of the vector books *)

\* The positions of the prices below px come first, so their number is where the
\* binary search ends (sorted_vec.rs:24-39).
LEMMA SearchPlaces ==
  ASSUME NEW v \in Ladders, Ordered("Ask", v), NEW px \in Int
  PROVE  Place("Ask", v, px, Sorted!Search(v, px))
<1> DEFINE n == Len(v)
           S == {i \in 1 .. n : v[i][1] < px}
           T == {i \in 1 .. n + 1 : i \notin S}
<1>1. n \in Nat /\ DOMAIN v = 1 .. n /\ \A i \in 1 .. n : v[i][1] \in Int
  BY LevelParts
<1>2. \A i, j \in 1 .. n : i < j => v[i][1] < v[j][1] BY Pairwise DEF Better
<1> HIDE DEF n
<1>3. T \subseteq Nat /\ n + 1 \in T BY <1>1
<1>4. PICK at \in T : \A i \in T : at <= i BY <1>3, Least
<1>5. ASSUME NEW i \in 1 .. n PROVE v[i][1] < px <=> i < at
  <2>1. ASSUME i < at PROVE v[i][1] < px BY <1>1, <1>4, <2>1
  <2>2. ASSUME v[i][1] < px, ~(i < at) PROVE FALSE
    <3>1. at \in 1 .. n /\ ~(v[at][1] < px) /\ i # at /\ at < i
      BY <1>1, <1>4, <2>2
    <3>2. v[at][1] < v[i][1] BY <1>2, <3>1
    <3>3. v[at][1] \in Int /\ v[i][1] \in Int BY <1>1, <3>1
    <3> QED BY <2>2, <3>1, <3>2, <3>3
  <2> QED BY <2>1, <2>2
<1>6. at \in 1 .. n + 1 BY <1>4
<1>7. S = 1 .. at - 1 BY <1>1, <1>5, <1>6
<1>8. Cardinality(S) = at - 1
  <2>1. 1 \in Int /\ at - 1 \in Int /\ at >= 1 BY <1>1, <1>6
  <2> HIDE DEF S
  <2>2. Cardinality(1 .. at - 1) = IF 1 > at - 1 THEN 0 ELSE (at - 1) - 1 + 1
    BY <2>1, FS_Interval
  <2> QED BY <1>7, <2>1, <2>2
<1>9. Sorted!Search(v, px) = at
  <2>1. Sorted!Search(v, px) = Cardinality(S) + 1
    BY <1>1 DEF Sorted!Search, Sorted!Cardinality, Cardinality
  <2> QED BY <1>6, <1>8, <2>1
<1> QED BY <1>5, <1>6, <1>9 DEF Place, Better, n

\* The binary search's update edits the vector at the place it found.
LEMMA SortedEdits ==
  ASSUME NEW v \in Ladders, NEW px \in Int, NEW qty \in Int
  PROVE  Sorted!UpdateAscending(v, px, qty) = Edited(v, px, qty, Sorted!Search(v, px))
BY DEF Sorted!UpdateAscending, Sorted!Holds, Edited, Sorted!RemoveAt, RemoveAt,
       Sorted!InsertAt, InsertAt, Sorted!ReplaceAt, ReplaceAt

\* Where the scan from the best end stops, or the end when it finds nothing.
Stop(v, px, ascending) ==
  IF Rev!Scan(v, px, ascending) = 0 THEN Len(v) + 1 ELSE Rev!Scan(v, px, ascending)

\* The scan passes the better prices and stops (rev_vec.rs:26-49).
LEMMA ScanPlaces ==
  ASSUME NEW side \in Side, NEW v \in Ladders, Ordered(side, v), NEW px \in Int
  PROVE  /\ Rev!Scan(v, px, side = "Ask") \in 0 .. Len(v)
         /\ Place(side, v, px, Stop(v, px, side = "Ask"))
<1> DEFINE n == Len(v)
           S == {i \in 1 .. n : ~Better(side, v[i][1], px)}
           k == Rev!Scan(v, px, side = "Ask")
<1>1. n \in Nat /\ \A i \in 1 .. n : v[i][1] \in Int BY LevelParts
<1>2. \A i, j \in 1 .. n : i < j => Better(side, v[i][1], v[j][1]) BY Pairwise
<1>3. k = IF S # {} THEN CHOOSE x \in S : \A y \in S : x <= y ELSE 0
  <2>1. \A i \in 1 .. n : ~Better(side, v[i][1], px)
          <=> IF side = "Ask" THEN v[i][1] >= px ELSE v[i][1] <= px
    BY <1>1 DEF Better, Side
  <2>2. S = {i \in 1 .. n : IF side = "Ask" THEN v[i][1] >= px ELSE v[i][1] <= px}
    BY <2>1
  <2> HIDE DEF S
  <2> QED BY <2>2 DEF Rev!Scan, Rev!SelectInSeq, Rev!Min
<1> HIDE DEF n, k
<1>4. CASE S = {}
  <2>1. k = 0 BY <1>3, <1>4
  <2>2. \A i \in 1 .. n : Better(side, v[i][1], px) /\ i < n + 1 BY <1>1, <1>4
  <2> QED BY <1>1, <2>1, <2>2 DEF Place, Stop, n, k
<1>5. CASE S # {}
  <2>1. S \subseteq Nat OBVIOUS
  <2> HIDE DEF S
  <2>2. \E x \in S : \A y \in S : x <= y BY <1>5, <2>1, Least
  <2>3. k \in S /\ \A y \in S : k <= y BY <1>3, <1>5, <2>2
  <2>4. k \in 1 .. n /\ ~Better(side, v[k][1], px) BY <2>3 DEF S
  <2>5. ASSUME NEW i \in 1 .. n PROVE Better(side, v[i][1], px) <=> i < k
    <3>1. ASSUME i < k PROVE Better(side, v[i][1], px)
      <4>1. ~(k <= i) BY <1>1, <2>4, <3>1
      <4>2. i \notin S BY <2>3, <4>1
      <4> QED BY <4>2 DEF S
    <3>2. ASSUME Better(side, v[i][1], px), k < i PROVE FALSE
      <4>1. Better(side, v[k][1], v[i][1]) BY <1>2, <2>4, <3>2
      <4>2. v[k][1] \in Int /\ v[i][1] \in Int BY <1>1, <2>4
      <4> QED BY <2>4, <3>2, <4>1, <4>2, BetterOrder
    <3>3. i = k => ~Better(side, v[i][1], px) BY <2>4
    <3>4. i < k \/ i = k \/ k < i BY <1>1, <2>4
    <3>5. i < k => ~(k < i) BY <1>1, <2>4
    <3> QED BY <3>1, <3>2, <3>3, <3>4
  <2>6. k # 0 /\ k \in 1 .. n + 1 BY <1>1, <2>4
  <2>7. Stop(v, px, side = "Ask") = k BY <2>6 DEF Stop, k
  <2> QED BY <1>1, <2>4, <2>5, <2>6, <2>7 DEF Place, n, k
<1> QED BY <1>4, <1>5

\* The scan's update edits the vector at the place it found, or appends.
LEMMA RevEdits ==
  ASSUME NEW side \in Side, NEW v \in Ladders, Ordered(side, v), NEW px \in Int,
         NEW qty \in Int
  PROVE  Rev!UpdateBestFirst(v, px, qty, side = "Ask")
           = Edited(v, px, qty, Stop(v, px, side = "Ask"))
<1> DEFINE n == Len(v)
           k == Rev!Scan(v, px, side = "Ask")
<1>1. n \in Nat /\ k \in 0 .. n BY LevelParts, ScanPlaces
<1>2. InsertAt(v, n + 1, <<px, qty>>) = Append(v, <<px, qty>>)
  <2> DEFINE S == Int \X Int
             e == <<px, qty>>
             a == InsertAt(v, n + 1, e)
             b == Append(v, e)
  <2>1. v \in Seq(S) /\ e \in S BY DEF Ladders
  <2> HIDE DEF S, e
  <2>2. n + 1 \in 1 .. Len(v) + 1 BY <1>1
  <2>3. /\ a \in Seq(S) /\ Len(a) = n + 1
        /\ \A i \in 1 .. n + 1 : a[i] = IF i < n + 1 THEN v[i] ELSE
                                        IF i = n + 1 THEN e ELSE v[i - 1]
    <3> DEFINE at == n + 1
    <3>1. at \in 1 .. Len(v) + 1 BY <2>2
    <3> HIDE DEF at
    <3>2. /\ InsertAt(v, at, e) \in Seq(S) /\ Len(InsertAt(v, at, e)) = Len(v) + 1
          /\ \A i \in 1 .. Len(v) + 1 : InsertAt(v, at, e)[i] =
               IF i < at THEN v[i] ELSE IF i = at THEN e ELSE v[i - 1]
      BY <2>1, <3>1, Inserted
    <3> QED BY <3>2 DEF at
  <2>4. /\ b \in Seq(S) /\ Len(b) = n + 1 /\ b[n + 1] = e
        /\ \A i \in 1 .. n : b[i] = v[i]
    BY <2>1, AppendProperties
  <2> HIDE DEF a, b, n
  <2>5. ASSUME NEW i \in 1 .. n + 1 PROVE a[i] = b[i]
    <3>1. CASE i = n + 1 BY <1>1, <2>3, <2>4, <3>1
    <3>2. CASE i # n + 1
      <4>1. i \in 1 .. n /\ i < n + 1 BY <1>1, <3>2
      <4> QED BY <2>3, <2>4, <4>1
    <3> QED BY <3>1, <3>2
  <2>6. a = b BY <2>3, <2>4, <2>5, SeqEqual
  <2> QED BY <2>6 DEF a, b, e, n
<1>3. Stop(v, px, side = "Ask") = IF k = 0 THEN n + 1 ELSE k BY DEF Stop
<1>4. k # 0 <=> (IF k = 0 THEN n + 1 ELSE k) <= n BY <1>1
<1> QED
  BY <1>1, <1>2, <1>3, <1>4
  DEF Rev!UpdateBestFirst, Edited, Rev!RemoveAt, RemoveAt, Rev!InsertAt, InsertAt,
      Rev!ReplaceAt, ReplaceAt

-------------------------------------------------------------------------------
(* One event on the levels of a book *)

\* The levels of both sides and the last trade, before and after the event, as
\* the BTreeBook moves them (btree.rs:51-69).
Moves(ev, maps, deal, maps2, deal2) ==
  \/ /\ ev.kind = "Level"
     /\ maps2 = [maps EXCEPT ![ev.side] = Updated(@, ev.px, ev.qty)]
     /\ deal2 = deal
  \/ /\ ev.kind = "Trade"
     /\ maps2 = maps
     /\ deal2 = <<ev.px, ev.qty, ev.side>>
  \/ /\ ev.kind = "Clear"
     /\ maps2 = [side \in Side |-> [px \in {} |-> 0]]
     /\ deal2 = None

\* An event has one effect.
LEMMA MovesOnce ==
  ASSUME NEW ev, NEW maps, NEW deal, NEW maps2, NEW deal2, NEW maps3, NEW deal3,
         Moves(ev, maps, deal, maps2, deal2), Moves(ev, maps, deal, maps3, deal3)
  PROVE  maps2 = maps3 /\ deal2 = deal3
BY DEF Moves

\* The maps that a pair of vectors stands for, and one side of them updated.
LadderMaps(vecs) == [side \in Side |-> LadderMap(vecs[side])]
SideUpdated(maps, side, px, qty) == [maps EXCEPT ![side] = Updated(@, px, qty)]

SortedMaps == LadderMaps(sorted)
RevMaps    == LadderMaps(rev)

\* The steps of the BTreeBook itself.
LEMMA TreeMoves ==
  \A ev : BTree!Apply(ev) <=> Moves(ev, tree, treeTrade, tree', treeTrade') /\ last' = ev
BY DEF BTree!Apply, BTree!ApplyLevel, BTree!ApplyTrade, BTree!ApplyClear, Moves,
       BTree!Update, BTree!With, BTree!Without, Updated, BTree!NoLevels, BTree!Empty,
       BTree!Side, Side, BTree!None, None

\* And of the BTreeBooks that the other books are mapped to.
LEMMA FlatMoves ==
  \A ev : Book!Apply(ev) <=> Moves(ev, Maps, trade, Maps', trade') /\ last' = ev
<1>1. \A m, px, qty : Book!Update(m, px, qty) = Updated(m, px, qty)
  BY DEF Book!Update, Book!With, Book!Without, Updated
<1>2. Maps = [side \in Side |-> Map(side)] BY DEF Maps, MapOf, Map
<1>3. Maps' = [side \in Side |-> Map(side)'] BY DEF Maps, MapOf, Map
<1>4. /\ Book!Side = Side /\ Book!None = None
      /\ Book!NoLevels = [side \in Side |-> [px \in {} |-> 0]]
  BY DEF Book!Side, Side, Book!None, None, Book!NoLevels, Book!Empty
<1> QED
  BY <1>1, <1>2, <1>3, <1>4
  DEF Book!Apply, Book!ApplyLevel, Book!ApplyTrade, Book!ApplyClear, Moves

\* The vectors in ascending order are mapped to the BTreeBook's maps.
LEMMA SortedMoves ==
  \A ev : Sorted!Book!Apply(ev)
            <=> Moves(ev, SortedMaps, sortedTrade, SortedMaps', sortedTrade') /\ last' = ev
<1>1. \A m, px, qty : Sorted!Book!Update(m, px, qty) = Updated(m, px, qty)
  BY DEF Sorted!Book!Update, Sorted!Book!With, Sorted!Book!Without, Updated
<1>2. SortedMaps = [side \in Side |-> Sorted!Map(side)]
  BY DEF SortedMaps, LadderMaps, LadderMap, Sorted!Map
<1>3. SortedMaps' = [side \in Side |-> Sorted!Map(side)']
  BY DEF SortedMaps, LadderMaps, LadderMap, Sorted!Map
<1>4. /\ Sorted!Book!Side = Side /\ Sorted!Side = Side /\ Sorted!Book!None = None
      /\ Sorted!Book!NoLevels = [side \in Side |-> [px \in {} |-> 0]]
  BY DEF Sorted!Book!Side, Sorted!Side, Side, Sorted!Book!None, None,
         Sorted!Book!NoLevels, Sorted!Book!Empty
<1> QED
  BY <1>1, <1>2, <1>3, <1>4
  DEF Sorted!Book!Apply, Sorted!Book!ApplyLevel, Sorted!Book!ApplyTrade,
      Sorted!Book!ApplyClear, Moves

\* And so are the vectors stored best first.
LEMMA RevMoves ==
  \A ev : Rev!Book!Apply(ev)
            <=> Moves(ev, RevMaps, revTrade, RevMaps', revTrade') /\ last' = ev
<1>1. \A m, px, qty : Rev!Book!Update(m, px, qty) = Updated(m, px, qty)
  BY DEF Rev!Book!Update, Rev!Book!With, Rev!Book!Without, Updated
<1>2. RevMaps = [side \in Side |-> Rev!Map(side)]
  BY DEF RevMaps, LadderMaps, LadderMap, Rev!Map
<1>3. RevMaps' = [side \in Side |-> Rev!Map(side)']
  BY DEF RevMaps, LadderMaps, LadderMap, Rev!Map
<1>4. /\ Rev!Book!Side = Side /\ Rev!Side = Side /\ Rev!Book!None = None
      /\ Rev!Book!NoLevels = [side \in Side |-> [px \in {} |-> 0]]
  BY DEF Rev!Book!Side, Rev!Side, Side, Rev!Book!None, None,
         Rev!Book!NoLevels, Rev!Book!Empty
<1> QED
  BY <1>1, <1>2, <1>3, <1>4
  DEF Rev!Book!Apply, Rev!Book!ApplyLevel, Rev!Book!ApplyTrade,
      Rev!Book!ApplyClear, Moves

-------------------------------------------------------------------------------
(* The vector books keep their order and move as the BTreeBook *)

\* Both sides of the one are ascending, of the other best first.
SortedInv ==
  /\ sorted \in [Side -> Ladders]
  /\ \A side \in Side : Ordered("Ask", sorted[side])

RevInv ==
  /\ rev \in [Side -> Ladders]
  /\ \A side \in Side : Ordered(side, rev[side])

\* A pair of vectors with one side edited.
SideEdited(vecs, side, px, qty, at) ==
  [vecs EXCEPT ![side] = Edited(vecs[side], px, qty, at)]

\* What one side's edit does to the two sides and their maps.
LEMMA OneSide ==
  ASSUME NEW vecs \in [Side -> Ladders], NEW order \in [Side -> Side],
         \A s \in Side : Ordered(order[s], vecs[s]),
         NEW side \in Side, NEW px \in Int, NEW qty \in Int, NEW at,
         Place(order[side], vecs[side], px, at)
  PROVE  /\ SideEdited(vecs, side, px, qty, at) \in [Side -> Ladders]
         /\ \A s \in Side : Ordered(order[s], SideEdited(vecs, side, px, qty, at)[s])
         /\ LadderMaps(SideEdited(vecs, side, px, qty, at))
              = SideUpdated(LadderMaps(vecs), side, px, qty)
<1> DEFINE next == SideEdited(vecs, side, px, qty, at)
           w == Edited(vecs[side], px, qty, at)
<1>1. vecs[side] \in Ladders /\ Ordered(order[side], vecs[side]) OBVIOUS
<1>2. w \in Ladders /\ Ordered(order[side], w) BY <1>1, EditedOrdered
<1>3. LadderMap(w) = Updated(LadderMap(vecs[side]), px, qty) BY <1>1, EditedMap
<1> HIDE DEF w
<1>4. next = [vecs EXCEPT ![side] = w] BY DEF w, SideEdited
<1> HIDE DEF next
<1>5. next \in [Side -> Ladders] BY <1>2, <1>4
<1>6. \A s \in Side : next[s] = IF s = side THEN w ELSE vecs[s] BY <1>4
<1>7. LadderMaps(next) = SideUpdated(LadderMaps(vecs), side, px, qty)
  BY <1>3, <1>6 DEF LadderMaps, SideUpdated
<1> QED BY <1>2, <1>5, <1>6, <1>7 DEF next

\* Events of every kind carry integers.
LEMMA EventInts ==
  ASSUME NEW ev \in Event, ev.kind = "Level"
  PROVE  ev.side \in Side /\ ev.px \in Int /\ ev.qty \in Int
BY EventParts, FlatBounds

\* Clear leaves two empty vectors.
LEMMA NoLadders ==
  ASSUME NEW vecs, vecs = [side \in Side |-> <<>>]
  PROVE  /\ vecs \in [Side -> Ladders]
         /\ \A s \in Side, o \in Side : Ordered(o, vecs[s])
         /\ LadderMaps(vecs) = [side \in Side |-> [px \in {} |-> 0]]
BY EmptyLadder DEF LadderMaps

\* A book over ascending vectors keeps them so (sorted_vec.rs:10-11).
LEMMA SortedStep ==
  ASSUME SortedInv, NEW ev \in Event, Sorted!Apply(ev)
  PROVE  SortedInv' /\ Moves(ev, SortedMaps, sortedTrade, SortedMaps', sortedTrade')
<1>1. CASE Sorted!ApplyLevel(ev)
  <2>1. /\ ev.kind = "Level" /\ sortedTrade' = sortedTrade
        /\ sorted' = [sorted EXCEPT ![ev.side] =
                        Sorted!UpdateAscending(sorted[ev.side], ev.px, ev.qty)]
    BY <1>1 DEF Sorted!ApplyLevel
  <2>2. ev.side \in Side /\ ev.px \in Int /\ ev.qty \in Int BY <2>1, EventInts
  <2> DEFINE v == sorted[ev.side]
             at == Sorted!Search(v, ev.px)
             order == [s \in Side |-> "Ask"]
  <2>3. v \in Ladders /\ Ordered("Ask", v) BY <2>2 DEF SortedInv
  <2>4. Place("Ask", v, ev.px, at) BY <2>2, <2>3, SearchPlaces
  <2>5. Sorted!UpdateAscending(v, ev.px, ev.qty) = Edited(v, ev.px, ev.qty, at)
    BY <2>2, <2>3, SortedEdits
  <2> HIDE DEF at
  <2>6. sorted' = [sorted EXCEPT ![ev.side] = Edited(sorted[ev.side], ev.px, ev.qty, at)]
    BY <2>1, <2>5
  <2>7. order \in [Side -> Side] /\ \A s \in Side : order[s] = "Ask" BY DEF Side
  <2> HIDE DEF order, v
  <2>8. /\ \A s \in Side : Ordered(order[s], sorted[s])
        /\ Place(order[ev.side], sorted[ev.side], ev.px, at)
        /\ sorted \in [Side -> Ladders]
    BY <2>2, <2>4, <2>7 DEF SortedInv, v
  <2>9. /\ sorted' \in [Side -> Ladders]
        /\ \A s \in Side : Ordered(order[s], sorted'[s])
        /\ LadderMaps(sorted') = SideUpdated(LadderMaps(sorted), ev.side, ev.px, ev.qty)
    <3>1. sorted' = SideEdited(sorted, ev.side, ev.px, ev.qty, at)
      BY <2>6 DEF SideEdited
    <3> QED BY <2>2, <2>7, <2>8, <3>1, OneSide
  <2> QED BY <2>1, <2>7, <2>9 DEF SortedInv, SortedMaps, Moves, SideUpdated
<1>2. CASE Sorted!ApplyTrade(ev)
  <2>1. /\ ev.kind = "Trade" /\ sorted' = sorted
        /\ sortedTrade' = <<ev.px, ev.qty, ev.side>>
    BY <1>2 DEF Sorted!ApplyTrade
  <2> QED BY <2>1 DEF SortedInv, SortedMaps, Moves
<1>3. CASE Sorted!ApplyClear(ev)
  <2>1. /\ ev.kind = "Clear" /\ sorted' = [side \in Side |-> <<>>]
        /\ sortedTrade' = None
    BY <1>3 DEF Sorted!ApplyClear, Sorted!Side, Side, Sorted!None, None
  <2>2. /\ sorted' \in [Side -> Ladders]
        /\ \A s \in Side, o \in Side : Ordered(o, sorted'[s])
        /\ LadderMaps(sorted') = [side \in Side |-> [px \in {} |-> 0]]
    BY <2>1, NoLadders
  <2>3. "Ask" \in Side BY DEF Side
  <2> QED BY <2>1, <2>2, <2>3 DEF SortedInv, SortedMaps, Moves
<1> QED BY <1>1, <1>2, <1>3 DEF Sorted!Apply

\* A book over vectors stored best first keeps them so (rev_vec.rs:12-13).
LEMMA RevStep ==
  ASSUME RevInv, NEW ev \in Event, Rev!Apply(ev)
  PROVE  RevInv' /\ Moves(ev, RevMaps, revTrade, RevMaps', revTrade')
<1>1. CASE Rev!ApplyLevel(ev)
  <2>1. /\ ev.kind = "Level" /\ revTrade' = revTrade
        /\ rev' = [rev EXCEPT ![ev.side] =
             Rev!UpdateBestFirst(rev[ev.side], ev.px, ev.qty, ev.side = "Ask")]
    BY <1>1 DEF Rev!ApplyLevel
  <2>2. ev.side \in Side /\ ev.px \in Int /\ ev.qty \in Int BY <2>1, EventInts
  <2> DEFINE v == rev[ev.side]
             at == Stop(v, ev.px, ev.side = "Ask")
             order == [s \in Side |-> s]
  <2>3. v \in Ladders /\ Ordered(ev.side, v) BY <2>2 DEF RevInv
  <2>4. Place(ev.side, v, ev.px, at) BY <2>2, <2>3, ScanPlaces
  <2>5. Rev!UpdateBestFirst(v, ev.px, ev.qty, ev.side = "Ask")
          = Edited(v, ev.px, ev.qty, at)
    BY <2>2, <2>3, RevEdits
  <2> HIDE DEF at
  <2>6. rev' = [rev EXCEPT ![ev.side] = Edited(rev[ev.side], ev.px, ev.qty, at)]
    BY <2>1, <2>5
  <2>7. order \in [Side -> Side] /\ \A s \in Side : order[s] = s OBVIOUS
  <2> HIDE DEF order, v
  <2>8. /\ \A s \in Side : Ordered(order[s], rev[s])
        /\ Place(order[ev.side], rev[ev.side], ev.px, at)
        /\ rev \in [Side -> Ladders]
    BY <2>2, <2>4, <2>7 DEF RevInv, v
  <2>9. /\ rev' \in [Side -> Ladders]
        /\ \A s \in Side : Ordered(order[s], rev'[s])
        /\ LadderMaps(rev') = SideUpdated(LadderMaps(rev), ev.side, ev.px, ev.qty)
    <3>1. rev' = SideEdited(rev, ev.side, ev.px, ev.qty, at)
      BY <2>6 DEF SideEdited
    <3> QED BY <2>2, <2>7, <2>8, <3>1, OneSide
  <2> QED BY <2>1, <2>7, <2>9 DEF RevInv, RevMaps, Moves, SideUpdated
<1>2. CASE Rev!ApplyTrade(ev)
  <2>1. /\ ev.kind = "Trade" /\ rev' = rev /\ revTrade' = <<ev.px, ev.qty, ev.side>>
    BY <1>2 DEF Rev!ApplyTrade
  <2> QED BY <2>1 DEF RevInv, RevMaps, Moves
<1>3. CASE Rev!ApplyClear(ev)
  <2>1. ev.kind = "Clear" /\ rev' = [side \in Side |-> <<>>] /\ revTrade' = None
    BY <1>3 DEF Rev!ApplyClear, Rev!Side, Side, Rev!None, None
  <2>2. /\ rev' \in [Side -> Ladders]
        /\ \A s \in Side, o \in Side : Ordered(o, rev'[s])
        /\ LadderMaps(rev') = [side \in Side |-> [px \in {} |-> 0]]
    BY <2>1, NoLadders
  <2> QED BY <2>1, <2>2 DEF RevInv, RevMaps, Moves
<1> QED BY <1>1, <1>2, <1>3 DEF Rev!Apply

-------------------------------------------------------------------------------
(* The four books together *)

\* The four stand for the same levels and have the same last trade.
Agree ==
  /\ tree = Maps /\ SortedMaps = Maps /\ RevMaps = Maps
  /\ treeTrade = trade /\ sortedTrade = trade /\ revTrade = trade

OracleInv == IInv /\ SortedInv /\ RevInv /\ Agree

\* The four books start empty (tests/oracle.rs:148-162).
LEMMA OracleInitInv == OracleInit => OracleInv
<1> SUFFICES ASSUME OracleInit PROVE OracleInv OBVIOUS
<1>1. IInv BY InitInv DEF OracleInit
<1>2. Maps = [side \in Side |-> [px \in {} |-> 0]]
  <2>1. MapOf(0, Zeros(0)) = [px \in {} |-> 0] BY ZerosSound DEF MapOf
  <2> QED BY <2>1 DEF OracleInit, Init, Maps
<1>3. tree = [side \in Side |-> [px \in {} |-> 0]]
  BY DEF OracleInit, BTree!Init, BTree!Side, Side, BTree!NoLevels, BTree!Empty
<1>4. sorted = [side \in Side |-> <<>>]
  BY DEF OracleInit, Sorted!Init, Sorted!Side, Side
<1>5. rev = [side \in Side |-> <<>>]
  BY DEF OracleInit, Rev!Init, Rev!Side, Side
<1>6. treeTrade = trade /\ sortedTrade = trade /\ revTrade = trade
  BY DEF OracleInit, Init, BTree!Init, Sorted!Init, Rev!Init, None, BTree!None,
         Sorted!None, Rev!None
<1>7. SortedInv /\ SortedMaps = [side \in Side |-> [px \in {} |-> 0]]
  <2>1. "Ask" \in Side BY DEF Side
  <2> QED BY <1>4, <2>1, NoLadders DEF SortedInv, SortedMaps
<1>8. RevInv /\ RevMaps = [side \in Side |-> [px \in {} |-> 0]]
  BY <1>5, NoLadders DEF RevInv, RevMaps
<1> QED BY <1>1, <1>2, <1>3, <1>6, <1>7, <1>8 DEF OracleInv, Agree

\* An event that all four apply moves each as the BTreeBook (tests/oracle.rs:148-162).
LEMMA DriveStep ==
  ASSUME OracleInv, NEW ev \in Event, Drive(ev)
  PROVE  /\ OracleInv'
         /\ Book!Apply(ev) /\ Sorted!Book!Apply(ev) /\ Rev!Book!Apply(ev)
<1>1. /\ ~panicked
      /\ ApplyLevel(ev) \/ ApplyTrade(ev) \/ ApplyClear(ev)
      /\ BTree!Apply(ev) /\ Sorted!Apply(ev) /\ Rev!Apply(ev)
  BY DEF Drive
<1>2. IInv /\ SortedInv /\ RevInv /\ Agree BY DEF OracleInv
<1>3. IInv'
  <2>1. Next BY <1>1 DEF Next, Apply
  <2> QED BY <1>2, <2>1, StepInv
<1>4. Book!Apply(ev) BY <1>1, <1>2, BookEvent
<1>5. Moves(ev, Maps, trade, Maps', trade') /\ last' = ev BY <1>4, FlatMoves
<1>6. Moves(ev, tree, treeTrade, tree', treeTrade') BY <1>1, TreeMoves
<1>7. SortedInv' /\ Moves(ev, SortedMaps, sortedTrade, SortedMaps', sortedTrade')
  BY <1>1, <1>2, SortedStep
<1>8. RevInv' /\ Moves(ev, RevMaps, revTrade, RevMaps', revTrade')
  BY <1>1, <1>2, RevStep
<1>9. Sorted!Book!Apply(ev) BY <1>5, <1>7, SortedMoves
<1>10. Rev!Book!Apply(ev) BY <1>5, <1>8, RevMoves
<1>11. /\ Moves(ev, Maps, trade, tree', treeTrade')
       /\ Moves(ev, Maps, trade, SortedMaps', sortedTrade')
       /\ Moves(ev, Maps, trade, RevMaps', revTrade')
  BY <1>2, <1>6, <1>7, <1>8 DEF Agree
<1>12. Agree' BY <1>5, <1>11, MovesOnce DEF Agree
<1> QED BY <1>3, <1>4, <1>7, <1>8, <1>9, <1>10, <1>12 DEF OracleInv

\* A refused event, and a step of something else, leaves every map alone.
LEMMA OtherStep ==
  ASSUME OracleInv,
         (\E ev \in Event : Refuse(ev)) \/ UNCHANGED oracleVars
  PROVE  /\ OracleInv'
         /\ Maps' = Maps /\ SortedMaps' = SortedMaps /\ RevMaps' = RevMaps
         /\ UNCHANGED <<trade, sortedTrade, revTrade, last>>
<1>1. CASE \E ev \in Event : Refuse(ev)
  <2>1. PICK ev \in Event : ~panicked /\ ApplyPanics(ev) /\ UNCHANGED others
    BY <1>1 DEF Refuse
  <2>2. Next BY <2>1 DEF Next, Apply
  <2>3. IInv' BY <2>2, StepInv DEF OracleInv
  <2>4. Maps' = Maps /\ trade' = trade /\ last' = last BY <2>1, BookRefused
  <2>5. UNCHANGED <<tree, treeTrade, sorted, sortedTrade, rev, revTrade>>
    BY <2>1 DEF others
  <2> QED
    BY <2>3, <2>4, <2>5
    DEF OracleInv, SortedInv, RevInv, Agree, SortedMaps, RevMaps
<1>2. CASE UNCHANGED oracleVars
  <2>1. UNCHANGED vars /\ UNCHANGED <<tree, treeTrade, sorted, sortedTrade, rev, revTrade>>
    BY <1>2 DEF oracleVars, others
  <2>2. UNCHANGED <<base, slots, trade, last>> BY <2>1 DEF vars
  <2>3. IInv' BY <2>1, StepInv DEF OracleInv
  <2>4. Maps' = Maps BY <2>2 DEF Maps
  <2> QED
    BY <2>1, <2>2, <2>3, <2>4
    DEF OracleInv, SortedInv, RevInv, Agree, SortedMaps, RevMaps
<1> QED BY <1>1, <1>2

\* The four stay in agreement, and the last step of each is the BTreeBook's.
LEMMA OracleStep ==
  OracleInv /\ [OracleNext]_oracleVars
    => OracleInv' /\ [Book!Next]_(Book!bookVars)
       /\ [Sorted!Book!Next]_(Sorted!Book!bookVars) /\ [Rev!Book!Next]_(Rev!Book!bookVars)
<1> SUFFICES ASSUME OracleInv, [OracleNext]_oracleVars
             PROVE  /\ OracleInv'
                    /\ Book!Next \/ UNCHANGED Book!bookVars
                    /\ Sorted!Book!Next \/ UNCHANGED Sorted!Book!bookVars
                    /\ Rev!Book!Next \/ UNCHANGED Rev!Book!bookVars
  OBVIOUS
<1>1. Book!Event = Event /\ Sorted!Book!Event = Event /\ Rev!Book!Event = Event
  BY DEF Book!Event, Event, Book!Levels, Levels, Book!Trades, Trades,
         Book!LevelEvent, LevelEvent, Book!TradeEvent, TradeEvent,
         Book!ClearEvent, ClearEvent, Book!Side, Side,
         Sorted!Book!Event, Sorted!Book!Levels, Sorted!Book!Trades,
         Sorted!Book!LevelEvent, Sorted!Book!TradeEvent, Sorted!Book!ClearEvent,
         Sorted!Book!Side, Rev!Book!Event, Rev!Book!Levels, Rev!Book!Trades,
         Rev!Book!LevelEvent, Rev!Book!TradeEvent, Rev!Book!ClearEvent, Rev!Book!Side
<1>2. CASE \E ev \in Event : Drive(ev)
  BY <1>1, <1>2, DriveStep DEF Book!Next, Sorted!Book!Next, Rev!Book!Next
<1>3. CASE (\E ev \in Event : Refuse(ev)) \/ UNCHANGED oracleVars
  <2>1. /\ OracleInv'
        /\ Maps' = Maps /\ SortedMaps' = SortedMaps /\ RevMaps' = RevMaps
        /\ UNCHANGED <<trade, sortedTrade, revTrade, last>>
    BY <1>3, OtherStep
  <2>2. UNCHANGED Book!bookVars BY <2>1, BookSteps
  <2>3. UNCHANGED Sorted!Book!bookVars
    <3>1. Sorted!Side = Side BY DEF Sorted!Side, Side
    <3> QED
      BY <2>1, <3>1
      DEF Sorted!Book!bookVars, SortedMaps, LadderMaps, LadderMap, Sorted!Map
  <2>4. UNCHANGED Rev!Book!bookVars
    <3>1. Rev!Side = Side BY DEF Rev!Side, Side
    <3> QED
      BY <2>1, <3>1 DEF Rev!Book!bookVars, RevMaps, LadderMaps, LadderMap, Rev!Map
  <2> QED BY <2>1, <2>2, <2>3, <2>4
<1> QED BY <1>2, <1>3 DEF OracleNext

-------------------------------------------------------------------------------
(* The theorems *)

\* The four books keep to their invariants and agree, whatever the events.
THEOREM OracleInvariant == OracleSpec => []OracleInv
<1>1. OracleInv /\ [OracleNext]_oracleVars => OracleInv' BY OracleStep
<1> QED BY <1>1, OracleInitInv, PTL DEF OracleSpec

\* FlatBook's variables keep their types in the drive (flat.rs:19-36, 72-82).
THEOREM OracleTypeCorrect == OracleSpec => []TypeOK
<1>1. OracleInv => TypeOK BY DEF OracleInv, IInv
<1> QED BY <1>1, OracleInvariant, PTL

\* What each representation relies on always holds: caches that say what the
\* arrays hold, vectors in their strict order, so with no price twice
\* (flat.rs:31-34, sorted_vec.rs:10-11, rev_vec.rs:12-13).
THEOREM RepresentationsHold == OracleSpec => []RepresentationsSound
<1>1. IInv => CachesAgree BY DEF IInv, CachesAgree, Sound
<1>2. SortedInv => Sorted!StrictlyAscending
  BY DEF SortedInv, Ordered, Better, Sorted!StrictlyAscending, Sorted!Side, Side
<1>3. RevInv => Rev!StrictlyBestFirst
  BY DEF RevInv, Ordered, Better, Rev!StrictlyBestFirst, Rev!Side, Side, Rev!Better
<1>4. OracleInv => RepresentationsSound
  BY <1>1, <1>2, <1>3 DEF OracleInv, RepresentationsSound, VectorsOrdered
<1> QED BY <1>4, OracleInvariant, PTL

\* FlatBook refuses an event only when the prices seen leave the band
\* (flat.rs:19-23, 72-82).
THEOREM OracleNoPanicInBand == OracleSpec => []PanicsOnlyOutsideBand
<1>1. OracleInv => PanicsOnlyOutsideBand BY DEF OracleInv, IInv
<1> QED BY <1>1, OracleInvariant, PTL

\* Each of the other three books is the BTreeBook, event for event
\* (tests/oracle.rs:3-13).
THEOREM AllImplement == OracleSpec => AllAreBTreeBooks
<1>1. OracleInit => Book!Init /\ Sorted!Book!Init /\ Rev!Book!Init
  <2> SUFFICES ASSUME OracleInit
               PROVE  Book!Init /\ Sorted!Book!Init /\ Rev!Book!Init
    OBVIOUS
  <2>1. OracleInv /\ last = ClearEvent /\ trade = None
    BY OracleInitInv DEF OracleInit, Init
  <2>2. tree = [side \in Side |-> [px \in {} |-> 0]]
    BY DEF OracleInit, BTree!Init, BTree!Side, Side, BTree!NoLevels, BTree!Empty
  <2>3. Book!Init BY <2>1, <2>2, BookSteps DEF OracleInv, Agree
  <2>4. Sorted!Book!Init
    <3>1. SortedMaps = [side \in Side |-> [px \in {} |-> 0]] /\ sortedTrade = None
      BY <2>1, <2>2 DEF OracleInv, Agree
    <3> QED
      BY <2>1, <3>1
      DEF Sorted!Book!Init, SortedMaps, LadderMaps, LadderMap, Sorted!Map,
          Sorted!Book!Side, Sorted!Side, Side, Sorted!Book!NoLevels, Sorted!Book!Empty,
          Sorted!Book!None, None, Sorted!Book!ClearEvent, ClearEvent
  <2>5. Rev!Book!Init
    <3>1. RevMaps = [side \in Side |-> [px \in {} |-> 0]] /\ revTrade = None
      BY <2>1, <2>2 DEF OracleInv, Agree
    <3> QED
      BY <2>1, <3>1
      DEF Rev!Book!Init, RevMaps, LadderMaps, LadderMap, Rev!Map,
          Rev!Book!Side, Rev!Side, Side, Rev!Book!NoLevels, Rev!Book!Empty,
          Rev!Book!None, None, Rev!Book!ClearEvent, ClearEvent
  <2> QED BY <2>3, <2>4, <2>5
<1> QED
  BY <1>1, OracleInvariant, OracleStep, PTL
  DEF OracleSpec, AllAreBTreeBooks, IsBTreeBook, Book!Spec, Sorted!IsBTreeBook,
      Sorted!Book!Spec, Rev!IsBTreeBook, Rev!Book!Spec

-------------------------------------------------------------------------------
(* The top of the four books *)

\* The best level of a map, as the BTreeBook answers it.
BestOf(side, m) ==
  IF DOMAIN m = {} THEN None
  ELSE LET p == CHOOSE p \in DOMAIN m : \A q \in DOMAIN m \ {p} : Better(side, p, q)
       IN <<p, m[p]>>

\* There is one.
LEMMA BestOfIs ==
  ASSUME NEW side, NEW m, DOMAIN m \subseteq Int, NEW p \in DOMAIN m,
         \A q \in DOMAIN m \ {p} : Better(side, p, q)
  PROVE  BestOf(side, m) = <<p, m[p]>>
<1> DEFINE D == DOMAIN m
           c == CHOOSE x \in D : \A q \in D \ {x} : Better(side, x, q)
<1>1. c \in D /\ \A q \in D \ {c} : Better(side, c, q) OBVIOUS
<1>2. BestOf(side, m) = <<c, m[c]>> BY DEF BestOf
<1> HIDE DEF c
<1>3. c = p
  <2>1. c # p => Better(side, c, p) /\ Better(side, p, c) BY <1>1
  <2>2. c \in Int /\ p \in Int BY <1>1
  <2> QED BY <2>1, <2>2, BetterOrder
<1> QED BY <1>2, <1>3

\* The best of a vector's map is its best level.
LEMMA LadderBest ==
  ASSUME NEW side, NEW order, NEW v \in Ladders, Ordered(order, v),
         NEW i \in 1 .. Len(v),
         \A j \in 1 .. Len(v) : j # i => Better(side, v[i][1], v[j][1])
  PROVE  v # <<>> /\ BestOf(side, LadderMap(v)) = v[i]
<1> DEFINE m == LadderMap(v)
<1>1. /\ \A j \in 1 .. Len(v) : v[j][1] \in Int /\ v[j] = <<v[j][1], v[j][2]>>
      /\ DOMAIN v = 1 .. Len(v)
  BY LevelParts
<1>2. DOMAIN m = {v[j][1] : j \in 1 .. Len(v)} BY <1>1 DEF LadderMap
<1>3. Has(v, v[i][1], v[i][2]) BY <1>1 DEF Has
<1>4. m[v[i][1]] = v[i][2] BY <1>3, LadderMapParts
<1> HIDE DEF m
<1>5. DOMAIN m \subseteq Int /\ v[i][1] \in DOMAIN m BY <1>1, <1>2
<1>6. \A q \in DOMAIN m \ {v[i][1]} : Better(side, v[i][1], q)
  <2> SUFFICES ASSUME NEW q \in DOMAIN m, q # v[i][1] PROVE Better(side, v[i][1], q)
    OBVIOUS
  <2>1. PICK j \in 1 .. Len(v) : q = v[j][1] BY <1>2
  <2> QED BY <2>1
<1>7. BestOf(side, m) = <<v[i][1], m[v[i][1]]>> BY <1>5, <1>6, BestOfIs
<1>8. v # <<>> BY <1>1
<1> QED BY <1>1, <1>4, <1>7, <1>8 DEF m

\* FlatBook answers from its caches what its map says (flat.rs:166-225).
LEMMA FlatTop ==
  ASSUME IInv, NEW side \in Side
  PROVE  /\ Best(side) = BestOf(side, Maps[side])
         /\ Depth(side) = Cardinality(DOMAIN Maps[side])
<1> DEFINE a == slots[side]
           b == best[side]
           O == Occupied(a)
           m == Maps[side]
<1>1. Span \in Nat /\ a \in Arrays(Span) BY Arrayed
<1>2. base \in Int /\ Sound(side, a, b, depth[side]) BY DEF IInv, TypeOK
<1>3. O \subseteq Nat /\ IsFiniteSet(O) BY <1>1, OccupiedFinite
<1>4. m = MapOf(base, a) BY DEF Maps
<1>5. /\ \A p : p \in DOMAIN m <=> p \in Int /\ p - base \in O
      /\ \A p \in DOMAIN m : m[p] = a[p - base]
  BY <1>1, <1>2, <1>4, MapParts
<1> HIDE DEF m, O, a, b
<1>6. Cardinality(DOMAIN m) = Cardinality(O)
  <2> DEFINE f == [i \in O |-> base + i]
             D == DOMAIN m
  <2>1. \A i \in O : base + i \in D /\ (base + i) - base = i
    BY <1>2, <1>3, <1>5
  <2>2. \A p \in D : p - base \in O /\ base + (p - base) = p BY <1>2, <1>5
  <2>3. f \in [O -> D] /\ DOMAIN f = O /\ \A i \in O : f[i] = base + i BY <2>1
  <2> HIDE DEF f, D
  <2>4. \A i, j \in O : f[i] = f[j] => i = j BY <2>1, <2>3
  <2>5. \A p \in D : \E i \in O : f[i] = p BY <2>2, <2>3
  <2>6. f \in Bijection(O, D)
    BY <2>3, <2>4, <2>5 DEF Bijection, Injection, Surjection, IsInjective
  <2>7. ExistsBijection(O, D) BY <2>6 DEF ExistsBijection
  <2>8. Cardinality(D) = Cardinality(O) BY <1>3, <2>7, FS_Bijection
  <2> QED BY <2>8 DEF D
<1>7. Depth(side) = Cardinality(O) BY <1>2 DEF Depth, Sound, O
<1>8. CASE O = {}
  <2>1. b = NoSlot BY <1>2, <1>8 DEF Sound, O
  <2>2. DOMAIN m = {} BY <1>5, <1>8
  <2> QED BY <1>6, <1>7, <2>1, <2>2 DEF Best, BestOf, b, m
<1>9. CASE O # {}
  <2>1. b \in O /\ \A i \in O \ {b} : Better(side, b, i)
    BY <1>2, <1>9 DEF Sound, O
  <2>2. b # NoSlot /\ b \in Int BY <1>3, <2>1 DEF NoSlot
  <2>3. (base + b) - base = b /\ base + b \in Int BY <1>2, <2>2
  <2>4. base + b \in DOMAIN m BY <1>5, <2>1, <2>3
  <2>5. \A q \in DOMAIN m \ {base + b} : Better(side, base + b, q)
    <3> SUFFICES ASSUME NEW q \in DOMAIN m, q # base + b
                 PROVE  Better(side, base + b, q)
      OBVIOUS
    <3>1. q \in Int /\ q - base \in O /\ q - base # b BY <1>2, <1>5, <2>2
    <3>2. Better(side, b, q - base) BY <2>1, <3>1
    <3> QED BY <1>2, <2>2, <3>1, <3>2 DEF Better
  <2>6. DOMAIN m \subseteq Int BY <1>5
  <2>7. BestOf(side, m) = <<base + b, m[base + b]>> BY <2>4, <2>5, <2>6, BestOfIs
  <2>8. m[base + b] = a[b] BY <1>5, <2>3, <2>4
  <2>9. Best(side) = <<base + b, a[b]>> BY <2>2 DEF Best, a, b
  <2> QED BY <1>6, <1>7, <2>7, <2>8, <2>9 DEF m
<1> QED BY <1>8, <1>9

\* The ends of the vectors are the best levels (sorted_vec.rs:61-97,
\* rev_vec.rs:68-98).
LEMMA VectorTops ==
  ASSUME SortedInv, RevInv, NEW side \in Side
  PROVE  /\ Sorted!Best(side) = BestOf(side, SortedMaps[side])
         /\ Sorted!Depth(side) = Cardinality(DOMAIN SortedMaps[side])
         /\ Rev!Best(side) = BestOf(side, RevMaps[side])
         /\ Rev!Depth(side) = Cardinality(DOMAIN RevMaps[side])
<1>1. /\ sorted[side] \in Ladders /\ Ordered("Ask", sorted[side])
      /\ rev[side] \in Ladders /\ Ordered(side, rev[side])
  BY DEF SortedInv, RevInv
<1>2. /\ SortedMaps[side] = LadderMap(sorted[side])
      /\ RevMaps[side] = LadderMap(rev[side])
  BY DEF SortedMaps, RevMaps, LadderMaps
<1>3. /\ Sorted!Depth(side) = Cardinality(DOMAIN SortedMaps[side])
      /\ Rev!Depth(side) = Cardinality(DOMAIN RevMaps[side])
  BY <1>1, <1>2, LadderDepth DEF Sorted!Depth, Rev!Depth
<1>4. BestOf(side, LadderMap(<<>>)) = None
  <2>1. DOMAIN LadderMap(<<>>) = {} BY EmptyLadder
  <2> QED BY <2>1 DEF BestOf
<1>5. Sorted!None = None /\ Rev!None = None BY DEF Sorted!None, Rev!None, None
<1>6. \A v \in Ladders : v # <<>> => Len(v) \in Nat /\ 1 <= Len(v)
  BY EmptySeq DEF Ladders
<1>7. Sorted!Best(side) = BestOf(side, SortedMaps[side])
  <2> DEFINE v == sorted[side]
  <2>1. CASE v = <<>> BY <1>2, <1>4, <1>5, <2>1 DEF Sorted!Best
  <2>2. CASE v # <<>>
    <3> DEFINE i == IF side = "Bid" THEN Len(v) ELSE 1
    <3>1. Len(v) \in Nat /\ i \in 1 .. Len(v) BY <1>1, <1>6, <2>2
    <3>2. \A j \in 1 .. Len(v) : j # i => Better(side, v[i][1], v[j][1])
      <4> SUFFICES ASSUME NEW j \in 1 .. Len(v), j # i
                   PROVE  Better(side, v[i][1], v[j][1])
        OBVIOUS
      <4>1. \A k, l \in 1 .. Len(v) : k < l => v[k][1] < v[l][1]
        BY <1>1, Pairwise DEF Better
      <4>2. v[i][1] \in Int /\ v[j][1] \in Int BY <1>1, <3>1, LevelParts
      <4>3. CASE side = "Bid"
        <5>1. j < i BY <3>1, <4>3
        <5>2. v[j][1] < v[i][1] BY <3>1, <4>1, <5>1
        <5> QED BY <4>2, <4>3, <5>2 DEF Better
      <4>4. CASE side # "Bid"
        <5>1. i < j BY <3>1, <4>4
        <5>2. v[i][1] < v[j][1] BY <3>1, <4>1, <5>1
        <5> QED BY <4>4, <5>2 DEF Better
      <4> QED BY <4>3, <4>4
    <3>3. Sorted!Best(side) = v[i] BY <2>2 DEF Sorted!Best
    <3> HIDE DEF v, i
    <3>4. v \in Ladders /\ Ordered("Ask", v) BY <1>1 DEF v
    <3>5. BestOf(side, LadderMap(v)) = v[i] BY <3>1, <3>2, <3>4, LadderBest
    <3> QED BY <1>2, <3>3, <3>5 DEF v
  <2> QED BY <2>1, <2>2
<1>8. Rev!Best(side) = BestOf(side, RevMaps[side])
  <2> DEFINE v == rev[side]
  <2>1. CASE v = <<>> BY <1>2, <1>4, <1>5, <2>1 DEF Rev!Best
  <2>2. CASE v # <<>>
    <3>1. Len(v) \in Nat /\ 1 \in 1 .. Len(v) BY <1>1, <1>6, <2>2
    <3>2. \A j \in 1 .. Len(v) : j # 1 => Better(side, v[1][1], v[j][1])
      BY <1>1, <3>1, Pairwise
    <3>3. Rev!Best(side) = v[1] BY <2>2 DEF Rev!Best
    <3> HIDE DEF v
    <3>4. v \in Ladders /\ Ordered(side, v) BY <1>1 DEF v
    <3>5. BestOf(side, LadderMap(v)) = v[1] BY <3>1, <3>2, <3>4, LadderBest
    <3> QED BY <1>2, <3>3, <3>5 DEF v
  <2> QED BY <2>1, <2>2
<1> QED BY <1>3, <1>7, <1>8

\* After every event the four books have the same last trade, best levels and
\* depths, what the engine publishes among them (tests/oracle.rs:43-52).
THEOREM SameTops == OracleSpec => []TopSame
<1>1. OracleInv => TopSame
  <2> SUFFICES ASSUME OracleInv PROVE TopSame OBVIOUS
  <2>1. IInv /\ SortedInv /\ RevInv /\ Agree BY DEF OracleInv
  <2>2. ASSUME NEW side \in Side
        PROVE  /\ {Best(side), Sorted!Best(side), Rev!Best(side)} = {BTree!Best(side)}
               /\ {Depth(side), Sorted!Depth(side), Rev!Depth(side)}
                    = {BTree!Depth(side)}
    <3>1. BTree!Best(side) = BestOf(side, tree[side])
      BY DEF BTree!Best, BestOf, BTree!None, None, BTree!Better, Better
    <3>2. BTree!Depth(side) = Cardinality(DOMAIN tree[side])
      BY DEF BTree!Depth, BTree!Cardinality, Cardinality
    <3>3. /\ tree[side] = Maps[side] /\ SortedMaps[side] = Maps[side]
          /\ RevMaps[side] = Maps[side]
      BY <2>1 DEF Agree
    <3> QED BY <2>1, <3>1, <3>2, <3>3, FlatTop, VectorTops
  <2> QED BY <2>1, <2>2 DEF TopSame, Agree
<1> QED BY <1>1, OracleInvariant, PTL

-------------------------------------------------------------------------------
(* The top levels of the four books *)

\* The i-th best price of a map and its n best levels, as the BTreeBook answers them.
NthOf(side, m, i) ==
  CHOOSE p \in DOMAIN m : Cardinality({q \in DOMAIN m : Better(side, q, p)}) = i - 1

Shorter(n, len) == IF n < len THEN n ELSE len

TopOf(side, m, n) ==
  [i \in 1 .. Shorter(n, Cardinality(DOMAIN m)) |->
     <<NthOf(side, m, i), m[NthOf(side, m, i)]>>]

\* The first n levels of a vector, or all.
FirstOf(v, n) == SubSeq(v, 1, Shorter(n, Len(v)))

\* As many prices are better than a level of a vector as come before it.
LEMMA Ranked ==
  ASSUME NEW side, NEW v \in Ladders, Ordered(side, v), NEW i \in 1 .. Len(v)
  PROVE  Cardinality({q \in DOMAIN LadderMap(v) : Better(side, q, v[i][1])}) = i - 1
<1> DEFINE n == Len(v)
           P == {q \in DOMAIN LadderMap(v) : Better(side, q, v[i][1])}
           f == [j \in 1 .. i - 1 |-> v[j][1]]
<1>1. /\ n \in Nat /\ DOMAIN v = 1 .. n /\ i \in 1 .. n
      /\ \A j \in 1 .. n : v[j][1] \in Int
  BY LevelParts
<1>2. \A j, k \in 1 .. n : j < k => Better(side, v[j][1], v[k][1]) BY Pairwise
<1>3. \A j, k \in 1 .. n : v[j][1] = v[k][1] => j = k BY OneLevel
<1>4. DOMAIN LadderMap(v) = {v[j][1] : j \in 1 .. n} BY <1>1 DEF LadderMap
<1>5. \A j \in 1 .. n : Better(side, v[j][1], v[i][1]) <=> j < i
  <2> SUFFICES ASSUME NEW j \in 1 .. n PROVE Better(side, v[j][1], v[i][1]) <=> j < i
    OBVIOUS
  <2>1. j < i \/ j = i \/ i < j BY <1>1
  <2>2. v[j][1] \in Int /\ v[i][1] \in Int BY <1>1
  <2>3. j < i => Better(side, v[j][1], v[i][1]) BY <1>1, <1>2
  <2>4. i < j => Better(side, v[i][1], v[j][1]) BY <1>1, <1>2
  <2>5. j = i => ~(j < i) BY <1>1
  <2>6. i < j => ~(j < i) BY <1>1
  <2> HIDE DEF n
  <2> QED BY <2>1, <2>2, <2>3, <2>4, <2>5, <2>6, BetterOrder
<1> HIDE DEF n
<1>6. \A p : p \in P <=> \E j \in 1 .. i - 1 : p = v[j][1]
  <2>1. \A j \in 1 .. i - 1 : j \in 1 .. n /\ j < i BY <1>1
  <2>2. \A j \in 1 .. n : j < i => j \in 1 .. i - 1 BY <1>1
  <2> QED BY <1>4, <1>5, <2>1, <2>2
<1> HIDE DEF P
<1>7. f \in Bijection(1 .. i - 1, P)
  <2>1. f \in [1 .. i - 1 -> P] /\ DOMAIN f = 1 .. i - 1 BY <1>6
  <2>2. \A j \in 1 .. i - 1 : f[j] = v[j][1] /\ j \in 1 .. n BY <1>1
  <2> HIDE DEF f
  <2>3. \A j, k \in 1 .. i - 1 : f[j] = f[k] => j = k BY <1>3, <2>2
  <2>4. \A p \in P : \E j \in 1 .. i - 1 : f[j] = p BY <1>6, <2>2
  <2> QED BY <2>1, <2>3, <2>4 DEF Bijection, Injection, Surjection, IsInjective
<1> HIDE DEF f
<1>8. i - 1 \in Nat BY <1>1
<1>9. IsFiniteSet(1 .. i - 1) /\ Cardinality(1 .. i - 1) = i - 1 BY <1>8, FS_Interval
<1>10. ExistsBijection(1 .. i - 1, P) BY <1>7 DEF ExistsBijection
<1>11. Cardinality(P) = i - 1 BY <1>9, <1>10, FS_Bijection
<1> QED BY <1>11 DEF P

\* So a vector in its order lists its map from the best level on.
LEMMA LadderTop ==
  ASSUME NEW side, NEW v \in Ladders, Ordered(side, v), NEW n \in Nat
  PROVE  TopOf(side, LadderMap(v), n) = FirstOf(v, n)
<1> DEFINE m == LadderMap(v)
           l == Shorter(n, Len(v))
<1>1. /\ Len(v) \in Nat /\ DOMAIN v = 1 .. Len(v)
      /\ \A i \in 1 .. Len(v) : v[i] \in Int \X Int /\ v[i] = <<v[i][1], v[i][2]>>
  BY LevelParts
<1>2. Cardinality(DOMAIN m) = Len(v) BY LadderDepth
<1>3. l \in Nat /\ l <= Len(v) BY <1>1 DEF Shorter
<1>4. ASSUME NEW i \in 1 .. Len(v) PROVE NthOf(side, m, i) = v[i][1] /\ m[v[i][1]] = v[i][2]
  <2> DEFINE rank(p) == Cardinality({q \in DOMAIN m : Better(side, q, p)})
             c == CHOOSE p \in DOMAIN m : rank(p) = i - 1
  <2>1. \A j \in 1 .. Len(v) : rank(v[j][1]) = j - 1 BY Ranked
  <2>2. DOMAIN m = {v[j][1] : j \in 1 .. Len(v)} BY <1>1 DEF LadderMap
  <2>3. Has(v, v[i][1], v[i][2]) BY <1>1 DEF Has
  <2>4. m[v[i][1]] = v[i][2] BY <2>3, LadderMapParts
  <2>5. NthOf(side, m, i) = c BY DEF NthOf
  <2> HIDE DEF m, rank
  <2>6. v[i][1] \in DOMAIN m /\ rank(v[i][1]) = i - 1 BY <2>1, <2>2
  <2>7. c \in DOMAIN m /\ rank(c) = i - 1 BY <2>6
  <2> HIDE DEF c
  <2>8. PICK j \in 1 .. Len(v) : c = v[j][1] BY <2>2, <2>7
  <2>9. j - 1 = i - 1 BY <2>1, <2>7, <2>8
  <2>10. j = i BY <1>1, <2>9
  <2> QED BY <2>4, <2>5, <2>8, <2>10
<1> DEFINE t == TopOf(side, m, n)
           s == FirstOf(v, n)
<1>5. t = [i \in 1 .. l |-> <<NthOf(side, m, i), m[NthOf(side, m, i)]>>]
  BY <1>2 DEF TopOf
<1>6. \A i \in 1 .. l : i \in 1 .. Len(v) BY <1>1, <1>3
<1>7. \A i \in 1 .. l : t[i] = v[i] /\ v[i] \in Int \X Int
  <2> HIDE DEF t, m, l
  <2> QED BY <1>1, <1>4, <1>5, <1>6
<1>8. /\ s \in Seq(Int \X Int) /\ Len(s) = l
      /\ \A i \in 1 .. l : s[i] = v[i]
  <2> HIDE DEF l
  <2>1. \A i \in 1 .. l : v[i] \in Int \X Int BY <1>7
  <2>2. 1 \in Int /\ l \in Int BY <1>3
  <2> DEFINE S == Int \X Int
             r == SubSeq(v, 1, l)
  <2>3. \A i \in 1 .. l : v[i] \in S BY <2>1
  <2> HIDE DEF S
  <2>4. /\ r \in Seq(S) /\ Len(r) = IF 1 <= l THEN l - 1 + 1 ELSE 0
        /\ \A i \in 1 .. l - 1 + 1 : r[i] = v[1 + i - 1]
    BY <2>2, <2>3, SubSeqProperties
  <2>5. s = r BY DEF FirstOf, l
  <2> HIDE DEF r, s
  <2>6. Len(r) = l /\ l - 1 + 1 = l BY <1>3, <2>4
  <2>7. \A i \in 1 .. l : r[i] = v[i]
    <3> SUFFICES ASSUME NEW i \in 1 .. l PROVE r[i] = v[i] OBVIOUS
    <3>1. 1 + i - 1 = i BY <1>3
    <3> QED BY <2>4, <2>6, <3>1
  <2> QED BY <2>4, <2>5, <2>6, <2>7 DEF S
<1> HIDE DEF t, s, l, m
<1>9. t \in Seq(Int \X Int) /\ Len(t) = l
  <2>1. \A i \in 1 .. l : <<NthOf(side, m, i), m[NthOf(side, m, i)]>> \in Int \X Int
    BY <1>5, <1>7
  <2> QED BY <1>3, <1>5, <2>1
<1>10. t = s
  <2> DEFINE S == Int \X Int
  <2>1. t \in Seq(S) /\ s \in Seq(S) /\ Len(t) = l /\ Len(s) = l BY <1>8, <1>9
  <2>2. \A i \in 1 .. l : t[i] = s[i] BY <1>7, <1>8
  <2> HIDE DEF S
  <2> QED BY <2>1, <2>2, SeqEqual
<1> QED BY <1>10 DEF t, s, m

\* SortedVecBook reads its bids backwards (sorted_vec.rs:71-88).
LEMMA Backwards ==
  ASSUME NEW v \in Ladders, Ordered("Ask", v)
  PROVE  /\ Reverse(v) \in Ladders /\ Ordered("Bid", Reverse(v))
         /\ LadderMap(Reverse(v)) = LadderMap(v)
<1> DEFINE n == Len(v)
           r == Reverse(v)
<1>1. /\ n \in Nat /\ DOMAIN v = 1 .. n
      /\ \A i \in 1 .. n : v[i] \in Int \X Int /\ v[i][1] \in Int
                           /\ v[i] = <<v[i][1], v[i][2]>>
  BY LevelParts
<1>2. r = [i \in 1 .. n |-> v[(n - i) + 1]] BY DEF Reverse
<1> HIDE DEF n, r
<1>3. \A i \in 1 .. n : (n - i) + 1 \in 1 .. n /\ (n - ((n - i) + 1)) + 1 = i BY <1>1
<1>4. \A i \in 1 .. n : r[i] = v[(n - i) + 1] BY <1>2
<1>5. r \in Ladders /\ Len(r) = n
  <2>1. \A i \in 1 .. n : v[(n - i) + 1] \in Int \X Int BY <1>1, <1>3
  <2> QED BY <1>1, <1>2, <2>1 DEF Ladders
<1>6. Ordered("Bid", r)
  <2> SUFFICES ASSUME NEW i \in 1 .. n - 1 PROVE r[i + 1][1] < r[i][1]
    BY <1>5 DEF Ordered, Better
  <2>1. i \in 1 .. n /\ i + 1 \in 1 .. n /\ (n - (i + 1)) + 1 = n - i BY <1>1
  <2>2. /\ n - i \in 1 .. Len(v) /\ (n - i) + 1 \in 1 .. Len(v) /\ n - i < (n - i) + 1
    BY <1>1 DEF n
  <2>3. Better("Ask", v[n - i][1], v[(n - i) + 1][1]) BY <2>2, Pairwise
  <2>4. r[i] = v[(n - i) + 1] /\ r[i + 1] = v[n - i] BY <1>4, <2>1
  <2> QED BY <2>3, <2>4 DEF Better
<1>7. \A p, q : Has(r, p, q) <=> Has(v, p, q)
  <2> SUFFICES ASSUME NEW p, NEW q PROVE Has(r, p, q) <=> Has(v, p, q) OBVIOUS
  <2>1. Has(r, p, q) <=> \E i \in 1 .. n : r[i] = <<p, q>> BY <1>5 DEF Has
  <2>2. Has(v, p, q) <=> \E i \in 1 .. n : v[i] = <<p, q>> BY DEF Has, n
  <2>3. \A i \in 1 .. n : v[i] = r[(n - i) + 1] BY <1>3, <1>4
  <2> QED BY <1>3, <1>4, <2>1, <2>2, <2>3
<1> DEFINE f == LadderMap(r)
           g == LadderMap(v)
<1>8. /\ \A p : p \in DOMAIN f <=> \E q : Has(r, p, q)
      /\ \A p, q : Has(r, p, q) => f[p] = q
      /\ f = [p \in DOMAIN f |-> f[p]]
  <2>1. f = [p \in DOMAIN f |-> f[p]] BY DEF LadderMap
  <2> QED BY <1>5, <1>6, <2>1, LadderMapParts
<1>9. /\ \A p : p \in DOMAIN g <=> \E q : Has(v, p, q)
      /\ \A p, q : Has(v, p, q) => g[p] = q
      /\ g = [p \in DOMAIN g |-> g[p]]
  <2>1. g = [p \in DOMAIN g |-> g[p]] BY DEF LadderMap
  <2>2. v \in Ladders /\ Ordered("Ask", v) OBVIOUS
  <2> QED BY <2>1, <2>2, LadderMapParts
<1> HIDE DEF f, g
<1>10. DOMAIN f = DOMAIN g BY <1>7, <1>8, <1>9
<1>11. \A p \in DOMAIN f : f[p] = g[p] BY <1>7, <1>8, <1>9
<1>12. f = g BY <1>8, <1>9, <1>10, <1>11
<1> QED BY <1>5, <1>6, <1>12 DEF f, g, r

\* What the vector books write into a buffer of n levels (rev_vec.rs:78-89).
LEMMA VectorTopN ==
  ASSUME SortedInv, RevInv, NEW side \in Side, NEW n \in Nat
  PROVE  /\ Sorted!TopN(side, n) = TopOf(side, SortedMaps[side], n)
         /\ Rev!TopN(side, n) = TopOf(side, RevMaps[side], n)
<1>1. /\ sorted[side] \in Ladders /\ Ordered("Ask", sorted[side])
      /\ rev[side] \in Ladders /\ Ordered(side, rev[side])
  BY DEF SortedInv, RevInv
<1>2. /\ SortedMaps[side] = LadderMap(sorted[side])
      /\ RevMaps[side] = LadderMap(rev[side])
  BY DEF SortedMaps, RevMaps, LadderMaps
<1>3. Rev!TopN(side, n) = FirstOf(rev[side], n) BY DEF Rev!TopN, FirstOf, Shorter
<1>4. CASE side = "Bid"
  <2> DEFINE r == Reverse(sorted[side])
  <2>1. Sorted!TopN(side, n) = FirstOf(r, n)
    BY <1>4 DEF Sorted!TopN, Sorted!Reverse, Reverse, FirstOf, Shorter
  <2>2. r \in Ladders /\ Ordered(side, r) /\ LadderMap(r) = LadderMap(sorted[side])
    BY <1>1, <1>4, Backwards
  <2> HIDE DEF r
  <2> QED BY <1>1, <1>2, <1>3, <2>1, <2>2, LadderTop
<1>5. CASE side = "Ask"
  <2>1. Sorted!TopN(side, n) = FirstOf(sorted[side], n)
    BY <1>5 DEF Sorted!TopN, FirstOf, Shorter
  <2> QED BY <1>1, <1>2, <1>3, <1>5, <2>1, LadderTop
<1> QED BY <1>4, <1>5 DEF Side

\* The states FlatBook's walk can be in, and how it goes on (flat.rs:179-212).
Reach(side, len) == IF side = "Bid" THEN -1 .. len - 1 ELSE 0 .. len
Ended(side, len, i) == IF side = "Bid" THEN i < 0 ELSE i > len - 1
Onward(side, i) == i + (IF side = "Bid" THEN -1 ELSE 1)
Written(first, a, i, out) == IF a[i] = 0 THEN out ELSE Append(out, <<first + i, a[i]>>)

Walks(f, side, first, a, len, n) ==
  f = [s \in Reach(side, len) \X Seq(Int \X Int) |->
         IF Ended(side, len, s[1]) \/ Len(s[2]) = n THEN s[2]
         ELSE f[<<Onward(side, s[1]), Written(first, a, s[1], s[2])>>]]

\* Where in a vector of the same levels the walk is when it comes to slot i.
Reached(side, v, first, i) == Stop(v, first + i, side = "Ask")

\* What the walk still writes from position at of the vector: up to n levels in all; it
\* tests for n only, so it would not stop beyond it.
More(v, at, out, n) ==
  IF n >= Len(out) /\ n - Len(out) < Len(v) + 1 - at THEN n - Len(out) ELSE Len(v) + 1 - at

Answer(v, at, out, n) == out \o SubSeq(v, at, at + More(v, at, out, n) - 1)

\* The levels of an answer.
LEMMA AnswerIs ==
  ASSUME NEW v \in Ladders, NEW at \in 1 .. Len(v) + 1, NEW out \in Ladders, NEW n \in Nat
  PROVE  /\ More(v, at, out, n) \in 0 .. Len(v) + 1 - at
         /\ Answer(v, at, out, n) \in Ladders
         /\ Len(Answer(v, at, out, n)) = Len(out) + More(v, at, out, n)
         /\ \A j \in 1 .. Len(out) + More(v, at, out, n) :
              Answer(v, at, out, n)[j] =
                IF j <= Len(out) THEN out[j] ELSE v[at + (j - Len(out)) - 1]
<1> DEFINE k == More(v, at, out, n)
           S == Int \X Int
           r == SubSeq(v, at, at + k - 1)
           a == Answer(v, at, out, n)
<1>1. Len(v) \in Nat /\ \A j \in 1 .. Len(v) : v[j] \in Int \X Int BY LevelParts
<1>2. Len(out) \in Nat BY LevelParts
<1>3. k \in 0 .. Len(v) + 1 - at BY <1>1, <1>2 DEF More
<1>4. out \in Seq(S) BY DEF Ladders
<1>5. \A j \in at .. at + k - 1 : v[j] \in S BY <1>1, <1>3
<1>6. at \in Int /\ at + k - 1 \in Int /\ k \in Nat BY <1>1, <1>3
<1> HIDE DEF S, k
<1>7. /\ r \in Seq(S) /\ Len(r) = IF at <= at + k - 1 THEN (at + k - 1) - at + 1 ELSE 0
      /\ \A j \in 1 .. (at + k - 1) - at + 1 : r[j] = v[at + j - 1]
  BY <1>5, <1>6, SubSeqProperties
<1>8. a = out \o r BY DEF Answer, k
<1> HIDE DEF r, a
<1>9. Len(r) = k /\ (at + k - 1) - at + 1 = k BY <1>6, <1>7
<1>10. /\ out \o r \in Seq(S) /\ Len(out \o r) = Len(out) + Len(r)
       /\ \A j \in 1 .. Len(out) + Len(r) :
            (out \o r)[j] = IF j <= Len(out) THEN out[j] ELSE r[j - Len(out)]
  BY <1>4, <1>7, ConcatProperties
<1>11. ASSUME NEW j \in 1 .. Len(out) + k
       PROVE  a[j] = IF j <= Len(out) THEN out[j] ELSE v[at + (j - Len(out)) - 1]
  <2>1. a[j] = IF j <= Len(out) THEN out[j] ELSE r[j - Len(out)] BY <1>8, <1>9, <1>10
  <2>2. CASE j <= Len(out) BY <2>1, <2>2
  <2>3. CASE ~(j <= Len(out))
    <3>1. j - Len(out) \in 1 .. k BY <1>2, <1>6, <2>3
    <3> QED BY <1>7, <1>9, <2>1, <2>3, <3>1
  <2> QED BY <2>2, <2>3
<1>12. a \in Seq(S) /\ Len(a) = Len(out) + k BY <1>8, <1>9, <1>10
<1> QED BY <1>3, <1>11, <1>12 DEF S, a, k, Ladders

\* A walk at the end, or with n levels, has its answer.
LEMMA AnswerEnds ==
  ASSUME NEW v \in Ladders, NEW at \in 1 .. Len(v) + 1, NEW out \in Ladders, NEW n \in Nat,
         at = Len(v) + 1 \/ Len(out) = n
  PROVE  Answer(v, at, out, n) = out
<1> DEFINE S == Int \X Int
           a == Answer(v, at, out, n)
<1>1. Len(v) \in Nat /\ Len(out) \in Nat BY LevelParts
<1>2. More(v, at, out, n) = 0 BY <1>1 DEF More
<1>3. a \in Seq(S) /\ out \in Seq(S) BY AnswerIs DEF Ladders
<1>4. /\ Len(a) = Len(out) + 0
      /\ \A j \in 1 .. Len(out) + 0 :
           a[j] = IF j <= Len(out) THEN out[j] ELSE v[at + (j - Len(out)) - 1]
  BY <1>2, AnswerIs
<1> HIDE DEF S, a
<1>5. Len(a) = Len(out) /\ \A j \in 1 .. Len(out) : a[j] = out[j] BY <1>1, <1>4
<1>6. a = out BY <1>3, <1>5, SeqEqual
<1> QED BY <1>6 DEF a

\* A walk with fewer that writes the next level has the same answer.
LEMMA AnswerGoesOn ==
  ASSUME NEW v \in Ladders, NEW at \in 1 .. Len(v), NEW out \in Ladders, NEW n \in Nat,
         Len(out) # n
  PROVE  /\ Append(out, v[at]) \in Ladders
         /\ Answer(v, at, out, n) = Answer(v, at + 1, Append(out, v[at]), n)
<1> DEFINE S == Int \X Int
           w == Append(out, v[at])
           a == Answer(v, at, out, n)
           b == Answer(v, at + 1, w, n)
<1>1. Len(v) \in Nat /\ Len(out) \in Nat /\ v[at] \in S BY LevelParts
<1>2. out \in Seq(S) BY DEF Ladders
<1> HIDE DEF S
<1>3. /\ w \in Seq(S) /\ Len(w) = Len(out) + 1 /\ w[Len(out) + 1] = v[at]
      /\ \A j \in 1 .. Len(out) : w[j] = out[j]
  BY <1>1, <1>2, AppendProperties
<1> HIDE DEF w
<1>4. w \in Ladders BY <1>3 DEF Ladders, S
<1>5. More(v, at, out, n) = More(v, at + 1, w, n) + 1 BY <1>1, <1>3 DEF More
<1> DEFINE k == More(v, at + 1, w, n)
           l == Len(out)
<1>6. at + 1 \in 1 .. Len(v) + 1 /\ at \in 1 .. Len(v) + 1 BY <1>1
<1>7. /\ k \in 0 .. Len(v) + 1 - (at + 1) /\ b \in Ladders /\ Len(b) = Len(w) + k
      /\ \A j \in 1 .. Len(w) + k :
           b[j] = IF j <= Len(w) THEN w[j] ELSE v[(at + 1) + (j - Len(w)) - 1]
  BY <1>4, <1>6, AnswerIs
<1>8. /\ a \in Ladders /\ Len(a) = l + (k + 1)
      /\ \A j \in 1 .. l + (k + 1) :
           a[j] = IF j <= l THEN out[j] ELSE v[at + (j - l) - 1]
  BY <1>5, <1>6, AnswerIs
<1> HIDE DEF a, b, k, l
<1>9. k \in Nat /\ l \in Nat /\ Len(w) = l + 1 BY <1>1, <1>3, <1>7 DEF l
<1>10. ASSUME NEW j \in 1 .. l + (k + 1) PROVE a[j] = b[j]
  <2>1. j \in 1 .. Len(w) + k BY <1>9
  <2>2. CASE j <= l
    <3>1. j <= Len(w) /\ j \in 1 .. l BY <1>9, <2>2
    <3> QED BY <1>3, <1>7, <1>8, <2>1, <2>2, <3>1 DEF l
  <2>3. CASE j = l + 1
    <3>1. ~(j <= l) /\ j <= Len(w) /\ at + (j - l) - 1 = at BY <1>1, <1>9, <2>3
    <3> QED BY <1>3, <1>7, <1>8, <2>1, <2>3, <3>1 DEF l
  <2>4. CASE j > l + 1
    <3>1. ~(j <= l) /\ ~(j <= Len(w)) BY <1>9, <2>4
    <3>2. at + (j - l) - 1 = (at + 1) + (j - Len(w)) - 1 BY <1>1, <1>9
    <3> QED BY <1>7, <1>8, <2>1, <3>1, <3>2
  <2>5. j <= l \/ j = l + 1 \/ j > l + 1 BY <1>9
  <2> QED BY <2>2, <2>3, <2>4, <2>5
<1>11. a \in Seq(S) /\ b \in Seq(S) BY <1>7, <1>8 DEF Ladders, S
<1>12. Len(a) = l + (k + 1) /\ Len(b) = l + (k + 1) BY <1>7, <1>8, <1>9
<1>13. a = b BY <1>10, <1>11, <1>12, SeqEqual
<1> QED BY <1>4, <1>13 DEF a, b, w

\* The vector's levels are those of the slots: an occupied slot is the next level of the
\* walk, an empty one none.
LEMMA SlotLevels ==
  ASSUME NEW side \in Side, NEW v \in Ladders, Ordered(side, v),
         NEW len \in Nat, NEW a \in Arrays(len), NEW first \in Int,
         LadderMap(v) = MapOf(first, a),
         NEW i \in 0 .. len - 1
  PROVE  LET at == Reached(side, v, first, i)
             next == Reached(side, v, first, Onward(side, i))
         IN /\ at \in 1 .. Len(v) + 1
            /\ a[i] # 0 => /\ at <= Len(v) /\ v[at] = <<first + i, a[i]>>
                           /\ next = at + 1
            /\ a[i] = 0 => next = at
<1> DEFINE at == Reached(side, v, first, i)
           j == Onward(side, i)
           next == Reached(side, v, first, j)
           m == MapOf(first, a)
<1>1. /\ Len(v) \in Nat /\ DOMAIN v = 1 .. Len(v)
      /\ \A k \in 1 .. Len(v) : v[k][1] \in Int /\ v[k] = <<v[k][1], v[k][2]>>
  BY LevelParts
<1>2. i \in Int /\ j \in Int /\ first + i \in Int /\ first + j \in Int BY DEF Onward
<1>3. Place(side, v, first + i, at) /\ Place(side, v, first + j, next)
  BY <1>2, ScanPlaces DEF Reached
<1>4. /\ at \in 1 .. Len(v) + 1 /\ next \in 1 .. Len(v) + 1
      /\ \A k \in 1 .. Len(v) : Better(side, v[k][1], first + i) <=> k < at
      /\ \A k \in 1 .. Len(v) : Better(side, v[k][1], first + j) <=> k < next
  BY <1>3 DEF Place
<1> HIDE DEF at, next
<1>5. \A p \in Int : Better(side, p, first + j) <=> Better(side, p, first + i) \/ p = first + i
  BY <1>2 DEF Better, Onward
<1> HIDE DEF j
<1>6. /\ \A p : p \in DOMAIN m <=> p \in Int /\ p - first \in Occupied(a)
      /\ \A p \in DOMAIN m : m[p] = a[p - first]
  BY MapParts
<1>7. DOMAIN m = {v[k][1] : k \in 1 .. Len(v)} BY <1>1 DEF LadderMap
<1>8. \A k \in 1 .. Len(v) : m[v[k][1]] = v[k][2]
  <2> SUFFICES ASSUME NEW k \in 1 .. Len(v) PROVE m[v[k][1]] = v[k][2] OBVIOUS
  <2>1. Has(v, v[k][1], v[k][2]) BY <1>1 DEF Has
  <2> QED BY <2>1, LadderMapParts
<1> HIDE DEF m
<1>9. (first + i) - first = i BY <1>2
<1>10. i \in Occupied(a) <=> a[i] # 0 BY DEF Occupied, Arrays
<1>11. CASE a[i] # 0
  <2>1. first + i \in DOMAIN m BY <1>2, <1>6, <1>9, <1>10, <1>11
  <2>2. PICK k \in 1 .. Len(v) : v[k][1] = first + i BY <1>7, <2>1
  <2>3. v[k] = <<first + i, a[i]>> BY <1>1, <1>6, <1>8, <1>9, <2>1, <2>2
  <2>4. ~(k < at) /\ k < next
    <3>1. ~Better(side, v[k][1], first + i) BY <1>2, <2>2 DEF Better
    <3>2. Better(side, v[k][1], first + j) BY <1>1, <1>5, <2>2
    <3> QED BY <1>4, <3>1, <3>2
  <2>5. \A l \in 1 .. Len(v) : l < k => l < at
    <3> SUFFICES ASSUME NEW l \in 1 .. Len(v), l < k PROVE l < at OBVIOUS
    <3>1. Better(side, v[l][1], v[k][1]) BY Pairwise
    <3> QED BY <1>4, <2>2, <3>1
  <2>6. \A l \in 1 .. Len(v) : l < next => l < at \/ l = k
    <3> SUFFICES ASSUME NEW l \in 1 .. Len(v), l < next PROVE l < at \/ l = k OBVIOUS
    <3>1. Better(side, v[l][1], first + i) \/ v[l][1] = first + i BY <1>1, <1>4, <1>5
    <3>2. v[l][1] = v[k][1] => l = k BY OneLevel
    <3> QED BY <1>4, <2>2, <3>1, <3>2
  <2>7. k = at
    <3>1. k < at + 1 \/ at < k BY <1>4
    <3>2. at < k => at \in 1 .. Len(v) /\ ~(at < at) BY <1>4
    <3> QED BY <1>4, <2>4, <2>5, <3>1, <3>2
  <2>8. next = at + 1
    <3>1. at < next /\ at \in 1 .. Len(v) BY <2>4, <2>7
    <3>2. ASSUME at + 1 < next PROVE FALSE
      <4>1. at + 1 \in 1 .. Len(v) /\ ~(at + 1 < at) /\ at + 1 # at BY <1>1, <1>4, <3>2
      <4> QED BY <2>6, <2>7, <3>2, <4>1
    <3> QED BY <1>4, <3>1, <3>2
  <2> QED BY <1>4, <1>11, <2>3, <2>7, <2>8 DEF at, next, j
<1>12. CASE a[i] = 0
  <2>1. first + i \notin DOMAIN m BY <1>6, <1>9, <1>10, <1>12
  <2>2. \A k \in 1 .. Len(v) : v[k][1] # first + i BY <1>7, <2>1
  <2>3. \A k \in 1 .. Len(v) : k < at <=> k < next BY <1>1, <1>4, <1>5, <2>2
  <2>4. ASSUME at < next PROVE FALSE
    <3>1. at \in 1 .. Len(v) /\ ~(at < at) BY <1>1, <1>4, <2>4
    <3> QED BY <2>3, <2>4, <3>1
  <2>5. ASSUME next < at PROVE FALSE
    <3>1. next \in 1 .. Len(v) /\ ~(next < next) BY <1>1, <1>4, <2>5
    <3> QED BY <2>3, <2>5, <3>1
  <2>6. next = at BY <1>4, <2>4, <2>5
  <2> QED BY <1>4, <1>12, <2>6 DEF at, next, j
<1> QED BY <1>11, <1>12

\* Beyond the last slot every level has been passed; at the best slot none.
LEMMA WalkEnds ==
  ASSUME NEW side \in Side, NEW v \in Ladders, Ordered(side, v),
         NEW len \in Nat, NEW a \in Arrays(len), NEW first \in Int,
         LadderMap(v) = MapOf(first, a), NEW i \in Reach(side, len)
  PROVE  /\ Reached(side, v, first, i) \in 1 .. Len(v) + 1
         /\ Ended(side, len, i) => Reached(side, v, first, i) = Len(v) + 1
         /\ i \in Occupied(a) /\ (\A k \in Occupied(a) \ {i} : Better(side, i, k))
              => Reached(side, v, first, i) = 1
<1> DEFINE at == Reached(side, v, first, i)
           m == MapOf(first, a)
<1>1. /\ Len(v) \in Nat /\ DOMAIN v = 1 .. Len(v) /\ \A k \in 1 .. Len(v) : v[k][1] \in Int
  BY LevelParts
<1>2. i \in Int /\ first + i \in Int BY DEF Reach
<1>3. Place(side, v, first + i, at) BY <1>2, ScanPlaces DEF Reached
<1>4. /\ at \in 1 .. Len(v) + 1
      /\ \A k \in 1 .. Len(v) : Better(side, v[k][1], first + i) <=> k < at
  BY <1>3 DEF Place
<1> HIDE DEF at
<1>5. DOMAIN m = {v[k][1] : k \in 1 .. Len(v)} BY <1>1 DEF LadderMap
<1>6. \A p : p \in DOMAIN m <=> p \in Int /\ p - first \in Occupied(a) BY MapParts
<1> HIDE DEF m
<1>7. \A k \in 1 .. Len(v) : v[k][1] - first \in Occupied(a) /\ v[k][1] \in Int
  BY <1>5, <1>6
<1>8. Occupied(a) \subseteq 0 .. len - 1 BY OccupiedFinite
<1>9. ASSUME Ended(side, len, i) PROVE at = Len(v) + 1
  <2>1. ASSUME NEW k \in 1 .. Len(v) PROVE k < at
    <3>1. v[k][1] - first \in 0 .. len - 1 /\ v[k][1] \in Int BY <1>7, <1>8
    <3>2. Better(side, v[k][1], first + i)
      BY <1>2, <1>9, <3>1 DEF Ended, Better
    <3> QED BY <1>4, <3>2
  <2>2. ASSUME at \in 1 .. Len(v) PROVE FALSE
    <3>1. at < at BY <2>1, <2>2
    <3> QED BY <1>4, <3>1
  <2> QED BY <1>1, <1>4, <2>2
<1>10. ASSUME i \in Occupied(a), \A k \in Occupied(a) \ {i} : Better(side, i, k)
       PROVE  at = 1
  <2>1. ASSUME NEW k \in 1 .. Len(v) PROVE ~(k < at)
    <3>1. DEFINE o == v[k][1] - first
    <3>2. o \in Occupied(a) /\ v[k][1] \in Int BY <1>7
    <3>3. o \in Int BY <3>2, <1>8
    <3>4. ~Better(side, o, i) BY <1>2, <1>10, <3>2, <3>3, BetterOrder
    <3>5. ~Better(side, v[k][1], first + i)
      BY <1>2, <3>2, <3>4 DEF Better
    <3> QED BY <1>4, <3>5
  <2>2. ASSUME 1 < at PROVE FALSE
    <3>1. 1 \in 1 .. Len(v) BY <1>1, <1>4, <2>2
    <3> QED BY <2>1, <2>2, <3>1
  <2> QED BY <1>4, <2>2
<1> QED BY <1>4, <1>9, <1>10 DEF at

\* Off the end the walk's slot is one of the array, and the next is again one it can be in.
LEMMA WalkStays ==
  ASSUME NEW side \in Side, NEW len \in Nat, NEW i \in Reach(side, len), ~Ended(side, len, i)
  PROVE  i \in 0 .. len - 1 /\ Onward(side, i) \in Reach(side, len)
<1>1. CASE side = "Bid" BY <1>1 DEF Reach, Ended, Onward
<1>2. CASE side = "Ask" BY <1>2 DEF Reach, Ended, Onward
<1> QED BY <1>1, <1>2 DEF Side

\* One step of the walk keeps the answer.
LEMMA AnswerStep ==
  ASSUME NEW side \in Side, NEW v \in Ladders, Ordered(side, v),
         NEW len \in Nat, NEW a \in Arrays(len), NEW first \in Int,
         LadderMap(v) = MapOf(first, a), NEW n \in Nat,
         NEW i \in Reach(side, len), NEW out \in Ladders
  PROVE  LET at == Reached(side, v, first, i)
             next == Reached(side, v, first, Onward(side, i))
             w == Written(first, a, i, out)
         IN IF Ended(side, len, i) \/ Len(out) = n THEN Answer(v, at, out, n) = out
            ELSE /\ i \in 0 .. len - 1 /\ Onward(side, i) \in Reach(side, len)
                 /\ w \in Ladders
                 /\ Answer(v, at, out, n) = Answer(v, next, w, n)
<1> DEFINE at == Reached(side, v, first, i)
           next == Reached(side, v, first, Onward(side, i))
           w == Written(first, a, i, out)
<1>1. at \in 1 .. Len(v) + 1 /\ (Ended(side, len, i) => at = Len(v) + 1) BY WalkEnds
<1>2. CASE Ended(side, len, i) \/ Len(out) = n
  <2> HIDE DEF at
  <2>1. Answer(v, at, out, n) = out BY <1>1, <1>2, AnswerEnds
  <2> QED BY <1>2, <2>1 DEF at
<1>3. CASE ~(Ended(side, len, i) \/ Len(out) = n)
  <2>1. i \in 0 .. len - 1 /\ Onward(side, i) \in Reach(side, len) BY <1>3, WalkStays
  <2>2. /\ a[i] # 0 => at <= Len(v) /\ v[at] = <<first + i, a[i]>> /\ next = at + 1
        /\ a[i] = 0 => next = at
    BY <2>1, SlotLevels
  <2> HIDE DEF at, next
  <2>3. CASE a[i] = 0
    <3>1. w = out BY <2>3 DEF Written
    <3> QED BY <1>3, <2>1, <2>2, <2>3, <3>1 DEF at, next
  <2>4. CASE a[i] # 0
    <3>1. w = Append(out, v[at]) BY <2>2, <2>4 DEF Written
    <3>2. at \in 1 .. Len(v) BY <1>1, <2>2, <2>4, LevelParts
    <3> HIDE DEF w
    <3>3. w \in Ladders /\ Answer(v, at, out, n) = Answer(v, at + 1, w, n)
      BY <1>3, <3>1, <3>2, AnswerGoesOn
    <3> QED BY <1>3, <2>1, <2>2, <2>4, <3>3 DEF at, next, w
  <2> QED BY <2>3, <2>4
<1> QED BY <1>2, <1>3

\* How many slots the walk has before it.
Left(side, len, i) == IF side = "Bid" THEN i + 1 ELSE len - i

\* Each step of the walk leaves fewer slots before it, so it comes to an end.
LEMMA LeftFalls ==
  ASSUME NEW side \in Side, NEW len \in Nat, NEW i \in Reach(side, len)
  PROVE  /\ Left(side, len, i) \in Nat
         /\ ~Ended(side, len, i) => Left(side, len, Onward(side, i)) < Left(side, len, i)
<1>1. CASE side = "Bid" BY <1>1 DEF Reach, Left, Onward
<1>2. CASE side = "Ask" BY <1>2 DEF Reach, Left, Onward
<1> QED BY <1>1, <1>2 DEF Side

\* There is a function that walks as top_n does: it gives the answers.
LEMMA WalkExists ==
  ASSUME NEW side \in Side, NEW v \in Ladders, Ordered(side, v),
         NEW len \in Nat, NEW a \in Arrays(len), NEW first \in Int,
         LadderMap(v) = MapOf(first, a), NEW n \in Nat
  PROVE  \E f : Walks(f, side, first, a, len, n)
<1> DEFINE D == Reach(side, len) \X Ladders
           A(i, out) == Answer(v, Reached(side, v, first, i), out, n)
           h == [s \in D |-> A(s[1], s[2])]
           g == [s \in D |-> IF Ended(side, len, s[1]) \/ Len(s[2]) = n THEN s[2]
                             ELSE h[<<Onward(side, s[1]), Written(first, a, s[1], s[2])>>]]
<1>1. ASSUME NEW s \in D PROVE h[s] = g[s]
  <2> DEFINE i == s[1]
             out == s[2]
             t == <<Onward(side, i), Written(first, a, i, out)>>
  <2>1. i \in Reach(side, len) /\ out \in Ladders OBVIOUS
  <2>2. h[s] = A(i, out) OBVIOUS
  <2>3. g[s] = IF Ended(side, len, i) \/ Len(out) = n THEN out ELSE h[t] OBVIOUS
  <2>4. IF Ended(side, len, i) \/ Len(out) = n THEN A(i, out) = out
        ELSE /\ i \in 0 .. len - 1 /\ Onward(side, i) \in Reach(side, len)
             /\ Written(first, a, i, out) \in Ladders
             /\ A(i, out) = A(Onward(side, i), Written(first, a, i, out))
    <3> HIDE DEF i, out
    <3> QED BY <2>1, AnswerStep
  <2>5. ASSUME Onward(side, i) \in Reach(side, len), Written(first, a, i, out) \in Ladders
        PROVE  h[t] = A(Onward(side, i), Written(first, a, i, out))
    <3>1. t \in D BY <2>5
    <3>2. h[t] = A(t[1], t[2]) BY <3>1
    <3> QED BY <3>2
  <2> HIDE DEF i, out, h, g, t, A
  <2> QED BY <2>2, <2>3, <2>4, <2>5
<1>2. h = g BY <1>1
<1> HIDE DEF D
<1>3. Walks(h, side, first, a, len, n) BY <1>2 DEF Walks, D, Ladders
<1> QED BY <1>3

\* f gives the answers.
Answers(f, side, v, first, len, n) ==
  \A i \in Reach(side, len) : \A out \in Ladders :
    f[<<i, out>>] = Answer(v, Reached(side, v, first, i), out, n)

\* Every function that walks as top_n does gives the answers.
LEMMA WalkAnswers ==
  ASSUME NEW side \in Side, NEW v \in Ladders, Ordered(side, v),
         NEW len \in Nat, NEW a \in Arrays(len), NEW first \in Int,
         LadderMap(v) = MapOf(first, a), NEW n \in Nat,
         NEW f, Walks(f, side, first, a, len, n)
  PROVE  Answers(f, side, v, first, len, n)
<1> DEFINE A(i, out) == Answer(v, Reached(side, v, first, i), out, n)
           Bad == {d \in Nat : \E i \in Reach(side, len) : \E out \in Ladders :
                                 d = Left(side, len, i) /\ f[<<i, out>>] # A(i, out)}
<1>1. ASSUME NEW i \in Reach(side, len), NEW out \in Ladders
      PROVE  f[<<i, out>>] = IF Ended(side, len, i) \/ Len(out) = n THEN out
                             ELSE f[<<Onward(side, i), Written(first, a, i, out)>>]
  <2>1. <<i, out>> \in Reach(side, len) \X Seq(Int \X Int) BY DEF Ladders
  <2> QED BY <2>1 DEF Walks
<1>2. ASSUME Bad # {} PROVE FALSE
  <2>1. Bad \subseteq Nat OBVIOUS
  <2> HIDE DEF Bad
  <2>2. PICK d \in Bad : \A e \in Bad : d <= e BY <1>2, <2>1, Least
  <2>3. PICK i \in Reach(side, len), out \in Ladders :
          d = Left(side, len, i) /\ f[<<i, out>>] # A(i, out)
    BY <2>2 DEF Bad
  <2> DEFINE j == Onward(side, i)
             w == Written(first, a, i, out)
  <2>4. IF Ended(side, len, i) \/ Len(out) = n THEN A(i, out) = out
        ELSE /\ i \in 0 .. len - 1 /\ j \in Reach(side, len) /\ w \in Ladders
             /\ A(i, out) = A(j, w)
    BY AnswerStep
  <2>5. Left(side, len, i) \in Nat /\ (~Ended(side, len, i) => Left(side, len, j) < d)
    BY <2>3, LeftFalls
  <2>6. j \in Reach(side, len) => Left(side, len, j) \in Nat BY LeftFalls
  <2> HIDE DEF A, j, w
  <2>7. ~(Ended(side, len, i) \/ Len(out) = n) BY <1>1, <2>3, <2>4
  <2>8. f[<<j, w>>] # A(j, w) BY <1>1, <2>3, <2>4, <2>7 DEF j, w
  <2>9. Left(side, len, j) \in Bad BY <2>4, <2>6, <2>7, <2>8 DEF Bad
  <2>10. d \in Nat BY <2>3, <2>5
  <2> QED BY <2>2, <2>4, <2>5, <2>6, <2>7, <2>9, <2>10
<1>3. ASSUME NEW i \in Reach(side, len), NEW out \in Ladders
      PROVE  f[<<i, out>>] = A(i, out)
  <2>1. Left(side, len, i) \in Nat BY LeftFalls
  <2> HIDE DEF A
  <2> QED BY <1>2, <2>1
<1> QED BY <1>3 DEF Answers

\* From the best slot on, the n best levels.
LEMMA FrontIs ==
  ASSUME NEW v \in Ladders, NEW n \in Nat
  PROVE  Answer(v, 1, <<>>, n) = FirstOf(v, n)
<1> DEFINE l == Shorter(n, Len(v))
           r == SubSeq(v, 1, l)
           S == Int \X Int
<1>1. Len(v) \in Nat /\ \A i \in 1 .. Len(v) : v[i] \in S BY LevelParts
<1>2. More(v, 1, <<>>, n) = l BY <1>1 DEF More, Shorter
<1>3. 1 + l - 1 = l /\ l \in Nat /\ l <= Len(v) BY <1>1 DEF Shorter
<1>4. Answer(v, 1, <<>>, n) = <<>> \o r BY <1>2, <1>3 DEF Answer
<1>5. \A i \in 1 .. l : v[i] \in S BY <1>1, <1>3
<1> HIDE DEF S, l
<1>6. 1 \in Int /\ l \in Int BY <1>3
<1>7. r \in Seq(S) BY <1>5, <1>6, SubSeqProperties
<1> HIDE DEF r
<1>8. <<>> \o r = r BY <1>7
<1> QED BY <1>4, <1>8 DEF FirstOf, r, l


\* What FlatBook's walk writes into a buffer of n levels (flat.rs:179-212).
LEMMA FlatTopN ==
  ASSUME IInv, RevInv, RevMaps = Maps, NEW side \in Side, NEW n \in Nat
  PROVE  TopN(side, n) = TopOf(side, Maps[side], n)
<1> DEFINE a == slots[side]
           b == best[side]
           v == rev[side]
           walk == CHOOSE f : Walks(f, side, base, a, Span, n)
<1>1. Span \in Nat /\ a \in Arrays(Span) BY Arrayed
<1>2. base \in Int /\ Sound(side, a, b, depth[side]) BY DEF IInv, TypeOK
<1>3. v \in Ladders /\ Ordered(side, v) BY DEF RevInv
<1>4. LadderMap(v) = MapOf(base, a) /\ LadderMap(v) = Maps[side]
  BY DEF RevMaps, LadderMaps, Maps
<1>5. TopN(side, n) = IF b = NoSlot THEN <<>> ELSE walk[<<b, <<>>>>]
  BY DEF TopN, Walks, Reach, Ended, Onward, Written
<1> HIDE DEF a, b, v, walk
<1>6. TopOf(side, Maps[side], n) = Answer(v, 1, <<>>, n)
  BY <1>3, <1>4, LadderTop, FrontIs
<1>7. <<>> \in Ladders /\ Len(v) \in Nat BY <1>3, LevelParts, EmptyLadder
<1>8. Occupied(a) \subseteq 0 .. Span - 1 BY <1>1, OccupiedFinite
<1>9. CASE Occupied(a) = {}
  <2>1. b = NoSlot BY <1>2, <1>9 DEF Sound
  <2>2. DOMAIN LadderMap(v) = {} BY <1>4, <1>9 DEF MapOf
  <2>3. Len(v) = 0 BY <1>3, <2>2, LadderDepth, FS_EmptySet
  <2>4. 1 \in 1 .. Len(v) + 1 /\ 1 = Len(v) + 1 BY <2>3
  <2>5. Answer(v, 1, <<>>, n) = <<>> BY <1>3, <1>7, <2>4, AnswerEnds
  <2> QED BY <1>5, <1>6, <2>1, <2>5
<1>10. CASE Occupied(a) # {}
  <2>1. b \in Occupied(a) /\ \A i \in Occupied(a) \ {b} : Better(side, b, i)
    BY <1>2, <1>10 DEF Sound
  <2>2. b \in 0 .. Span - 1 /\ b # NoSlot BY <1>1, <1>8, <2>1 DEF NoSlot
  <2>3. b \in Reach(side, Span) BY <1>1, <2>2 DEF Reach
  <2>4. Reached(side, v, base, b) = 1
    BY <1>1, <1>2, <1>3, <1>4, <2>1, <2>3, WalkEnds
  <2>5. Walks(walk, side, base, a, Span, n)
    BY <1>1, <1>2, <1>3, <1>4, WalkExists DEF walk
  <2>6. walk[<<b, <<>>>>] = Answer(v, Reached(side, v, base, b), <<>>, n)
    <3>1. Answers(walk, side, v, base, Span, n)
      BY <1>1, <1>2, <1>3, <1>4, <2>5, WalkAnswers
    <3> QED BY <1>7, <2>3, <3>1 DEF Answers
  <2> QED BY <1>5, <1>6, <2>2, <2>4, <2>6
<1> QED BY <1>9, <1>10

\* After every event the four books answer every query alike: the best levels, the
\* depths, and the n best levels for every n (tests/oracle.rs:3-8, 43-60).
THEOREM AllSame == OracleSpec => []ObservedSame
<1>1. OracleInv /\ TopSame => ObservedSame
  <2> SUFFICES ASSUME OracleInv, TopSame PROVE ObservedSame OBVIOUS
  <2>1. IInv /\ SortedInv /\ RevInv /\ Agree BY DEF OracleInv
  <2>2. ASSUME NEW side \in Side, NEW n \in 0 .. BTree!Depth(side) + 1
        PROVE  {TopN(side, n), Sorted!TopN(side, n), Rev!TopN(side, n)}
                 = {BTree!TopN(side, n)}
    <3>1. /\ tree[side] = Maps[side] /\ SortedMaps[side] = Maps[side]
          /\ RevMaps[side] = Maps[side] /\ RevMaps = Maps
      BY <2>1 DEF Agree
    <3>2. n \in Nat OBVIOUS
    <3>3. BTree!TopN(side, n) = TopOf(side, tree[side], n)
      BY DEF BTree!TopN, BTree!Nth, BTree!Depth, BTree!Cardinality, BTree!Better, TopOf,
             NthOf, Shorter, Cardinality, Better
    <3>4. TopN(side, n) = TopOf(side, Maps[side], n) BY <2>1, <3>1, <3>2, FlatTopN
    <3>5. /\ Sorted!TopN(side, n) = TopOf(side, SortedMaps[side], n)
          /\ Rev!TopN(side, n) = TopOf(side, RevMaps[side], n)
      BY <2>1, <3>2, VectorTopN
    <3> QED BY <3>1, <3>3, <3>4, <3>5
  <2> QED BY <2>2 DEF ObservedSame
<1> QED BY <1>1, OracleInvariant, SameTops, PTL

===============================================================================
