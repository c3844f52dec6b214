----------------------------- MODULE SpmcRingProofs -----------------------------
(***************************************************************************)
(* Proofs about SpmcRing, for every number of consumers, slots and words   *)
(* and every bound on the records pushed, under all the reads the memory   *)
(* model allows; the refinement of BroadcastLog under current reads.       *)
(***************************************************************************)
EXTENDS SpmcRing, ViewMemoryProofs

\* The ranges of the constants, without the power of two.
LEMMA Bounds ==
  /\ Cap \in Nat /\ Cap >= 1
  /\ W \in Nat /\ W >= 1
  /\ WRITING \in Nat /\ MaxPush \in Nat /\ MaxPush < WRITING - 1
BY SpmcRingAssumption

\* The locations of the ring are distinct atomics (ring.rs:56-79).
LEMMA Locations ==
  /\ WriteLoc \in Loc
  /\ \A s \in 0..Cap - 1 : StampLoc(s) \in Loc /\ StampLoc(s) # WriteLoc
  /\ \A s \in 0..Cap - 1, w \in 1..W :
       WordLoc(s, w) \in Loc /\ WordLoc(s, w) # WriteLoc
  /\ \A s, u \in 0..Cap - 1, w \in 1..W : StampLoc(s) # WordLoc(u, w)
  /\ \A s, u \in 0..Cap - 1 : StampLoc(s) = StampLoc(u) => s = u
  /\ \A s, u \in 0..Cap - 1, w, x \in 1..W :
       WordLoc(s, w) = WordLoc(u, x) => s = u /\ w = x
BY SpmcRingAssumption DEF RingLoc, WriteLoc, StampLoc, WordLoc

-------------------------------------------------------------------------------
(* Slots *)

Slots == 0..Cap - 1

\* Every position has a slot (ring.rs:181: pos & mask).
LEMMA SlotRange == \A p \in Nat : SlotOf(p) \in Slots
BY Bounds DEF SlotOf, Slots

\* Products by the capacity, which the provers do not find by themselves.
LEMMA Product ==
  ASSUME NEW n \in Nat, n >= 1, NEW a \in Int, NEW b \in Int
  PROVE  /\ a * n \in Int
         /\ a < b => b * n >= a * n + n
         /\ a <= b => b * n >= a * n
         /\ (a + 1) * n = a * n + n
OBVIOUS

\* A number by its quotient and remainder.
LEMMA Division ==
  ASSUME NEW n \in Nat, n >= 1, NEW p \in Nat
  PROVE  /\ p = (p \div n) * n + (p % n)
         /\ p \div n \in Nat /\ p % n \in 0..n - 1
OBVIOUS

\* Two positions of one slot are at least a lap apart (ring.rs:181).
LEMMA SlotLap ==
  ASSUME NEW p \in Nat, NEW q \in Nat, p < q, SlotOf(p) = SlotOf(q)
  PROVE  q >= p + Cap
<1> DEFINE a == p \div Cap
           b == q \div Cap
           r == p % Cap
<1>1. p = a * Cap + r /\ a \in Nat /\ r \in 0..Cap - 1 BY Division, Bounds
<1>2. q = b * Cap + (q % Cap) /\ b \in Nat BY Division, Bounds
<1>3. q % Cap = r BY DEF SlotOf
<1>4. q = b * Cap + r BY <1>2, <1>3
<1> HIDE DEF a, b, r
<1>5. a * Cap \in Int /\ b * Cap \in Int BY <1>1, <1>2, Product, Bounds
<1>6. b <= a => a * Cap >= b * Cap BY <1>1, <1>2, Product, Bounds
<1>7. a < b BY <1>1, <1>2, <1>4, <1>5, <1>6
<1>8. b * Cap >= a * Cap + Cap BY <1>1, <1>2, <1>7, Product, Bounds
<1> QED BY <1>1, <1>4, <1>5, <1>8, Bounds

\* The position a lap later has the same slot (ring.rs:181).
LEMMA SlotNext ==
  ASSUME NEW p \in Nat
  PROVE  SlotOf(p + Cap) = SlotOf(p)
<1> DEFINE a == p \div Cap
           b == (p + Cap) \div Cap
           r == p % Cap
           s == (p + Cap) % Cap
<1>1. p = a * Cap + r /\ a \in Nat /\ r \in 0..Cap - 1 BY Division, Bounds
<1>2. p + Cap \in Nat BY Bounds
<1>3. p + Cap = b * Cap + s /\ b \in Nat /\ s \in 0..Cap - 1 BY <1>2, Division, Bounds
<1>4. SlotOf(p + Cap) = s /\ SlotOf(p) = r BY DEF SlotOf
<1> HIDE DEF a, b, r, s
<1>5. a * Cap \in Int /\ b * Cap \in Int BY <1>1, <1>3, Product, Bounds
<1>6. (a + 1) * Cap = a * Cap + Cap BY <1>1, Product, Bounds
<1>7. a + 1 < b => b * Cap >= (a + 1) * Cap + Cap BY <1>1, <1>3, Product, Bounds
<1>8. b < a + 1 => (a + 1) * Cap >= b * Cap + Cap BY <1>1, <1>3, Product, Bounds
<1>9. b = a + 1 BY <1>1, <1>3, <1>5, <1>6, <1>7, <1>8, Bounds
<1>10. s = r BY <1>1, <1>3, <1>5, <1>6, <1>9, Bounds
<1> QED BY <1>4, <1>10

-------------------------------------------------------------------------------
(* The inductive invariant *)

\* The position a stamp is about, busy or ready.
PosOf(x) == IF x >= WRITING THEN x - WRITING ELSE x

\* Positions published.
Pub == Len(mem[WriteLoc]) - 1

\* Positions whose busy stamp has been stored.
Busy == IF pr.pc = "idle" THEN Pub ELSE Pub + 1

\* In memory m, view v has the busy stamp, the ready stamp, a word of record p.
SeenBusy(m, v, p)    == Seen(m, v, StampLoc(SlotOf(p)), p + WRITING)
SeenReady(m, v, p)   == Seen(m, v, StampLoc(SlotOf(p)), p)
SeenWord(m, v, p, w) == Seen(m, v, WordLoc(SlotOf(p), w), Record(p))

\* How far the one push in progress has got.
ProducerInv ==
  /\ \A l \in Loc : Len(mem[l]) >= 1
  /\ Pub <= MaxPush
  /\ pr.pc # "idle" => pr.p = Pub /\ Pub < MaxPush
  /\ \A p \in 0..Pub - 1 : SeenReady(mem, Stored(mem), p)
  /\ pr.pc = "advance" => SeenReady(mem, Stored(mem), pr.p)
  /\ pr.pc = "word" =>
       \A w \in 1..pr.w - 1 : SeenWord(mem, Stored(mem), pr.p, w)
  /\ pr.pc \in {"ready", "advance"} =>
       \A w \in 1..W : SeenWord(mem, Stored(mem), pr.p, w)
  /\ pr.pc \in {"word", "ready"} =>
       \A i \in 1..Len(mem[StampLoc(SlotOf(pr.p))]) :
         mem[StampLoc(SlotOf(pr.p))][i].val # pr.p

\* The fence after P1: a store fenced by f, when the positions below b have
\* been begun, carries every busy stamp so far.
FenceInv(m, b, f) ==
  /\ \A l \in Loc : f[l] <= Len(m[l])
  /\ \A r \in 0..b - 1 : SeenBusy(m, f, r)

\* P4: who acquires write position i - 1 has the ready stamps before it.
WriteInv(m) ==
  \A i \in 1..Len(m[WriteLoc]) :
    /\ m[WriteLoc][i].val = i - 1
    /\ \A p \in 0..i - 2 : SeenReady(m, m[WriteLoc][i].view, p)

\* A stamp of slot s after its first is about a position of that slot; who
\* reads it has the busy stamps before it and, from a ready one, the record.
StampMsg(m, b, s, x, v) ==
  /\ x \in Nat /\ PosOf(x) \in 0..b - 1 /\ SlotOf(PosOf(x)) = s
  /\ \A r \in 0..PosOf(x) - 1 : SeenBusy(m, v, r)
  /\ x < WRITING => \A w \in 1..W : SeenWord(m, v, x, w)

\* Two stamps of one slot: positions only grow, busy before ready.
StampOrder(x, y) == PosOf(x) < PosOf(y) \/ x = y + WRITING

StampInv(m, b) ==
  \A s \in Slots :
    /\ m[StampLoc(s)][1].val = EMPTY
    /\ \A j \in 2..Len(m[StampLoc(s)]) :
         /\ StampMsg(m, b, s, m[StampLoc(s)][j].val, m[StampLoc(s)][j].view)
         /\ \A i \in 2..j - 1 :
              StampOrder(m[StampLoc(s)][i].val, m[StampLoc(s)][j].val)

\* A word of slot s after it was created: it is of a record of that slot, and
\* who reads it has, after a fence, the busy stamp of that record.
WordMsg(m, b, s, x, v) ==
  x \in 1..b /\ SlotOf(x - 1) = s /\ SeenBusy(m, v, x - 1)

WordInv(m, b) ==
  \A s \in Slots, w \in 1..W :
    /\ m[WordLoc(s, w)][1].val = 0
    /\ \A j \in 2..Len(m[WordLoc(s, w)]) :
         /\ WordMsg(m, b, s, m[WordLoc(s, w)][j].val, m[WordLoc(s, w)][j].view)
         /\ \A i \in 2..j - 1 : m[WordLoc(s, w)][i].val <= m[WordLoc(s, w)][j].val

MemoryInv ==
  /\ ProducerInv /\ FenceInv(mem, Busy, fenced)
  /\ WriteInv(mem) /\ StampInv(mem, Busy) /\ WordInv(mem, Busy)

\* What a consumer at position p with view t knows of the record, from R0 to
\* the recheck: a word of another record comes with that record's busy stamp.
KnowsRecord(m, t, p) == SeenReady(m, t.cur, p) /\ SeenReady(m, t.acq, p)

KnowsWords(m, b, t, p, got) ==
  /\ \A w \in 1..W : SeenWord(m, t.cur, p, w)
  /\ \A w \in 1..Len(got) :
       \/ got[w] = Record(p)
       \/ \E q \in p + 1..b - 1 : SlotOf(q) = SlotOf(p) /\ SeenBusy(m, t.acq, q)

\* Who fences with t has the busy stamp of the record a lap after each of D.
KnowsLapped(m, t, D) ==
  \A d \in D : d + Cap <= MaxPush /\ SeenBusy(m, t.acq, d + Cap)

InCallInv(m, b, t, k) ==
  /\ k.pc \in {"stamp", "word", "check"} =>
       k.cursor < Len(m[WriteLoc]) - 1 /\ KnowsRecord(m, t, k.cursor)
  /\ k.pc \in {"word", "check"} => KnowsWords(m, b, t, k.cursor, k.got)
  /\ k.pc = "word" => Len(k.got) < W
  /\ k.pc = "check" => Len(k.got) = W
  /\ k.pc = "resync" =>
       b > k.cursor + Cap /\ KnowsLapped(m, t, 0..k.cursor - 1)

\* A cursor that moved back is among positions known to be overwritten.
OrderInv(m, t, k) == \A p \in k.taken : KnowsLapped(m, t, k.cursor..p)

HistoryInv(m, k) ==
  /\ k.cursor <= Len(m[WriteLoc]) - 1
  /\ k.pc = "absent" => k.taken = {}
  /\ k.start .. k.cursor - 1 \subseteq k.taken \cup k.missed
  /\ k.out.kind = "item" => Whole(k.out)

ConsumerInv(m, b, t, k) ==
  InCallInv(m, b, t, k) /\ OrderInv(m, t, k) /\ HistoryInv(m, k)

IInv ==
  /\ TypeOK /\ MemoryInv
  /\ \A c \in Consumers : ConsumerInv(mem, Busy, view[c], co[c])

-------------------------------------------------------------------------------
(* What stays true while the memory grows and views move forward *)

\* What a view has of a record it keeps.
LEMMA KeepsSeen ==
  ASSUME NEW m, NEW n, Grows(m, n),
         NEW v \in View, NEW u \in View, Forward(v, u), NEW p \in Nat
  PROVE  /\ SeenBusy(m, v, p) => SeenBusy(n, u, p)
         /\ SeenReady(m, v, p) => SeenReady(n, u, p)
         /\ \A w \in 1..W : SeenWord(m, v, p, w) => SeenWord(n, u, p, w)
<1>1. SlotOf(p) \in 0..Cap - 1 BY SlotRange DEF Slots
<1>2. /\ StampLoc(SlotOf(p)) \in Loc
      /\ \A w \in 1..W : WordLoc(SlotOf(p), w) \in Loc
  BY <1>1, Locations
<1>3. ASSUME NEW l \in Loc, NEW x, Seen(m, v, l, x) PROVE Seen(n, u, l, x)
  <2>1. u[l] >= v[l] BY DEF Forward
  <2> QED BY <1>3, <2>1, SeenStays
<1> QED BY <1>2, <1>3 DEF SeenBusy, SeenReady, SeenWord

\* Every view is forward of itself, every memory grown from itself.
LEMMA Reflexive ==
  /\ \A v \in View : Forward(v, v)
  /\ \A m \in Memory : Grows(m, m)
<1>1. ASSUME NEW v \in View, NEW l \in Loc PROVE v[l] >= v[l]
  <2>1. v[l] \in Nat BY DEF View
  <2> QED BY <2>1
<1>2. ASSUME NEW m \in Memory, NEW l \in Loc
      PROVE  /\ Len(m[l]) \in Nat /\ Len(m[l]) <= Len(m[l])
  <2>1. m[l] \in Seq(Message) BY DEF Memory
  <2>2. Len(m[l]) \in Nat BY <2>1
  <2> QED BY <2>2
<1> QED BY <1>1, <1>2 DEF Forward, Grows

\* A stamp, and a word, say the same of a grown memory.
LEMMA MessagesStay ==
  ASSUME NEW m, NEW n, Grows(m, n), NEW b \in Nat, NEW d \in Nat, b <= d,
         NEW s \in Slots, NEW x, NEW v \in View
  PROVE  /\ StampMsg(m, b, s, x, v) => StampMsg(n, d, s, x, v)
         /\ WordMsg(m, b, s, x, v) => WordMsg(n, d, s, x, v)
<1>1. Forward(v, v) BY Reflexive
<1>2. \A p \in Nat : /\ SeenBusy(m, v, p) => SeenBusy(n, v, p)
                     /\ \A w \in 1..W : SeenWord(m, v, p, w) => SeenWord(n, v, p, w)
  BY <1>1, KeepsSeen
<1>3. ASSUME StampMsg(m, b, s, x, v) PROVE StampMsg(n, d, s, x, v)
  <2>1. /\ x \in Nat /\ PosOf(x) \in 0..b - 1 /\ SlotOf(PosOf(x)) = s
        /\ \A r \in 0..PosOf(x) - 1 : SeenBusy(m, v, r)
        /\ x < WRITING => \A w \in 1..W : SeenWord(m, v, x, w)
    BY <1>3 DEF StampMsg
  <2>2. PosOf(x) \in 0..d - 1 BY <2>1
  <2>3. \A r \in 0..PosOf(x) - 1 : SeenBusy(n, v, r) BY <1>2, <2>1
  <2>4. x < WRITING => \A w \in 1..W : SeenWord(n, v, x, w) BY <1>2, <2>1
  <2> QED BY <2>1, <2>2, <2>3, <2>4 DEF StampMsg
<1>4. ASSUME WordMsg(m, b, s, x, v) PROVE WordMsg(n, d, s, x, v)
  <2>1. x \in 1..b /\ SlotOf(x - 1) = s /\ SeenBusy(m, v, x - 1)
    BY <1>4 DEF WordMsg
  <2>2. x \in 1..d /\ x - 1 \in Nat BY <2>1
  <2> QED BY <1>2, <2>1, <2>2 DEF WordMsg
<1> QED BY <1>3, <1>4

\* A message of a typed memory has a value and a view.
LEMMA MessageType ==
  ASSUME NEW m \in Memory, NEW l \in Loc
  PROVE  /\ Len(m[l]) \in Nat
         /\ \A i \in 1..Len(m[l]) : m[l][i].val \in Nat /\ m[l][i].view \in View
<1>1. m[l] \in Seq(Message) BY DEF Memory
<1>2. Len(m[l]) \in Nat BY <1>1
<1>3. \A i \in 1..Len(m[l]) : m[l][i] \in Message BY <1>1
<1> QED BY <1>2, <1>3 DEF Message

-------------------------------------------------------------------------------
(* What a store does to the messages of a location *)

\* A store to one stamp: the other messages stay, the new one is to be shown.
LEMMA StampAppended ==
  ASSUME NEW m \in Memory, NEW n \in Memory, Grows(m, n),
         NEW b \in Nat, NEW d \in Nat, b <= d, StampInv(m, b),
         NEW s \in Slots, NEW x, NEW v,
         \A u \in Slots \ {s} : n[StampLoc(u)] = m[StampLoc(u)],
         Len(m[StampLoc(s)]) >= 1,
         Len(n[StampLoc(s)]) = Len(m[StampLoc(s)]) + 1,
         n[StampLoc(s)][Len(m[StampLoc(s)]) + 1].val = x,
         n[StampLoc(s)][Len(m[StampLoc(s)]) + 1].view = v,
         StampMsg(n, d, s, x, v),
         \A i \in 2..Len(m[StampLoc(s)]) : StampOrder(m[StampLoc(s)][i].val, x)
  PROVE  StampInv(n, d)
<1> SUFFICES ASSUME NEW u \in Slots
             PROVE  /\ n[StampLoc(u)][1].val = EMPTY
                    /\ \A j \in 2..Len(n[StampLoc(u)]) :
                         /\ StampMsg(n, d, u, n[StampLoc(u)][j].val, n[StampLoc(u)][j].view)
                         /\ \A i \in 2..j - 1 : StampOrder(n[StampLoc(u)][i].val,
                                                          n[StampLoc(u)][j].val)
  BY DEF StampInv
<1> DEFINE q == m[StampLoc(u)]
           r == n[StampLoc(u)]
<1>1. StampLoc(u) \in Loc BY Locations DEF Slots
<1>2. /\ Len(q) \in Nat /\ Len(r) \in Nat /\ Len(q) <= Len(r)
      /\ \A i \in 1..Len(q) : r[i] = q[i]
  BY <1>1 DEF Grows
<1>3. \A i \in 1..Len(q) : q[i].view \in View BY <1>1, MessageType
<1>4. /\ q[1].val = EMPTY
      /\ \A j \in 2..Len(q) : /\ StampMsg(m, b, u, q[j].val, q[j].view)
                              /\ \A i \in 2..j - 1 : StampOrder(q[i].val, q[j].val)
  BY DEF StampInv
<1>5. u # s => r = q OBVIOUS
<1>6. u = s => /\ Len(q) >= 1 /\ Len(r) = Len(q) + 1
               /\ r[Len(q) + 1].val = x /\ r[Len(q) + 1].view = v
               /\ \A i \in 2..Len(q) : StampOrder(q[i].val, x)
  OBVIOUS
<1> HIDE DEF q, r
<1> SUFFICES /\ r[1].val = EMPTY
             /\ \A j \in 2..Len(r) : /\ StampMsg(n, d, u, r[j].val, r[j].view)
                                     /\ \A i \in 2..j - 1 : StampOrder(r[i].val, r[j].val)
  BY DEF r
<1>7. ASSUME NEW j \in 2..Len(q) PROVE StampMsg(n, d, u, r[j].val, r[j].view)
  <2>1. j \in 1..Len(q) BY <1>2
  <2>2. StampMsg(m, b, u, q[j].val, q[j].view) BY <1>4
  <2> QED BY <1>2, <1>3, <2>1, <2>2, MessagesStay
<1>8. ASSUME NEW j \in 2..Len(q), NEW i \in 2..j - 1
      PROVE  StampOrder(r[i].val, r[j].val)
  <2>1. i \in 1..Len(q) /\ j \in 1..Len(q) BY <1>2
  <2> QED BY <1>2, <1>4, <2>1
<1>9. CASE u # s
  <2>1. r[1].val = EMPTY BY <1>4, <1>5, <1>9
  <2> QED BY <1>5, <1>7, <1>8, <1>9, <2>1
<1>10. CASE u = s
  <2>1. r[1].val = EMPTY BY <1>2, <1>4, <1>6, <1>10
  <2>2. ASSUME NEW j \in 2..Len(r), NEW i \in 2..j - 1
        PROVE  StampOrder(r[i].val, r[j].val)
    <3>1. CASE j \in 2..Len(q) BY <1>8, <3>1
    <3>2. CASE j = Len(q) + 1
      <4>1. i \in 2..Len(q) /\ i \in 1..Len(q) BY <1>2, <3>2
      <4> QED BY <1>2, <1>6, <1>10, <3>2, <4>1
    <3>3. j \in 2..Len(q) \/ j = Len(q) + 1 BY <1>2, <1>6, <1>10
    <3> QED BY <3>1, <3>2, <3>3
  <2>3. ASSUME NEW j \in 2..Len(r) PROVE StampMsg(n, d, u, r[j].val, r[j].view)
    <3>1. CASE j \in 2..Len(q) BY <1>7, <3>1
    <3>2. CASE j = Len(q) + 1 BY <1>6, <1>10, <3>2
    <3>3. j \in 2..Len(q) \/ j = Len(q) + 1 BY <1>2, <1>6, <1>10
    <3> QED BY <3>1, <3>2, <3>3
  <2> QED BY <2>1, <2>2, <2>3
<1> QED BY <1>9, <1>10

\* A store elsewhere leaves what is said of the stamps true.
LEMMA StampsStay ==
  ASSUME NEW m \in Memory, NEW n \in Memory, Grows(m, n),
         NEW b \in Nat, NEW d \in Nat, b <= d, StampInv(m, b),
         \A u \in Slots : n[StampLoc(u)] = m[StampLoc(u)]
  PROVE  StampInv(n, d)
<1> SUFFICES ASSUME NEW u \in Slots
             PROVE  /\ m[StampLoc(u)][1].val = EMPTY
                    /\ \A j \in 2..Len(m[StampLoc(u)]) :
                         /\ StampMsg(n, d, u, m[StampLoc(u)][j].val, m[StampLoc(u)][j].view)
                         /\ \A i \in 2..j - 1 : StampOrder(m[StampLoc(u)][i].val,
                                                          m[StampLoc(u)][j].val)
  BY DEF StampInv
<1> DEFINE q == m[StampLoc(u)]
<1>1. StampLoc(u) \in Loc BY Locations DEF Slots
<1>2. Len(q) \in Nat /\ \A i \in 1..Len(q) : q[i].view \in View
  BY <1>1, MessageType
<1>3. /\ q[1].val = EMPTY
      /\ \A j \in 2..Len(q) : /\ StampMsg(m, b, u, q[j].val, q[j].view)
                              /\ \A i \in 2..j - 1 : StampOrder(q[i].val, q[j].val)
  BY DEF StampInv
<1> HIDE DEF q
<1>4. ASSUME NEW j \in 2..Len(q) PROVE StampMsg(n, d, u, q[j].val, q[j].view)
  <2>1. j \in 1..Len(q) BY <1>2
  <2>2. StampMsg(m, b, u, q[j].val, q[j].view) BY <1>3
  <2> QED BY <1>2, <2>1, <2>2, MessagesStay
<1> QED BY <1>3, <1>4 DEF q

\* A store to one word: the other messages stay, the new one is to be shown.
LEMMA WordAppended ==
  ASSUME NEW m \in Memory, NEW n \in Memory, Grows(m, n),
         NEW b \in Nat, NEW d \in Nat, b <= d, WordInv(m, b),
         NEW s \in Slots, NEW w \in 1..W, NEW x, NEW v,
         \A u \in Slots, y \in 1..W : (u = s /\ y = w)
           \/ n[WordLoc(u, y)] = m[WordLoc(u, y)],
         Len(m[WordLoc(s, w)]) >= 1,
         Len(n[WordLoc(s, w)]) = Len(m[WordLoc(s, w)]) + 1,
         n[WordLoc(s, w)][Len(m[WordLoc(s, w)]) + 1].val = x,
         n[WordLoc(s, w)][Len(m[WordLoc(s, w)]) + 1].view = v,
         WordMsg(n, d, s, x, v),
         \A i \in 2..Len(m[WordLoc(s, w)]) : m[WordLoc(s, w)][i].val <= x
  PROVE  WordInv(n, d)
<1> SUFFICES ASSUME NEW u \in Slots, NEW y \in 1..W
             PROVE  /\ n[WordLoc(u, y)][1].val = 0
                    /\ \A j \in 2..Len(n[WordLoc(u, y)]) :
                         /\ WordMsg(n, d, u, n[WordLoc(u, y)][j].val,
                                    n[WordLoc(u, y)][j].view)
                         /\ \A i \in 2..j - 1 :
                              n[WordLoc(u, y)][i].val <= n[WordLoc(u, y)][j].val
  BY DEF WordInv
<1> DEFINE q == m[WordLoc(u, y)]
           r == n[WordLoc(u, y)]
<1>1. WordLoc(u, y) \in Loc BY Locations DEF Slots
<1>2. /\ Len(q) \in Nat /\ Len(r) \in Nat /\ Len(q) <= Len(r)
      /\ \A i \in 1..Len(q) : r[i] = q[i]
  BY <1>1 DEF Grows
<1>3. \A i \in 1..Len(q) : q[i].view \in View BY <1>1, MessageType
<1>4. /\ q[1].val = 0
      /\ \A j \in 2..Len(q) : /\ WordMsg(m, b, u, q[j].val, q[j].view)
                              /\ \A i \in 2..j - 1 : q[i].val <= q[j].val
  BY DEF WordInv
<1>5. r = q \/ (u = s /\ y = w) OBVIOUS
<1>6. u = s /\ y = w => /\ Len(q) >= 1 /\ Len(r) = Len(q) + 1
                        /\ r[Len(q) + 1].val = x /\ r[Len(q) + 1].view = v
                        /\ \A i \in 2..Len(q) : q[i].val <= x
  OBVIOUS
<1> HIDE DEF q, r
<1> SUFFICES /\ r[1].val = 0
             /\ \A j \in 2..Len(r) : /\ WordMsg(n, d, u, r[j].val, r[j].view)
                                     /\ \A i \in 2..j - 1 : r[i].val <= r[j].val
  BY DEF r
<1>7. ASSUME NEW j \in 2..Len(q) PROVE WordMsg(n, d, u, r[j].val, r[j].view)
  <2>1. j \in 1..Len(q) BY <1>2
  <2>2. WordMsg(m, b, u, q[j].val, q[j].view) BY <1>4
  <2> QED BY <1>2, <1>3, <2>1, <2>2, MessagesStay
<1>8. ASSUME NEW j \in 2..Len(q), NEW i \in 2..j - 1
      PROVE  r[i].val <= r[j].val
  <2>1. i \in 1..Len(q) /\ j \in 1..Len(q) BY <1>2
  <2>2. r[i] = q[i] /\ r[j] = q[j] BY <1>2, <2>1
  <2>3. q[i].val <= q[j].val BY <1>4
  <2> QED BY <2>2, <2>3
<1>9. CASE r = q
  <2>1. r[1].val = 0 BY <1>4, <1>9
  <2> QED BY <1>7, <1>8, <1>9, <2>1
<1>10. CASE u = s /\ y = w
  <2>1. r[1].val = 0
    <3>1. r[1] = q[1] BY <1>2, <1>6, <1>10
    <3> QED BY <1>4, <3>1
  <2>0. Len(r) = Len(q) + 1 /\ Len(q) \in Nat /\ Len(q) >= 1 BY <1>2, <1>6, <1>10
  <2>2. ASSUME NEW j \in 2..Len(r), NEW i \in 2..j - 1
        PROVE  r[i].val <= r[j].val
    <3>1. CASE j \in 2..Len(q) BY <1>8, <3>1
    <3>2. CASE j = Len(q) + 1
      <4>1. i \in 2..Len(q) /\ i \in 1..Len(q) BY <1>2, <3>2
      <4>2. r[i] = q[i] /\ q[i].val <= x BY <1>2, <1>6, <1>10, <4>1
      <4> QED BY <1>6, <1>10, <3>2, <4>2
    <3>3. j \in 2..Len(q) \/ j = Len(q) + 1 BY <2>0
    <3> QED BY <3>1, <3>2, <3>3
  <2>3. ASSUME NEW j \in 2..Len(r) PROVE WordMsg(n, d, u, r[j].val, r[j].view)
    <3>1. CASE j \in 2..Len(q) BY <1>7, <3>1
    <3>2. CASE j = Len(q) + 1 BY <1>6, <1>10, <3>2
    <3>3. j \in 2..Len(q) \/ j = Len(q) + 1 BY <2>0
    <3> QED BY <3>1, <3>2, <3>3
  <2> QED BY <2>1, <2>2, <2>3
<1> QED BY <1>5, <1>9, <1>10

\* A store elsewhere leaves what is said of the words true.
LEMMA WordsStay ==
  ASSUME NEW m \in Memory, NEW n \in Memory, Grows(m, n),
         NEW b \in Nat, NEW d \in Nat, b <= d, WordInv(m, b),
         \A u \in Slots, y \in 1..W : n[WordLoc(u, y)] = m[WordLoc(u, y)]
  PROVE  WordInv(n, d)
<1> SUFFICES ASSUME NEW u \in Slots, NEW y \in 1..W
             PROVE  /\ m[WordLoc(u, y)][1].val = 0
                    /\ \A j \in 2..Len(m[WordLoc(u, y)]) :
                         /\ WordMsg(n, d, u, m[WordLoc(u, y)][j].val,
                                    m[WordLoc(u, y)][j].view)
                         /\ \A i \in 2..j - 1 :
                              m[WordLoc(u, y)][i].val <= m[WordLoc(u, y)][j].val
  BY DEF WordInv
<1> DEFINE q == m[WordLoc(u, y)]
<1>1. WordLoc(u, y) \in Loc BY Locations DEF Slots
<1>2. Len(q) \in Nat /\ \A i \in 1..Len(q) : q[i].view \in View
  BY <1>1, MessageType
<1>3. /\ q[1].val = 0
      /\ \A j \in 2..Len(q) : /\ WordMsg(m, b, u, q[j].val, q[j].view)
                              /\ \A i \in 2..j - 1 : q[i].val <= q[j].val
  BY DEF WordInv
<1> HIDE DEF q
<1>4. ASSUME NEW j \in 2..Len(q) PROVE WordMsg(n, d, u, q[j].val, q[j].view)
  <2>1. j \in 1..Len(q) BY <1>2
  <2>2. WordMsg(m, b, u, q[j].val, q[j].view) BY <1>3
  <2> QED BY <1>2, <2>1, <2>2, MessagesStay
<1> QED BY <1>3, <1>4 DEF q

\* The write position after a store elsewhere, and after P4's store of x.
LEMMA WriteStays ==
  ASSUME NEW m \in Memory, NEW n \in Memory, Grows(m, n), WriteInv(m),
         \A i \in Len(m[WriteLoc]) + 1..Len(n[WriteLoc]) :
           /\ n[WriteLoc][i].val = i - 1
           /\ \A p \in 0..i - 2 : SeenReady(n, n[WriteLoc][i].view, p)
  PROVE  WriteInv(n)
<1> DEFINE q == m[WriteLoc]
           r == n[WriteLoc]
<1>1. WriteLoc \in Loc BY Locations
<1>2. /\ Len(q) \in Nat /\ Len(r) \in Nat /\ Len(q) <= Len(r)
      /\ \A i \in 1..Len(q) : r[i] = q[i]
  BY <1>1 DEF Grows
<1>3. \A i \in 1..Len(q) : q[i].view \in View BY <1>1, MessageType
<1>4. \A i \in 1..Len(q) : /\ q[i].val = i - 1
                           /\ \A p \in 0..i - 2 : SeenReady(m, q[i].view, p)
  BY DEF WriteInv
<1>5. \A i \in Len(q) + 1..Len(r) :
        r[i].val = i - 1 /\ \A p \in 0..i - 2 : SeenReady(n, r[i].view, p)
  OBVIOUS
<1> HIDE DEF q, r
<1>6. ASSUME NEW i \in 1..Len(q), NEW p \in 0..i - 2 PROVE SeenReady(n, q[i].view, p)
  <2>1. SeenReady(m, q[i].view, p) BY <1>4
  <2>2. q[i].view \in View /\ Forward(q[i].view, q[i].view) BY <1>3, Reflexive
  <2>3. p \in Nat BY <1>2
  <2> QED BY <2>1, <2>2, <2>3, KeepsSeen
<1>7. ASSUME NEW i \in 1..Len(r)
      PROVE  r[i].val = i - 1 /\ \A p \in 0..i - 2 : SeenReady(n, r[i].view, p)
  <2>1. CASE i \in 1..Len(q) BY <1>2, <1>4, <1>6, <2>1
  <2>2. CASE i \in Len(q) + 1..Len(r) BY <1>5, <2>2
  <2> QED BY <1>2, <2>1, <2>2
<1> QED BY <1>7 DEF WriteInv, r

\* A store to one kind of atomic leaves the others alone (ring.rs:201-219).
LEMMA Elsewhere ==
  ASSUME NEW m, NEW n, NEW l \in Loc, NEW x, NEW v, Appended(m, n, l, x, v)
  PROVE  /\ l # WriteLoc => n[WriteLoc] = m[WriteLoc]
         /\ \A u \in Slots : l # StampLoc(u) => n[StampLoc(u)] = m[StampLoc(u)]
         /\ \A u \in Slots, y \in 1..W :
              l # WordLoc(u, y) => n[WordLoc(u, y)] = m[WordLoc(u, y)]
BY Locations DEF Appended, Slots

\* The producer has seen the message it appends.
LEMMA SeenAppended ==
  ASSUME NEW m \in Memory, NEW n, NEW l \in Loc, NEW x, NEW v, Appended(m, n, l, x, v)
  PROVE  Seen(n, Stored(n), l, x)
<1>1. Len(m[l]) \in Nat BY MessageType
<1>2. Len(n[l]) = Len(m[l]) + 1 /\ n[l][Len(m[l]) + 1].val = x BY DEF Appended
<1>3. Stored(n)[l] = Len(n[l]) BY DEF Stored
<1>4. Len(m[l]) + 1 \in 1..Len(n[l]) BY <1>1, <1>2
<1>5. Len(m[l]) + 1 <= Stored(n)[l] BY <1>1, <1>2, <1>3
<1> QED BY <1>2, <1>4, <1>5 DEF Seen

\* What has been stored only grows.
LEMMA StoredForward ==
  ASSUME NEW m, NEW n, Grows(m, n)
  PROVE  Forward(Stored(m), Stored(n))
<1> SUFFICES ASSUME NEW l \in Loc PROVE Len(n[l]) >= Len(m[l])
  BY DEF Forward, Stored
<1>1. Len(m[l]) \in Nat /\ Len(n[l]) \in Nat /\ Len(m[l]) <= Len(n[l]) BY DEF Grows
<1> QED BY <1>1

\* A consumer that stands still keeps what it knows while the producer stores.
LEMMA ConsumerStays ==
  ASSUME NEW m, NEW n, Grows(m, n), NEW b \in Nat, NEW d \in Nat, b <= d,
         NEW t \in Thread, NEW k, k.cursor \in Nat, k.taken \in SUBSET Nat,
         ConsumerInv(m, b, t, k)
  PROVE  ConsumerInv(n, d, t, k)
<1>1. /\ t.cur \in View /\ Forward(t.cur, t.cur)
      /\ t.acq \in View /\ Forward(t.acq, t.acq)
  BY Reflexive DEF Thread
<1>2. \A p \in Nat : /\ SeenReady(m, t.cur, p) => SeenReady(n, t.cur, p)
                     /\ \A w \in 1..W : SeenWord(m, t.cur, p, w) => SeenWord(n, t.cur, p, w)
  BY <1>1, KeepsSeen
<1>3. \A p \in Nat : /\ SeenReady(m, t.acq, p) => SeenReady(n, t.acq, p)
                     /\ SeenBusy(m, t.acq, p) => SeenBusy(n, t.acq, p)
  BY <1>1, KeepsSeen
<1>4. Len(m[WriteLoc]) \in Nat /\ Len(n[WriteLoc]) \in Nat /\ Len(m[WriteLoc]) <= Len(n[WriteLoc])
  BY Locations DEF Grows
<1>5. ASSUME NEW D, D \in SUBSET Nat, KnowsLapped(m, t, D) PROVE KnowsLapped(n, t, D)
  <2> SUFFICES ASSUME NEW e \in D
               PROVE  e + Cap <= MaxPush /\ SeenBusy(n, t.acq, e + Cap)
    BY DEF KnowsLapped
  <2>1. e \in Nat /\ e + Cap \in Nat BY <1>5, Bounds
  <2> QED BY <1>3, <1>5, <2>1 DEF KnowsLapped
<1>6. InCallInv(n, d, t, k)
  <2>1. ASSUME k.pc \in {"stamp", "word", "check"}
        PROVE  k.cursor < Len(n[WriteLoc]) - 1 /\ KnowsRecord(n, t, k.cursor)
    <3>1. k.cursor < Len(m[WriteLoc]) - 1 /\ KnowsRecord(m, t, k.cursor)
      BY <2>1 DEF ConsumerInv, InCallInv
    <3>2. k.cursor < Len(n[WriteLoc]) - 1 BY <1>4, <3>1
    <3> QED BY <1>2, <1>3, <3>1, <3>2 DEF KnowsRecord
  <2>2. ASSUME k.pc \in {"word", "check"} PROVE KnowsWords(n, d, t, k.cursor, k.got)
    <3>1. KnowsWords(m, b, t, k.cursor, k.got) BY <2>2 DEF ConsumerInv, InCallInv
    <3>2. ASSUME NEW q \in k.cursor + 1..b - 1, SeenBusy(m, t.acq, q)
          PROVE  q \in k.cursor + 1..d - 1 /\ SeenBusy(n, t.acq, q)
      <4>1. q \in Nat /\ q \in k.cursor + 1..d - 1 OBVIOUS
      <4> QED BY <1>3, <3>2, <4>1
    <3> QED BY <1>2, <3>1, <3>2 DEF KnowsWords
  <2>3. ASSUME k.pc = "resync"
        PROVE  d > k.cursor + Cap /\ KnowsLapped(n, t, 0..k.cursor - 1)
    <3>1. b > k.cursor + Cap /\ KnowsLapped(m, t, 0..k.cursor - 1)
      BY <2>3 DEF ConsumerInv, InCallInv
    <3>2. d > k.cursor + Cap BY <3>1, Bounds
    <3> QED BY <1>5, <3>1, <3>2
  <2>4. (k.pc = "word" => Len(k.got) < W) /\ (k.pc = "check" => Len(k.got) = W)
    BY DEF ConsumerInv, InCallInv
  <2> QED BY <2>1, <2>2, <2>3, <2>4 DEF InCallInv
<1>7. OrderInv(n, t, k)
  <2> SUFFICES ASSUME NEW p \in k.taken PROVE KnowsLapped(n, t, k.cursor..p)
    BY DEF OrderInv
  <2>1. KnowsLapped(m, t, k.cursor..p) BY DEF ConsumerInv, OrderInv
  <2> QED BY <1>5, <2>1
<1>8. HistoryInv(n, k)
  <2>1. HistoryInv(m, k) BY DEF ConsumerInv
  <2>2. k.cursor <= Len(n[WriteLoc]) - 1 BY <1>4, <2>1 DEF HistoryInv
  <2> QED BY <2>1, <2>2 DEF HistoryInv
<1> QED BY <1>6, <1>7, <1>8 DEF ConsumerInv

-------------------------------------------------------------------------------
(* The invariant holds initially *)

\* The types of the variables, one by one.
ProducerState ==
  [pc : {"idle", "word", "ready", "advance"}, p : 0..MaxPush, w : 1..W]

ConsumerState ==
  [pc : {"absent", "idle", "stamp", "word", "check", "resync"},
   cursor : 0..MaxPush, got : Seq(0..MaxPush + 1), start : 0..MaxPush,
   taken : SUBSET (0..MaxPush), missed : SUBSET (0..MaxPush), out : Outcome]

\* SpmcRing.TypeOK by those names.
LEMMA Types ==
  TypeOK <=> /\ mem \in Memory /\ fenced \in View
             /\ view \in [Consumers -> Thread]
             /\ pr \in ProducerState /\ co \in [Consumers -> ConsumerState]
BY DEF TypeOK, ProducerState, ConsumerState

\* The same of the next state.
LEMMA NextTypes ==
  TypeOK' <=> /\ mem' \in Memory /\ fenced' \in View
              /\ view' \in [Consumers -> Thread]
              /\ pr' \in ProducerState /\ co' \in [Consumers -> ConsumerState]
BY DEF TypeOK, ProducerState, ConsumerState

\* A new ring: every stamp is EMPTY, nothing is published, and the consumers are
\* still to be minted or were minted before anything is pushed (ring.rs:72-94).
LEMMA CreatedInv ==
  ASSUME mem \in Memory, \A l \in Loc : Len(mem[l]) = 1 /\ mem[l][1].val = InitVal(l),
         fenced = OriginView, view = [c \in Consumers |-> OriginThread],
         pr = ProducerInit, co \in [Consumers -> ConsumerState],
         \A c \in Consumers :
           /\ co[c].pc \in {"absent", "idle"} /\ co[c].cursor = 0 /\ co[c].start = 0
           /\ co[c].taken = {} /\ co[c].out = NoOutcome
  PROVE  IInv
<1>1. OriginView \in View BY DEF OriginView, View
<1>2. \A l \in Loc : Len(mem[l]) = 1 /\ mem[l][1].val = InitVal(l) OBVIOUS
<1>3. TypeOK
  <2>1. OriginThread \in Thread BY <1>1 DEF OriginThread, Thread
  <2>2. ProducerInit \in ProducerState BY Bounds DEF ProducerInit, ProducerState
  <2> QED BY <1>1, <2>1, <2>2, Types
<1>4. Len(mem[WriteLoc]) = 1 BY <1>2, Locations
<1>5. Pub = 0 /\ Busy = 0 BY <1>4 DEF Pub, Busy, ProducerInit
<1>6. ProducerInv
  <2>1. pr.pc = "idle" BY DEF ProducerInit
  <2> QED BY <1>2, <1>5, <2>1, Bounds DEF ProducerInv
<1>7. FenceInv(mem, Busy, fenced) BY <1>2, <1>5 DEF FenceInv, OriginView
<1>8. WriteInv(mem)
  <2>1. InitVal(WriteLoc) = 0 BY Locations DEF InitVal
  <2>2. mem[WriteLoc][1].val = 0 BY <1>2, <2>1, Locations
  <2>3. \A i \in 1..Len(mem[WriteLoc]) : i = 1
    <3>1. \A i \in 1..1 : i = 1 OBVIOUS
    <3> QED BY <1>4, <3>1
  <2> QED BY <2>2, <2>3 DEF WriteInv
<1>9. StampInv(mem, Busy)
  <2> SUFFICES ASSUME NEW s \in Slots
               PROVE  mem[StampLoc(s)][1].val = EMPTY /\ Len(mem[StampLoc(s)]) = 1
    BY DEF StampInv
  <2>1. StampLoc(s) \in Loc BY Locations DEF Slots
  <2>2. InitVal(StampLoc(s)) = EMPTY BY DEF InitVal, Slots
  <2> QED BY <1>2, <2>1, <2>2
<1>10. WordInv(mem, Busy)
  <2> SUFFICES ASSUME NEW s \in Slots, NEW w \in 1..W
               PROVE  mem[WordLoc(s, w)][1].val = 0 /\ Len(mem[WordLoc(s, w)]) = 1
    BY DEF WordInv
  <2>1. WordLoc(s, w) \in Loc BY Locations DEF Slots
  <2>2. InitVal(WordLoc(s, w)) = 0 BY Locations DEF InitVal, Slots
  <2> QED BY <1>2, <2>1, <2>2
<1>11. ASSUME NEW c \in Consumers PROVE ConsumerInv(mem, Busy, view[c], co[c])
  <2>1. /\ co[c].pc \in {"absent", "idle"} /\ co[c].taken = {}
        /\ co[c].cursor = 0 /\ co[c].start = 0 /\ co[c].out.kind = "none"
    BY DEF NoOutcome
  <2>2. 0..0 - 1 = {} OBVIOUS
  <2>3. InCallInv(mem, Busy, view[c], co[c]) BY <2>1 DEF InCallInv
  <2>4. OrderInv(mem, view[c], co[c]) BY <2>1 DEF OrderInv
  <2>5. HistoryInv(mem, co[c]) BY <1>4, <2>1, <2>2 DEF HistoryInv
  <2> QED BY <2>3, <2>4, <2>5 DEF ConsumerInv
<1> QED BY <1>3, <1>6, <1>7, <1>8, <1>9, <1>10, <1>11 DEF IInv, MemoryInv

\* with_capacity, and no consumer minted (ring.rs:72-94).
LEMMA InitInv == Init => IInv
<1> SUFFICES ASSUME Init PROVE IInv OBVIOUS
<1>1. OriginView \in View BY DEF OriginView, View
<1>2. EMPTY \in Nat BY Bounds DEF EMPTY
<1>3. \A l \in Loc : InitVal(l) \in Nat BY <1>2 DEF InitVal
<1>4. ASSUME NEW l \in Loc PROVE Fresh(InitVal(l)) \in Seq(Message)
  BY <1>1, <1>3 DEF Fresh, Message, OriginView
<1>5. mem \in Memory BY <1>4 DEF Init, Memory
<1>6. \A l \in Loc : Len(mem[l]) = 1 /\ mem[l][1].val = InitVal(l) BY DEF Init, Fresh
<1>7. NoOutcome \in Outcome BY Bounds DEF NoOutcome, Outcome
<1>8. ConsumerInit \in ConsumerState BY <1>7, Bounds DEF ConsumerInit, ConsumerState
<1>9. /\ co \in [Consumers -> ConsumerState]
      /\ \A c \in Consumers :
           /\ co[c].pc \in {"absent", "idle"} /\ co[c].cursor = 0 /\ co[c].start = 0
           /\ co[c].taken = {} /\ co[c].out = NoOutcome
  BY <1>8 DEF Init, ConsumerInit
<1> QED BY <1>5, <1>6, <1>9, CreatedInv DEF Init

-------------------------------------------------------------------------------
(* push *)

\* What the steps of the producer start from.
LEMMA Facts ==
  ASSUME IInv
  PROVE  /\ mem \in Memory /\ fenced \in View /\ Stored(mem) \in View
         /\ pr \in ProducerState
         /\ \A l \in Loc : Len(mem[l]) \in Nat /\ Len(mem[l]) >= 1
         /\ Pub \in Nat /\ Pub <= MaxPush /\ Busy \in Nat /\ Busy <= MaxPush
         /\ Written = Pub /\ Begun = Busy
         /\ pr.pc # "idle" => pr.p = Pub /\ Pub < MaxPush
<1>1. mem \in Memory /\ fenced \in View /\ pr \in ProducerState
  BY Types DEF IInv
<1>2. ASSUME NEW l \in Loc PROVE Len(mem[l]) \in Nat /\ Len(mem[l]) >= 1
  BY <1>1, MessageType DEF IInv, MemoryInv, ProducerInv
<1>3. Stored(mem) \in View BY <1>1, <1>2, StoredView
<1>4. /\ Pub <= MaxPush
      /\ pr.pc # "idle" => pr.p = Pub /\ Pub < MaxPush
  BY DEF IInv, MemoryInv, ProducerInv
<1>5. Pub \in Nat BY <1>2, Locations DEF Pub
<1>6. Written = Pub
  <2>1. Len(mem[WriteLoc]) \in 1..Len(mem[WriteLoc]) BY <1>2, Locations
  <2> QED BY <2>1 DEF IInv, MemoryInv, WriteInv, Written, Latest, Pub
<1>7. Busy \in Nat /\ Busy <= MaxPush BY <1>4, <1>5, Bounds DEF Busy
<1>8. Begun = Busy BY <1>4, <1>6 DEF Begun, Busy
<1> QED BY <1>1, <1>2, <1>3, <1>4, <1>5, <1>6, <1>7, <1>8

\* A step of the producer that leaves the consumers alone keeps their part.
LEMMA ConsumersStay ==
  ASSUME IInv, Grows(mem, mem'), Busy' \in Nat, Busy <= Busy', UNCHANGED <<view, co>>,
         NEW c \in Consumers
  PROVE  ConsumerInv(mem', Busy', view'[c], co'[c])
<1>1. view[c] \in Thread /\ co[c] \in ConsumerState BY Types DEF IInv
<1>2. co[c].cursor \in Nat /\ co[c].taken \in SUBSET Nat
  BY <1>1, Bounds DEF ConsumerState
<1>3. Busy \in Nat BY Facts
<1>4. ConsumerInv(mem, Busy, view[c], co[c]) BY DEF IInv
<1>5. ConsumerInv(mem', Busy', view[c], co[c])
  BY <1>1, <1>2, <1>3, <1>4, ConsumerStays
<1> QED BY <1>5

\* A step of the producer that stores x with the view v at l: what holds of
\* the memory afterwards whatever was stored.
LEMMA AnyStore ==
  ASSUME IInv, NEW l \in Loc, NEW x \in Nat, NEW v \in View,
         Appended(mem, mem', l, x, v)
  PROVE  /\ mem' \in Memory /\ Grows(mem, mem') /\ Stored(mem') \in View
         /\ \A k \in Loc : Len(mem'[k]) \in Nat /\ Len(mem'[k]) >= 1
         /\ Seen(mem', Stored(mem'), l, x)
         /\ \A p \in Nat : /\ SeenBusy(mem, fenced, p) => SeenBusy(mem', Stored(mem'), p)
                           /\ SeenReady(mem, Stored(mem), p) => SeenReady(mem', Stored(mem'), p)
                           /\ \A w \in 1..W : SeenWord(mem, Stored(mem), p, w)
                                                => SeenWord(mem', Stored(mem'), p, w)
<1>1. mem' \in Memory /\ Grows(mem, mem') BY DEF Appended
<1>2. /\ mem \in Memory /\ fenced \in View /\ Stored(mem) \in View
      /\ \A k \in Loc : Len(mem[k]) \in Nat /\ Len(mem[k]) >= 1
  BY Facts
<1>3. ASSUME NEW k \in Loc PROVE Len(mem'[k]) \in Nat /\ Len(mem'[k]) >= 1
  <2>1. Len(mem[k]) \in Nat /\ Len(mem'[k]) \in Nat /\ Len(mem[k]) <= Len(mem'[k])
    BY <1>1 DEF Grows
  <2>2. Len(mem[k]) >= 1 BY <1>2
  <2> QED BY <2>1, <2>2
<1>4. Stored(mem') \in View BY <1>1, <1>3, StoredView
<1>5. Seen(mem', Stored(mem'), l, x) BY <1>2, SeenAppended
<1>6. Forward(Stored(mem), Stored(mem')) BY <1>1, StoredForward
<1>7. \A p \in Nat :
        /\ SeenReady(mem, Stored(mem), p) => SeenReady(mem', Stored(mem'), p)
        /\ \A w \in 1..W : SeenWord(mem, Stored(mem), p, w)
                             => SeenWord(mem', Stored(mem'), p, w)
  BY <1>1, <1>2, <1>4, <1>6, KeepsSeen
<1>8. ASSUME NEW p \in Nat, SeenBusy(mem, fenced, p)
      PROVE  SeenBusy(mem', Stored(mem'), p)
  <2>1. SeenBusy(mem', fenced, p) BY <1>1, <1>2, <1>8, KeepsSeen, Reflexive
  <2>2. SlotOf(p) \in Slots BY SlotRange
  <2>3. StampLoc(SlotOf(p)) \in Loc BY <2>2, Locations DEF Slots
  <2> QED BY <1>1, <2>1, <2>3, SeenStored DEF SeenBusy
<1> QED BY <1>1, <1>3, <1>4, <1>5, <1>7, <1>8

\* P1 and the fence: record Pub is begun (ring.rs:201-206).
LEMMA MarkWritingInv == ASSUME IInv, MarkWriting PROVE IInv'
<1> DEFINE s == SlotOf(Pub)
           l == StampLoc(s)
           x == Pub + WRITING
           v == [fenced EXCEPT ![l] = Len(mem[l]) + 1]
<1>1. /\ mem \in Memory /\ fenced \in View /\ Stored(mem) \in View
      /\ pr \in ProducerState
      /\ \A k \in Loc : Len(mem[k]) \in Nat /\ Len(mem[k]) >= 1
      /\ Pub \in Nat /\ Pub <= MaxPush /\ Written = Pub
  BY Facts
<1>2. /\ pr.pc = "idle" /\ Pub < MaxPush
      /\ pr' = [pc |-> "word", p |-> Pub, w |-> 1]
      /\ mem' = Put(mem, l, x, fenced)
      /\ fenced' = Stored(mem') /\ view' = view /\ co' = co
  BY <1>1 DEF MarkWriting, StoreRelaxed
<1>3. s \in Slots /\ l \in Loc /\ l # WriteLoc BY <1>1, SlotRange, Locations DEF Slots
<1>4. x \in Nat BY <1>1, Bounds
<1>5. Appended(mem, mem', l, x, v) BY <1>1, <1>2, <1>3, <1>4, PutAppends
<1>6. Busy = Pub BY <1>2 DEF Busy
<1>7. FenceInv(mem, Pub, fenced) /\ WriteInv(mem) /\ StampInv(mem, Pub) /\ WordInv(mem, Pub)
  BY <1>6 DEF IInv, MemoryInv
<1>8. Forward(fenced, v) BY <1>1, <1>3, <1>7, PutForward DEF FenceInv
<1>9. v \in View BY <1>5 DEF Appended
<1>10. s = SlotOf(Pub) /\ l = StampLoc(s) /\ x = Pub + WRITING OBVIOUS
<1> HIDE DEF s, l, x, v
<1>11. /\ mem' \in Memory /\ Grows(mem, mem') /\ Stored(mem') \in View
       /\ \A k \in Loc : Len(mem'[k]) \in Nat /\ Len(mem'[k]) >= 1
       /\ Seen(mem', Stored(mem'), l, x)
       /\ \A p \in Nat : /\ SeenBusy(mem, fenced, p) => SeenBusy(mem', Stored(mem'), p)
                         /\ SeenReady(mem, Stored(mem), p) => SeenReady(mem', Stored(mem'), p)
  BY <1>3, <1>4, <1>5, <1>9, AnyStore
<1>12. /\ mem'[WriteLoc] = mem[WriteLoc]
       /\ \A u \in Slots \ {s} : mem'[StampLoc(u)] = mem[StampLoc(u)]
       /\ \A u \in Slots, y \in 1..W : mem'[WordLoc(u, y)] = mem[WordLoc(u, y)]
  BY <1>3, <1>5, <1>10, Elsewhere, Locations DEF Slots
<1>13. Len(mem'[l]) = Len(mem[l]) + 1 /\ mem'[l][Len(mem[l]) + 1].val = x
       /\ mem'[l][Len(mem[l]) + 1].view = v
       /\ \A i \in 1..Len(mem[l]) : mem'[l][i] = mem[l][i]
  BY <1>3, <1>5 DEF Appended, Grows
<1>14. Pub' = Pub /\ Busy' = Pub + 1 BY <1>2, <1>12 DEF Pub, Busy
<1>15. PosOf(x) = Pub /\ Pub < WRITING BY <1>1, <1>10, Bounds DEF PosOf
<1>16. TypeOK'
  <2>1. pr' \in ProducerState BY <1>1, <1>2, Bounds DEF ProducerState
  <2> QED BY <1>2, <1>11, <2>1, Types, NextTypes DEF IInv
<1>17. ProducerInv'
  <2>1. \A p \in 0..Pub - 1 : SeenReady(mem', Stored(mem'), p)
    BY <1>1, <1>11 DEF IInv, MemoryInv, ProducerInv
  <2>2. ASSUME NEW i \in 1..Len(mem'[l]) PROVE mem'[l][i].val # Pub
    <3>1. CASE i = 1
      <4>1. mem'[l][1].val = EMPTY BY <1>1, <1>3, <1>7, <1>10, <1>13 DEF StampInv
      <4> QED BY <1>1, <3>1, <4>1, Bounds DEF EMPTY
    <3>2. CASE i \in 2..Len(mem[l])
      <4>1. PosOf(mem[l][i].val) \in 0..Pub - 1 /\ mem[l][i].val \in Nat
        BY <1>3, <1>7, <1>10, <3>2 DEF StampInv, StampMsg
      <4>2. mem'[l][i] = mem[l][i]
        <5>1. i \in 1..Len(mem[l]) BY <3>2
        <5> QED BY <1>13, <5>1
      <4> QED BY <1>1, <1>15, <4>1, <4>2, Bounds DEF PosOf
    <3>3. CASE i = Len(mem[l]) + 1 BY <1>1, <1>10, <1>13, <3>3, Bounds
    <3>4. i = 1 \/ i \in 2..Len(mem[l]) \/ i = Len(mem[l]) + 1 BY <1>1, <1>3, <1>13
    <3> QED BY <3>1, <3>2, <3>3, <3>4
  <2>3. pr'.pc = "word" /\ pr'.p = Pub /\ pr'.w = 1 BY <1>2
  <2>4. pr'.pc = "word" => \A w \in 1..pr'.w - 1 : SeenWord(mem', Stored(mem'), pr'.p, w)
    BY <2>3
  <2>5. /\ Pub' <= MaxPush
        /\ pr'.pc # "idle" => pr'.p = Pub' /\ Pub' < MaxPush
        /\ \A p \in 0..Pub' - 1 : SeenReady(mem', Stored(mem'), p)
    BY <1>1, <1>2, <1>14, <2>1, <2>3
  <2>6. l = StampLoc(SlotOf(pr'.p)) BY <1>10, <2>3
  <2>7. \A i \in 1..Len(mem'[StampLoc(SlotOf(pr'.p))]) :
          mem'[StampLoc(SlotOf(pr'.p))][i].val # pr'.p
    BY <2>2, <2>3, <2>6
  <2>8. pr'.pc \notin {"ready", "advance"} BY <2>3
  <2> QED BY <1>11, <2>4, <2>5, <2>7, <2>8 DEF ProducerInv
<1>18. FenceInv(mem', Busy', fenced')
  <2>1. \A k \in Loc : fenced'[k] <= Len(mem'[k]) BY <1>2, <1>11 DEF Stored
  <2>2. ASSUME NEW r \in 0..Busy' - 1 PROVE SeenBusy(mem', Stored(mem'), r)
    <3>1. CASE r = Pub BY <1>10, <1>11, <3>1 DEF SeenBusy
    <3>2. CASE r \in 0..Pub - 1 BY <1>1, <1>7, <1>11, <3>2 DEF FenceInv
    <3> QED BY <1>1, <1>14, <3>1, <3>2
  <2> QED BY <1>2, <2>1, <2>2 DEF FenceInv
<1>19. WriteInv(mem')
  <2>1. Len(mem[WriteLoc]) + 1..Len(mem'[WriteLoc]) = {} BY <1>1, <1>12, Locations
  <2> QED BY <1>1, <1>7, <1>11, <2>1, WriteStays
<1>20. StampInv(mem', Busy')
  <2>1. StampMsg(mem', Busy', s, x, v)
    <3>1. ASSUME NEW r \in 0..Pub - 1 PROVE SeenBusy(mem', v, r)
      <4>1. SeenBusy(mem, fenced, r) /\ r \in Nat BY <1>1, <1>7 DEF FenceInv
      <4> QED BY <1>1, <1>8, <1>9, <1>11, <4>1, KeepsSeen
    <3>2. ~(x < WRITING) BY <1>1, <1>10, Bounds
    <3>3. Pub \in 0..Busy' - 1 BY <1>1, <1>14
    <3> QED BY <1>4, <1>10, <1>15, <3>1, <3>2, <3>3 DEF StampMsg
  <2>2. ASSUME NEW i \in 2..Len(mem[l]) PROVE StampOrder(mem[l][i].val, x)
    <3>1. PosOf(mem[l][i].val) \in 0..Pub - 1
      BY <1>3, <1>7, <1>10 DEF StampInv, StampMsg
    <3> QED BY <1>1, <1>15, <3>1 DEF StampOrder
  <2>3. Pub <= Busy' /\ Busy' \in Nat BY <1>1, <1>14
  <2> QED BY <1>1, <1>3, <1>7, <1>10, <1>11, <1>12, <1>13, <2>1, <2>2, <2>3, StampAppended
<1>21. WordInv(mem', Busy')
  <2>1. Pub <= Busy' /\ Busy' \in Nat BY <1>1, <1>14
  <2> QED BY <1>1, <1>7, <1>11, <1>12, <2>1, WordsStay
<1>22. ASSUME NEW c \in Consumers PROVE ConsumerInv(mem', Busy', view'[c], co'[c])
  <2>1. Busy <= Busy' /\ Busy' \in Nat BY <1>1, <1>6, <1>14
  <2> QED BY <1>2, <1>11, <2>1, ConsumersStay
<1> QED BY <1>16, <1>17, <1>18, <1>19, <1>20, <1>21, <1>22 DEF IInv, MemoryInv

\* The fence of a push lasts until the next one.
LEMMA FenceStays ==
  ASSUME NEW m, NEW n, Grows(m, n), NEW b \in Nat, NEW f \in View, FenceInv(m, b, f)
  PROVE  FenceInv(n, b, f)
<1>1. ASSUME NEW l \in Loc PROVE f[l] <= Len(n[l])
  <2>1. f[l] <= Len(m[l]) /\ Len(m[l]) \in Nat /\ Len(n[l]) \in Nat /\ Len(m[l]) <= Len(n[l])
    BY DEF FenceInv, Grows
  <2>2. f[l] \in Nat BY DEF View
  <2> QED BY <2>1, <2>2
<1>2. ASSUME NEW r \in 0..b - 1 PROVE SeenBusy(n, f, r)
  <2>1. SeenBusy(m, f, r) /\ r \in Nat BY DEF FenceInv
  <2> QED BY <2>1, KeepsSeen, Reflexive
<1> QED BY <1>1, <1>2 DEF FenceInv

\* P2: word pr.w of record Pub (ring.rs:208-213).
LEMMA StoreWordInv == ASSUME IInv, StoreWord PROVE IInv'
<1> DEFINE s == SlotOf(Pub)
           l == WordLoc(s, pr.w)
           x == Record(Pub)
           v == [fenced EXCEPT ![l] = Len(mem[l]) + 1]
<1>1. /\ mem \in Memory /\ fenced \in View /\ Stored(mem) \in View
      /\ pr \in ProducerState
      /\ \A k \in Loc : Len(mem[k]) \in Nat /\ Len(mem[k]) >= 1
      /\ Pub \in Nat /\ Pub <= MaxPush
  BY Facts
<1>2. /\ pr.pc = "word" /\ pr.p = Pub /\ Pub < MaxPush
      /\ mem' = Put(mem, l, x, fenced)
      /\ pr' = [pr EXCEPT !.pc = IF pr.w = W THEN "ready" ELSE "word",
                          !.w = IF pr.w = W THEN 1 ELSE pr.w + 1]
      /\ fenced' = fenced /\ view' = view /\ co' = co
  <2>1. pr.pc = "word" BY DEF StoreWord
  <2>2. pr.p = Pub /\ Pub < MaxPush BY <2>1, Facts
  <2> QED BY <2>1, <2>2 DEF StoreWord, StoreRelaxed
<1>3. pr.w \in 1..W BY <1>1 DEF ProducerState
<1>4. s \in Slots /\ l \in Loc /\ l # WriteLoc BY <1>1, <1>3, SlotRange, Locations DEF Slots
<1>5. x \in Nat BY <1>1 DEF Record
<1>6. Appended(mem, mem', l, x, v) BY <1>1, <1>2, <1>4, <1>5, PutAppends
<1>7. Busy = Pub + 1 BY <1>2 DEF Busy
<1>8. /\ FenceInv(mem, Pub + 1, fenced) /\ WriteInv(mem)
      /\ StampInv(mem, Pub + 1) /\ WordInv(mem, Pub + 1)
  BY <1>7 DEF IInv, MemoryInv
<1>9. Forward(fenced, v) BY <1>1, <1>4, <1>8, PutForward DEF FenceInv
<1>10. v \in View BY <1>6 DEF Appended
<1>11. s = SlotOf(Pub) /\ l = WordLoc(s, pr.w) /\ x = Pub + 1 /\ x = Record(Pub)
  BY DEF Record
<1> HIDE DEF s, l, x, v
<1>12. /\ mem' \in Memory /\ Grows(mem, mem') /\ Stored(mem') \in View
       /\ \A k \in Loc : Len(mem'[k]) \in Nat /\ Len(mem'[k]) >= 1
       /\ Seen(mem', Stored(mem'), l, x)
       /\ \A p \in Nat : /\ SeenReady(mem, Stored(mem), p) => SeenReady(mem', Stored(mem'), p)
                         /\ \A w \in 1..W : SeenWord(mem, Stored(mem), p, w)
                                              => SeenWord(mem', Stored(mem'), p, w)
  BY <1>4, <1>5, <1>6, <1>10, AnyStore
<1>13. /\ mem'[WriteLoc] = mem[WriteLoc]
       /\ \A u \in Slots : mem'[StampLoc(u)] = mem[StampLoc(u)]
       /\ \A u \in Slots, y \in 1..W :
            (u = s /\ y = pr.w) \/ mem'[WordLoc(u, y)] = mem[WordLoc(u, y)]
  BY <1>3, <1>4, <1>6, <1>11, Elsewhere, Locations DEF Slots
<1>14. /\ Len(mem'[l]) = Len(mem[l]) + 1 /\ mem'[l][Len(mem[l]) + 1].val = x
       /\ mem'[l][Len(mem[l]) + 1].view = v
  BY <1>4, <1>6 DEF Appended
<1>15. /\ pr'.p = Pub
       /\ pr.w = W => pr'.pc = "ready" /\ pr'.w = 1
       /\ pr.w # W => pr'.pc = "word" /\ pr'.w = pr.w + 1
       /\ pr' \in ProducerState
  <2>1. CASE pr.w = W
    <3>1. pr' = [pr EXCEPT !.pc = "ready", !.w = 1] BY <1>2, <2>1
    <3>2. 1 \in 1..W BY Bounds
    <3> QED BY <1>1, <1>2, <2>1, <3>1, <3>2 DEF ProducerState
  <2>2. CASE pr.w # W
    <3>1. pr' = [pr EXCEPT !.pc = "word", !.w = pr.w + 1] BY <1>2, <2>2
    <3>2. pr.w + 1 \in 1..W BY <1>3, <2>2, Bounds
    <3> QED BY <1>1, <1>2, <2>2, <3>1, <3>2 DEF ProducerState
  <2> QED BY <2>1, <2>2
<1>16. Pub' = Pub /\ Busy' = Pub + 1 BY <1>13, <1>15 DEF Pub, Busy
<1>17. TypeOK' BY <1>2, <1>12, <1>15, Types, NextTypes DEF IInv
<1>18. ProducerInv'
  <2>1. \A p \in 0..Pub - 1 : SeenReady(mem', Stored(mem'), p)
    BY <1>1, <1>12 DEF IInv, MemoryInv, ProducerInv
  <2>2. ASSUME NEW w \in 1..pr.w PROVE SeenWord(mem', Stored(mem'), Pub, w)
    <3>1. w \in 1..W BY <1>3, Bounds
    <3>2. CASE w = pr.w BY <1>11, <1>12, <3>2 DEF SeenWord
    <3>3. CASE w \in 1..pr.w - 1
      <4>1. SeenWord(mem, Stored(mem), Pub, w)
        BY <1>2, <3>3 DEF IInv, MemoryInv, ProducerInv
      <4> QED BY <1>1, <1>12, <3>1, <4>1
    <3> QED BY <1>3, <3>2, <3>3
  <2>3. \A i \in 1..Len(mem'[StampLoc(s)]) : mem'[StampLoc(s)][i].val # Pub
    BY <1>2, <1>4, <1>11, <1>13 DEF IInv, MemoryInv, ProducerInv
  <2>4. pr'.pc = "word" => \A w \in 1..pr'.w - 1 : SeenWord(mem', Stored(mem'), pr'.p, w)
    BY <1>3, <1>15, <2>2
  <2>5. pr'.pc = "ready" => \A w \in 1..W : SeenWord(mem', Stored(mem'), pr'.p, w)
    BY <1>3, <1>15, <2>2
  <2>6. /\ Pub' <= MaxPush
        /\ pr'.pc # "idle" => pr'.p = Pub' /\ Pub' < MaxPush
        /\ \A p \in 0..Pub' - 1 : SeenReady(mem', Stored(mem'), p)
    BY <1>1, <1>2, <1>15, <1>16, <2>1
  <2>7. \A i \in 1..Len(mem'[StampLoc(SlotOf(pr'.p))]) :
          mem'[StampLoc(SlotOf(pr'.p))][i].val # pr'.p
    BY <1>11, <1>15, <2>3
  <2>8. pr'.pc # "advance" BY <1>15
  <2> QED BY <1>12, <2>4, <2>5, <2>6, <2>7, <2>8 DEF ProducerInv
<1>19. FenceInv(mem', Busy', fenced')
  <2>1. Pub + 1 \in Nat BY <1>1
  <2> QED BY <1>1, <1>2, <1>8, <1>12, <1>16, <2>1, FenceStays
<1>20. WriteInv(mem')
  <2>1. Len(mem[WriteLoc]) + 1..Len(mem'[WriteLoc]) = {} BY <1>1, <1>13, Locations
  <2> QED BY <1>1, <1>8, <1>12, <2>1, WriteStays
<1>21. StampInv(mem', Busy')
  <2>1. Pub + 1 <= Busy' /\ Busy' \in Nat /\ Pub + 1 \in Nat BY <1>1, <1>16
  <2> QED BY <1>1, <1>8, <1>12, <1>13, <2>1, StampsStay
<1>22. WordInv(mem', Busy')
  <2>1. Pub + 1 <= Busy' /\ Busy' \in Nat /\ Pub + 1 \in Nat BY <1>1, <1>16
  <2>2. WordMsg(mem', Busy', s, x, v)
    <3>1. SeenBusy(mem, fenced, Pub) BY <1>1, <1>8 DEF FenceInv
    <3>2. SeenBusy(mem', v, Pub) BY <1>1, <1>9, <1>10, <1>12, <3>1, KeepsSeen
    <3>3. x \in 1..Busy' /\ x - 1 = Pub BY <1>1, <1>11, <1>16
    <3> QED BY <1>11, <3>2, <3>3 DEF WordMsg
  <2>3. ASSUME NEW i \in 2..Len(mem[l]) PROVE mem[l][i].val <= x
    <3>1. mem[l][i].val \in 1..Pub + 1 BY <1>3, <1>4, <1>8, <1>11 DEF WordInv, WordMsg
    <3> QED BY <1>1, <1>11, <3>1
  <2>4. /\ Len(mem[WordLoc(s, pr.w)]) >= 1
        /\ Len(mem'[WordLoc(s, pr.w)]) = Len(mem[WordLoc(s, pr.w)]) + 1
        /\ mem'[WordLoc(s, pr.w)][Len(mem[WordLoc(s, pr.w)]) + 1].val = x
        /\ mem'[WordLoc(s, pr.w)][Len(mem[WordLoc(s, pr.w)]) + 1].view = v
        /\ \A i \in 2..Len(mem[WordLoc(s, pr.w)]) : mem[WordLoc(s, pr.w)][i].val <= x
    BY <1>1, <1>4, <1>11, <1>14, <2>3
  <2>5. mem \in Memory /\ mem' \in Memory /\ Grows(mem, mem') BY <1>1, <1>12
  <2>6. WordInv(mem, Pub + 1) BY <1>8
  <2>7. s \in Slots /\ pr.w \in 1..W BY <1>3, <1>4
  <2>8. \A u \in Slots, y \in 1..W :
          (u = s /\ y = pr.w) \/ mem'[WordLoc(u, y)] = mem[WordLoc(u, y)]
    BY <1>13
  <2> QED BY <2>1, <2>2, <2>4, <2>5, <2>6, <2>7, <2>8, WordAppended
<1>23. ASSUME NEW c \in Consumers PROVE ConsumerInv(mem', Busy', view'[c], co'[c])
  <2>1. Busy <= Busy' /\ Busy' \in Nat BY <1>1, <1>7, <1>16
  <2> QED BY <1>2, <1>12, <2>1, ConsumersStay
<1> QED BY <1>17, <1>18, <1>19, <1>20, <1>21, <1>22, <1>23 DEF IInv, MemoryInv

\* P3: record Pub is ready, and carries all that was stored (ring.rs:215-216).
LEMMA MarkReadyInv == ASSUME IInv, MarkReady PROVE IInv'
<1> DEFINE s == SlotOf(Pub)
           l == StampLoc(s)
           x == Pub
           v == [Stored(mem) EXCEPT ![l] = Len(mem[l]) + 1]
<1>1. /\ mem \in Memory /\ fenced \in View /\ Stored(mem) \in View
      /\ pr \in ProducerState
      /\ \A k \in Loc : Len(mem[k]) \in Nat /\ Len(mem[k]) >= 1
      /\ Pub \in Nat /\ Pub <= MaxPush
  BY Facts
<1>2. /\ pr.pc = "ready" /\ pr.p = Pub /\ Pub < MaxPush
      /\ mem' = Put(mem, l, x, Stored(mem))
      /\ pr' = [pr EXCEPT !.pc = "advance"]
      /\ fenced' = fenced /\ view' = view /\ co' = co
  <2>1. pr.pc = "ready" BY DEF MarkReady
  <2>2. pr.p = Pub /\ Pub < MaxPush BY <2>1, Facts
  <2> QED BY <2>1, <2>2 DEF MarkReady, StoreRelease
<1>3. s \in Slots /\ l \in Loc /\ l # WriteLoc BY <1>1, SlotRange, Locations DEF Slots
<1>4. x \in Nat /\ x < WRITING BY <1>1, Bounds
<1>5. Appended(mem, mem', l, x, v) BY <1>1, <1>2, <1>3, <1>4, PutAppends
<1>6. Busy = Pub + 1 BY <1>2 DEF Busy
<1>7. /\ FenceInv(mem, Pub + 1, fenced) /\ WriteInv(mem)
      /\ StampInv(mem, Pub + 1) /\ WordInv(mem, Pub + 1)
  BY <1>6 DEF IInv, MemoryInv
<1>8. Forward(Stored(mem), v)
  <2>1. Stored(mem)[l] <= Len(mem[l]) BY <1>1, <1>3 DEF Stored
  <2> QED BY <1>1, <1>3, <2>1, PutForward
<1>9. v \in View BY <1>5 DEF Appended
<1>10. s = SlotOf(Pub) /\ l = StampLoc(s) /\ x = Pub OBVIOUS
<1> HIDE DEF s, l, x, v
<1>11. /\ mem' \in Memory /\ Grows(mem, mem') /\ Stored(mem') \in View
       /\ \A k \in Loc : Len(mem'[k]) \in Nat /\ Len(mem'[k]) >= 1
       /\ Seen(mem', Stored(mem'), l, x)
       /\ \A p \in Nat : /\ SeenReady(mem, Stored(mem), p) => SeenReady(mem', Stored(mem'), p)
                         /\ \A w \in 1..W : SeenWord(mem, Stored(mem), p, w)
                                              => SeenWord(mem', Stored(mem'), p, w)
  BY <1>3, <1>4, <1>5, <1>9, AnyStore
<1>12. /\ mem'[WriteLoc] = mem[WriteLoc]
       /\ \A u \in Slots \ {s} : mem'[StampLoc(u)] = mem[StampLoc(u)]
       /\ \A u \in Slots, y \in 1..W : mem'[WordLoc(u, y)] = mem[WordLoc(u, y)]
  BY <1>3, <1>5, <1>10, Elsewhere, Locations DEF Slots
<1>13. Len(mem'[l]) = Len(mem[l]) + 1 /\ mem'[l][Len(mem[l]) + 1].val = x
       /\ mem'[l][Len(mem[l]) + 1].view = v
  BY <1>3, <1>5 DEF Appended
<1>14. pr'.p = Pub /\ pr'.pc = "advance" /\ pr' \in ProducerState
  BY <1>1, <1>2 DEF ProducerState
<1>15. Pub' = Pub /\ Busy' = Pub + 1 BY <1>12, <1>14 DEF Pub, Busy
<1>16. PosOf(x) = Pub BY <1>4, <1>10, Bounds DEF PosOf
<1>17. TypeOK' BY <1>2, <1>11, <1>14, Types, NextTypes DEF IInv
<1>18. \A w \in 1..W : SeenWord(mem, Stored(mem), Pub, w)
  BY <1>2 DEF IInv, MemoryInv, ProducerInv
<1>19. ProducerInv'
  <2>1. \A p \in 0..Pub - 1 : SeenReady(mem', Stored(mem'), p)
    BY <1>1, <1>11 DEF IInv, MemoryInv, ProducerInv
  <2>2. SeenReady(mem', Stored(mem'), Pub) BY <1>10, <1>11 DEF SeenReady
  <2>3. \A w \in 1..W : SeenWord(mem', Stored(mem'), Pub, w) BY <1>1, <1>11, <1>18
  <2>4. /\ Pub' <= MaxPush
        /\ pr'.pc # "idle" => pr'.p = Pub' /\ Pub' < MaxPush
        /\ \A p \in 0..Pub' - 1 : SeenReady(mem', Stored(mem'), p)
    BY <1>1, <1>2, <1>14, <1>15, <2>1
  <2>5. SeenReady(mem', Stored(mem'), pr'.p)
        /\ \A w \in 1..W : SeenWord(mem', Stored(mem'), pr'.p, w)
    BY <1>14, <2>2, <2>3
  <2>6. pr'.pc \notin {"word", "ready"} BY <1>14
  <2> QED BY <1>11, <2>4, <2>5, <2>6 DEF ProducerInv
<1>20. FenceInv(mem', Busy', fenced')
  <2>1. Pub + 1 \in Nat BY <1>1
  <2> QED BY <1>1, <1>2, <1>7, <1>11, <1>15, <2>1, FenceStays
<1>21. WriteInv(mem')
  <2>1. Len(mem[WriteLoc]) + 1..Len(mem'[WriteLoc]) = {} BY <1>1, <1>12, Locations
  <2> QED BY <1>1, <1>7, <1>11, <2>1, WriteStays
<1>22. StampInv(mem', Busy')
  <2>1. Pub + 1 <= Busy' /\ Busy' \in Nat /\ Pub + 1 \in Nat BY <1>1, <1>15
  <2>2. StampMsg(mem', Busy', s, x, v)
    <3>1. ASSUME NEW r \in 0..Pub - 1 PROVE SeenBusy(mem', v, r)
      <4>1. SeenBusy(mem, fenced, r) /\ r \in Nat BY <1>1, <1>7 DEF FenceInv
      <4>2. SlotOf(r) \in Slots BY <4>1, SlotRange
      <4>3. StampLoc(SlotOf(r)) \in Loc BY <4>2, Locations DEF Slots
      <4>4. SeenBusy(mem, Stored(mem), r) BY <1>1, <4>1, <4>3, SeenStored DEF SeenBusy
      <4> QED BY <1>1, <1>8, <1>9, <1>11, <4>1, <4>4, KeepsSeen
    <3>2. \A w \in 1..W : SeenWord(mem', v, Pub, w)
      BY <1>1, <1>8, <1>9, <1>11, <1>18, KeepsSeen
    <3>3. Pub \in 0..Busy' - 1 BY <1>1, <1>15
    <3> QED BY <1>4, <1>10, <1>16, <3>1, <3>2, <3>3 DEF StampMsg
  <2>3. ASSUME NEW i \in 2..Len(mem[l]) PROVE StampOrder(mem[l][i].val, x)
    <3>1. PosOf(mem[l][i].val) \in 0..Pub /\ mem[l][i].val \in Nat
      <4>1. StampMsg(mem, Pub + 1, s, mem[l][i].val, mem[l][i].view)
        BY <1>3, <1>7, <1>10 DEF StampInv
      <4>2. 0..(Pub + 1) - 1 = 0..Pub BY <1>1
      <4> QED BY <4>1, <4>2 DEF StampMsg
    <3>2. mem[l][i].val # Pub
      <4>1. i \in 1..Len(mem[l]) BY <1>1, <1>3
      <4> QED BY <1>2, <1>10, <4>1 DEF IInv, MemoryInv, ProducerInv
    <3>3. CASE PosOf(mem[l][i].val) < Pub BY <1>16, <3>3 DEF StampOrder
    <3>4. CASE PosOf(mem[l][i].val) = Pub
      <4>1. mem[l][i].val = Pub + WRITING BY <1>1, <3>1, <3>2, <3>4, Bounds DEF PosOf
      <4> QED BY <1>10, <4>1 DEF StampOrder
    <3> QED BY <1>1, <3>1, <3>3, <3>4
  <2>4. Len(mem[l]) >= 1 BY <1>1, <1>3
  <2> QED BY <1>1, <1>3, <1>7, <1>10, <1>11, <1>12, <1>13, <2>1, <2>2, <2>3, <2>4, StampAppended
<1>23. WordInv(mem', Busy')
  <2>1. Pub + 1 <= Busy' /\ Busy' \in Nat /\ Pub + 1 \in Nat BY <1>1, <1>15
  <2> QED BY <1>1, <1>7, <1>11, <1>12, <2>1, WordsStay
<1>24. ASSUME NEW c \in Consumers PROVE ConsumerInv(mem', Busy', view'[c], co'[c])
  <2>1. Busy <= Busy' /\ Busy' \in Nat BY <1>1, <1>6, <1>15
  <2> QED BY <1>2, <1>11, <2>1, ConsumersStay
<1> QED BY <1>17, <1>19, <1>20, <1>21, <1>22, <1>23, <1>24 DEF IInv, MemoryInv

\* P4: record Pub is published, and carries its ready stamp (ring.rs:218-219).
LEMMA AdvanceInv == ASSUME IInv, Advance PROVE IInv'
<1> DEFINE l == WriteLoc
           x == Pub + 1
           v == [Stored(mem) EXCEPT ![l] = Len(mem[l]) + 1]
<1>1. /\ mem \in Memory /\ fenced \in View /\ Stored(mem) \in View
      /\ pr \in ProducerState
      /\ \A k \in Loc : Len(mem[k]) \in Nat /\ Len(mem[k]) >= 1
      /\ Pub \in Nat /\ Pub <= MaxPush
  BY Facts
<1>2. /\ pr.pc = "advance" /\ pr.p = Pub /\ Pub < MaxPush
      /\ mem' = Put(mem, l, x, Stored(mem))
      /\ pr' = [pr EXCEPT !.pc = "idle"]
      /\ fenced' = fenced /\ view' = view /\ co' = co
  <2>1. pr.pc = "advance" BY DEF Advance
  <2>2. pr.p = Pub /\ Pub < MaxPush BY <2>1, Facts
  <2>3. (Pub + 1) % (2 * WRITING) = Pub + 1
    <3>1. Pub + 1 \in 0..2 * WRITING - 1 BY <1>1, <2>2, Bounds
    <3>2. \A a \in Nat : \A b \in 0..a - 1 : b % a = b OBVIOUS
    <3> QED BY <3>1, <3>2, Bounds
  <2> QED BY <2>1, <2>2, <2>3 DEF Advance, StoreRelease
<1>3. l \in Loc BY Locations
<1>4. x \in Nat BY <1>1
<1>5. Appended(mem, mem', l, x, v) BY <1>1, <1>2, <1>3, <1>4, PutAppends
<1>6. Busy = Pub + 1 BY <1>2 DEF Busy
<1>7. /\ FenceInv(mem, Pub + 1, fenced) /\ WriteInv(mem)
      /\ StampInv(mem, Pub + 1) /\ WordInv(mem, Pub + 1)
  BY <1>6 DEF IInv, MemoryInv
<1>8. Forward(Stored(mem), v)
  <2>1. Stored(mem)[l] <= Len(mem[l]) BY <1>1, <1>3 DEF Stored
  <2> QED BY <1>1, <1>3, <2>1, PutForward
<1>9. v \in View BY <1>5 DEF Appended
<1>10. l = WriteLoc /\ x = Pub + 1 OBVIOUS
<1> HIDE DEF l, x, v
<1>11. /\ mem' \in Memory /\ Grows(mem, mem') /\ Stored(mem') \in View
       /\ \A k \in Loc : Len(mem'[k]) \in Nat /\ Len(mem'[k]) >= 1
       /\ \A p \in Nat : SeenReady(mem, Stored(mem), p) => SeenReady(mem', Stored(mem'), p)
  BY <1>3, <1>4, <1>5, <1>9, AnyStore
<1>12. /\ \A u \in Slots : mem'[StampLoc(u)] = mem[StampLoc(u)]
       /\ \A u \in Slots, y \in 1..W : mem'[WordLoc(u, y)] = mem[WordLoc(u, y)]
  BY <1>3, <1>5, <1>10, Elsewhere, Locations DEF Slots
<1>13. Len(mem'[l]) = Len(mem[l]) + 1 /\ mem'[l][Len(mem[l]) + 1].val = x
       /\ mem'[l][Len(mem[l]) + 1].view = v
  BY <1>3, <1>5 DEF Appended
<1>14. pr'.pc = "idle" /\ pr' \in ProducerState BY <1>1, <1>2 DEF ProducerState
<1>15. Len(mem[l]) = Pub + 1 BY <1>1, <1>3, <1>10 DEF Pub
<1>16. Pub' = Pub + 1 /\ Busy' = Pub + 1 BY <1>10, <1>13, <1>14, <1>15, <1>1 DEF Pub, Busy
<1>17. TypeOK' BY <1>2, <1>11, <1>14, Types, NextTypes DEF IInv
<1>18. \A p \in 0..Pub : SeenReady(mem, Stored(mem), p)
  BY <1>1, <1>2 DEF IInv, MemoryInv, ProducerInv
<1>19. ProducerInv'
  <2>1. \A p \in 0..Pub' - 1 : SeenReady(mem', Stored(mem'), p) BY <1>1, <1>11, <1>16, <1>18
  <2>2. Pub' <= MaxPush BY <1>1, <1>2, <1>16, Bounds
  <2> QED BY <1>11, <1>14, <2>1, <2>2 DEF ProducerInv
<1>20. FenceInv(mem', Busy', fenced')
  <2>1. Pub + 1 \in Nat BY <1>1
  <2> QED BY <1>1, <1>2, <1>7, <1>11, <1>16, <2>1, FenceStays
<1>21. WriteInv(mem')
  <2>1. ASSUME NEW p \in 0..Pub PROVE SeenReady(mem', v, p)
    <3>1. p \in Nat BY <1>1
    <3> QED BY <1>1, <1>8, <1>9, <1>11, <1>18, <3>1, KeepsSeen
  <2>2. ASSUME NEW i \in Len(mem[l]) + 1..Len(mem'[l])
        PROVE  mem'[l][i].val = i - 1 /\ \A p \in 0..i - 2 : SeenReady(mem', mem'[l][i].view, p)
    <3>1. i = Pub + 2 BY <1>1, <1>13, <1>15
    <3>2. i = Len(mem[l]) + 1 /\ i - 1 = x /\ i - 2 = Pub BY <1>1, <1>10, <1>15, <3>1
    <3> QED BY <1>13, <2>1, <3>2
  <2> QED BY <1>1, <1>7, <1>10, <1>11, <2>2, WriteStays
<1>22. StampInv(mem', Busy')
  <2>1. Pub + 1 <= Busy' /\ Busy' \in Nat /\ Pub + 1 \in Nat BY <1>1, <1>16
  <2> QED BY <1>1, <1>7, <1>11, <1>12, <2>1, StampsStay
<1>23. WordInv(mem', Busy')
  <2>1. Pub + 1 <= Busy' /\ Busy' \in Nat /\ Pub + 1 \in Nat BY <1>1, <1>16
  <2> QED BY <1>1, <1>7, <1>11, <1>12, <2>1, WordsStay
<1>24. ASSUME NEW c \in Consumers PROVE ConsumerInv(mem', Busy', view'[c], co'[c])
  <2>1. Busy <= Busy' /\ Busy' \in Nat BY <1>1, <1>6, <1>16
  <2> QED BY <1>2, <1>11, <2>1, ConsumersStay
<1> QED BY <1>17, <1>19, <1>20, <1>21, <1>22, <1>23, <1>24 DEF IInv, MemoryInv

-------------------------------------------------------------------------------
(* What a consumer's loads show it *)

\* A stamp loaded no earlier than the ready stamp of p, and not that stamp, is
\* of a record a lap later: R1 and R3 never take a late stamp for an overrun.
LEMMA StampRead ==
  ASSUME IInv, NEW p \in Nat, p < Pub,
         NEW v \in View, SeenReady(mem, v, p),
         NEW i \in 1..Len(mem[StampLoc(SlotOf(p))]), i >= v[StampLoc(SlotOf(p))],
         mem[StampLoc(SlotOf(p))][i].val # p
  PROVE  /\ Busy > p + Cap
         /\ \A d \in 0..p - 1 : SeenBusy(mem, mem[StampLoc(SlotOf(p))][i].view, d + Cap)
<1> DEFINE s == SlotOf(p)
           l == StampLoc(s)
           x == mem[l][i].val
           q == PosOf(x)
<1>1. mem \in Memory /\ Pub \in Nat /\ Pub <= MaxPush /\ Busy \in Nat BY Facts
<1>2. p < WRITING - 1 /\ WRITING \in Nat /\ Cap \in Nat BY <1>1, Bounds
<1>3. s \in Slots /\ l \in Loc BY SlotRange, Locations DEF Slots
<1>4. Len(mem[l]) \in Nat BY <1>1, <1>3, MessageType
<1>5. PICK k \in 1..i : mem[l][k].val = p
  BY <1>1, <1>3, SeenBefore DEF SeenReady
<1>6. mem[l][1].val = EMPTY /\ EMPTY # p BY <1>2, <1>3 DEF IInv, MemoryInv, StampInv, EMPTY
<1>7. k # 1 /\ k # i BY <1>5, <1>6
<1>8. i \in 2..Len(mem[l]) /\ k \in 2..i - 1 BY <1>4, <1>5, <1>7
<1>9. StampMsg(mem, Busy, s, x, mem[l][i].view) /\ StampOrder(mem[l][k].val, x)
  BY <1>3, <1>8 DEF IInv, MemoryInv, StampInv
<1>10. /\ x \in Nat /\ q \in 0..Busy - 1 /\ SlotOf(q) = s
       /\ \A r \in 0..q - 1 : SeenBusy(mem, mem[l][i].view, r)
  BY <1>9 DEF StampMsg
<1>11. PosOf(p) = p BY <1>2 DEF PosOf
<1>12. PosOf(p) < q \/ p = x + WRITING BY <1>5, <1>9 DEF StampOrder
<1>13. s = SlotOf(p) OBVIOUS
<1> HIDE DEF s, x, q
<1>14. p < q BY <1>2, <1>10, <1>11, <1>12
<1>15. q >= p + Cap BY <1>10, <1>13, <1>14, SlotLap
<1>16. Busy > p + Cap BY <1>1, <1>2, <1>10, <1>15
<1>17. \A d \in 0..p - 1 : d + Cap \in 0..q - 1 BY <1>1, <1>2, <1>10, <1>15
<1> QED BY <1>10, <1>13, <1>16, <1>17

\* A ready stamp of p is loaded before any busy stamp of a later record: who
\* has fenced with the latter does not accept the former.
LEMMA StampNotPast ==
  ASSUME IInv, NEW p \in Nat, p < Pub, NEW q \in Nat, q < WRITING - 1,
         SlotOf(q) = SlotOf(p),
         NEW v \in View, SeenBusy(mem, v, q),
         NEW i \in 1..Len(mem[StampLoc(SlotOf(p))]), i >= v[StampLoc(SlotOf(p))],
         mem[StampLoc(SlotOf(p))][i].val = p
  PROVE  q <= p
<1> DEFINE s == SlotOf(p)
           l == StampLoc(s)
<1>1. mem \in Memory /\ Pub \in Nat /\ Pub <= MaxPush BY Facts
<1>2. p < WRITING - 1 /\ WRITING \in Nat BY <1>1, Bounds
<1>3. s \in Slots /\ l \in Loc BY SlotRange, Locations DEF Slots
<1>4. Len(mem[l]) \in Nat BY <1>1, <1>3, MessageType
<1>5. PICK k \in 1..i : mem[l][k].val = q + WRITING
  BY <1>1, <1>3, SeenBefore DEF SeenBusy
<1>6. mem[l][1].val = EMPTY /\ EMPTY # p /\ EMPTY # q + WRITING
  BY <1>2, <1>3 DEF IInv, MemoryInv, StampInv, EMPTY
<1>7. k # 1 /\ k # i BY <1>2, <1>5, <1>6
<1>8. i \in 2..Len(mem[l]) /\ k \in 2..i - 1 BY <1>4, <1>5, <1>7
<1>9. StampOrder(q + WRITING, p) BY <1>3, <1>5, <1>8 DEF IInv, MemoryInv, StampInv
<1>10. PosOf(p) = p /\ PosOf(q + WRITING) = q BY <1>2 DEF PosOf
<1> QED BY <1>2, <1>9, <1>10 DEF StampOrder

\* A word loaded no earlier than the one of record p is that one, or one of a
\* later record whose busy stamp comes with it.
LEMMA WordRead ==
  ASSUME IInv, NEW p \in Nat, NEW w \in 1..W,
         NEW v \in View, SeenWord(mem, v, p, w),
         NEW i \in 1..Len(mem[WordLoc(SlotOf(p), w)]), i >= v[WordLoc(SlotOf(p), w)],
         NEW x, x = mem[WordLoc(SlotOf(p), w)][i].val
  PROVE  /\ x \in 1..Busy
         /\ \/ x = Record(p)
            \/ /\ x - 1 \in p + 1..Busy - 1 /\ SlotOf(x - 1) = SlotOf(p)
               /\ SeenBusy(mem, mem[WordLoc(SlotOf(p), w)][i].view, x - 1)
<1> DEFINE s == SlotOf(p)
           l == WordLoc(s, w)
<1>1. mem \in Memory /\ Busy \in Nat BY Facts
<1>2. s \in Slots /\ l \in Loc BY SlotRange, Locations DEF Slots
<1>3. Len(mem[l]) \in Nat BY <1>1, <1>2, MessageType
<1>4. PICK k \in 1..i : mem[l][k].val = Record(p)
  BY <1>1, <1>2, SeenBefore DEF SeenWord
<1>5. mem[l][1].val = 0 BY <1>2 DEF IInv, MemoryInv, WordInv
<1>6. k # 1 BY <1>4, <1>5 DEF Record
<1>7. i \in 2..Len(mem[l]) /\ (k = i \/ k \in 2..i - 1) BY <1>3, <1>4, <1>6
<1>8. /\ WordMsg(mem, Busy, s, x, mem[l][i].view)
      /\ k = i \/ mem[l][k].val <= x
  BY <1>2, <1>7 DEF IInv, MemoryInv, WordInv
<1>9. x \in 1..Busy /\ SlotOf(x - 1) = s /\ SeenBusy(mem, mem[l][i].view, x - 1)
  BY <1>8 DEF WordMsg
<1>10. x >= p + 1 BY <1>1, <1>4, <1>8, <1>9 DEF Record
<1>11. x = p + 1 \/ x - 1 \in p + 1..Busy - 1 BY <1>1, <1>9, <1>10
<1> QED BY <1>9, <1>11 DEF Record

\* What a thread knows it still knows after its views have moved forward.
LEMMA KnowsForward ==
  ASSUME NEW m \in Memory, NEW t \in Thread, NEW u \in Thread,
         Forward(t.acq, u.acq), NEW p \in Nat
  PROVE  /\ Forward(t.cur, u.cur) /\ KnowsRecord(m, t, p) => KnowsRecord(m, u, p)
         /\ \A b, g : Forward(t.cur, u.cur) /\ KnowsWords(m, b, t, p, g)
                        => KnowsWords(m, b, u, p, g)
         /\ \A D \in SUBSET Nat : KnowsLapped(m, t, D) => KnowsLapped(m, u, D)
<1>1. t.cur \in View /\ t.acq \in View /\ u.cur \in View /\ u.acq \in View
  BY DEF Thread
<1>2. Grows(m, m) BY Reflexive
<1>3. \A q : q \in Nat => /\ SeenReady(m, t.acq, q) => SeenReady(m, u.acq, q)
                          /\ SeenBusy(m, t.acq, q) => SeenBusy(m, u.acq, q)
  BY <1>1, <1>2, KeepsSeen
<1>4. ASSUME Forward(t.cur, u.cur)
      PROVE  /\ SeenReady(m, t.cur, p) => SeenReady(m, u.cur, p)
             /\ \A w \in 1..W : SeenWord(m, t.cur, p, w) => SeenWord(m, u.cur, p, w)
  BY <1>1, <1>2, <1>4, KeepsSeen
<1>5. Forward(t.cur, u.cur) /\ KnowsRecord(m, t, p) => KnowsRecord(m, u, p)
  BY <1>3, <1>4 DEF KnowsRecord
<1>6. ASSUME NEW b, NEW g, Forward(t.cur, u.cur), KnowsWords(m, b, t, p, g)
      PROVE  KnowsWords(m, b, u, p, g)
  <2>1. \A w \in 1..W : SeenWord(m, u.cur, p, w) BY <1>4, <1>6 DEF KnowsWords
  <2>2. ASSUME NEW w \in 1..Len(g), g[w] # Record(p)
        PROVE  \E q \in p + 1..b - 1 : SlotOf(q) = SlotOf(p) /\ SeenBusy(m, u.acq, q)
    <3>1. PICK q \in p + 1..b - 1 : SlotOf(q) = SlotOf(p) /\ SeenBusy(m, t.acq, q)
      BY <1>6, <2>2 DEF KnowsWords
    <3>2. q \in Nat OBVIOUS
    <3> QED BY <1>3, <3>1, <3>2
  <2> QED BY <2>1, <2>2 DEF KnowsWords
<1>7. ASSUME NEW D \in SUBSET Nat, KnowsLapped(m, t, D) PROVE KnowsLapped(m, u, D)
  <2> SUFFICES ASSUME NEW d \in D
               PROVE  d + Cap <= MaxPush /\ SeenBusy(m, u.acq, d + Cap)
    BY DEF KnowsLapped
  <2>1. d + Cap \in Nat BY Bounds
  <2> QED BY <1>3, <1>7, <2>1 DEF KnowsLapped
<1> QED BY <1>5, <1>6, <1>7

-------------------------------------------------------------------------------
(* consumer, try_recv and resync *)

\* What the steps of a consumer start from.
LEMMA ConsumerFacts ==
  ASSUME IInv, NEW c \in Consumers
  PROVE  /\ view[c] \in Thread /\ co[c] \in ConsumerState
         /\ co[c].cursor \in Nat /\ co[c].cursor <= Pub
         /\ co[c].taken \in SUBSET Nat
         /\ ConsumerInv(mem, Busy, view[c], co[c])
<1>1. view[c] \in Thread /\ co[c] \in ConsumerState BY Types DEF IInv
<1>2. ConsumerInv(mem, Busy, view[c], co[c]) BY DEF IInv
<1>3. co[c].cursor <= Pub BY <1>2 DEF ConsumerInv, HistoryInv, Pub
<1> QED BY <1>1, <1>2, <1>3, Bounds DEF ConsumerState

\* A step of consumer c touches nothing else: its own part is to be shown.
LEMMA ConsumerStep ==
  ASSUME IInv, NEW c \in Consumers, UNCHANGED <<mem, fenced, pr>>,
         NEW t \in Thread, view' = [view EXCEPT ![c] = t],
         NEW k \in ConsumerState, co' = [co EXCEPT ![c] = k],
         ConsumerInv(mem, Busy, t, k)
  PROVE  IInv'
<1>1. /\ mem \in Memory /\ fenced \in View /\ view \in [Consumers -> Thread]
      /\ pr \in ProducerState /\ co \in [Consumers -> ConsumerState]
  BY Types DEF IInv
<1>2. TypeOK' BY <1>1, NextTypes
<1>3. mem' = mem /\ fenced' = fenced /\ pr' = pr OBVIOUS
<1>4. Pub' = Pub /\ Busy' = Busy BY <1>3 DEF Pub, Busy
<1>5. MemoryInv' BY <1>3, <1>4 DEF IInv, MemoryInv, ProducerInv
<1>6. ASSUME NEW e \in Consumers PROVE ConsumerInv(mem, Busy, view'[e], co'[e])
  <2>1. CASE e = c BY <1>1, <2>1
  <2>2. CASE e # c
    <3>1. view'[e] = view[e] /\ co'[e] = co[e] BY <1>1, <2>2
    <3> QED BY <3>1 DEF IInv
  <2> QED BY <2>1, <2>2
<1> QED BY <1>2, <1>3, <1>4, <1>5, <1>6 DEF IInv

\* A consumer that has moved its views forward, with the cursor and the history
\* it had, is still in order.
LEMMA OrderForward ==
  ASSUME NEW m \in Memory, NEW t \in Thread, NEW u \in Thread,
         Forward(t.acq, u.acq), NEW k, NEW j,
         k.cursor \in Nat, j.cursor = k.cursor, j.taken = k.taken,
         k.taken \in SUBSET Nat, OrderInv(m, t, k)
  PROVE  OrderInv(m, u, j)
<1> SUFFICES ASSUME NEW p \in k.taken PROVE KnowsLapped(m, u, k.cursor..p)
  BY DEF OrderInv
<1>1. KnowsLapped(m, t, k.cursor..p) BY DEF OrderInv
<1>2. p \in Nat /\ k.cursor..p \in SUBSET Nat OBVIOUS
<1> QED BY <1>1, <1>2, KnowsForward

\* consumer and consumer_from_oldest: the cursor starts within the positions
\* published (ring.rs:108-135).
LEMMA JoinInv == ASSUME IInv, NEW c \in Consumers, Join(c) PROVE IInv'
<1>0. PICK i \in Visible(mem, view[c], WriteLoc) :
        /\ view' = [view EXCEPT ![c] = LoadAcquire(mem, @, WriteLoc, i)]
        /\ \E p \in {mem[WriteLoc][i].val, MonusCap(mem[WriteLoc][i].val)} :
             co' = [co EXCEPT ![c].pc = "idle", ![c].cursor = p, ![c].start = p]
  BY DEF Join
<1>1. PICK p \in {mem[WriteLoc][i].val, MonusCap(mem[WriteLoc][i].val)} :
        co' = [co EXCEPT ![c].pc = "idle", ![c].cursor = p, ![c].start = p]
  BY <1>0
<1> DEFINE t == LoadAcquire(mem, view[c], WriteLoc, i)
           k == [co[c] EXCEPT !.pc = "idle", !.cursor = p, !.start = p]
<1>2. /\ co[c].pc = "absent" /\ mem' = mem /\ fenced' = fenced /\ pr' = pr
      /\ view' = [view EXCEPT ![c] = t] /\ co' = [co EXCEPT ![c] = k]
  BY <1>0, <1>1 DEF Join
<1>3. mem \in Memory /\ view[c] \in Thread /\ co[c] \in ConsumerState
      /\ ConsumerInv(mem, Busy, view[c], co[c]) /\ Pub \in Nat /\ Pub <= MaxPush
  BY Facts, ConsumerFacts
<1>4. t \in Thread /\ i \in 1..Len(mem[WriteLoc]) BY <1>3, Locations, Loaded
<1>5. mem[WriteLoc][i].val = i - 1 BY <1>4 DEF IInv, MemoryInv, WriteInv
<1>6. Len(mem[WriteLoc]) = Pub + 1 BY Facts, Locations DEF Pub
<1>7. p \in 0..Pub BY <1>3, <1>4, <1>5, <1>6, Bounds DEF MonusCap
<1>8. co[c].taken = {} /\ (co[c].out.kind = "item" => Whole(co[c].out))
  BY <1>2, <1>3 DEF ConsumerInv, HistoryInv
<1>9. k \in ConsumerState
  <2>1. p \in 0..MaxPush BY <1>3, <1>7, Bounds
  <2> QED BY <1>3, <2>1 DEF ConsumerState
<1>10. /\ k.pc = "idle" /\ k.cursor = p /\ k.start = p
       /\ k.taken = {} /\ k.missed = co[c].missed /\ k.out = co[c].out
  BY <1>3, <1>8 DEF ConsumerState
<1> HIDE DEF t, k
<1>11. ConsumerInv(mem, Busy, t, k)
  <2>1. InCallInv(mem, Busy, t, k) BY <1>10 DEF InCallInv
  <2>2. OrderInv(mem, t, k) BY <1>10 DEF OrderInv
  <2>3. p..p - 1 = {} /\ p <= Len(mem[WriteLoc]) - 1 BY <1>3, <1>6, <1>7
  <2>4. HistoryInv(mem, k) BY <1>8, <1>10, <2>3 DEF HistoryInv
  <2> QED BY <2>1, <2>2, <2>4 DEF ConsumerInv
<1> QED BY <1>2, <1>4, <1>9, <1>11, ConsumerStep

\* R0: a write position beyond the cursor brings the record's ready stamp
\* (ring.rs:260-264).
LEMMA LoadWriteInv == ASSUME IInv, NEW c \in Consumers, LoadWrite(c) PROVE IInv'
<1>1. PICK i \in Visible(mem, view[c], WriteLoc) :
        /\ view' = [view EXCEPT ![c] = LoadAcquire(mem, @, WriteLoc, i)]
        /\ IF co[c].cursor >= mem[WriteLoc][i].val
             THEN co' = [co EXCEPT ![c].out = [NoOutcome EXCEPT !.kind = "empty"]]
             ELSE co' = [co EXCEPT ![c].pc = "stamp"]
  BY DEF LoadWrite
<1> DEFINE t == LoadAcquire(mem, view[c], WriteLoc, i)
           k == IF co[c].cursor >= mem[WriteLoc][i].val
                  THEN [co[c] EXCEPT !.out = [NoOutcome EXCEPT !.kind = "empty"]]
                  ELSE [co[c] EXCEPT !.pc = "stamp"]
<1>2. /\ co[c].pc = "idle" /\ mem' = mem /\ fenced' = fenced /\ pr' = pr
      /\ view' = [view EXCEPT ![c] = t] /\ co' = [co EXCEPT ![c] = k]
  BY <1>1 DEF LoadWrite
<1>3. /\ mem \in Memory /\ view[c] \in Thread /\ co[c] \in ConsumerState
      /\ ConsumerInv(mem, Busy, view[c], co[c]) /\ Pub \in Nat
      /\ co[c].cursor \in Nat /\ co[c].taken \in SUBSET Nat
  BY Facts, ConsumerFacts
<1>4. /\ t \in Thread /\ i \in 1..Len(mem[WriteLoc])
      /\ Forward(view[c].acq, t.acq)
      /\ Forward(mem[WriteLoc][i].view, t.cur) /\ Forward(mem[WriteLoc][i].view, t.acq)
      /\ mem[WriteLoc][i].view \in View
  BY <1>3, Locations, Loaded
<1>5. /\ mem[WriteLoc][i].val = i - 1
      /\ \A p \in 0..i - 2 : SeenReady(mem, mem[WriteLoc][i].view, p)
  BY <1>4 DEF IInv, MemoryInv, WriteInv
<1>6. Len(mem[WriteLoc]) = Pub + 1 BY Facts, Locations DEF Pub
<1>7. [NoOutcome EXCEPT !.kind = "empty"] \in Outcome
      /\ [NoOutcome EXCEPT !.kind = "empty"].kind = "empty"
  <2>1. [NoOutcome EXCEPT !.kind = "empty"]
          = [kind |-> "empty", pos |-> 0, words |-> <<>>, skipped |-> 0]
    BY DEF NoOutcome
  <2>2. <<>> \in Seq(0..MaxPush + 1) /\ 0 \in 0..MaxPush BY Bounds
  <2> QED BY <2>1, <2>2 DEF Outcome
<1>8. k \in ConsumerState BY <1>3, <1>7 DEF ConsumerState
<1>9. /\ k.cursor = co[c].cursor /\ k.taken = co[c].taken
      /\ k.start = co[c].start /\ k.missed = co[c].missed
      /\ k.out = co[c].out \/ k.out.kind = "empty"
      /\ k.pc = "idle" \/ (k.pc = "stamp" /\ co[c].cursor < mem[WriteLoc][i].val)
  BY <1>2, <1>3, <1>5, <1>4, <1>7 DEF ConsumerState
<1> HIDE DEF t, k
<1>10. ConsumerInv(mem, Busy, t, k)
  <2>1. ASSUME k.pc = "stamp"
        PROVE  k.cursor < Len(mem[WriteLoc]) - 1 /\ KnowsRecord(mem, t, k.cursor)
    <3>1. k.cursor \in 0..i - 2 BY <1>3, <1>4, <1>5, <1>9, <2>1
    <3>2. k.cursor < Len(mem[WriteLoc]) - 1 BY <1>4, <1>6, <1>3, <3>1
    <3>3. SeenReady(mem, mem[WriteLoc][i].view, k.cursor) BY <1>5, <3>1
    <3>4. t.cur \in View /\ t.acq \in View BY <1>4 DEF Thread
    <3>5. SeenReady(mem, t.cur, k.cursor) /\ SeenReady(mem, t.acq, k.cursor)
      BY <1>3, <1>4, <1>9, <3>3, <3>4, KeepsSeen, Reflexive
    <3> QED BY <3>2, <3>5 DEF KnowsRecord
  <2>2. InCallInv(mem, Busy, t, k) BY <1>9, <2>1 DEF InCallInv
  <2>3. OrderInv(mem, t, k)
    BY <1>3, <1>4, <1>9, OrderForward DEF ConsumerInv
  <2>4. HistoryInv(mem, k) BY <1>2, <1>3, <1>9 DEF ConsumerInv, HistoryInv
  <2> QED BY <2>2, <2>3, <2>4 DEF ConsumerInv
<1> QED BY <1>2, <1>4, <1>8, <1>10, ConsumerStep

\* R1: the cursor's ready stamp brings the record's words; any other is of a
\* record a lap later (ring.rs:266-270).
LEMMA LoadStampInv == ASSUME IInv, NEW c \in Consumers, LoadStamp(c) PROVE IInv'
<1> DEFINE p == co[c].cursor
           l == StampLoc(SlotOf(p))
<1>1. PICK i \in Visible(mem, view[c], l) :
        /\ view' = [view EXCEPT ![c] = LoadAcquire(mem, @, l, i)]
        /\ co' = [co EXCEPT ![c].got = <<>>, ![c].pc =
                    IF mem[l][i].val = p THEN "word" ELSE "resync"]
  BY DEF LoadStamp
<1> DEFINE t == LoadAcquire(mem, view[c], l, i)
           k == [co[c] EXCEPT !.got = <<>>, !.pc =
                   IF mem[l][i].val = p THEN "word" ELSE "resync"]
<1>2. /\ co[c].pc = "stamp" /\ mem' = mem /\ fenced' = fenced /\ pr' = pr
      /\ view' = [view EXCEPT ![c] = t] /\ co' = [co EXCEPT ![c] = k]
  BY <1>1 DEF LoadStamp
<1>3. /\ mem \in Memory /\ view[c] \in Thread /\ co[c] \in ConsumerState
      /\ ConsumerInv(mem, Busy, view[c], co[c])
      /\ Pub \in Nat /\ Pub <= MaxPush /\ Busy \in Nat /\ Busy <= MaxPush
      /\ p \in Nat /\ co[c].taken \in SUBSET Nat
  BY Facts, ConsumerFacts
<1>4. SlotOf(p) \in Slots /\ l \in Loc BY <1>3, SlotRange, Locations DEF Slots
<1>5. /\ t \in Thread /\ i \in 1..Len(mem[l]) /\ i >= view[c].cur[l]
      /\ Forward(view[c].cur, t.cur) /\ Forward(view[c].acq, t.acq)
      /\ Forward(mem[l][i].view, t.cur) /\ Forward(mem[l][i].view, t.acq)
      /\ mem[l][i].view \in View
  BY <1>3, <1>4, Loaded
<1>6. p < Len(mem[WriteLoc]) - 1 /\ p < Pub /\ KnowsRecord(mem, view[c], p)
  BY <1>2, <1>3 DEF ConsumerInv, InCallInv, Pub
<1>7. p < WRITING /\ WRITING \in Nat BY <1>3, <1>6, Bounds
<1>8. view[c].cur \in View /\ t.cur \in View /\ t.acq \in View BY <1>3, <1>5 DEF Thread
<1>9. k \in ConsumerState
  <2>1. <<>> \in Seq(0..MaxPush + 1) OBVIOUS
  <2>2. CASE mem[l][i].val = p BY <1>3, <2>1, <2>2 DEF ConsumerState
  <2>3. CASE mem[l][i].val # p BY <1>3, <2>1, <2>3 DEF ConsumerState
  <2> QED BY <2>2, <2>3
<1>10. /\ k.cursor = p /\ k.taken = co[c].taken /\ k.got = <<>>
       /\ k.start = co[c].start /\ k.missed = co[c].missed /\ k.out = co[c].out
       /\ k.pc = IF mem[l][i].val = p THEN "word" ELSE "resync"
  BY <1>3 DEF ConsumerState
<1>11. p = co[c].cursor /\ l = StampLoc(SlotOf(p)) OBVIOUS
<1> HIDE DEF p, l, t, k
<1>12. KnowsRecord(mem, t, p) BY <1>3, <1>5, <1>6, KnowsForward
<1>13. ASSUME mem[l][i].val = p PROVE KnowsWords(mem, Busy, t, p, <<>>)
  <2>1. mem[l][1].val = EMPTY /\ EMPTY # p
    BY <1>3, <1>4, <1>7, <1>11 DEF IInv, MemoryInv, StampInv, EMPTY
  <2>2. Len(mem[l]) \in Nat BY <1>3, <1>4, MessageType
  <2>3. i \in 2..Len(mem[l]) BY <1>5, <1>13, <2>1, <2>2
  <2>4. StampMsg(mem, Busy, SlotOf(p), p, mem[l][i].view)
    BY <1>4, <1>11, <1>13, <2>3 DEF IInv, MemoryInv, StampInv
  <2>5. \A w \in 1..W : SeenWord(mem, mem[l][i].view, p, w) BY <1>7, <2>4 DEF StampMsg
  <2>6. \A w \in 1..W : SeenWord(mem, t.cur, p, w)
    BY <1>3, <1>5, <1>8, <2>5, KeepsSeen, Reflexive
  <2>7. \A w \in 1..Len(<<>>) : FALSE OBVIOUS
  <2> QED BY <2>6, <2>7 DEF KnowsWords
<1>14. ASSUME mem[l][i].val # p
       PROVE  Busy > p + Cap /\ KnowsLapped(mem, t, 0..p - 1)
  <2>1. SeenReady(mem, view[c].cur, p) BY <1>6 DEF KnowsRecord
  <2>2. Busy > p + Cap /\ \A d \in 0..p - 1 : SeenBusy(mem, mem[l][i].view, d + Cap)
    BY <1>3, <1>5, <1>6, <1>8, <1>11, <1>14, <2>1, StampRead
  <2>3. ASSUME NEW d \in 0..p - 1
        PROVE  d + Cap <= MaxPush /\ SeenBusy(mem, t.acq, d + Cap)
    <3>1. d + Cap \in Nat BY Bounds
    <3>2. SeenBusy(mem, t.acq, d + Cap)
      BY <1>3, <1>5, <1>8, <2>2, <3>1, KeepsSeen, Reflexive
    <3>3. d + Cap <= MaxPush BY <1>3, <2>2, Bounds
    <3> QED BY <3>2, <3>3
  <2> QED BY <2>2, <2>3 DEF KnowsLapped
<1>15. ConsumerInv(mem, Busy, t, k)
  <2>1. Len(<<>>) < W BY Bounds
  <2>2. InCallInv(mem, Busy, t, k)
    BY <1>6, <1>10, <1>12, <1>13, <1>14, <2>1 DEF InCallInv
  <2>3. OrderInv(mem, t, k)
    BY <1>3, <1>5, <1>10, <1>11, OrderForward DEF ConsumerInv
  <2>4. HistoryInv(mem, k) BY <1>2, <1>3, <1>10, <1>11 DEF ConsumerInv, HistoryInv
  <2> QED BY <2>2, <2>3, <2>4 DEF ConsumerInv
<1> QED BY <1>2, <1>5, <1>9, <1>15, ConsumerStep

\* R2: a word of a later record brings that record's busy stamp, for the fence
\* of R3 to show (ring.rs:272-276).
LEMMA LoadWordInv == ASSUME IInv, NEW c \in Consumers, LoadWord(c) PROVE IInv'
<1> DEFINE p == co[c].cursor
           g == co[c].got
           w == Len(g) + 1
           l == WordLoc(SlotOf(p), w)
<1>1. PICK i \in Visible(mem, view[c], l) :
        /\ view' = [view EXCEPT ![c] = LoadRelaxed(mem, @, l, i)]
        /\ co' = [co EXCEPT ![c].pc = IF w = W THEN "check" ELSE "word",
                            ![c].got = Append(@, mem[l][i].val)]
  BY DEF LoadWord
<1> DEFINE x == mem[l][i].val
           t == LoadRelaxed(mem, view[c], l, i)
           k == [co[c] EXCEPT !.pc = IF w = W THEN "check" ELSE "word",
                              !.got = Append(g, x)]
<1>2. /\ co[c].pc = "word" /\ mem' = mem /\ fenced' = fenced /\ pr' = pr
      /\ view' = [view EXCEPT ![c] = t] /\ co' = [co EXCEPT ![c] = k]
  BY <1>1 DEF LoadWord
<1>3. /\ mem \in Memory /\ view[c] \in Thread /\ co[c] \in ConsumerState
      /\ ConsumerInv(mem, Busy, view[c], co[c])
      /\ Pub \in Nat /\ Busy \in Nat /\ Busy <= MaxPush
      /\ p \in Nat /\ co[c].taken \in SUBSET Nat
  BY Facts, ConsumerFacts
<1>4. /\ p < Len(mem[WriteLoc]) - 1 /\ KnowsRecord(mem, view[c], p)
      /\ KnowsWords(mem, Busy, view[c], p, g) /\ Len(g) < W
  BY <1>2, <1>3 DEF ConsumerInv, InCallInv
<1>5. g \in Seq(0..MaxPush + 1) /\ Len(g) \in Nat /\ w \in 1..W
  <2>1. g \in Seq(0..MaxPush + 1) BY <1>3 DEF ConsumerState
  <2>2. Len(g) \in Nat BY <2>1
  <2> QED BY <1>4, <2>1, <2>2, Bounds
<1>6. SlotOf(p) \in Slots /\ l \in Loc BY <1>3, <1>5, SlotRange, Locations DEF Slots
<1>7. /\ t \in Thread /\ i \in 1..Len(mem[l]) /\ i >= view[c].cur[l]
      /\ Forward(view[c].cur, t.cur) /\ Forward(view[c].acq, t.acq)
      /\ Forward(mem[l][i].view, t.acq) /\ mem[l][i].view \in View
  BY <1>3, <1>6, Loaded
<1>8. view[c].cur \in View /\ t.cur \in View /\ t.acq \in View BY <1>3, <1>7 DEF Thread
<1>9. /\ x \in 1..Busy
      /\ \/ x = Record(p)
         \/ /\ x - 1 \in p + 1..Busy - 1 /\ SlotOf(x - 1) = SlotOf(p)
            /\ SeenBusy(mem, mem[l][i].view, x - 1)
  <2>1. SeenWord(mem, view[c].cur, p, w) BY <1>4, <1>5 DEF KnowsWords
  <2> QED BY <1>3, <1>5, <1>7, <1>8, <2>1, WordRead
<1>10. /\ Append(g, x) \in Seq(0..MaxPush + 1) /\ Len(Append(g, x)) = w
       /\ Append(g, x)[w] = x /\ \A y \in 1..Len(g) : Append(g, x)[y] = g[y]
  <2>1. x \in 0..MaxPush + 1 BY <1>3, <1>9, Bounds
  <2> HIDE DEF x, g
  <2> QED BY <1>5, <2>1
<1>11. k \in ConsumerState
  <2>1. CASE w = W BY <1>3, <1>10, <2>1 DEF ConsumerState
  <2>2. CASE w # W BY <1>3, <1>10, <2>2 DEF ConsumerState
  <2> QED BY <2>1, <2>2
<1>12. /\ k.cursor = p /\ k.taken = co[c].taken /\ k.got = Append(g, x)
       /\ k.start = co[c].start /\ k.missed = co[c].missed /\ k.out = co[c].out
       /\ k.pc = IF w = W THEN "check" ELSE "word"
  BY <1>3 DEF ConsumerState
<1>13. p = co[c].cursor OBVIOUS
<1>14. w = Len(g) + 1 OBVIOUS
<1> HIDE DEF p, g, w, l, x, t, k
<1>15. KnowsRecord(mem, t, p) /\ KnowsWords(mem, Busy, t, p, g)
  BY <1>3, <1>4, <1>7, KnowsForward
<1>16. KnowsWords(mem, Busy, t, p, Append(g, x))
  <2>1. \A y \in 1..W : SeenWord(mem, t.cur, p, y) BY <1>15 DEF KnowsWords
  <2>2. ASSUME NEW y \in 1..Len(Append(g, x))
        PROVE  \/ Append(g, x)[y] = Record(p)
               \/ \E q \in p + 1..Busy - 1 : SlotOf(q) = SlotOf(p) /\ SeenBusy(mem, t.acq, q)
    <3>1. CASE y \in 1..Len(g) BY <1>10, <1>15, <3>1 DEF KnowsWords
    <3>2. CASE y = w
      <4>1. CASE x = Record(p) BY <1>10, <3>2, <4>1
      <4>2. CASE /\ x - 1 \in p + 1..Busy - 1 /\ SlotOf(x - 1) = SlotOf(p)
                 /\ SeenBusy(mem, mem[l][i].view, x - 1)
        <5>1. x - 1 \in Nat BY <1>3, <4>2
        <5>2. SeenBusy(mem, t.acq, x - 1)
          BY <1>3, <1>7, <1>8, <4>2, <5>1, KeepsSeen, Reflexive
        <5> QED BY <4>2, <5>2
      <4> QED BY <1>9, <4>1, <4>2
    <3>3. y \in 1..Len(g) \/ y = w BY <1>5, <1>10, <1>14
    <3> QED BY <3>1, <3>2, <3>3
  <2> QED BY <2>1, <2>2 DEF KnowsWords
<1>17. ConsumerInv(mem, Busy, t, k)
  <2>1. w = W => Len(k.got) = W BY <1>10, <1>12
  <2>2. w # W => Len(k.got) < W BY <1>5, <1>10, <1>12, Bounds
  <2>3. InCallInv(mem, Busy, t, k)
    BY <1>4, <1>12, <1>15, <1>16, <2>1, <2>2 DEF InCallInv
  <2>4. OrderInv(mem, t, k)
    BY <1>3, <1>7, <1>12, <1>13, OrderForward DEF ConsumerInv
  <2>5. HistoryInv(mem, k) BY <1>2, <1>3, <1>12, <1>13 DEF ConsumerInv, HistoryInv
  <2> QED BY <2>3, <2>4, <2>5 DEF ConsumerInv
<1> QED BY <1>2, <1>7, <1>11, <1>17, ConsumerStep

\* What R3 sees when it accepts: every word read is of the cursor's record, and
\* no position delivered before is at or past it (ring.rs:278-289).
LEMMA Accepted ==
  ASSUME IInv, NEW c \in Consumers, co[c].pc = "check",
         NEW i \in Visible(mem, FenceAcquire(view[c]), StampLoc(SlotOf(co[c].cursor))),
         mem[StampLoc(SlotOf(co[c].cursor))][i].val = co[c].cursor
  PROVE  /\ \A w \in 1..W : co[c].got[w] = Record(co[c].cursor)
         /\ \A p \in co[c].taken : p < co[c].cursor
<1> DEFINE p == co[c].cursor
           l == StampLoc(SlotOf(p))
           a == view[c].acq
<1>1. /\ mem \in Memory /\ view[c] \in Thread /\ co[c] \in ConsumerState
      /\ ConsumerInv(mem, Busy, view[c], co[c])
      /\ Pub \in Nat /\ Pub <= MaxPush /\ Busy \in Nat /\ Busy <= MaxPush
      /\ p \in Nat /\ co[c].taken \in SUBSET Nat
  BY Facts, ConsumerFacts
<1>2. /\ p < Pub /\ KnowsWords(mem, Busy, view[c], p, co[c].got) /\ Len(co[c].got) = W
  BY <1>1 DEF ConsumerInv, InCallInv, Pub
<1>3. SlotOf(p) \in Slots /\ l \in Loc BY <1>1, SlotRange, Locations DEF Slots
<1>4. i \in 1..Len(mem[l]) /\ i >= a[l] /\ a \in View
  <2>1. FenceAcquire(view[c]) \in Thread /\ FenceAcquire(view[c]).cur = a
    BY <1>1, Fenced
  <2>2. i \in 1..Len(mem[l]) /\ i >= FenceAcquire(view[c]).cur[l]
    BY <1>1, <1>3, <2>1, Loaded
  <2> QED BY <1>1, <2>1, <2>2 DEF Thread
<1>5. mem[l][i].val = p OBVIOUS
<1>6. ASSUME NEW q \in Nat, q < WRITING - 1, SlotOf(q) = SlotOf(p), SeenBusy(mem, a, q)
      PROVE  q <= p
  BY <1>1, <1>2, <1>4, <1>5, <1>6, StampNotPast
<1>7. p = co[c].cursor /\ a = view[c].acq OBVIOUS
<1> HIDE DEF p, l, a
<1>8. ASSUME NEW w \in 1..W, co[c].got[w] # Record(p) PROVE FALSE
  <2>1. PICK q \in p + 1..Busy - 1 : SlotOf(q) = SlotOf(p) /\ SeenBusy(mem, a, q)
    BY <1>2, <1>7, <1>8 DEF KnowsWords
  <2>2. q \in Nat /\ q < WRITING - 1 /\ q > p BY <1>1, Bounds
  <2> QED BY <1>1, <1>6, <2>1, <2>2
<1>9. ASSUME NEW r \in co[c].taken, ~(r < p) PROVE FALSE
  <2>1. r \in Nat /\ p \in p..r BY <1>1, <1>9
  <2>2. p + Cap <= MaxPush /\ SeenBusy(mem, a, p + Cap)
    BY <1>1, <1>7, <2>1 DEF ConsumerInv, OrderInv, KnowsLapped
  <2>3. SlotOf(p + Cap) = SlotOf(p) BY <1>1, SlotNext
  <2>4. p + Cap \in Nat /\ p + Cap > p /\ p + Cap < WRITING - 1 BY <1>1, <2>2, Bounds
  <2> QED BY <1>1, <1>6, <2>2, <2>3, <2>4
<1> QED BY <1>7, <1>8, <1>9

\* R3 and the second load: an unchanged stamp delivers the whole record, any
\* other is of a record a lap later (ring.rs:278-289).
LEMMA RecheckInv == ASSUME IInv, NEW c \in Consumers, Recheck(c) PROVE IInv'
<1> DEFINE p == co[c].cursor
           l == StampLoc(SlotOf(p))
           f == FenceAcquire(view[c])
           item == [kind |-> "item", pos |-> p, words |-> co[c].got, skipped |-> 0]
<1>1. PICK i \in Visible(mem, f, l) :
        /\ view' = [view EXCEPT ![c] = LoadRelaxed(mem, f, l, i)]
        /\ IF mem[l][i].val = p
             THEN Deliver(c)
             ELSE co' = [co EXCEPT ![c].pc = "resync", ![c].got = <<>>]
  BY DEF Recheck
<1> DEFINE t == LoadRelaxed(mem, f, l, i)
           k == IF mem[l][i].val = p
                  THEN [co[c] EXCEPT !.pc = "idle", !.got = <<>>, !.cursor = @ + 1,
                          !.taken = @ \cup {p}, !.out = item]
                  ELSE [co[c] EXCEPT !.pc = "resync", !.got = <<>>]
<1>2. /\ co[c].pc = "check" /\ mem' = mem /\ fenced' = fenced /\ pr' = pr
      /\ view' = [view EXCEPT ![c] = t] /\ co' = [co EXCEPT ![c] = k]
  <2>1. co[c].pc = "check" /\ mem' = mem /\ fenced' = fenced /\ pr' = pr BY DEF Recheck
  <2>2. co \in [Consumers -> ConsumerState] BY Types DEF IInv
  <2>3. co' = [co EXCEPT ![c] = k]
    <3>1. CASE mem[l][i].val = p BY <1>1, <2>2, <3>1 DEF Deliver
    <3>2. CASE mem[l][i].val # p BY <1>1, <2>2, <3>2
    <3> QED BY <3>1, <3>2
  <2> QED BY <1>1, <2>1, <2>3
<1>3. /\ mem \in Memory /\ view[c] \in Thread /\ co[c] \in ConsumerState
      /\ ConsumerInv(mem, Busy, view[c], co[c])
      /\ Pub \in Nat /\ Pub <= MaxPush /\ Busy \in Nat /\ Busy <= MaxPush
      /\ p \in Nat /\ co[c].taken \in SUBSET Nat
  BY Facts, ConsumerFacts
<1>4. SlotOf(p) \in Slots /\ l \in Loc BY <1>3, SlotRange, Locations DEF Slots
<1>5. f \in Thread /\ f.cur = view[c].acq /\ f.acq = view[c].acq BY <1>3, Fenced
<1>6. /\ t \in Thread /\ i \in 1..Len(mem[l]) /\ i >= view[c].acq[l]
      /\ Forward(view[c].acq, t.acq)
      /\ Forward(mem[l][i].view, t.acq) /\ mem[l][i].view \in View
  <2>1. /\ t \in Thread /\ i \in 1..Len(mem[l]) /\ i >= f.cur[l]
        /\ Forward(f.acq, t.acq)
        /\ Forward(mem[l][i].view, t.acq) /\ mem[l][i].view \in View
    BY <1>3, <1>4, <1>5, Loaded
  <2> QED BY <1>5, <2>1
<1>7. p < Len(mem[WriteLoc]) - 1 /\ p < Pub /\ KnowsRecord(mem, view[c], p)
  BY <1>2, <1>3 DEF ConsumerInv, InCallInv, Pub
<1>8. view[c].acq \in View /\ t.acq \in View BY <1>3, <1>6 DEF Thread
<1>9. <<>> \in Seq(0..MaxPush + 1) OBVIOUS
<1>10. p = co[c].cursor /\ l = StampLoc(SlotOf(p)) /\ f = FenceAcquire(view[c]) OBVIOUS
<1>11. HistoryInv(mem, co[c]) /\ OrderInv(mem, view[c], co[c])
  BY <1>3 DEF ConsumerInv
<1>12. CASE mem[l][i].val = p
  <2>1. k = [co[c] EXCEPT !.pc = "idle", !.got = <<>>, !.cursor = @ + 1,
               !.taken = @ \cup {p}, !.out = item]
    BY <1>12
  <2>2. \A w \in 1..W : item.words[w] = Record(p)
    BY <1>2, <1>12, Accepted
  <2>3. Whole(item) BY <2>2 DEF Whole
  <2>4. item \in Outcome
    <3>1. p \in 0..MaxPush /\ 0 \in 0..MaxPush BY <1>3, <1>7, Bounds
    <3>2. co[c].got \in Seq(0..MaxPush + 1) BY <1>3 DEF ConsumerState
    <3> QED BY <3>1, <3>2 DEF Outcome
  <2>5. k \in ConsumerState
    <3>1. p \in 0..MaxPush /\ p + 1 \in 0..MaxPush BY <1>3, <1>7, Bounds
    <3> HIDE DEF item, k
    <3> QED BY <1>3, <1>9, <1>10, <2>1, <2>4, <3>1 DEF ConsumerState
  <2>6. /\ k.pc = "idle" /\ k.cursor = p + 1 /\ k.taken = co[c].taken \cup {p}
        /\ k.start = co[c].start /\ k.missed = co[c].missed /\ k.out = item
    <3> HIDE DEF item, k
    <3> QED BY <1>3, <1>10, <2>1 DEF ConsumerState
  <2> HIDE DEF p, l, f, item, t, k
  <2>7. InCallInv(mem, Busy, t, k) BY <2>6 DEF InCallInv
  <2>8. OrderInv(mem, t, k)
    <3> SUFFICES ASSUME NEW r \in co[c].taken \cup {p} PROVE KnowsLapped(mem, t, p + 1..r)
      BY <2>6 DEF OrderInv
    <3>1. CASE r = p
      <4>1. p + 1..r = {} BY <1>3, <3>1
      <4> QED BY <4>1 DEF KnowsLapped
    <3>2. CASE r \in co[c].taken
      <4>1. KnowsLapped(mem, view[c], p..r) BY <1>10, <1>11, <3>2 DEF OrderInv
      <4>2. r \in Nat /\ p..r \in SUBSET Nat BY <1>3, <3>2
      <4>3. KnowsLapped(mem, t, p..r) BY <1>3, <1>6, <4>1, <4>2, KnowsForward
      <4>4. p + 1..r \subseteq p..r BY <1>3, <4>2
      <4> QED BY <4>3, <4>4 DEF KnowsLapped
    <3> QED BY <3>1, <3>2
  <2>9. HistoryInv(mem, k)
    <3>1. k.cursor <= Len(mem[WriteLoc]) - 1
      <4>1. Len(mem[WriteLoc]) \in Nat BY Facts, Locations
      <4> QED BY <1>3, <1>7, <2>6, <4>1
    <3>2. co[c].start..p - 1 \subseteq co[c].taken \cup co[c].missed
      BY <1>10, <1>11 DEF HistoryInv
    <3>3. k.start..k.cursor - 1 \subseteq co[c].start..p - 1 \cup {p}
      <4>1. co[c].start \in Nat BY <1>3, Bounds DEF ConsumerState
      <4> QED BY <1>3, <2>6, <4>1
    <3>4. k.start..k.cursor - 1 \subseteq k.taken \cup k.missed BY <2>6, <3>2, <3>3
    <3> QED BY <2>3, <2>6, <3>1, <3>4 DEF HistoryInv
  <2>10. ConsumerInv(mem, Busy, t, k) BY <2>7, <2>8, <2>9 DEF ConsumerInv
  <2> QED BY <1>2, <1>6, <2>5, <2>10, ConsumerStep
<1>13. CASE mem[l][i].val # p
  <2>1. k = [co[c] EXCEPT !.pc = "resync", !.got = <<>>] BY <1>13
  <2>2. k \in ConsumerState
    <3> HIDE DEF k
    <3> QED BY <1>3, <1>9, <2>1 DEF ConsumerState
  <2>3. /\ k.pc = "resync" /\ k.cursor = p /\ k.taken = co[c].taken
        /\ k.start = co[c].start /\ k.missed = co[c].missed /\ k.out = co[c].out
    <3> HIDE DEF k
    <3> QED BY <1>3, <2>1 DEF ConsumerState
  <2> HIDE DEF p, l, f, item, t, k
  <2>4. SeenReady(mem, view[c].acq, p) BY <1>7 DEF KnowsRecord
  <2>5. Busy > p + Cap /\ \A d \in 0..p - 1 : SeenBusy(mem, mem[l][i].view, d + Cap)
    BY <1>3, <1>6, <1>7, <1>8, <1>10, <1>13, <2>4, StampRead
  <2>6. ASSUME NEW d \in 0..p - 1
        PROVE  d + Cap <= MaxPush /\ SeenBusy(mem, t.acq, d + Cap)
    <3>1. d + Cap \in Nat BY Bounds
    <3>2. SeenBusy(mem, t.acq, d + Cap)
      BY <1>3, <1>6, <1>8, <2>5, <3>1, KeepsSeen, Reflexive
    <3>3. d + Cap <= MaxPush BY <1>3, <2>5, Bounds
    <3> QED BY <3>2, <3>3
  <2>7. InCallInv(mem, Busy, t, k) BY <2>3, <2>5, <2>6 DEF InCallInv, KnowsLapped
  <2>8. OrderInv(mem, t, k) BY <1>3, <1>6, <1>10, <1>11, <2>3, OrderForward
  <2>9. HistoryInv(mem, k) BY <1>2, <1>10, <1>11, <2>3 DEF HistoryInv
  <2>10. ConsumerInv(mem, Busy, t, k) BY <2>7, <2>8, <2>9 DEF ConsumerInv
  <2> QED BY <1>2, <1>6, <2>2, <2>10, ConsumerStep
<1> QED BY <1>12, <1>13

\* resync: the positions passed over are reported, those gone back to are known
\* to be overwritten (ring.rs:313-328).
LEMMA ResyncInv == ASSUME IInv, NEW c \in Consumers, Resync(c) PROVE IInv'
<1> DEFINE p == co[c].cursor
<1>1. PICK i \in Visible(mem, view[c], WriteLoc) :
        /\ view' = [view EXCEPT ![c] = LoadAcquire(mem, @, WriteLoc, i)]
        /\ LET oldest == MonusCap(mem[WriteLoc][i].val)
               skipped == IF oldest > p THEN oldest - p ELSE 0 IN
             co' = [co EXCEPT ![c].pc = "idle", ![c].cursor = oldest,
                      ![c].missed = @ \cup (p .. p + skipped - 1),
                      ![c].out = [kind |-> "overrun", pos |-> p,
                                  words |-> <<>>, skipped |-> skipped]]
  BY DEF Resync
<1> DEFINE t == LoadAcquire(mem, view[c], WriteLoc, i)
           oldest == MonusCap(mem[WriteLoc][i].val)
           skipped == IF oldest > p THEN oldest - p ELSE 0
           lost == p .. p + skipped - 1
           out == [kind |-> "overrun", pos |-> p, words |-> <<>>, skipped |-> skipped]
           k == [co[c] EXCEPT !.pc = "idle", !.cursor = oldest,
                   !.missed = @ \cup lost, !.out = out]
<1>2. /\ co[c].pc = "resync" /\ mem' = mem /\ fenced' = fenced /\ pr' = pr
      /\ view' = [view EXCEPT ![c] = t] /\ co' = [co EXCEPT ![c] = k]
  <2>1. co' = [co EXCEPT ![c].pc = "idle", ![c].cursor = oldest,
                  ![c].missed = @ \cup lost, ![c].out = out]
    BY <1>1
  <2>2. co \in [Consumers -> ConsumerState] BY Types DEF IInv
  <2>3. view' = [view EXCEPT ![c] = t] BY <1>1
  <2> HIDE DEF t, oldest, skipped, lost, out
  <2>4. co' = [co EXCEPT ![c] = k] BY <2>1, <2>2
  <2> QED BY <2>3, <2>4 DEF Resync
<1>3. /\ mem \in Memory /\ view[c] \in Thread /\ co[c] \in ConsumerState
      /\ ConsumerInv(mem, Busy, view[c], co[c])
      /\ Pub \in Nat /\ Pub <= MaxPush
      /\ p \in Nat /\ p <= Pub /\ co[c].taken \in SUBSET Nat
  BY Facts, ConsumerFacts
<1>4. /\ t \in Thread /\ i \in 1..Len(mem[WriteLoc]) /\ Forward(view[c].acq, t.acq)
  BY <1>3, Locations, Loaded
<1>5. mem[WriteLoc][i].val = i - 1 BY <1>4 DEF IInv, MemoryInv, WriteInv
<1>6. Len(mem[WriteLoc]) = Pub + 1 BY Facts, Locations DEF Pub
<1>7. oldest \in 0..Pub BY <1>3, <1>4, <1>5, <1>6, Bounds DEF MonusCap
<1>8. p = co[c].cursor OBVIOUS
<1> HIDE DEF p, oldest
<1>9. skipped \in 0..MaxPush /\ p + skipped <= MaxPush BY <1>3, <1>7, Bounds
<1>10. p + skipped = IF oldest > p THEN oldest ELSE p BY <1>3, <1>7
<1> HIDE DEF skipped
<1>11. out \in Outcome
  <2>1. p \in 0..MaxPush /\ <<>> \in Seq(0..MaxPush + 1) BY <1>3, Bounds
  <2> QED BY <1>9, <2>1 DEF Outcome
<1>12. lost \subseteq 0..MaxPush BY <1>3, <1>9, Bounds
<1>13. lost = p .. p + skipped - 1 /\ out.kind = "overrun" OBVIOUS
<1> HIDE DEF lost, out
<1>14. k \in ConsumerState
  <2>1. oldest \in 0..MaxPush BY <1>3, <1>7, Bounds
  <2> QED BY <1>3, <1>11, <1>12, <2>1 DEF ConsumerState
<1>15. /\ k.pc = "idle" /\ k.cursor = oldest /\ k.taken = co[c].taken
       /\ k.start = co[c].start /\ k.missed = co[c].missed \cup lost /\ k.out = out
  BY <1>3 DEF ConsumerState
<1>16. /\ KnowsLapped(mem, view[c], 0..p - 1)
       /\ OrderInv(mem, view[c], co[c]) /\ HistoryInv(mem, co[c])
  BY <1>2, <1>3, <1>8 DEF ConsumerInv, InCallInv
<1> HIDE DEF t, k
<1>17. ConsumerInv(mem, Busy, t, k)
  <2>1. InCallInv(mem, Busy, t, k) BY <1>15 DEF InCallInv
  <2>2. OrderInv(mem, t, k)
    <3> SUFFICES ASSUME NEW r \in co[c].taken PROVE KnowsLapped(mem, t, oldest..r)
      BY <1>15 DEF OrderInv
    <3>1. r \in Nat BY <1>3
    <3>2. KnowsLapped(mem, view[c], p..r) BY <1>8, <1>16 DEF OrderInv
    <3>3. p..r \in SUBSET Nat /\ 0..p - 1 \in SUBSET Nat BY <1>3, <3>1
    <3>4. KnowsLapped(mem, t, p..r) /\ KnowsLapped(mem, t, 0..p - 1)
      BY <1>3, <1>4, <1>16, <3>2, <3>3, KnowsForward
    <3>5. oldest..r \subseteq (p..r) \cup (0..p - 1) BY <1>3, <1>7, <3>1
    <3> QED BY <3>4, <3>5 DEF KnowsLapped
  <2>3. HistoryInv(mem, k)
    <3>1. k.cursor <= Len(mem[WriteLoc]) - 1 BY <1>3, <1>6, <1>7, <1>15
    <3>2. co[c].start..p - 1 \subseteq co[c].taken \cup co[c].missed
      BY <1>8, <1>16 DEF HistoryInv
    <3>3. co[c].start..oldest - 1 \subseteq (co[c].start..p - 1) \cup lost
      <4>1. co[c].start \in Nat BY <1>3, Bounds DEF ConsumerState
      <4> SUFFICES ASSUME NEW d \in co[c].start..oldest - 1, d \notin co[c].start..p - 1
                   PROVE  d \in lost
        OBVIOUS
      <4>2. d \in p..oldest - 1 /\ oldest > p BY <1>3, <1>7, <4>1
      <4>3. p + skipped - 1 = oldest - 1 BY <1>3, <1>7, <1>9, <1>10, <4>2
      <4> QED BY <1>13, <4>2, <4>3
    <3> QED BY <1>13, <1>15, <3>1, <3>2, <3>3 DEF HistoryInv
  <2> QED BY <2>1, <2>2, <2>3 DEF ConsumerInv
<1> QED BY <1>2, <1>4, <1>14, <1>17, ConsumerStep

-------------------------------------------------------------------------------
(* The theorems *)

\* Every step keeps the invariant.
LEMMA StepInv == IInv /\ [Next]_vars => IInv'
<1> SUFFICES ASSUME IInv, [Next]_vars PROVE IInv' OBVIOUS
<1>1. CASE MarkWriting BY <1>1, MarkWritingInv
<1>2. CASE StoreWord BY <1>2, StoreWordInv
<1>3. CASE MarkReady BY <1>3, MarkReadyInv
<1>4. CASE Advance BY <1>4, AdvanceInv
<1>5. ASSUME NEW c \in Consumers, Join(c) \/ TryRecv(c) PROVE IInv'
  <2>1. CASE Join(c) BY <2>1, JoinInv
  <2>2. CASE LoadWrite(c) BY <2>2, LoadWriteInv
  <2>3. CASE LoadStamp(c) BY <2>3, LoadStampInv
  <2>4. CASE LoadWord(c) BY <2>4, LoadWordInv
  <2>5. CASE Recheck(c) BY <2>5, RecheckInv
  <2>6. CASE Resync(c) BY <2>6, ResyncInv
  <2> QED BY <1>5, <2>1, <2>2, <2>3, <2>4, <2>5, <2>6 DEF TryRecv, InCall
<1>6. CASE UNCHANGED vars
  <2>1. mem' = mem /\ fenced' = fenced /\ view' = view /\ pr' = pr /\ co' = co
    BY <1>6 DEF vars
  <2>2. TypeOK' BY <2>1, Types, NextTypes DEF IInv
  <2>3. Pub' = Pub /\ Busy' = Busy BY <2>1 DEF Pub, Busy
  <2>4. MemoryInv' BY <2>1, <2>3 DEF IInv, MemoryInv, ProducerInv
  <2>5. ASSUME NEW c \in Consumers PROVE ConsumerInv(mem', Busy', view'[c], co'[c])
    BY <2>1, <2>3 DEF IInv
  <2> QED BY <2>2, <2>4, <2>5 DEF IInv
<1> QED BY <1>1, <1>2, <1>3, <1>4, <1>5, <1>6 DEF Next, Push

\* The inductive invariant of the ring (ring.rs:201-219, 257-289).
THEOREM Invariant == Spec => []IInv
<1>1. Init => IInv BY InitInv
<1>2. IInv /\ [Next]_vars => IInv' BY StepInv
<1> QED BY <1>1, <1>2, PTL DEF Spec

\* TypeOK for every number of consumers, slots and words: a cursor never passes
\* the last position, a record has one value per word (ring.rs:83-119).
THEOREM TypeCorrect == Spec => []TypeOK
<1>1. IInv => TypeOK BY DEF IInv
<1> QED BY <1>1, Invariant, PTL

\* No consumer is ever handed a torn record, or another position's, under any
\* read the memory model allows (ring.rs:267-270, 310).
THEOREM NoTear == Spec => []NoTornRecord
<1>1. IInv => NoTornRecord BY DEF IInv, ConsumerInv, HistoryInv, NoTornRecord
<1> QED BY <1>1, Invariant, PTL

\* A consumer is overrun only when the producer has begun to overwrite the
\* record at its cursor (ring.rs:280-284).
THEOREM ResyncLapped == Spec => []ResyncOnlyWhenLapped
<1>1. IInv => ResyncOnlyWhenLapped
  <2>1. IInv => Begun = Busy BY Facts
  <2> QED BY <2>1 DEF IInv, ConsumerInv, InCallInv, ResyncOnlyWhenLapped
<1> QED BY <1>1, Invariant, PTL

\* Every position a consumer has passed was delivered or reported to it
\* (ring.rs:249-254).
THEOREM NoLoss == Spec => []NoSilentLoss
<1>1. IInv => NoSilentLoss BY DEF IInv, ConsumerInv, HistoryInv, NoSilentLoss
<1> QED BY <1>1, Invariant, PTL

\* No position is delivered twice or out of order, although resync may move
\* the cursor back (ring.rs:320-324).
THEOREM InOrder == Spec => DeliveredInOrder
<1> DEFINE A == \A c \in Consumers :
                  co[c].pc = "check" /\ co'[c].pc = "idle" =>
                    \A p \in co[c].taken : p < co'[c].out.pos
<1>1. IInv /\ [Next]_vars => [A]_vars
  <2> SUFFICES ASSUME IInv, Next, NEW c \in Consumers,
                      co[c].pc = "check", co'[c].pc = "idle"
               PROVE  \A p \in co[c].taken : p < co'[c].out.pos
    OBVIOUS
  <2>1. co \in [Consumers -> ConsumerState] BY Types DEF IInv
  <2>2. CASE Push BY <2>2, <2>1 DEF Push, MarkWriting, StoreWord, MarkReady, Advance
  <2>3. ASSUME NEW d \in Consumers, Join(d) \/ TryRecv(d), d # c
        PROVE  co'[c] = co[c]
    BY <2>1, <2>3 DEF Join, TryRecv, InCall, LoadWrite, LoadStamp, LoadWord, Recheck,
                      Resync, Deliver
  <2>4. CASE Join(c) BY <2>4 DEF Join
  <2>5. CASE TryRecv(c)
    <3>1. Recheck(c)
      BY <2>5 DEF TryRecv, InCall, LoadWrite, LoadStamp, LoadWord, Resync
    <3>2. PICK i \in Visible(mem, FenceAcquire(view[c]), StampLoc(SlotOf(co[c].cursor))) :
            IF mem[StampLoc(SlotOf(co[c].cursor))][i].val = co[c].cursor
              THEN Deliver(c)
              ELSE co' = [co EXCEPT ![c].pc = "resync", ![c].got = <<>>]
      BY <3>1 DEF Recheck
    <3>3. mem[StampLoc(SlotOf(co[c].cursor))][i].val = co[c].cursor /\ Deliver(c)
      BY <2>1, <3>2 DEF ConsumerState
    <3>4. co'[c].out.pos = co[c].cursor BY <2>1, <3>3 DEF Deliver, ConsumerState
    <3> QED BY <3>3, <3>4, Accepted
  <2> QED BY <2>2, <2>3, <2>4, <2>5 DEF Next
<1>2. Spec => [][A]_vars BY <1>1, Invariant, PTL DEF Spec
<1> QED BY <1>2 DEF DeliveredInOrder

-------------------------------------------------------------------------------
(* Beside other code in one memory *)

\* The ring's atomics are among those of the memory.
LEMMA Owned == RingLoc \in SUBSET Loc
BY SpmcRingAssumption

\* A consumer keeps what it knows when its views move forward.
LEMMA ConsumerForward ==
  ASSUME NEW m \in Memory, NEW t \in Thread, NEW u \in Thread, NEW b \in Nat,
         Forward(t.cur, u.cur), Forward(t.acq, u.acq),
         NEW k, k.cursor \in Nat, k.taken \in SUBSET Nat, ConsumerInv(m, b, t, k)
  PROVE  ConsumerInv(m, b, u, k)
<1>1. InCallInv(m, b, t, k) /\ OrderInv(m, t, k) /\ HistoryInv(m, k) BY DEF ConsumerInv
<1>2. /\ KnowsRecord(m, t, k.cursor) => KnowsRecord(m, u, k.cursor)
      /\ KnowsWords(m, b, t, k.cursor, k.got) => KnowsWords(m, b, u, k.cursor, k.got)
      /\ \A D \in SUBSET Nat : KnowsLapped(m, t, D) => KnowsLapped(m, u, D)
  BY KnowsForward
<1>3. 0..k.cursor - 1 \in SUBSET Nat OBVIOUS
<1>4. InCallInv(m, b, u, k) BY <1>1, <1>2, <1>3 DEF InCallInv
<1>5. OrderInv(m, u, k) BY <1>1, OrderForward
<1> QED BY <1>1, <1>4, <1>5 DEF ConsumerInv

\* The invariant needs nothing of the atomics of other code, whatever that code
\* stores and fences, and whatever the consumers load meanwhile.
LEMMA OtherStep ==
  ASSUME IInv, UNCHANGED <<pr, co>>,
         mem' \in Memory, Grows(mem, mem'), \A l \in RingLoc : mem'[l] = mem[l],
         fenced' \in View, Forward(fenced, fenced'),
         \A l \in Loc : fenced'[l] <= Len(mem'[l]),
         view' \in [Consumers -> Thread],
         \A c \in Consumers : /\ Forward(view[c].cur, view'[c].cur)
                              /\ Forward(view[c].acq, view'[c].acq)
  PROVE  IInv'
<1>1. /\ mem \in Memory /\ fenced \in View /\ Stored(mem) \in View
      /\ pr \in ProducerState
      /\ \A l \in Loc : Len(mem[l]) \in Nat /\ Len(mem[l]) >= 1
      /\ Pub \in Nat /\ Pub <= MaxPush /\ Busy \in Nat
      /\ pr.pc # "idle" => pr.p = Pub /\ Pub < MaxPush
  BY Facts
<1>2. /\ mem'[WriteLoc] = mem[WriteLoc]
      /\ \A s \in Slots : mem'[StampLoc(s)] = mem[StampLoc(s)]
      /\ \A s \in Slots, w \in 1..W : mem'[WordLoc(s, w)] = mem[WordLoc(s, w)]
  BY DEF RingLoc, Slots
<1>3. Pub' = Pub /\ Busy' = Busy BY <1>2 DEF Pub, Busy
<1>4. TypeOK' BY NextTypes, Types DEF IInv
<1>5. \A l \in Loc : Len(mem'[l]) >= 1
  <2> SUFFICES ASSUME NEW l \in Loc PROVE Len(mem'[l]) >= 1 OBVIOUS
  <2>1. Len(mem[l]) <= Len(mem'[l]) /\ Len(mem'[l]) \in Nat BY DEF Grows
  <2> QED BY <1>1, <2>1
<1>6. Stored(mem') \in View BY <1>5, StoredView
<1>7. ASSUME NEW p \in Nat
      PROVE  /\ SeenBusy(mem, fenced, p) => SeenBusy(mem', fenced', p)
             /\ SeenReady(mem, Stored(mem), p) => SeenReady(mem', Stored(mem'), p)
             /\ \A w \in 1..W : SeenWord(mem, Stored(mem), p, w)
                                  => SeenWord(mem', Stored(mem'), p, w)
  <2>1. Forward(Stored(mem), Stored(mem')) BY StoredForward
  <2> QED BY <1>1, <1>6, <2>1, KeepsSeen
<1>8. ProducerInv'
  <2>1. ProducerInv BY DEF IInv, MemoryInv
  <2>2. \A p \in 0..Pub - 1 : SeenReady(mem', Stored(mem'), p)
    <3> SUFFICES ASSUME NEW p \in 0..Pub - 1 PROVE SeenReady(mem', Stored(mem'), p)
      OBVIOUS
    <3>1. SeenReady(mem, Stored(mem), p) BY <2>1 DEF ProducerInv
    <3>2. p \in Nat OBVIOUS
    <3> QED BY <1>7, <3>1, <3>2
  <2>3. pr.pc = "advance" => SeenReady(mem', Stored(mem'), pr.p)
    BY <1>1, <1>7, <2>1 DEF ProducerInv
  <2>4. pr.pc = "word" => \A w \in 1..pr.w - 1 : SeenWord(mem', Stored(mem'), pr.p, w)
    <3> SUFFICES ASSUME pr.pc = "word", NEW w \in 1..pr.w - 1
                 PROVE  SeenWord(mem', Stored(mem'), pr.p, w)
      OBVIOUS
    <3>1. SeenWord(mem, Stored(mem), pr.p, w) BY <2>1 DEF ProducerInv
    <3>2. pr.p \in Nat BY <1>1
    <3>3. w \in 1..W BY <1>1, Bounds DEF ProducerState
    <3> QED BY <1>7, <3>1, <3>2, <3>3
  <2>5. pr.pc \in {"ready", "advance"} =>
          \A w \in 1..W : SeenWord(mem', Stored(mem'), pr.p, w)
    BY <1>1, <1>7, <2>1 DEF ProducerInv
  <2>6. pr.pc \in {"word", "ready"} =>
          \A i \in 1..Len(mem'[StampLoc(SlotOf(pr.p))]) :
            mem'[StampLoc(SlotOf(pr.p))][i].val # pr.p
    <3>1. pr.pc # "idle" => SlotOf(pr.p) \in Slots BY <1>1, SlotRange
    <3> QED BY <1>2, <2>1, <3>1 DEF ProducerInv
  <2>7. pr' = pr OBVIOUS
  <2> QED BY <1>1, <1>3, <1>5, <2>2, <2>3, <2>4, <2>5, <2>6, <2>7 DEF ProducerInv
<1>9. FenceInv(mem', Busy, fenced')
  <2>1. FenceInv(mem, Busy, fenced) BY DEF IInv, MemoryInv
  <2>2. ASSUME NEW r \in 0..Busy - 1 PROVE SeenBusy(mem', fenced', r)
    <3>1. r \in Nat OBVIOUS
    <3> QED BY <1>7, <2>1, <3>1 DEF FenceInv
  <2> QED BY <2>2 DEF FenceInv
<1>10. WriteInv(mem')
  <2>1. Len(mem[WriteLoc]) + 1..Len(mem'[WriteLoc]) = {}
    BY <1>1, <1>2, Locations
  <2> QED BY <1>1, <2>1, WriteStays DEF IInv, MemoryInv
<1>11. StampInv(mem', Busy) BY <1>1, <1>2, StampsStay DEF IInv, MemoryInv
<1>12. WordInv(mem', Busy) BY <1>1, <1>2, WordsStay DEF IInv, MemoryInv
<1>13. ASSUME NEW c \in Consumers PROVE ConsumerInv(mem', Busy, view'[c], co[c])
  <2>1. /\ view[c] \in Thread /\ co[c].cursor \in Nat /\ co[c].taken \in SUBSET Nat
        /\ ConsumerInv(mem, Busy, view[c], co[c])
    BY ConsumerFacts
  <2>2. ConsumerInv(mem', Busy, view[c], co[c]) BY <1>1, <2>1, ConsumerStays
  <2>3. view'[c] \in Thread OBVIOUS
  <2> QED BY <1>1, <2>1, <2>2, <2>3, ConsumerForward
<1>14. MemoryInv' BY <1>3, <1>8, <1>9, <1>10, <1>11, <1>12 DEF MemoryInv
<1>15. \A c \in Consumers : ConsumerInv(mem', Busy', view'[c], co'[c]) BY <1>3, <1>13
<1> QED BY <1>4, <1>14, <1>15 DEF IInv

\* What push does to the memory: stores to its atomics, to the write position
\* only a Release one, the last of the call, which publishes the record.
LEMMA PushWrites ==
  ASSUME IInv, Push
  PROVE  /\ Writes(mem, mem', fenced, fenced', RingLoc \ {WriteLoc}, RingLoc)
         /\ UNCHANGED <<view, co>>
         /\ Pub' = IF pr'.pc = "idle" THEN Pub + 1 ELSE Pub
<1>1. /\ mem \in Memory /\ fenced \in View /\ Stored(mem) \in View
      /\ pr \in ProducerState
      /\ \A l \in Loc : Len(mem[l]) \in Nat /\ Len(mem[l]) >= 1
      /\ Pub \in Nat /\ Written = Pub
      /\ pr.pc # "idle" => pr.p = Pub /\ Pub < MaxPush
  BY Facts
<1>2. /\ SlotOf(Pub) \in Slots /\ \A l \in RingLoc : l \in Loc
      /\ WriteLoc \in RingLoc
      /\ \A u \in Slots : StampLoc(u) \in RingLoc \ {WriteLoc}
      /\ \A u \in Slots, w \in 1..W : WordLoc(u, w) \in RingLoc \ {WriteLoc}
  BY <1>1, SlotRange, Owned, Locations DEF RingLoc, Slots
<1>3. ASSUME NEW l \in Loc \ {WriteLoc}, NEW x \in Nat, NEW v \in View, mem' = Put(mem, l, x, v)
      PROVE  Pub' = Pub
  <2>1. Appended(mem, mem', l, x, [v EXCEPT ![l] = Len(mem[l]) + 1])
    BY <1>1, <1>3, PutAppends
  <2>2. mem'[WriteLoc] = mem[WriteLoc] BY <1>2, <2>1 DEF Appended
  <2> QED BY <2>2 DEF Pub
<1>4. CASE MarkWriting
  <2> DEFINE l == StampLoc(SlotOf(Pub))
             x == Pub + WRITING
  <2>1. /\ mem' = StoreRelaxed(mem, l, x, fenced) /\ fenced' = Stored(mem')
        /\ UNCHANGED <<view, co>> /\ pr'.pc # "idle"
    BY <1>1, <1>4 DEF MarkWriting
  <2>2. x \in Nat /\ l \in RingLoc \ {WriteLoc} BY <1>1, <1>2, Bounds
  <2> HIDE DEF l, x
  <2>3. Pub' = Pub BY <1>1, <1>2, <1>3, <2>1, <2>2 DEF StoreRelaxed
  <2> QED BY <2>1, <2>2, <2>3 DEF Writes
<1>5. CASE StoreWord
  <2> DEFINE l == WordLoc(SlotOf(Pub), pr.w)
             x == Record(Pub)
  <2>1. /\ mem' = StoreRelaxed(mem, l, x, fenced) /\ fenced' = fenced
        /\ UNCHANGED <<view, co>> /\ pr'.pc # "idle"
    BY <1>1, <1>5 DEF StoreWord, ProducerState
  <2>2. x \in Nat /\ l \in RingLoc \ {WriteLoc}
    BY <1>1, <1>2 DEF Record, ProducerState
  <2> HIDE DEF l, x
  <2>3. Pub' = Pub BY <1>1, <1>2, <1>3, <2>1, <2>2 DEF StoreRelaxed
  <2> QED BY <2>1, <2>2, <2>3 DEF Writes
<1>6. CASE MarkReady
  <2> DEFINE l == StampLoc(SlotOf(Pub))
  <2>1. /\ mem' = StoreRelease(mem, l, Pub) /\ fenced' = fenced
        /\ UNCHANGED <<view, co>> /\ pr'.pc # "idle"
    BY <1>1, <1>6 DEF MarkReady, ProducerState
  <2>2. l \in RingLoc \ {WriteLoc} BY <1>2
  <2> HIDE DEF l
  <2>3. Pub' = Pub BY <1>1, <1>2, <1>3, <2>1, <2>2 DEF StoreRelease
  <2> QED BY <1>1, <2>1, <2>2, <2>3 DEF Writes
<1>7. CASE Advance
  <2> DEFINE x == (Pub + 1) % (2 * WRITING)
  <2>1. /\ mem' = StoreRelease(mem, WriteLoc, x) /\ fenced' = fenced
        /\ UNCHANGED <<view, co>> /\ pr'.pc = "idle"
    BY <1>1, <1>7 DEF Advance, ProducerState
  <2>2. x \in Nat BY <1>1, Bounds
  <2> HIDE DEF x
  <2>3. Len(mem'[WriteLoc]) = Len(mem[WriteLoc]) + 1
    <3>1. mem' = Put(mem, WriteLoc, x, Stored(mem)) BY <2>1 DEF StoreRelease
    <3>2. Appended(mem, mem', WriteLoc, x,
                   [Stored(mem) EXCEPT ![WriteLoc] = Len(mem[WriteLoc]) + 1])
      BY <1>1, <1>2, <2>2, <3>1, PutAppends
    <3> QED BY <3>2 DEF Appended
  <2>4. Pub' = Pub + 1 BY <1>1, <1>2, <2>3 DEF Pub
  <2> QED BY <1>2, <2>1, <2>2, <2>4 DEF Writes
<1> QED BY <1>4, <1>5, <1>6, <1>7 DEF Push

\* What a consumer does to the memory: nothing; the write position it acquires.
LEMMA RecvReads ==
  ASSUME IInv, NEW c \in Consumers, Join(c) \/ TryRecv(c)
  PROVE  /\ UNCHANGED <<mem, fenced, pr>>
         /\ \E t : /\ view' = [view EXCEPT ![c] = t]
                   /\ Reads(mem, view[c], t, RingLoc \ {WriteLoc}, RingLoc)
<1>1. /\ view \in [Consumers -> Thread] /\ co[c] \in ConsumerState
      /\ co[c].cursor \in Nat
  BY ConsumerFacts, Types DEF IInv
<1>2. /\ WriteLoc \in RingLoc
      /\ \A u \in Slots : StampLoc(u) \in RingLoc \ {WriteLoc}
      /\ \A u \in Slots, w \in 1..W : WordLoc(u, w) \in RingLoc \ {WriteLoc}
      /\ SlotOf(co[c].cursor) \in Slots
  BY <1>1, SlotRange, Locations DEF RingLoc, Slots
<1>3. ASSUME NEW l \in RingLoc, NEW i \in Visible(mem, view[c], l),
             view' = [view EXCEPT ![c] = LoadAcquire(mem, view[c], l, i)]
      PROVE  \E t : /\ view' = [view EXCEPT ![c] = t]
                    /\ Reads(mem, view[c], t, RingLoc \ {WriteLoc}, RingLoc)
  <2>1. Reads(mem, view[c], LoadAcquire(mem, view[c], l, i), RingLoc \ {WriteLoc}, RingLoc)
    BY DEF Reads
  <2> QED BY <1>3, <2>1
<1>4. ASSUME NEW l \in RingLoc \ {WriteLoc}, NEW s \in {view[c], FenceAcquire(view[c])},
             NEW i \in Visible(mem, s, l),
             view' = [view EXCEPT ![c] = LoadRelaxed(mem, s, l, i)]
      PROVE  \E t : /\ view' = [view EXCEPT ![c] = t]
                    /\ Reads(mem, view[c], t, RingLoc \ {WriteLoc}, RingLoc)
  <2>1. Reads(mem, view[c], LoadRelaxed(mem, s, l, i), RingLoc \ {WriteLoc}, RingLoc)
    BY DEF Reads
  <2> QED BY <1>4, <2>1
<1>5. CASE Join(c) \/ LoadWrite(c) \/ Resync(c)
  <2>1. \E i \in Visible(mem, view[c], WriteLoc) :
          view' = [view EXCEPT ![c] = LoadAcquire(mem, view[c], WriteLoc, i)]
    BY <1>1, <1>5 DEF Join, LoadWrite, Resync
  <2> QED BY <1>2, <1>3, <1>5, <2>1 DEF Join, LoadWrite, Resync
<1>6. CASE LoadStamp(c)
  <2> DEFINE l == StampLoc(SlotOf(co[c].cursor))
  <2>1. \E i \in Visible(mem, view[c], l) :
          view' = [view EXCEPT ![c] = LoadAcquire(mem, view[c], l, i)]
    BY <1>1, <1>6 DEF LoadStamp
  <2>2. l \in RingLoc BY <1>2
  <2> HIDE DEF l
  <2> QED BY <1>3, <1>6, <2>1, <2>2 DEF LoadStamp
<1>7. CASE LoadWord(c)
  <2> DEFINE l == WordLoc(SlotOf(co[c].cursor), Len(co[c].got) + 1)
  <2>1. \E i \in Visible(mem, view[c], l) :
          view' = [view EXCEPT ![c] = LoadRelaxed(mem, view[c], l, i)]
    BY <1>1, <1>7 DEF LoadWord
  <2>2. l \in RingLoc \ {WriteLoc}
    <3>1. co[c].pc = "word" BY <1>7 DEF LoadWord
    <3>2. Len(co[c].got) < W BY <3>1, ConsumerFacts DEF ConsumerInv, InCallInv
    <3>3. co[c].got \in Seq(0..MaxPush + 1) BY <1>1 DEF ConsumerState
    <3>4. Len(co[c].got) + 1 \in 1..W BY <3>2, <3>3, Bounds
    <3> QED BY <1>2, <3>4
  <2> HIDE DEF l
  <2> QED BY <1>4, <1>7, <2>1, <2>2 DEF LoadWord
<1>8. CASE Recheck(c)
  <2> DEFINE l == StampLoc(SlotOf(co[c].cursor))
             s == FenceAcquire(view[c])
  <2>1. \E i \in Visible(mem, s, l) : view' = [view EXCEPT ![c] = LoadRelaxed(mem, s, l, i)]
    BY <1>8 DEF Recheck
  <2>2. l \in RingLoc \ {WriteLoc} BY <1>2
  <2> HIDE DEF l
  <2> QED BY <1>4, <1>8, <2>1, <2>2 DEF Recheck
<1> QED BY <1>5, <1>6, <1>7, <1>8 DEF TryRecv, InCall

\* A step of try_recv takes its consumer from k to j, p records being published:
\* it ends in one of three outcomes, or stays inside the call, which it only
\* enters for a record that is there.
Moved(p, k, j) ==
  \/ /\ j.pc \notin {"absent", "idle"} /\ j.cursor = k.cursor
     /\ k.pc = "idle" => k.cursor < p
  \/ /\ k.pc = "idle" /\ j.pc = "idle" /\ j.out.kind = "empty"
     /\ j.cursor = k.cursor
  \/ /\ k.pc = "check" /\ j.pc = "idle" /\ j.out.kind = "item"
     /\ j.cursor = k.cursor + 1
  \/ /\ k.pc = "resync" /\ j.pc = "idle" /\ j.out.kind = "overrun"
     /\ StaleReads = FALSE => j.cursor = k.cursor + j.out.skipped

\* What a step of try_recv leads to (ring.rs:257-328).
LEMMA RecvMoved ==
  ASSUME IInv, NEW c \in Consumers, TryRecv(c)
  PROVE  /\ Moved(Pub, co[c], co'[c])
         /\ \A d \in Consumers \ {c} : co'[d] = co[d]
<1>1. /\ co \in [Consumers -> ConsumerState] /\ co[c] \in ConsumerState
      /\ co[c].cursor \in Nat
  BY ConsumerFacts, Types DEF IInv
<1>2. CASE LoadWrite(c)
  <2>1. PICK i \in Visible(mem, view[c], WriteLoc) :
          IF co[c].cursor >= mem[WriteLoc][i].val
            THEN co' = [co EXCEPT ![c].out = [NoOutcome EXCEPT !.kind = "empty"]]
            ELSE co' = [co EXCEPT ![c].pc = "stamp"]
    BY <1>2 DEF LoadWrite
  <2>2. CASE co[c].cursor >= mem[WriteLoc][i].val
    <3> DEFINE o == [NoOutcome EXCEPT !.kind = "empty"]
    <3>1. co' = [co EXCEPT ![c].out = o] /\ co[c].pc = "idle"
      BY <1>2, <2>1, <2>2 DEF LoadWrite
    <3>2. o.kind = "empty" BY DEF NoOutcome
    <3> HIDE DEF o
    <3>3. /\ co'[c].pc = "idle" /\ co'[c].cursor = co[c].cursor /\ co'[c].out = o
          /\ \A d \in Consumers \ {c} : co'[d] = co[d]
      BY <1>1, <3>1 DEF ConsumerState
    <3> QED BY <3>1, <3>2, <3>3 DEF Moved
  <2>3. CASE ~(co[c].cursor >= mem[WriteLoc][i].val)
    <3>1. co' = [co EXCEPT ![c].pc = "stamp"] BY <2>1, <2>3
    <3>2. /\ co'[c].pc = "stamp" /\ co'[c].cursor = co[c].cursor
          /\ \A d \in Consumers \ {c} : co'[d] = co[d]
      BY <1>1, <3>1 DEF ConsumerState
    <3>3. /\ mem \in Memory /\ view[c] \in Thread /\ Len(mem[WriteLoc]) \in Nat
          /\ WriteInv(mem)
      BY Facts, ConsumerFacts, Locations DEF IInv, MemoryInv
    <3>4. i \in 1..Len(mem[WriteLoc]) BY <3>3, Loaded, Locations
    <3>5. mem[WriteLoc][i].val = i - 1 BY <3>3, <3>4 DEF WriteInv
    <3>6. co[c].cursor < Pub BY <1>1, <2>3, <3>3, <3>4, <3>5 DEF Pub
    <3> QED BY <3>2, <3>6 DEF Moved
  <2> QED BY <2>2, <2>3
<1>3. CASE LoadStamp(c)
  <2>1. PICK x \in {"word", "resync"} :
          co' = [co EXCEPT ![c].got = <<>>, ![c].pc = x]
    BY <1>3 DEF LoadStamp
  <2>2. /\ co'[c].pc = x /\ co'[c].cursor = co[c].cursor
        /\ \A d \in Consumers \ {c} : co'[d] = co[d]
    BY <1>1, <2>1 DEF ConsumerState
  <2> QED BY <1>3, <2>2 DEF Moved, LoadStamp
<1>4. CASE LoadWord(c)
  <2>0. PICK x \in {"word", "check"} :
          \E y : co' = [co EXCEPT ![c].pc = x, ![c].got = y]
    BY <1>4 DEF LoadWord
  <2>1. PICK y : co' = [co EXCEPT ![c].pc = x, ![c].got = y] BY <2>0
  <2>2. /\ co'[c].pc = x /\ co'[c].cursor = co[c].cursor
        /\ \A d \in Consumers \ {c} : co'[d] = co[d]
    BY <1>1, <2>1 DEF ConsumerState
  <2> QED BY <1>4, <2>2 DEF Moved, LoadWord
<1>5. CASE Recheck(c)
  <2>1. co[c].pc = "check" BY <1>5 DEF Recheck
  <2>2. Deliver(c) \/ co' = [co EXCEPT ![c].pc = "resync", ![c].got = <<>>]
    BY <1>5 DEF Recheck
  <2>3. CASE Deliver(c)
    <3>1. /\ co'[c].pc = "idle" /\ co'[c].cursor = co[c].cursor + 1
          /\ co'[c].out.kind = "item"
          /\ \A d \in Consumers \ {c} : co'[d] = co[d]
      BY <1>1, <2>3 DEF Deliver, ConsumerState
    <3> QED BY <2>1, <3>1 DEF Moved
  <2>4. CASE co' = [co EXCEPT ![c].pc = "resync", ![c].got = <<>>]
    <3>1. /\ co'[c].pc = "resync" /\ co'[c].cursor = co[c].cursor
          /\ \A d \in Consumers \ {c} : co'[d] = co[d]
      BY <1>1, <2>4 DEF ConsumerState
    <3> QED BY <2>1, <3>1 DEF Moved
  <2> QED BY <2>2, <2>3, <2>4
<1>6. CASE Resync(c)
  <2> DEFINE p == co[c].cursor
  <2>1. PICK i \in Visible(mem, view[c], WriteLoc) :
          LET oldest == MonusCap(mem[WriteLoc][i].val)
              skipped == IF oldest > p THEN oldest - p ELSE 0 IN
            co' = [co EXCEPT ![c].pc = "idle", ![c].cursor = oldest,
                     ![c].missed = @ \cup (p .. p + skipped - 1),
                     ![c].out = [kind |-> "overrun", pos |-> p,
                                 words |-> <<>>, skipped |-> skipped]]
    BY <1>6 DEF Resync
  <2> DEFINE oldest == MonusCap(mem[WriteLoc][i].val)
             skipped == IF oldest > p THEN oldest - p ELSE 0
             lost == p .. p + skipped - 1
             out == [kind |-> "overrun", pos |-> p, words |-> <<>>, skipped |-> skipped]
  <2>2. co' = [co EXCEPT ![c].pc = "idle", ![c].cursor = oldest,
                  ![c].missed = @ \cup lost, ![c].out = out]
    BY <2>1
  <2>3. out.kind = "overrun" /\ out.skipped = skipped OBVIOUS
  <2>4. StaleReads = FALSE => oldest = p + skipped
    <3> SUFFICES ASSUME StaleReads = FALSE PROVE oldest = p + skipped OBVIOUS
    <3>1. mem[WriteLoc][i].val = Written BY Current DEF Written, Latest
    <3>2. /\ Written = Pub /\ Pub \in Nat /\ p \in Nat
          /\ ConsumerInv(mem, Busy, view[c], co[c])
      BY Facts, ConsumerFacts
    <3>3. Busy > p + Cap BY <1>6, <3>2 DEF Resync, ConsumerInv, InCallInv
    <3>4. Busy <= Pub + 1 BY <3>2 DEF Busy
    <3>5. Busy \in Nat BY Facts
    <3>6. p + Cap <= Pub BY <3>2, <3>3, <3>4, <3>5, Bounds
    <3>7. oldest = IF Pub > Cap THEN Pub - Cap ELSE 0 BY <3>1, <3>2 DEF MonusCap
    <3> HIDE DEF oldest, p
    <3> QED BY <3>2, <3>6, <3>7, Bounds
  <2> HIDE DEF oldest, lost, out, skipped
  <2>5. /\ co'[c].pc = "idle" /\ co'[c].cursor = oldest /\ co'[c].out = out
        /\ \A d \in Consumers \ {c} : co'[d] = co[d]
    BY <1>1, <2>2 DEF ConsumerState
  <2>6. co[c].pc = "resync" BY <1>6 DEF Resync
  <2> QED BY <2>3, <2>4, <2>5, <2>6 DEF Moved
<1> QED BY <1>2, <1>3, <1>4, <1>5, <1>6 DEF TryRecv, InCall

-------------------------------------------------------------------------------
(* With current reads the ring implements the broadcast log *)

\* What a consumer's state, and its last outcome, are to the log.
LogCursor(k) == IF k.pc = "absent" THEN -1 ELSE k.cursor

LogOutcome(o) ==
  CASE o.kind = "item" -> <<"item", IF Whole(o) THEN o.pos ELSE -1>>
    [] o.kind = "overrun" -> <<"overrun", o.skipped>>
    [] OTHER -> <<o.kind, 0>>

Cursors  == [c \in Consumers |-> LogCursor(co[c])]
Outcomes == [c \in Consumers |-> LogOutcome(co[c].out)]

\* The steps of the log under the refinement mapping.
LEMMA LogSteps ==
  /\ Log!Init <=> /\ Written = 0 /\ Cursors = [c \in Consumers |-> -1]
                  /\ Outcomes = [c \in Consumers |-> <<"none", 0>>]
  /\ Log!Publish <=> /\ Written' = Written + 1
                     /\ Cursors' = Cursors /\ Outcomes' = Outcomes
  /\ \A c : Log!Join(c) <=>
       /\ Cursors[c] = -1
       /\ \E p \in {Written, MonusCap(Written)} : Cursors' = [Cursors EXCEPT ![c] = p]
       /\ Written' = Written /\ Outcomes' = Outcomes
  /\ \A c : Log!Item(c) <=>
       /\ Cursors[c] \in MonusCap(Written) .. Written - 1
       /\ Outcomes' = [Outcomes EXCEPT ![c] = <<"item", Cursors[c]>>]
       /\ Cursors' = [Cursors EXCEPT ![c] = @ + 1]
       /\ Written' = Written
  /\ \A c : Log!Empty(c) <=>
       /\ Cursors[c] = Written
       /\ Outcomes' = [Outcomes EXCEPT ![c] = <<"empty", 0>>]
       /\ Written' = Written /\ Cursors' = Cursors
  /\ \A c : Log!Overrun(c) <=>
       /\ Cursors[c] # -1 /\ Cursors[c] + Cap <= Written
       /\ Outcomes' = [Outcomes EXCEPT ![c] = <<"overrun", MonusCap(Written) - Cursors[c]>>]
       /\ Cursors' = [Cursors EXCEPT ![c] = MonusCap(Written)]
       /\ Written' = Written
  /\ (UNCHANGED Log!logVars) <=>
       Written' = Written /\ Cursors' = Cursors /\ Outcomes' = Outcomes
BY DEF Log!Init, Log!Publish, Log!Join, Log!Item, Log!Empty, Log!Overrun, Log!logVars,
       Log!Oldest, MonusCap, Cursors, Outcomes, LogCursor, LogOutcome

\* A step of consumer c moves only its own part of the log.
LEMMA LogConsumer ==
  ASSUME NEW c \in Consumers, co \in [Consumers -> ConsumerState],
         NEW k \in ConsumerState, co' = [co EXCEPT ![c] = k]
  PROVE  /\ Cursors[c] = LogCursor(co[c])
         /\ Cursors' = [Cursors EXCEPT ![c] = LogCursor(k)]
         /\ Outcomes' = [Outcomes EXCEPT ![c] = LogOutcome(k.out)]
         /\ LogCursor(k) = LogCursor(co[c]) => Cursors' = Cursors
         /\ k.out = co[c].out => Outcomes' = Outcomes
BY DEF Cursors, Outcomes

\* The newest stamp of a slot is not of a record a full lap behind.
LEMMA NewestStamp ==
  ASSUME IInv, NEW p \in Nat, p < Pub,
         mem[StampLoc(SlotOf(p))][Len(mem[StampLoc(SlotOf(p))])].val = p
  PROVE  Pub <= p + Cap
<1> DEFINE s == SlotOf(p)
           l == StampLoc(s)
           q == p + Cap
<1>1. mem \in Memory /\ Pub \in Nat /\ Pub <= MaxPush /\ Stored(mem) \in View BY Facts
<1>2. s \in Slots /\ l \in Loc BY SlotRange, Locations DEF Slots
<1>3. q \in Nat /\ SlotOf(q) = s /\ q > p BY SlotNext, Bounds
<1>4. Len(mem[l]) \in Nat /\ Len(mem[l]) >= 1 BY <1>2, Facts
<1>5. SUFFICES ASSUME Pub > q PROVE FALSE BY <1>1, <1>3
<1>6. SeenReady(mem, Stored(mem), q)
  <2>1. q \in 0..Pub - 1 BY <1>1, <1>3, <1>5
  <2> QED BY <2>1 DEF IInv, MemoryInv, ProducerInv
<1>7. PICK k \in 1..Len(mem[l]) : mem[l][k].val = q BY <1>3, <1>6 DEF SeenReady, Seen
<1>8. q < WRITING - 1 /\ p < WRITING - 1 /\ WRITING \in Nat BY <1>1, <1>3, <1>5, Bounds
<1>9. mem[l][1].val = EMPTY /\ EMPTY # q
  BY <1>2, <1>3, <1>8 DEF IInv, MemoryInv, StampInv, EMPTY
<1>10. k # 1 /\ k # Len(mem[l]) BY <1>3, <1>7, <1>9
<1>11. k \in 2..Len(mem[l]) - 1 /\ Len(mem[l]) \in 2..Len(mem[l]) BY <1>4, <1>7, <1>10
<1>12. StampOrder(q, p) BY <1>2, <1>7, <1>11 DEF IInv, MemoryInv, StampInv
<1>13. PosOf(q) = q /\ PosOf(p) = p BY <1>3, <1>8 DEF PosOf
<1>14. ~(q < p) /\ q # p + WRITING BY <1>3, <1>8
<1> QED BY <1>12, <1>13, <1>14 DEF StampOrder

\* A step of try_recv from k to j that loads the newest stores while no push is in
\* progress, p records being published: only who has read them all finds the ring
\* empty, and a record is given up exactly when it is more than a lap behind.
Quiet(p, k, j) ==
  \/ /\ j.pc \notin {"absent", "idle"} /\ j.cursor = k.cursor
     /\ k.pc = "idle" => k.cursor < p
     /\ j.pc = "resync" => p > k.cursor + Cap
  \/ /\ j.pc = "idle" /\ j.out.kind = "empty"
     /\ k.pc = "idle" /\ j.cursor = k.cursor /\ k.cursor >= p
  \/ /\ j.pc = "idle" /\ j.out.kind = "item"
     /\ k.pc = "check" /\ j.cursor = k.cursor + 1 /\ p <= k.cursor + Cap
  \/ /\ j.pc = "idle" /\ j.out.kind = "overrun"
     /\ k.pc = "resync" /\ j.cursor = p - Cap /\ p > k.cursor + Cap

\* What a step of try_recv leads to between two pushes (ring.rs:257-328).
LEMMA RecvQuiet ==
  ASSUME IInv, StaleReads = FALSE, pr.pc = "idle", NEW c \in Consumers, TryRecv(c)
  PROVE  Quiet(Pub, co[c], co'[c])
<1> DEFINE p == co[c].cursor
<1>1. Moved(Pub, co[c], co'[c]) BY RecvMoved
<1>2. /\ p \in Nat /\ p <= Pub /\ Pub \in Nat /\ Written = Pub /\ Busy = Pub
      /\ ConsumerInv(mem, Busy, view[c], co[c]) /\ co \in [Consumers -> ConsumerState]
  BY Facts, ConsumerFacts, Types DEF Busy, IInv
<1>3. ASSUME co'[c].pc = "resync", co'[c].cursor = p PROVE Pub > p + Cap
  <2>1. IInv' BY StepInv DEF Next
  <2>2. UNCHANGED <<mem, pr>> BY RecvReads
  <2>3. ConsumerInv(mem, Busy, view[c], co[c])' BY <2>1 DEF IInv
  <2>4. Busy' = Pub BY <1>2, <2>2 DEF Busy, Pub
  <2> QED BY <1>3, <2>3, <2>4 DEF ConsumerInv, InCallInv
<1>4. CASE co[c].pc = "idle" /\ co'[c].pc = "idle"
  <2>1. LoadWrite(c)
    BY <1>4 DEF TryRecv, InCall, LoadStamp, LoadWord, Recheck, Resync
  <2>2. PICK i \in Visible(mem, view[c], WriteLoc) :
          IF p >= mem[WriteLoc][i].val
            THEN co' = [co EXCEPT ![c].out = [NoOutcome EXCEPT !.kind = "empty"]]
            ELSE co' = [co EXCEPT ![c].pc = "stamp"]
    BY <2>1 DEF LoadWrite
  <2>3. mem[WriteLoc][i].val = Pub BY <1>2, <2>2, Current DEF Written, Latest
  <2>4. p >= Pub
    <3>1. co' = [co EXCEPT ![c].pc = "stamp"] => co'[c].pc = "stamp"
      BY <1>2 DEF ConsumerState
    <3> QED BY <1>4, <2>2, <2>3, <3>1
  <2> QED BY <1>1, <1>4, <2>4 DEF Moved, Quiet
<1>5. CASE co[c].pc = "check" /\ co'[c].pc = "idle"
  <2> DEFINE l == StampLoc(SlotOf(p))
             f == FenceAcquire(view[c])
  <2>1. Recheck(c)
    BY <1>5 DEF TryRecv, InCall, LoadWrite, LoadStamp, LoadWord, Resync
  <2>2. PICK i \in Visible(mem, f, l) :
          IF mem[l][i].val = p
            THEN Deliver(c)
            ELSE co' = [co EXCEPT ![c].pc = "resync", ![c].got = <<>>]
    BY <2>1 DEF Recheck
  <2>3. i = Len(mem[l]) BY Current
  <2>4. mem[l][i].val = p
    <3>1. co' = [co EXCEPT ![c].pc = "resync", ![c].got = <<>>] => co'[c].pc = "resync"
      BY <1>2 DEF ConsumerState
    <3> QED BY <1>5, <2>2, <3>1
  <2>5. p < Pub BY <1>2, <1>5 DEF ConsumerInv, InCallInv, Pub
  <2>6. Pub <= p + Cap BY <1>2, <2>3, <2>4, <2>5, NewestStamp
  <2> QED BY <1>1, <1>5, <2>6 DEF Moved, Quiet
<1>6. CASE co[c].pc = "resync" /\ co'[c].pc = "idle"
  <2>1. Resync(c)
    BY <1>6 DEF TryRecv, InCall, LoadWrite, LoadStamp, LoadWord, Recheck
  <2>2. PICK i \in Visible(mem, view[c], WriteLoc) :
          LET oldest == MonusCap(mem[WriteLoc][i].val)
              skipped == IF oldest > p THEN oldest - p ELSE 0 IN
            co' = [co EXCEPT ![c].pc = "idle", ![c].cursor = oldest,
                     ![c].missed = @ \cup (p .. p + skipped - 1),
                     ![c].out = [kind |-> "overrun", pos |-> p,
                                 words |-> <<>>, skipped |-> skipped]]
    BY <2>1 DEF Resync
  <2>3. mem[WriteLoc][i].val = Pub BY <1>2, <2>2, Current DEF Written, Latest
  <2>4. co'[c].cursor = MonusCap(Pub) BY <1>2, <2>2, <2>3 DEF ConsumerState
  <2>5. Pub > p + Cap BY <1>2, <1>6 DEF ConsumerInv, InCallInv
  <2>6. MonusCap(Pub) = Pub - Cap BY <1>2, <2>5, Bounds DEF MonusCap
  <2> QED BY <1>1, <1>6, <2>4, <2>5, <2>6 DEF Moved, Quiet
<1>7. CASE co'[c].pc # "idle" BY <1>1, <1>3, <1>7 DEF Moved, Quiet
<1> QED BY <1>1, <1>4, <1>5, <1>6, <1>7 DEF Moved

\* A step of the producer publishes one record, or nothing (ring.rs:218-219).
LEMMA LogPush ==
  ASSUME IInv, Push
  PROVE  Log!Publish \/ UNCHANGED Log!logVars
<1>1. co' = co BY DEF Push, MarkWriting, StoreWord, MarkReady, Advance
<1>2. Cursors' = Cursors /\ Outcomes' = Outcomes BY <1>1 DEF Cursors, Outcomes
<1>3. /\ mem \in Memory /\ fenced \in View /\ Stored(mem) \in View
      /\ pr \in ProducerState
      /\ Pub \in Nat /\ Pub <= MaxPush /\ Written = Pub
      /\ pr.pc # "idle" => pr.p = Pub /\ Pub < MaxPush
  BY Facts
<1>4. ASSUME NEW l \in Loc, l # WriteLoc, NEW x \in Nat, NEW f \in View, mem' = Put(mem, l, x, f)
      PROVE  Written' = Written
  <2>0. Appended(mem, mem', l, x, [f EXCEPT ![l] = Len(mem[l]) + 1])
    BY <1>3, <1>4, PutAppends
  <2>1. mem'[WriteLoc] = mem[WriteLoc] BY <1>4, <2>0, Locations DEF Appended
  <2> QED BY <2>1 DEF Written, Latest
<1>5. ASSUME NEW p \in Nat
      PROVE  /\ StampLoc(SlotOf(p)) \in Loc /\ StampLoc(SlotOf(p)) # WriteLoc
             /\ \A w \in 1..W : /\ WordLoc(SlotOf(p), w) \in Loc
                                /\ WordLoc(SlotOf(p), w) # WriteLoc
  BY SlotRange, Locations DEF Slots
<1>6. CASE MarkWriting
  <2>1. mem' = Put(mem, StampLoc(SlotOf(Pub)), Pub + WRITING, fenced)
    BY <1>3, <1>6 DEF MarkWriting, StoreRelaxed
  <2>2. Pub + WRITING \in Nat BY <1>3, Bounds
  <2> QED BY <1>2, <1>3, <1>4, <1>5, <2>1, <2>2, LogSteps
<1>7. CASE StoreWord
  <2>1. pr.p = Pub BY <1>3, <1>7 DEF StoreWord
  <2>2. mem' = Put(mem, WordLoc(SlotOf(Pub), pr.w), Record(Pub), fenced)
    BY <1>7, <2>1 DEF StoreWord, StoreRelaxed
  <2>3. Record(Pub) \in Nat /\ pr.w \in 1..W BY <1>3 DEF Record, ProducerState
  <2> QED BY <1>2, <1>3, <1>4, <1>5, <2>2, <2>3, LogSteps
<1>8. CASE MarkReady
  <2>1. pr.p = Pub BY <1>3, <1>8 DEF MarkReady
  <2>2. mem' = Put(mem, StampLoc(SlotOf(Pub)), Pub, Stored(mem))
    BY <1>8, <2>1 DEF MarkReady, StoreRelease
  <2> QED BY <1>2, <1>3, <1>4, <1>5, <2>2, LogSteps
<1>9. CASE Advance
  <2>1. pr.p = Pub /\ Pub < MaxPush BY <1>3, <1>9 DEF Advance
  <2>2. (Pub + 1) % (2 * WRITING) = Pub + 1
    <3>1. Pub + 1 \in 0..2 * WRITING - 1 BY <1>3, <2>1, Bounds
    <3>2. \A a \in Nat : \A b \in 0..a - 1 : b % a = b OBVIOUS
    <3> QED BY <3>1, <3>2, Bounds
  <2>3. mem' = Put(mem, WriteLoc, Pub + 1, Stored(mem))
    BY <1>9, <2>1, <2>2 DEF Advance, StoreRelease
  <2>4. Pub + 1 \in Nat BY <1>3
  <2>5. /\ Len(mem'[WriteLoc]) = Len(mem[WriteLoc]) + 1
        /\ mem'[WriteLoc][Len(mem[WriteLoc]) + 1].val = Pub + 1
    <3>1. Appended(mem, mem', WriteLoc, Pub + 1,
                   [Stored(mem) EXCEPT ![WriteLoc] = Len(mem[WriteLoc]) + 1])
      BY <1>3, <2>3, <2>4, Locations, PutAppends
    <3> QED BY <3>1 DEF Appended
  <2>6. Written' = Written + 1 BY <1>3, <2>5 DEF Written, Latest
  <2> QED BY <1>2, <2>6, LogSteps
<1> QED BY <1>6, <1>7, <1>8, <1>9 DEF Push

\* A consumer joins at the newest position, or at the oldest (ring.rs:108-135).
LEMMA LogJoin ==
  ASSUME IInv, StaleReads = FALSE, NEW c \in Consumers, Join(c)
  PROVE  Log!Join(c)
<1>1. PICK i \in Visible(mem, view[c], WriteLoc) :
        \E p \in {mem[WriteLoc][i].val, MonusCap(mem[WriteLoc][i].val)} :
          co' = [co EXCEPT ![c].pc = "idle", ![c].cursor = p, ![c].start = p]
  BY DEF Join
<1>2. mem[WriteLoc][i].val = Written BY <1>1, Current DEF Written, Latest
<1>3. PICK p \in {Written, MonusCap(Written)} :
        co' = [co EXCEPT ![c].pc = "idle", ![c].cursor = p, ![c].start = p]
  BY <1>1, <1>2
<1> DEFINE k == [co[c] EXCEPT !.pc = "idle", !.cursor = p, !.start = p]
<1>4. co \in [Consumers -> ConsumerState] BY Types DEF IInv
<1>5. co' = [co EXCEPT ![c] = k] BY <1>3, <1>4
<1>6. mem' = mem /\ co[c].pc = "absent" BY DEF Join
<1>7. p \in 0..MaxPush
  <2>1. Written \in Nat /\ Written <= MaxPush BY Facts
  <2> QED BY <2>1, Bounds DEF MonusCap
<1>8. k \in ConsumerState BY <1>4, <1>7 DEF ConsumerState
<1>9. k.pc = "idle" /\ k.cursor = p /\ k.out = co[c].out BY <1>4 DEF ConsumerState
<1> HIDE DEF k
<1>10. LogCursor(k) = p /\ LogCursor(co[c]) = -1 BY <1>6, <1>9 DEF LogCursor
<1>11. /\ Cursors[c] = -1 /\ Cursors' = [Cursors EXCEPT ![c] = p]
       /\ Outcomes' = Outcomes
  <2>1. /\ Cursors[c] = LogCursor(co[c])
        /\ Cursors' = [Cursors EXCEPT ![c] = LogCursor(k)]
        /\ k.out = co[c].out => Outcomes' = Outcomes
    BY <1>4, <1>5, <1>8, LogConsumer
  <2> QED BY <1>9, <1>10, <2>1
<1>12. Written' = Written BY <1>6 DEF Written
<1> QED BY <1>3, <1>11, <1>12, LogSteps

\* R0 finds nothing new, or begins a call (ring.rs:260-264).
LEMMA LogLoadWrite ==
  ASSUME IInv, StaleReads = FALSE, NEW c \in Consumers, LoadWrite(c)
  PROVE  Log!Empty(c) \/ UNCHANGED Log!logVars
<1>1. PICK i \in Visible(mem, view[c], WriteLoc) :
        IF co[c].cursor >= mem[WriteLoc][i].val
          THEN co' = [co EXCEPT ![c].out = [NoOutcome EXCEPT !.kind = "empty"]]
          ELSE co' = [co EXCEPT ![c].pc = "stamp"]
  BY DEF LoadWrite
<1>2. mem[WriteLoc][i].val = Written BY <1>1, Current DEF Written, Latest
<1>3. mem' = mem /\ co[c].pc = "idle" BY DEF LoadWrite
<1>4. co \in [Consumers -> ConsumerState] BY Types DEF IInv
<1>5. Written' = Written BY <1>3 DEF Written
<1>6. /\ Written = Pub /\ Pub \in Nat /\ co[c].cursor \in Nat /\ co[c].cursor <= Pub
  BY Facts, ConsumerFacts
<1>7. LogCursor(co[c]) = co[c].cursor BY <1>3 DEF LogCursor
<1>8. CASE co[c].cursor >= Written
  <2> DEFINE o == [NoOutcome EXCEPT !.kind = "empty"]
             k == [co[c] EXCEPT !.out = o]
  <2>1. co' = [co EXCEPT ![c] = k] BY <1>1, <1>2, <1>4, <1>8
  <2>2. o \in Outcome /\ o.kind = "empty"
    <3>1. o = [kind |-> "empty", pos |-> 0, words |-> <<>>, skipped |-> 0]
      BY DEF NoOutcome
    <3>2. <<>> \in Seq(0..MaxPush + 1) /\ 0 \in 0..MaxPush BY Bounds
    <3> HIDE DEF o
    <3> QED BY <3>1, <3>2 DEF Outcome
  <2> HIDE DEF o
  <2>3. k \in ConsumerState BY <1>4, <2>2 DEF ConsumerState
  <2>4. k.out = o /\ k.pc = "idle" /\ k.cursor = co[c].cursor
    BY <1>3, <1>4 DEF ConsumerState
  <2> HIDE DEF k
  <2>5. LogCursor(k) = LogCursor(co[c]) BY <1>7, <2>4 DEF LogCursor
  <2>6. LogOutcome(k.out) = <<"empty", 0>> BY <2>2, <2>4 DEF LogOutcome
  <2>7. /\ Cursors[c] = co[c].cursor /\ Cursors' = Cursors
        /\ Outcomes' = [Outcomes EXCEPT ![c] = <<"empty", 0>>]
    <3>1. /\ Cursors[c] = LogCursor(co[c])
          /\ Outcomes' = [Outcomes EXCEPT ![c] = LogOutcome(k.out)]
          /\ LogCursor(k) = LogCursor(co[c]) => Cursors' = Cursors
      BY <1>4, <2>1, <2>3, LogConsumer
    <3> QED BY <1>7, <2>5, <2>6, <3>1
  <2>8. co[c].cursor = Written BY <1>6, <1>8
  <2> QED BY <1>5, <2>7, <2>8, LogSteps
<1>9. CASE ~(co[c].cursor >= Written)
  <2> DEFINE k == [co[c] EXCEPT !.pc = "stamp"]
  <2>1. co' = [co EXCEPT ![c] = k] BY <1>1, <1>2, <1>4, <1>9
  <2>2. k \in ConsumerState /\ k.pc = "stamp" /\ k.cursor = co[c].cursor
        /\ k.out = co[c].out
    BY <1>4 DEF ConsumerState
  <2> HIDE DEF k
  <2>3. LogCursor(k) = LogCursor(co[c]) BY <1>7, <2>2 DEF LogCursor
  <2> QED BY <1>4, <1>5, <2>1, <2>2, <2>3, LogConsumer, LogSteps
<1> QED BY <1>8, <1>9

\* R1 and R2 are within a call (ring.rs:266-276).
LEMMA LogWithin ==
  ASSUME IInv, NEW c \in Consumers, LoadStamp(c) \/ LoadWord(c)
  PROVE  UNCHANGED Log!logVars
<1>1. co \in [Consumers -> ConsumerState] BY Types DEF IInv
<1>2. mem' = mem /\ co[c].pc \in {"stamp", "word"} BY DEF LoadStamp, LoadWord
<1>3. \E x, g : /\ co' = [co EXCEPT ![c].pc = x, ![c].got = g]
                /\ x \in {"word", "resync", "check"}
  <2>1. CASE LoadStamp(c)
    <3>1. PICK x : /\ co' = [co EXCEPT ![c].got = <<>>, ![c].pc = x]
                   /\ x \in {"word", "resync", "check"}
      BY <2>1 DEF LoadStamp
    <3>2. co' = [co EXCEPT ![c].pc = x, ![c].got = <<>>] BY <1>1, <3>1
    <3> QED BY <3>1, <3>2
  <2>2. CASE LoadWord(c) BY <1>1, <2>2 DEF LoadWord
  <2> QED BY <2>1, <2>2
<1>4. PICK x, g : /\ co' = [co EXCEPT ![c].pc = x, ![c].got = g]
                  /\ x \in {"word", "resync", "check"}
  BY <1>3
<1>5. \A d \in Consumers : /\ co'[d].cursor = co[d].cursor /\ co'[d].out = co[d].out
                           /\ co'[d].pc = "absent" <=> co[d].pc = "absent"
  BY <1>1, <1>2, <1>4 DEF ConsumerState
<1>6. Cursors' = Cursors /\ Outcomes' = Outcomes BY <1>5 DEF Cursors, Outcomes, LogCursor
<1>7. Written' = Written BY <1>2 DEF Written
<1> QED BY <1>6, <1>7, LogSteps

\* An accepted record is the one published at the cursor, and is still kept
\* (ring.rs:278-289).
LEMMA LogRecheck ==
  ASSUME IInv, StaleReads = FALSE, NEW c \in Consumers, Recheck(c)
  PROVE  Log!Item(c) \/ UNCHANGED Log!logVars
<1> DEFINE p == co[c].cursor
           l == StampLoc(SlotOf(p))
           f == FenceAcquire(view[c])
<1>1. PICK i \in Visible(mem, f, l) :
        IF mem[l][i].val = p
          THEN Deliver(c)
          ELSE co' = [co EXCEPT ![c].pc = "resync", ![c].got = <<>>]
  BY DEF Recheck
<1>2. i = Len(mem[l]) BY Current
<1>3. co \in [Consumers -> ConsumerState] BY Types DEF IInv
<1>4. mem' = mem /\ co[c].pc = "check" BY DEF Recheck
<1>5. Written' = Written BY <1>4 DEF Written
<1>6. /\ Written = Pub /\ Pub \in Nat /\ Pub <= MaxPush /\ p \in Nat
      /\ ConsumerInv(mem, Busy, view[c], co[c])
  BY Facts, ConsumerFacts
<1>7. p < Pub BY <1>4, <1>6 DEF ConsumerInv, InCallInv, Pub
<1>8. LogCursor(co[c]) = p BY <1>4 DEF LogCursor
<1>9. CASE mem[l][i].val = p
  <2> DEFINE item == [kind |-> "item", pos |-> p, words |-> co[c].got, skipped |-> 0]
             k == [co[c] EXCEPT !.pc = "idle", !.got = <<>>, !.cursor = @ + 1,
                     !.taken = @ \cup {p}, !.out = item]
  <2>1. co' = [co EXCEPT ![c] = k] BY <1>1, <1>3, <1>9 DEF Deliver
  <2>2. \A w \in 1..W : item.words[w] = Record(p) BY <1>4, <1>9, Accepted
  <2>3. Whole(item) BY <2>2 DEF Whole
  <2>4. Pub <= p + Cap BY <1>2, <1>6, <1>7, <1>9, NewestStamp
  <2>5. item \in Outcome
    <3>1. p \in 0..MaxPush /\ 0 \in 0..MaxPush BY <1>6, <1>7, Bounds
    <3>2. co[c].got \in Seq(0..MaxPush + 1) BY <1>3 DEF ConsumerState
    <3> QED BY <3>1, <3>2 DEF Outcome
  <2>6. item.kind = "item" /\ item.pos = p /\ p = co[c].cursor OBVIOUS
  <2>7. k \in ConsumerState
    <3>1. p \in 0..MaxPush /\ p + 1 \in 0..MaxPush /\ <<>> \in Seq(0..MaxPush + 1)
      BY <1>6, <1>7, Bounds
    <3> HIDE DEF item
    <3> QED BY <1>3, <2>5, <3>1 DEF ConsumerState
  <2>8. k.pc = "idle" /\ k.cursor = p + 1 /\ k.out = item
    <3> HIDE DEF item
    <3> QED BY <1>3 DEF ConsumerState
  <2> HIDE DEF k, item, p
  <2>9. LogCursor(k) = p + 1 BY <2>8 DEF LogCursor
  <2>10. LogOutcome(k.out) = <<"item", p>> BY <2>3, <2>6, <2>8 DEF LogOutcome
  <2>11. /\ Cursors[c] = LogCursor(co[c])
         /\ Cursors' = [Cursors EXCEPT ![c] = LogCursor(k)]
         /\ Outcomes' = [Outcomes EXCEPT ![c] = LogOutcome(k.out)]
    BY <1>3, <2>1, <2>7, LogConsumer
  <2>12. /\ Cursors[c] = p /\ Cursors' = [Cursors EXCEPT ![c] = p + 1]
         /\ Outcomes' = [Outcomes EXCEPT ![c] = <<"item", p>>]
    BY <1>8, <2>9, <2>10, <2>11
  <2>13. Cursors' = [Cursors EXCEPT ![c] = @ + 1] BY <2>12
  <2>14. p \in MonusCap(Written) .. Written - 1 BY <1>6, <1>7, <2>4, Bounds DEF MonusCap
  <2> QED BY <1>5, <2>12, <2>13, <2>14, LogSteps
<1>10. CASE mem[l][i].val # p
  <2> DEFINE k == [co[c] EXCEPT !.pc = "resync", !.got = <<>>]
  <2>1. co' = [co EXCEPT ![c] = k] BY <1>1, <1>3, <1>10
  <2>2. <<>> \in Seq(0..MaxPush + 1) OBVIOUS
  <2>3. k \in ConsumerState /\ k.pc = "resync" /\ k.cursor = p /\ k.out = co[c].out
    BY <1>3, <2>2 DEF ConsumerState
  <2> HIDE DEF k, p
  <2>4. LogCursor(k) = LogCursor(co[c]) BY <1>8, <2>3 DEF LogCursor
  <2> QED BY <1>3, <1>5, <2>1, <2>3, <2>4, LogConsumer, LogSteps
<1> QED BY <1>9, <1>10

\* An overrun is of a consumer a full lap behind, and its count is exact
\* (ring.rs:313-328).
LEMMA LogResync ==
  ASSUME IInv, StaleReads = FALSE, NEW c \in Consumers, Resync(c)
  PROVE  Log!Overrun(c)
<1> DEFINE p == co[c].cursor
           oldest == MonusCap(Written)
           skipped == IF oldest > p THEN oldest - p ELSE 0
           lost == p .. p + skipped - 1
           out == [kind |-> "overrun", pos |-> p, words |-> <<>>, skipped |-> skipped]
           k == [co[c] EXCEPT !.pc = "idle", !.cursor = oldest,
                   !.missed = @ \cup lost, !.out = out]
<1>1. co' = [co EXCEPT ![c].pc = "idle", ![c].cursor = oldest,
                ![c].missed = @ \cup lost, ![c].out = out]
  <2>1. PICK i \in Visible(mem, view[c], WriteLoc) :
          LET o == MonusCap(mem[WriteLoc][i].val)
              n == IF o > p THEN o - p ELSE 0 IN
            co' = [co EXCEPT ![c].pc = "idle", ![c].cursor = o,
                     ![c].missed = @ \cup (p .. p + n - 1),
                     ![c].out = [kind |-> "overrun", pos |-> p,
                                 words |-> <<>>, skipped |-> n]]
    BY DEF Resync
  <2>2. mem[WriteLoc][i].val = Written BY <2>1, Current DEF Written, Latest
  <2> QED BY <2>1, <2>2
<1>2. mem' = mem /\ co[c].pc = "resync" BY DEF Resync
<1>3. co \in [Consumers -> ConsumerState] BY Types DEF IInv
<1>4. Written' = Written BY <1>2 DEF Written
<1>5. /\ Written = Pub /\ Pub \in Nat /\ Pub <= MaxPush /\ p \in Nat /\ p <= Pub
      /\ ConsumerInv(mem, Busy, view[c], co[c])
  BY Facts, ConsumerFacts
<1>6. p + Cap <= Pub
  <2>1. Busy > p + Cap BY <1>2, <1>5 DEF ConsumerInv, InCallInv
  <2>2. Busy <= Pub + 1 BY <1>5 DEF Busy
  <2>3. Busy \in Nat BY Facts
  <2> QED BY <1>5, <2>1, <2>2, <2>3, Bounds
<1>7. LogCursor(co[c]) = p BY <1>2 DEF LogCursor
<1>8. p = co[c].cursor /\ oldest = MonusCap(Written) OBVIOUS
<1>9. oldest \in 0..MaxPush /\ skipped = oldest - p /\ skipped \in 0..MaxPush
  BY <1>5, <1>6, Bounds DEF MonusCap
<1> HIDE DEF p, oldest, skipped
<1>10. lost \subseteq 0..MaxPush BY <1>5, <1>9, Bounds
<1>11. out \in Outcome /\ out.kind = "overrun" /\ out.skipped = skipped
  <2>1. p \in 0..MaxPush /\ <<>> \in Seq(0..MaxPush + 1) BY <1>5, Bounds
  <2> QED BY <1>9, <2>1 DEF Outcome
<1> HIDE DEF lost, out
<1>12. co' = [co EXCEPT ![c] = k] BY <1>1, <1>3
<1>13. k \in ConsumerState BY <1>3, <1>9, <1>10, <1>11 DEF ConsumerState
<1>14. k.pc = "idle" /\ k.cursor = oldest /\ k.out = out BY <1>3 DEF ConsumerState
<1> HIDE DEF k
<1>15. LogCursor(k) = oldest BY <1>14 DEF LogCursor
<1>16. LogOutcome(k.out) = <<"overrun", oldest - p>>
  BY <1>9, <1>11, <1>14 DEF LogOutcome
<1>17. /\ Cursors[c] = LogCursor(co[c])
       /\ Cursors' = [Cursors EXCEPT ![c] = LogCursor(k)]
       /\ Outcomes' = [Outcomes EXCEPT ![c] = LogOutcome(k.out)]
  BY <1>3, <1>12, <1>13, LogConsumer
<1>18. /\ Cursors[c] = p /\ Cursors' = [Cursors EXCEPT ![c] = MonusCap(Written)]
       /\ Outcomes' = [Outcomes EXCEPT ![c] = <<"overrun", MonusCap(Written) - Cursors[c]>>]
  BY <1>7, <1>8, <1>15, <1>16, <1>17
<1>19. Cursors[c] # -1 /\ Cursors[c] + Cap <= Written BY <1>5, <1>6, <1>18
<1> QED BY <1>4, <1>18, <1>19, LogSteps

\* With current reads the ring is a broadcast log that keeps its last Cap
\* records: each try_recv is atomic, the cursor only advances, and `skipped' is
\* exact (ring.rs:244-255, 313-328).
THEOREM Implements ==
  ASSUME StaleReads = FALSE
  PROVE  Spec => BroadcastsLog
<1>1. Init => Log!Init
  <2> SUFFICES ASSUME Init PROVE Log!Init OBVIOUS
  <2>1. IInv BY InitInv
  <2>2. Written = 0
    <3>1. Len(mem[WriteLoc]) = 1 BY Locations DEF Init, Fresh
    <3> QED BY <2>1, <3>1, Facts DEF Pub
  <2>3. co = [c \in Consumers |-> ConsumerInit] BY DEF Init
  <2>4. LogCursor(ConsumerInit) = -1 /\ LogOutcome(ConsumerInit.out) = <<"none", 0>>
    BY DEF LogCursor, LogOutcome, ConsumerInit, NoOutcome
  <2> QED BY <2>2, <2>3, <2>4, LogSteps DEF Cursors, Outcomes
<1>2. IInv /\ [Next]_vars => [Log!Next]_(Log!logVars)
  <2> SUFFICES ASSUME IInv, [Next]_vars
               PROVE  Log!Next \/ UNCHANGED Log!logVars
    OBVIOUS
  <2>1. CASE Push BY <2>1, LogPush DEF Log!Next
  <2>2. ASSUME NEW c \in Consumers, Join(c) \/ TryRecv(c)
        PROVE  Log!Next \/ UNCHANGED Log!logVars
    <3>1. CASE Join(c) BY <3>1, LogJoin DEF Log!Next
    <3>2. CASE LoadWrite(c) BY <3>2, LogLoadWrite DEF Log!Next
    <3>3. CASE LoadStamp(c) \/ LoadWord(c) BY <3>3, LogWithin
    <3>4. CASE Recheck(c) BY <3>4, LogRecheck DEF Log!Next
    <3>5. CASE Resync(c) BY <3>5, LogResync DEF Log!Next
    <3> QED BY <2>2, <3>1, <3>2, <3>3, <3>4, <3>5 DEF TryRecv, InCall
  <2>3. CASE UNCHANGED vars
    <3>1. mem' = mem /\ co' = co BY <2>3 DEF vars
    <3>2. Written' = Written /\ Cursors' = Cursors /\ Outcomes' = Outcomes
      BY <3>1 DEF Written, Cursors, Outcomes
    <3> QED BY <3>2, LogSteps
  <2> QED BY <2>1, <2>2, <2>3 DEF Next
<1> QED BY <1>1, <1>2, Invariant, PTL DEF Spec, BroadcastsLog, Log!Spec
===============================================================================
