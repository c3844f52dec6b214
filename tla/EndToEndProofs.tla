----------------------------- MODULE EndToEndProofs -----------------------------
(***************************************************************************)
(* Proofs about Engine, EndToEnd and Demo, for every set of cells and      *)
(* scenes and every number of consumers, events, slots and words: the      *)
(* pipeline and the barrier under all the reads the memory model allows,   *)
(* the accounting under current reads, and what the demo asserts of its    *)
(* one thread.  The lock and the ring keep their own invariants in the     *)
(* memory they share: the proofs of each are taken over, and a step of the *)
(* one is a step of other code to the other.  A cell and a scene run the   *)
(* Engine's own steps, and a cell's flags are other atomics beside the two *)
(* structures, so the invariant of the pipeline is taken over in turn.     *)
(***************************************************************************)
EXTENDS Demo, FiniteSetTheorems, TLAPS

LP == INSTANCE SeqLockProofs WITH
  Readers <- Consumers, W <- TopWords, MaxStores <- MaxEvents

RP == INSTANCE SpmcRingProofs WITH
  W <- RecWords, MaxPush <- MaxEvents

-------------------------------------------------------------------------------
(* One memory *)

\* What the lock and the ring say of the memory is the same.
LEMMA OneMemory ==
  /\ LP!Memory = RP!Memory /\ LP!View = RP!View /\ LP!Thread = RP!Thread
  /\ \A m, o : LP!Grows(m, o) <=> RP!Grows(m, o)
  /\ \A v, u : LP!Forward(v, u) <=> RP!Forward(v, u)
  /\ \A m, o, f, g, L, R : LP!Writes(m, o, f, g, L, R) <=> RP!Writes(m, o, f, g, L, R)
  /\ \A m, t, u, L, R : LP!Reads(m, t, u, L, R) <=> RP!Reads(m, t, u, L, R)
<1>1. LP!Memory = RP!Memory /\ LP!View = RP!View /\ LP!Thread = RP!Thread
  BY DEF LP!Memory, RP!Memory, LP!Message, RP!Message, LP!View, RP!View,
         LP!Thread, RP!Thread
<1>2. /\ \A m, o : LP!Grows(m, o) <=> RP!Grows(m, o)
      /\ \A v, u : LP!Forward(v, u) <=> RP!Forward(v, u)
  BY DEF LP!Grows, RP!Grows, LP!Forward, RP!Forward
<1>3. \A m, o, f, g, L, R : LP!Writes(m, o, f, g, L, R) <=> RP!Writes(m, o, f, g, L, R)
  BY DEF LP!Writes, RP!Writes, LP!StoreRelaxed, RP!StoreRelaxed, LP!StoreRelease,
         RP!StoreRelease, LP!Put, RP!Put, LP!Stored, RP!Stored
<1>4. \A m, t, u, L, R : LP!Reads(m, t, u, L, R) <=> RP!Reads(m, t, u, L, R)
  BY DEF LP!Reads, RP!Reads, LP!Visible, RP!Visible, LP!FenceAcquire, RP!FenceAcquire,
         LP!LoadRelaxed, RP!LoadRelaxed, LP!LoadAcquire, RP!LoadAcquire,
         LP!JoinViews, RP!JoinViews
<1> QED BY <1>1, <1>2, <1>3, <1>4

\* The engine runs the steps of the lock,
LEMMA LockSteps ==
  /\ Lock!Store <=> LP!Store
  /\ \A c : Lock!Call(c) <=> LP!Call(c)
  /\ \A c : Lock!Load(c) <=> LP!Load(c)
<1>1. Lock!Store <=> LP!Store
  BY DEF Lock!Store, LP!Store, Lock!MarkOdd, LP!MarkOdd, Lock!StoreWord, LP!StoreWord,
         Lock!Publish, LP!Publish, Lock!Latest, LP!Latest, Lock!StoreRelaxed,
         LP!StoreRelaxed, Lock!StoreRelease, LP!StoreRelease, Lock!Put, LP!Put,
         Lock!Stored, LP!Stored, Lock!SeqLoc, LP!SeqLoc, Lock!PayLoc, LP!PayLoc
<1>2. \A c : Lock!Call(c) <=> LP!Call(c)
  BY DEF Lock!Call, LP!Call, Lock!Published, LP!Published
<1>3. \A c : Lock!Load(c) <=> LP!Load(c)
  BY DEF Lock!Load, LP!Load, Lock!LoadSeq, LP!LoadSeq, Lock!LoadWord, LP!LoadWord,
         Lock!Recheck, LP!Recheck, Lock!Retry, LP!Retry, Lock!Return, LP!Return,
         Lock!Visible, LP!Visible, Lock!FenceAcquire, LP!FenceAcquire,
         Lock!LoadRelaxed, LP!LoadRelaxed, Lock!LoadAcquire, LP!LoadAcquire,
         Lock!JoinViews, LP!JoinViews, Lock!SeqLoc, LP!SeqLoc, Lock!PayLoc, LP!PayLoc
<1> QED BY <1>1, <1>2, <1>3

\* and those of the ring.
LEMMA RingSteps ==
  /\ Ring!Push <=> RP!Push
  /\ \A c : Ring!Join(c) <=> RP!Join(c)
  /\ \A c : Ring!TryRecv(c) <=> RP!TryRecv(c)
<1>1. Ring!Push <=> RP!Push
  BY DEF Ring!Push, RP!Push, Ring!MarkWriting, RP!MarkWriting, Ring!StoreWord,
         RP!StoreWord, Ring!MarkReady, RP!MarkReady, Ring!Advance, RP!Advance,
         Ring!Written, RP!Written, Ring!Latest, RP!Latest, Ring!StoreRelaxed,
         RP!StoreRelaxed, Ring!StoreRelease, RP!StoreRelease, Ring!Put, RP!Put,
         Ring!Stored, RP!Stored, Ring!SlotOf, RP!SlotOf, Ring!Record, RP!Record,
         Ring!WriteLoc, RP!WriteLoc, Ring!StampLoc, RP!StampLoc, Ring!WordLoc, RP!WordLoc
<1>2. \A c : Ring!Join(c) <=> RP!Join(c)
  BY DEF Ring!Join, RP!Join, Ring!Visible, RP!Visible, Ring!LoadAcquire, RP!LoadAcquire,
         Ring!JoinViews, RP!JoinViews, Ring!MonusCap, RP!MonusCap,
         Ring!WriteLoc, RP!WriteLoc
<1>3. \A c : Ring!TryRecv(c) <=> RP!TryRecv(c)
  BY DEF Ring!TryRecv, RP!TryRecv, Ring!InCall, RP!InCall, Ring!LoadWrite, RP!LoadWrite,
         Ring!LoadStamp, RP!LoadStamp, Ring!LoadWord, RP!LoadWord, Ring!Recheck,
         RP!Recheck, Ring!Resync, RP!Resync, Ring!Deliver, RP!Deliver,
         Ring!NoOutcome, RP!NoOutcome, Ring!Visible, RP!Visible, Ring!FenceAcquire,
         RP!FenceAcquire, Ring!LoadRelaxed, RP!LoadRelaxed, Ring!LoadAcquire,
         RP!LoadAcquire, Ring!JoinViews, RP!JoinViews, Ring!MonusCap, RP!MonusCap,
         Ring!SlotOf, RP!SlotOf, Ring!WriteLoc, RP!WriteLoc, Ring!StampLoc, RP!StampLoc,
         Ring!WordLoc, RP!WordLoc
<1> QED BY <1>1, <1>2, <1>3

\* What the proofs of the lock and of the ring assume is what the engine assumes.
LEMMA Assumed == LP!SeqLockAssumption /\ RP!SpmcRingAssumption
BY EngineAssumption
DEF LP!SeqLockAssumption, Lock!SeqLockAssumption, LP!LockLoc, Lock!LockLoc,
    LP!SeqLoc, Lock!SeqLoc, LP!PayLoc, Lock!PayLoc,
    RP!SpmcRingAssumption, Ring!SpmcRingAssumption, RP!RingLoc, Ring!RingLoc,
    RP!WriteLoc, Ring!WriteLoc, RP!StampLoc, Ring!StampLoc, RP!WordLoc, Ring!WordLoc

USE Assumed

\* The atomics of the lock and of the ring are different ones.
LEMMA Apart ==
  /\ LP!SeqLoc \in Loc /\ RP!WriteLoc \in Loc /\ LP!SeqLoc # RP!WriteLoc
  /\ LP!LockLoc \in SUBSET Loc /\ {LP!SeqLoc} \in SUBSET Loc
  /\ RP!RingLoc \in SUBSET Loc /\ RP!RingLoc \ {RP!WriteLoc} \in SUBSET Loc
  /\ LP!LockLoc \cap RP!RingLoc = {} /\ LP!SeqLoc \in LP!LockLoc
  /\ RP!WriteLoc \in RP!RingLoc
<1>1. /\ LP!SeqLoc \in Loc /\ RP!WriteLoc \in Loc
      /\ LP!LockLoc \in SUBSET Loc /\ {LP!SeqLoc} \in SUBSET Loc
      /\ RP!RingLoc \in SUBSET Loc
  BY LP!Owned, RP!Owned, LP!Locations, RP!Locations
<1>2. /\ \A l \in LP!LockLoc : l[1] \in {"seq", "payload"}
      /\ \A l \in RP!RingLoc : l[1] \in {"write", "stamp", "word"}
  BY DEF LP!LockLoc, LP!SeqLoc, LP!PayLoc, RP!RingLoc, RP!WriteLoc, RP!StampLoc,
         RP!WordLoc
<1>3. LP!SeqLoc \in LP!LockLoc /\ RP!WriteLoc \in RP!RingLoc
  BY DEF LP!LockLoc, RP!RingLoc
<1> QED BY <1>1, <1>2, <1>3

-------------------------------------------------------------------------------
(* The inductive invariant *)

\* How far process has got: the lock and the ring are in the same event.
PipelineInv ==
  /\ ep \in [pc : {"idle", "store", "push"}, stamp : 0..MaxEvents]
  /\ ep.pc = "idle" => wr.pc = "idle" /\ wr.n = ep.stamp
  /\ ep.pc = "store" => wr.n = IF wr.pc = "idle" THEN ep.stamp - 1 ELSE ep.stamp
  /\ ep.pc = "push" => wr.pc = "idle" /\ wr.n = ep.stamp
  /\ ep.pc # "push" => pr.pc = "idle"
  /\ RP!Pub = IF ep.pc = "idle" THEN ep.stamp ELSE ep.stamp - 1

\* A view of memory m: who knows of p events pushed knows of the lock's counter
\* since the p-th store.
Covers(m, v) ==
  /\ v[RP!WriteLoc] <= Len(m[RP!WriteLoc])
  /\ v[LP!SeqLoc] >= 2 * v[RP!WriteLoc] - 1

ViewsInv(m, f, t) ==
  /\ RP!OwnViews(m) /\ Covers(m, f)
  /\ \A l \in Loc : \A i \in 1..Len(m[l]) : Covers(m, m[l][i].view)
  /\ \A c \in Consumers :
       RP!Ordered(t[c]) /\ Covers(m, t[c].cur) /\ Covers(m, t[c].acq)

IInv == LP!IInv /\ RP!IInv /\ PipelineInv /\ ViewsInv(mem, fenced, view)

-------------------------------------------------------------------------------
(* Views *)

\* A larger memory covers as much.
LEMMA CoversMore ==
  ASSUME NEW m, NEW o, RP!Grows(m, o), NEW v \in RP!View, Covers(m, v)
  PROVE  Covers(o, v)
<1>1. /\ Len(m[RP!WriteLoc]) \in Nat /\ Len(o[RP!WriteLoc]) \in Nat
      /\ Len(m[RP!WriteLoc]) <= Len(o[RP!WriteLoc]) /\ v[RP!WriteLoc] \in Nat
  BY Apart DEF RP!Grows, RP!View
<1>2. v[RP!WriteLoc] <= Len(o[RP!WriteLoc])
  <2>1. v[RP!WriteLoc] <= Len(m[RP!WriteLoc]) BY DEF Covers
  <2> DEFINE w == v[RP!WriteLoc]
  <2> DEFINE a == Len(m[RP!WriteLoc])
  <2> DEFINE b == Len(o[RP!WriteLoc])
  <2>2. w \in Nat /\ a \in Nat /\ b \in Nat /\ w <= a /\ a <= b BY <1>1, <2>1
  <2> HIDE DEF w, a, b
  <2>3. w <= b BY <2>2
  <2> QED BY <2>3 DEF w, b
<1> QED BY <1>2 DEF Covers

\* A store keeps the views as they were: the write position is stored to only
\* with all that was stored before it, which is enough for the new view.
LEMMA StoreViews ==
  ASSUME NEW m, NEW o, NEW f, NEW g, NEW L \in SUBSET Loc, NEW R \in SUBSET Loc,
         RP!Writable(m, f), RP!Writes(m, o, f, g, L, R), RP!WriteLoc \notin L,
         Covers(o, RP!Stored(o)),
         NEW t \in [Consumers -> RP!Thread], ViewsInv(m, f, t)
  PROVE  ViewsInv(o, g, t)
<1>1. /\ RP!Writable(o, g) /\ RP!Grows(m, o) BY RP!WritesGrow
<1>2. RP!OwnViews(o) BY RP!WritesOwn DEF ViewsInv
<1>3. f \in RP!View /\ g \in RP!View BY <1>1 DEF RP!Writable
<1>4. Covers(o, g)
  <2>1. g = f \/ g = RP!Stored(o) BY DEF RP!Writes
  <2>2. Covers(o, f) BY <1>1, <1>3, CoversMore DEF ViewsInv
  <2> QED BY <2>1, <2>2
<1>5. RP!AppendsOne(m, o, f, L, R) BY RP!WritesAppend
<1>6. PICK l \in L \cup R, x \in Nat, v \in RP!View :
        /\ RP!Appended(m, o, l, x, v)
        /\ v[l] = Len(m[l]) + 1
        /\ \/ l \in L /\ \A k \in Loc \ {l} : v[k] = f[k]
           \/ l \in R /\ \A k \in Loc \ {l} : v[k] = Len(m[k])
  BY <1>5 DEF RP!AppendsOne
<1>7. /\ \A k \in Loc \ {l} : o[k] = m[k]
      /\ Len(o[l]) = Len(m[l]) + 1 /\ o[l][Len(m[l]) + 1].view = v
      /\ m \in RP!Memory /\ o \in RP!Memory
  BY <1>6 DEF RP!Appended, RP!Writable
<1>8. \A k \in Loc : /\ Len(m[k]) \in Nat /\ f[k] \in Nat /\ f[k] <= Len(m[k])
                     /\ \A i \in 1..Len(m[k]) : o[k][i] = m[k][i]
  BY <1>1, <1>3 DEF RP!Grows, RP!View, RP!Writable
<1>9. Covers(o, v)
  <2>1. CASE l \in L /\ \A k \in Loc \ {l} : v[k] = f[k]
    <3>1. v[RP!WriteLoc] = f[RP!WriteLoc] BY <2>1, Apart
    <3>2. v[LP!SeqLoc] >= f[LP!SeqLoc]
      <4>1. CASE l = LP!SeqLoc BY <1>6, <1>8, <4>1
      <4>2. CASE l # LP!SeqLoc BY <1>8, <2>1, <4>2, Apart
      <4> QED BY <4>1, <4>2
    <3>3. v[LP!SeqLoc] \in Nat BY Apart DEF RP!View
    <3>4. Covers(o, f) BY <1>1, <1>3, CoversMore DEF ViewsInv
    <3>5. f[LP!SeqLoc] \in Nat /\ f[RP!WriteLoc] \in Nat BY <1>8, Apart
    <3>6. v[RP!WriteLoc] <= Len(o[RP!WriteLoc]) BY <3>1, <3>4 DEF Covers
    <3>7. v[LP!SeqLoc] >= 2 * v[RP!WriteLoc] - 1
      <4>1. f[LP!SeqLoc] >= 2 * f[RP!WriteLoc] - 1 BY <3>4 DEF Covers
      <4> DEFINE w == v[RP!WriteLoc]
      <4> DEFINE x1 == v[LP!SeqLoc]
      <4> DEFINE y == f[LP!SeqLoc]
      <4>2. w \in Nat /\ x1 \in Nat /\ y \in Nat /\ x1 >= y /\ y >= 2 * w - 1
        BY <3>1, <3>2, <3>3, <3>5, <4>1
      <4> HIDE DEF w, x1, y
      <4>3. x1 >= 2 * w - 1 BY <4>2
      <4> QED BY <4>3 DEF w, x1
    <3> QED BY <3>6, <3>7 DEF Covers
  <2>2. CASE l \in R /\ \A k \in Loc \ {l} : v[k] = Len(m[k])
    <3>1. \A k \in Loc : v[k] = Len(o[k]) BY <1>6, <1>7, <2>2
    <3>2. \A k \in Loc : RP!Stored(o)[k] = Len(o[k]) BY DEF RP!Stored
    <3> QED BY <3>1, <3>2, Apart DEF Covers
  <2> QED BY <1>6, <2>1, <2>2
<1>10. ASSUME NEW k \in Loc, NEW i \in 1..Len(o[k]) PROVE Covers(o, o[k][i].view)
  <2>1. CASE i \in 1..Len(m[k])
    <3>1. o[k][i] = m[k][i] BY <1>8, <2>1
    <3>2. m[k][i].view \in RP!View BY <1>7, <2>1, RP!MessageType
    <3> QED BY <1>1, <2>1, <3>1, <3>2, CoversMore DEF ViewsInv
  <2>2. CASE i \notin 1..Len(m[k])
    <3>1. k = l BY <1>7, <2>2
    <3>2. i = Len(m[l]) + 1
      <4> DEFINE a == Len(m[l])
      <4>1. a \in Nat /\ i \in 1..(a + 1) /\ i \notin 1..a
        BY <1>7, <1>8, <2>2, <3>1
      <4> HIDE DEF a
      <4>2. i = a + 1 BY <4>1
      <4> QED BY <4>2 DEF a
    <3> QED BY <1>7, <1>9, <3>1, <3>2
  <2> QED BY <2>1, <2>2
<1>11. ASSUME NEW c \in Consumers
       PROVE  RP!Ordered(t[c]) /\ Covers(o, t[c].cur) /\ Covers(o, t[c].acq)
  <2>1. t[c].cur \in RP!View /\ t[c].acq \in RP!View BY DEF RP!Thread
  <2> QED BY <1>1, <2>1, CoversMore DEF ViewsInv
<1> QED BY <1>2, <1>4, <1>10, <1>11 DEF ViewsInv

\* Two views that cover a memory join to one.
LEMMA JoinCovers ==
  ASSUME NEW m, NEW v \in RP!View, NEW u \in RP!View, Covers(m, v), Covers(m, u)
  PROVE  Covers(m, RP!JoinViews(v, u))
<1>1. /\ RP!JoinViews(v, u)[RP!WriteLoc] =
           IF v[RP!WriteLoc] >= u[RP!WriteLoc] THEN v[RP!WriteLoc] ELSE u[RP!WriteLoc]
      /\ RP!JoinViews(v, u)[LP!SeqLoc] =
           IF v[LP!SeqLoc] >= u[LP!SeqLoc] THEN v[LP!SeqLoc] ELSE u[LP!SeqLoc]
  BY Apart DEF RP!JoinViews
<1>2. /\ v[RP!WriteLoc] \in Nat /\ u[RP!WriteLoc] \in Nat
      /\ v[LP!SeqLoc] \in Nat /\ u[LP!SeqLoc] \in Nat
  BY Apart DEF RP!View
<1> QED BY <1>1, <1>2 DEF Covers

\* So does a view that only moves forward, and not at the write position.
LEMMA ForwardCovers ==
  ASSUME NEW m, NEW v \in RP!View, NEW u \in RP!View, Covers(m, v),
         RP!Forward(v, u), u[RP!WriteLoc] = v[RP!WriteLoc]
  PROVE  Covers(m, u)
<1>1. u[LP!SeqLoc] >= v[LP!SeqLoc] BY Apart DEF RP!Forward
<1>2. v[RP!WriteLoc] \in Nat /\ v[LP!SeqLoc] \in Nat /\ u[LP!SeqLoc] \in Nat
  BY Apart DEF RP!View
<1> QED BY <1>1, <1>2 DEF Covers

\* A load keeps the views of its thread as they were: the write position is only
\* acquired.
LEMMA LoadCovers ==
  ASSUME NEW m \in RP!Memory, NEW s \in RP!Thread, NEW u,
         NEW L \in SUBSET Loc, NEW R \in SUBSET Loc, RP!WriteLoc \notin L,
         RP!OwnViews(m), RP!Ordered(s), Covers(m, s.cur), Covers(m, s.acq),
         \A l \in Loc : \A i \in 1..Len(m[l]) : Covers(m, m[l][i].view),
         RP!Reads(m, s, u, L, R)
  PROVE  Covers(m, u.cur) /\ Covers(m, u.acq)
<1>1. PICK t \in {s, RP!FenceAcquire(s)} :
        \/ \E l \in L : \E i \in RP!Visible(m, t, l) : u = RP!LoadRelaxed(m, t, l, i)
        \/ \E l \in R : \E i \in RP!Visible(m, t, l) : u = RP!LoadAcquire(m, t, l, i)
  BY DEF RP!Reads
<1>2. t \in RP!Thread /\ Covers(m, t.cur) /\ Covers(m, t.acq)
  <2>1. CASE t = s BY <2>1
  <2>2. CASE t = RP!FenceAcquire(s) BY <2>2, RP!Fenced
  <2> QED BY <2>1, <2>2
<1>3. t.cur \in RP!View /\ t.acq \in RP!View BY <1>2 DEF RP!Thread
<1>4. ASSUME NEW l \in Loc, NEW i \in RP!Visible(m, t, l)
      PROVE  /\ i \in 1..Len(m[l])
             /\ Covers(m, m[l][i].view) /\ m[l][i].view \in RP!View
             /\ RP!LoadRelaxed(m, t, l, i) \in RP!Thread
             /\ RP!Forward(t.cur, RP!LoadRelaxed(m, t, l, i).cur)
  <2>1. /\ i \in 1..Len(m[l]) /\ m[l][i].view \in RP!View
        /\ LET r == RP!LoadRelaxed(m, t, l, i) IN
             /\ r \in RP!Thread /\ RP!Forward(t.cur, r.cur)
    BY <1>2, RP!Loaded
  <2> QED BY <2>1
<1>5. CASE \E l \in L : \E i \in RP!Visible(m, t, l) : u = RP!LoadRelaxed(m, t, l, i)
  <2>1. PICK l \in L : \E i \in RP!Visible(m, t, l) : u = RP!LoadRelaxed(m, t, l, i)
    BY <1>5
  <2>2. PICK i \in RP!Visible(m, t, l) : u = RP!LoadRelaxed(m, t, l, i) BY <2>1
  <2>3. /\ u.cur = [t.cur EXCEPT ![l] = i]
        /\ u.acq = RP!JoinViews(t.acq, m[l][i].view)
    BY <2>2 DEF RP!LoadRelaxed
  <2>4. l \in Loc /\ l # RP!WriteLoc OBVIOUS
  <2>5. u.cur \in RP!View /\ RP!Forward(t.cur, u.cur)
    BY <1>4, <2>2, <2>4 DEF RP!Thread
  <2>6. u.cur[RP!WriteLoc] = t.cur[RP!WriteLoc]
    BY <1>3, <2>3, <2>4, Apart DEF RP!View
  <2>7. Covers(m, u.cur) BY <1>2, <1>3, <2>5, <2>6, ForwardCovers
  <2>8. Covers(m, u.acq) BY <1>2, <1>3, <1>4, <2>3, <2>4, JoinCovers
  <2> QED BY <2>7, <2>8
<1>6. CASE \E l \in R : \E i \in RP!Visible(m, t, l) : u = RP!LoadAcquire(m, t, l, i)
  <2>1. PICK l \in R : \E i \in RP!Visible(m, t, l) : u = RP!LoadAcquire(m, t, l, i)
    BY <1>6
  <2>2. PICK i \in RP!Visible(m, t, l) : u = RP!LoadAcquire(m, t, l, i) BY <2>1
  <2>3. /\ u.cur = RP!JoinViews(t.cur, m[l][i].view)
        /\ u.acq = RP!JoinViews(t.acq, m[l][i].view)
    BY <2>2 DEF RP!LoadAcquire
  <2>4. l \in Loc OBVIOUS
  <2> QED BY <1>2, <1>3, <1>4, <2>3, <2>4, JoinCovers
<1> QED BY <1>1, <1>5, <1>6

\* So every view stays as it was when one consumer loads.
LEMMA LoadViews ==
  ASSUME NEW m \in RP!Memory, NEW f, NEW t \in [Consumers -> RP!Thread],
         NEW c \in Consumers, NEW u,
         NEW L \in SUBSET Loc, NEW R \in SUBSET Loc, RP!WriteLoc \notin L,
         ViewsInv(m, f, t), RP!Reads(m, t[c], u, L, R)
  PROVE  /\ ViewsInv(m, f, [t EXCEPT ![c] = u])
         /\ [t EXCEPT ![c] = u] \in [Consumers -> RP!Thread]
         /\ \A d \in Consumers : /\ RP!Forward(t[d].cur, [t EXCEPT ![c] = u][d].cur)
                                 /\ RP!Forward(t[d].acq, [t EXCEPT ![c] = u][d].acq)
<1>1. /\ RP!OwnViews(m) /\ RP!Ordered(t[c])
      /\ Covers(m, t[c].cur) /\ Covers(m, t[c].acq)
      /\ \A l \in Loc : \A i \in 1..Len(m[l]) : Covers(m, m[l][i].view)
  BY DEF ViewsInv
<1>2. t[c] \in RP!Thread OBVIOUS
<1>3. /\ u \in RP!Thread /\ RP!Ordered(u)
      /\ RP!Forward(t[c].cur, u.cur) /\ RP!Forward(t[c].acq, u.acq)
  BY <1>1, <1>2, RP!ReadsMove
<1>4. Covers(m, u.cur) /\ Covers(m, u.acq) BY <1>1, <1>2, LoadCovers
<1>5. ASSUME NEW d \in Consumers
      PROVE  [t EXCEPT ![c] = u][d] = IF d = c THEN u ELSE t[d]
  OBVIOUS
<1>6. [t EXCEPT ![c] = u] \in [Consumers -> RP!Thread] BY <1>3
<1>7. \A d \in Consumers : RP!Forward(t[d].cur, t[d].cur) /\ RP!Forward(t[d].acq, t[d].acq)
  BY RP!Reflexive DEF RP!Thread
<1>8. \A d \in Consumers : /\ RP!Forward(t[d].cur, [t EXCEPT ![c] = u][d].cur)
                           /\ RP!Forward(t[d].acq, [t EXCEPT ![c] = u][d].acq)
  BY <1>3, <1>5, <1>7
<1>9. ViewsInv(m, f, [t EXCEPT ![c] = u])
  BY <1>3, <1>4, <1>5 DEF ViewsInv
<1> QED BY <1>6, <1>8, <1>9

-------------------------------------------------------------------------------
(* Every step keeps the invariant *)

\* What the invariant says of the memory, of the producer and of the counters.
LEMMA Facts ==
  ASSUME IInv
  PROVE  /\ RP!Writable(mem, fenced)
         /\ view \in [Consumers -> RP!Thread]
         /\ wr.n \in Nat /\ ep.stamp \in Nat /\ RP!Pub \in Nat
         /\ Len(mem[RP!WriteLoc]) = RP!Pub + 1
         /\ Len(mem[LP!SeqLoc]) = IF wr.pc = "idle" THEN 2 * wr.n + 1 ELSE 2 * wr.n
         /\ wr.pc \in {"idle", "payload", "publish"}
<1>1. /\ mem \in RP!Memory /\ fenced \in RP!View /\ view \in [Consumers -> RP!Thread]
  BY DEF IInv, RP!IInv, RP!TypeOK
<1>2. \A l \in Loc : Len(mem[l]) >= 1 /\ fenced[l] <= Len(mem[l])
  BY DEF IInv, RP!IInv, RP!MemoryInv, RP!ProducerInv, RP!FenceInv
<1>3. wr.n \in Nat /\ wr.pc \in {"idle", "payload", "publish"}
  BY DEF IInv, LP!IInv, LP!TypeOK, LP!WriterState
<1>4. ep.stamp \in Nat BY DEF IInv, PipelineInv
<1>5. mem[RP!WriteLoc] \in Seq(RP!Message) BY <1>1, Apart DEF RP!Memory
<1>6. Len(mem[RP!WriteLoc]) \in Nat BY <1>5
<1>7. RP!Pub \in Nat /\ Len(mem[RP!WriteLoc]) = RP!Pub + 1
  BY <1>2, <1>6, Apart DEF RP!Pub
<1>8. Len(mem[LP!SeqLoc]) = IF wr.pc = "idle" THEN 2 * wr.n + 1 ELSE 2 * wr.n
  BY DEF IInv, LP!IInv, LP!WriterInv
<1> QED BY <1>1, <1>2, <1>3, <1>4, <1>7, <1>8 DEF RP!Writable

\* The storing thread stores an event's top of book before it pushes the event.
LEMMA StoredCovers ==
  ASSUME NEW m, NEW p \in Nat, NEW o \in Nat, NEW b \in BOOLEAN,
         Len(m[RP!WriteLoc]) = p + 1,
         Len(m[LP!SeqLoc]) = IF b THEN 2 * o + 1 ELSE 2 * o,
         o >= IF b THEN p ELSE p + 1
  PROVE  Covers(m, RP!Stored(m))
<1>1. /\ RP!Stored(m)[RP!WriteLoc] = p + 1
      /\ RP!Stored(m)[LP!SeqLoc] = IF b THEN 2 * o + 1 ELSE 2 * o
  BY Apart DEF RP!Stored
<1> QED BY <1>1 DEF Covers

\* A step of the store of the new top of book (engine/src/lib.rs:77-83).
LEMMA StoreTopInv == ASSUME IInv, StoreTop PROVE IInv'
<1>1. /\ ep.pc = "store" /\ LP!Store /\ UNCHANGED <<pr, co, ec>>
      /\ ep' = [ep EXCEPT !.pc = IF wr'.pc = "idle" THEN "push" ELSE "store"]
  BY LockSteps DEF StoreTop, StageAfter
<1>2. LP!IInv' BY <1>1, LP!StepInv DEF IInv, LP!Next
<1>3. /\ RP!Writes(mem, mem', fenced, fenced', LP!LockLoc, {LP!SeqLoc})
      /\ UNCHANGED <<view, rd>>
  BY <1>1, LP!StoreWrites, OneMemory DEF IInv
<1>4. RP!Writable(mem, fenced) /\ view \in [Consumers -> RP!Thread] BY Facts
<1>5. /\ RP!Writable(mem', fenced') /\ RP!Grows(mem, mem')
      /\ RP!Forward(fenced, fenced')
      /\ \A k \in Loc \ (LP!LockLoc \cup {LP!SeqLoc}) : mem'[k] = mem[k]
  BY <1>3, <1>4, RP!WritesGrow, Apart
<1>6. \A k \in RP!RingLoc : mem'[k] = mem[k] BY <1>5, Apart
<1>7. \A c \in Consumers : /\ RP!Forward(view[c].cur, view'[c].cur)
                           /\ RP!Forward(view[c].acq, view'[c].acq)
  BY <1>3, <1>4, RP!Reflexive DEF RP!Thread
<1>8. RP!IInv'
  BY <1>1, <1>3, <1>4, <1>5, <1>6, <1>7, RP!OtherStep DEF IInv, RP!Writable
<1>9. PipelineInv'
  <2>1. /\ wr.n \in Nat /\ ep \in [pc : {"idle", "store", "push"}, stamp : 0..MaxEvents]
        /\ wr.n = IF wr.pc = "idle" THEN ep.stamp - 1 ELSE ep.stamp
        /\ pr.pc = "idle" /\ RP!Pub = ep.stamp - 1
    BY <1>1, Facts DEF IInv, PipelineInv
  <2>2. \/ wr.pc = "idle" /\ wr'.pc = "payload" /\ wr'.n = wr.n + 1
        \/ wr.pc = "payload" /\ wr'.pc \in {"payload", "publish"} /\ wr'.n = wr.n
        \/ wr.pc = "publish" /\ wr'.pc = "idle" /\ wr'.n = wr.n
    <3>1. wr \in LP!WriterState BY DEF IInv, LP!IInv, LP!TypeOK
    <3>2. CASE LP!MarkOdd BY <3>2 DEF LP!MarkOdd
    <3>3. CASE LP!StoreWord BY <3>1, <3>3 DEF LP!StoreWord, LP!WriterState
    <3>4. CASE LP!Publish BY <3>1, <3>4 DEF LP!Publish, LP!WriterState
    <3> QED BY <1>1, <3>2, <3>3, <3>4 DEF LP!Store
  <2>3. RP!Pub' = RP!Pub BY <1>6, Apart DEF RP!Pub
  <2>4. /\ ep' \in [pc : {"idle", "store", "push"}, stamp : 0..MaxEvents]
        /\ ep'.stamp = ep.stamp
        /\ ep'.pc = IF wr'.pc = "idle" THEN "push" ELSE "store"
    BY <1>1, <2>1
  <2>5. ep.stamp \in Nat BY <2>1
  <2>6. wr'.pc # "idle" => wr'.n = ep.stamp BY <2>1, <2>2, <2>5
  <2>7. wr'.pc = "idle" => wr'.n = ep.stamp BY <2>1, <2>2
  <2> QED BY <1>1, <2>1, <2>3, <2>4, <2>6, <2>7 DEF PipelineInv
<1>10. ViewsInv(mem', fenced', view')
  <2>1. /\ Len(mem'[RP!WriteLoc]) = RP!Pub + 1 /\ RP!Pub \in Nat
    BY <1>6, Facts, Apart
  <2>2. wr'.n \in Nat
        /\ Len(mem'[LP!SeqLoc]) = IF wr'.pc = "idle" THEN 2 * wr'.n + 1 ELSE 2 * wr'.n
    BY <1>2 DEF LP!IInv, LP!TypeOK, LP!WriterInv, LP!WriterState
  <2>3. wr'.n = ep.stamp /\ RP!Pub = ep.stamp - 1 /\ ep.stamp \in Nat
    BY <1>1, <1>9, Facts DEF IInv, PipelineInv
  <2>4. wr'.n >= IF wr'.pc = "idle" THEN RP!Pub ELSE RP!Pub + 1 BY <2>1, <2>3
  <2>5. Covers(mem', RP!Stored(mem'))
    <3> DEFINE b == wr'.pc = "idle"
    <3>1. b \in BOOLEAN OBVIOUS
    <3> QED BY <2>1, <2>2, <2>4, <3>1, StoredCovers
  <2> QED BY <1>3, <1>4, <2>5, StoreViews, Apart DEF IInv
<1> QED BY <1>2, <1>8, <1>9, <1>10 DEF IInv

\* A step of the push of the event (engine/src/lib.rs:84).
LEMMA PushEventInv == ASSUME IInv, PushEvent PROVE IInv'
<1>1. /\ ep.pc = "push" /\ RP!Push /\ UNCHANGED <<wr, rd, ec>>
      /\ ep' = [ep EXCEPT !.pc = IF pr'.pc = "idle" THEN "idle" ELSE "push"]
  BY RingSteps DEF PushEvent, StageAfter
<1>2. RP!IInv' BY <1>1, RP!StepInv DEF IInv, RP!Next
<1>3. /\ RP!Writes(mem, mem', fenced, fenced', RP!RingLoc \ {RP!WriteLoc}, RP!RingLoc)
      /\ UNCHANGED <<view, co>>
      /\ RP!Pub' = IF pr'.pc = "idle" THEN RP!Pub + 1 ELSE RP!Pub
  BY <1>1, RP!PushWrites DEF IInv
<1>4. RP!Writable(mem, fenced) /\ view \in [Consumers -> RP!Thread] BY Facts
<1>5. /\ RP!Writable(mem', fenced') /\ RP!Grows(mem, mem')
      /\ RP!Forward(fenced, fenced')
      /\ \A k \in LP!LockLoc : mem'[k] = mem[k]
  <2> DEFINE L == RP!RingLoc \ {RP!WriteLoc}
  <2>1. L \in SUBSET Loc /\ RP!RingLoc \in SUBSET Loc BY Apart
  <2>2. RP!Writes(mem, mem', fenced, fenced', L, RP!RingLoc) BY <1>3
  <2>3. \A k \in LP!LockLoc : k \in Loc \ (L \cup RP!RingLoc) BY Apart
  <2> HIDE DEF L
  <2>4. /\ RP!Writable(mem', fenced') /\ RP!Grows(mem, mem')
        /\ RP!Forward(fenced, fenced')
        /\ \A k \in Loc \ (L \cup RP!RingLoc) : mem'[k] = mem[k]
    BY <1>4, <2>1, <2>2, RP!WritesGrow
  <2> QED BY <2>3, <2>4
<1>6. \A k \in LP!LockLoc : mem'[k] = mem[k] BY <1>5
<1>7. \A c \in Consumers : /\ RP!Forward(view[c].cur, view'[c].cur)
                           /\ RP!Forward(view[c].acq, view'[c].acq)
  BY <1>3, <1>4, RP!Reflexive DEF RP!Thread
<1>8. LP!IInv'
  BY <1>1, <1>3, <1>4, <1>5, <1>6, <1>7, OneMemory, LP!OtherStep
  DEF IInv, RP!Writable
<1>9. /\ ep.stamp \in Nat /\ RP!Pub = ep.stamp - 1 /\ RP!Pub \in Nat
      /\ wr.pc = "idle" /\ wr.n = ep.stamp
      /\ ep \in [pc : {"idle", "store", "push"}, stamp : 0..MaxEvents]
  BY <1>1, Facts DEF IInv, PipelineInv
<1>10. PipelineInv'
  <2>1. /\ ep' \in [pc : {"idle", "store", "push"}, stamp : 0..MaxEvents]
        /\ ep'.stamp = ep.stamp
        /\ ep'.pc = IF pr'.pc = "idle" THEN "idle" ELSE "push"
    BY <1>1, <1>9
  <2> QED BY <1>1, <1>3, <1>9, <2>1 DEF PipelineInv
<1>11. ViewsInv(mem', fenced', view')
  <2>1. RP!Pub' \in Nat /\ RP!Pub' <= ep.stamp BY <1>3, <1>9
  <2>2. Len(mem'[RP!WriteLoc]) = RP!Pub' + 1
    <3>1. Len(mem'[RP!WriteLoc]) \in Nat BY <1>5, Apart DEF RP!Grows
    <3> QED BY <3>1 DEF RP!Pub
  <2>3. Len(mem'[LP!SeqLoc]) = 2 * ep.stamp + 1
    BY <1>6, <1>9, Facts, Apart
  <2>4. Covers(mem', RP!Stored(mem')) BY <1>9, <2>1, <2>2, <2>3, StoredCovers
  <2>5. RP!WriteLoc \notin RP!RingLoc \ {RP!WriteLoc} OBVIOUS
  <2> QED BY <1>3, <1>4, <2>4, <2>5, StoreViews, Apart DEF IInv
<1> QED BY <1>2, <1>8, <1>10, <1>11 DEF IInv

\* A consumer that loads, of the lock or of the ring: its views move forward.
LEMMA ConsumerLoads ==
  ASSUME IInv, UNCHANGED <<mem, fenced>>, NEW c \in Consumers, NEW u,
         view' = [view EXCEPT ![c] = u],
         NEW L \in SUBSET Loc, NEW R \in SUBSET Loc, RP!WriteLoc \notin L,
         RP!Reads(mem, view[c], u, L, R)
  PROVE  /\ ViewsInv(mem', fenced', view')
         /\ mem' \in RP!Memory /\ RP!Grows(mem, mem')
         /\ fenced' \in RP!View /\ RP!Forward(fenced, fenced')
         /\ \A l \in Loc : fenced'[l] <= Len(mem'[l])
         /\ view' \in [Consumers -> RP!Thread]
         /\ \A d \in Consumers : /\ RP!Forward(view[d].cur, view'[d].cur)
                                 /\ RP!Forward(view[d].acq, view'[d].acq)
<1>1. RP!Writable(mem, fenced) /\ view \in [Consumers -> RP!Thread] BY Facts
<1>2. mem \in RP!Memory /\ fenced \in RP!View BY <1>1 DEF RP!Writable
<1>3. RP!Grows(mem, mem) /\ RP!Forward(fenced, fenced) BY <1>2, RP!Reflexive
<1>4. ViewsInv(mem, fenced, view) BY DEF IInv
<1>5. /\ ViewsInv(mem, fenced, view') /\ view' \in [Consumers -> RP!Thread]
      /\ \A d \in Consumers : /\ RP!Forward(view[d].cur, view'[d].cur)
                              /\ RP!Forward(view[d].acq, view'[d].acq)
  BY <1>1, <1>2, <1>4, LoadViews
<1> QED BY <1>1, <1>2, <1>3, <1>5 DEF RP!Writable

\* A step of the ring by a consumer (engine/src/lib.rs:145-150, 186-193).
LEMMA RingReadInv ==
  ASSUME IInv, NEW c \in Consumers, RP!Join(c) \/ RP!TryRecv(c), UNCHANGED <<wr, rd, ep>>
  PROVE  IInv'
<1>1. RP!IInv' BY RP!StepInv DEF IInv, RP!Next
<1>2. UNCHANGED <<mem, fenced, pr>> BY RP!RecvReads DEF IInv
<1>3. PICK u : /\ view' = [view EXCEPT ![c] = u]
               /\ RP!Reads(mem, view[c], u, RP!RingLoc \ {RP!WriteLoc}, RP!RingLoc)
  BY RP!RecvReads DEF IInv
<1>4. /\ ViewsInv(mem', fenced', view')
      /\ mem' \in RP!Memory /\ RP!Grows(mem, mem')
      /\ fenced' \in RP!View /\ RP!Forward(fenced, fenced')
      /\ view' \in [Consumers -> RP!Thread]
      /\ \A d \in Consumers : /\ RP!Forward(view[d].cur, view'[d].cur)
                              /\ RP!Forward(view[d].acq, view'[d].acq)
  BY <1>2, <1>3, ConsumerLoads, Apart
<1>5. LP!IInv'
  BY <1>2, <1>4, OneMemory, LP!OtherStep DEF IInv
<1>6. PipelineInv' BY <1>2 DEF IInv, PipelineInv, RP!Pub
<1> QED BY <1>1, <1>4, <1>5, <1>6 DEF IInv

\* A step of the lock by a consumer (engine/src/lib.rs:151-156, 163-165).
LEMMA LockReadInv ==
  ASSUME IInv, NEW c \in Consumers, LP!Call(c) \/ LP!Load(c), UNCHANGED <<pr, co, ep>>
  PROVE  IInv'
<1>1. LP!IInv' BY LP!StepInv DEF IInv, LP!Next
<1>2. CASE LP!Call(c)
  <2>1. UNCHANGED <<mem, fenced, view, wr>> BY <1>2 DEF LP!Call
  <2>2. RP!IInv' BY <2>1, RP!StepInv DEF IInv, RP!vars
  <2>3. PipelineInv' BY <2>1 DEF IInv, PipelineInv, RP!Pub
  <2> QED BY <1>1, <2>1, <2>2, <2>3 DEF IInv
<1>3. CASE LP!Load(c)
  <2>1. UNCHANGED <<mem, fenced, wr>> BY <1>3, LP!LoadReads DEF IInv
  <2>2. PICK u : /\ view' = [view EXCEPT ![c] = u]
                 /\ RP!Reads(mem, view[c], u, LP!LockLoc, {LP!SeqLoc})
    BY <1>3, LP!LoadReads, OneMemory DEF IInv
  <2>3. /\ ViewsInv(mem', fenced', view')
        /\ mem' \in RP!Memory /\ RP!Grows(mem, mem')
        /\ fenced' \in RP!View /\ RP!Forward(fenced, fenced')
        /\ \A l \in Loc : fenced'[l] <= Len(mem'[l])
        /\ view' \in [Consumers -> RP!Thread]
        /\ \A d \in Consumers : /\ RP!Forward(view[d].cur, view'[d].cur)
                                /\ RP!Forward(view[d].acq, view'[d].acq)
    BY <2>1, <2>2, ConsumerLoads, Apart
  <2>4. RP!IInv' BY <2>1, <2>3, RP!OtherStep DEF IInv
  <2>5. PipelineInv' BY <2>1 DEF IInv, PipelineInv, RP!Pub
  <2> QED BY <1>1, <2>3, <2>4, <2>5 DEF IInv
<1> QED BY <1>2, <1>3

\* Book, stamp: local to the producer (engine/src/lib.rs:73-76).
LEMMA ApplyInv == ASSUME IInv, Apply PROVE IInv'
<1>1. /\ UNCHANGED <<mem, fenced, view, wr, rd, pr, co>>
      /\ ep.pc = "idle" /\ ep.stamp < MaxEvents
      /\ ep' = [pc |-> "store", stamp |-> ep.stamp + 1]
  BY DEF Apply, StageAfter
<1>2. LP!IInv' BY <1>1, LP!StepInv DEF IInv, LP!vars
<1>3. RP!IInv' BY <1>1, RP!StepInv DEF IInv, RP!vars
<1>4. /\ ep.stamp \in Nat /\ wr.pc = "idle" /\ wr.n = ep.stamp /\ pr.pc = "idle"
      /\ RP!Pub = ep.stamp
  BY <1>1, Facts DEF IInv, PipelineInv
<1>5. ep.stamp + 1 \in 0..MaxEvents BY <1>1, <1>4, RP!Bounds
<1>6. PipelineInv' BY <1>1, <1>4, <1>5 DEF PipelineInv, RP!Pub
<1>7. ViewsInv(mem', fenced', view') BY <1>1 DEF IInv
<1> QED BY <1>2, <1>3, <1>6, <1>7 DEF IInv

\* Every step of the producer and of the consumers keeps the invariant.
LEMMA StepInv == IInv /\ [Next]_vars => IInv'
<1> SUFFICES ASSUME IInv, [Next]_vars PROVE IInv' OBVIOUS
<1>1. CASE Apply BY <1>1, ApplyInv
<1>2. CASE StoreTop BY <1>2, StoreTopInv
<1>3. CASE PushEvent BY <1>3, PushEventInv
<1>4. ASSUME NEW c \in Consumers, Consume(c) PROVE IInv'
  <2>1. CASE Mint(c) BY <2>1, RingSteps, RingReadInv DEF Mint
  <2>2. CASE Poll(c) BY <2>2, RingSteps, RingReadInv DEF Poll
  <2>3. CASE Rebase(c) BY <2>3, LockSteps, LockReadInv DEF Rebase
  <2>4. CASE Snapshot(c) BY <2>4, LockSteps, LockReadInv DEF Snapshot
  <2>5. CASE LoadTop(c) BY <2>5, LockSteps, LockReadInv DEF LoadTop
  <2> QED BY <1>4, <2>1, <2>2, <2>3, <2>4, <2>5 DEF Consume
<1>5. CASE UNCHANGED vars
  <2>1. UNCHANGED <<mem, fenced, view, wr, rd, pr, co, ep>> BY <1>5 DEF vars
  <2>2. LP!IInv' BY <2>1, LP!StepInv DEF IInv, LP!vars
  <2>3. RP!IInv' BY <2>1, RP!StepInv DEF IInv, RP!vars
  <2>4. PipelineInv' BY <2>1 DEF IInv, PipelineInv, RP!Pub
  <2>5. ViewsInv(mem', fenced', view') BY <2>1 DEF IInv
  <2> QED BY <2>2, <2>3, <2>4, <2>5 DEF IInv
<1> QED BY <1>1, <1>2, <1>3, <1>4, <1>5 DEF Next, Process

-------------------------------------------------------------------------------
(* The invariant holds initially *)

\* Engine::new, with consumers that have loaded nothing (engine/src/lib.rs:47-52).
LEMMA CreatedInv ==
  ASSUME Created, co \in [Consumers -> RP!ConsumerState],
         \A c \in Consumers :
           /\ co[c].pc \in {"absent", "idle"} /\ co[c].cursor = 0 /\ co[c].start = 0
           /\ co[c].taken = {} /\ co[c].out = RP!NoOutcome
  PROVE  IInv
<1>1. /\ RP!OriginView \in RP!View /\ \A l \in Loc : RP!OriginView[l] = 1
  BY DEF RP!OriginView, RP!View
<1>2. \A l \in Loc : RP!InitVal(l) \in Nat
  BY RP!Bounds DEF RP!InitVal, RP!EMPTY
<1>3. mem = [l \in Loc |-> RP!Fresh(RP!InitVal(l))]
  BY DEF Created, Ring!Fresh, RP!Fresh, Ring!InitVal, RP!InitVal, Ring!EMPTY, RP!EMPTY,
         Ring!StampLoc, RP!StampLoc
<1>4. ASSUME NEW l \in Loc
      PROVE  /\ RP!Fresh(RP!InitVal(l)) \in Seq(RP!Message)
             /\ Len(mem[l]) = 1 /\ mem[l][1].val = RP!InitVal(l)
             /\ mem[l][1].view = RP!OriginView
  BY <1>1, <1>2, <1>3 DEF RP!Fresh, RP!Message, RP!OriginView
<1>5. mem \in RP!Memory BY <1>3, <1>4 DEF RP!Memory
<1>6. /\ fenced = RP!OriginView /\ view = [c \in Consumers |-> RP!OriginThread]
      /\ pr = RP!ProducerInit /\ wr = LP!WriterInit
      /\ rd = [c \in Consumers |-> LP!ReaderInit]
      /\ LP!OriginView = RP!OriginView /\ LP!OriginThread = RP!OriginThread
      /\ ep = [pc |-> "idle", stamp |-> 0]
  BY DEF Created, Ring!OriginView, RP!OriginView, LP!OriginView, Ring!OriginThread,
         RP!OriginThread, LP!OriginThread, Ring!ProducerInit, RP!ProducerInit,
         Lock!WriterInit, LP!WriterInit, Lock!ReaderInit, LP!ReaderInit,
         Lock!InitialSnapshot, LP!InitialSnapshot
<1>7. RP!IInv BY <1>4, <1>5, <1>6, RP!CreatedInv
<1>8. \A l \in LP!LockLoc : mem[l][1].val = 0
  <2> SUFFICES ASSUME NEW l \in LP!LockLoc PROVE mem[l][1].val = 0 OBVIOUS
  <2>1. l[1] \in {"seq", "payload"} BY DEF LP!LockLoc, LP!SeqLoc, LP!PayLoc
  <2>2. RP!InitVal(l) = 0 BY <2>1 DEF RP!InitVal, RP!StampLoc
  <2> QED BY <1>4, <2>2, Apart
<1>9. LP!IInv BY <1>4, <1>5, <1>6, <1>8, OneMemory, LP!CreatedInv
<1>10. PipelineInv
  <2>1. wr.pc = "idle" /\ wr.n = 0 /\ pr.pc = "idle"
    BY <1>6 DEF LP!WriterInit, RP!ProducerInit
  <2>2. Len(mem[RP!WriteLoc]) = 1 BY <1>4, Apart
  <2>3. RP!Pub = 0 BY <2>2 DEF RP!Pub
  <2> QED BY <1>6, <2>1, <2>3, RP!Bounds DEF PipelineInv
<1>11. ViewsInv(mem, fenced, view)
  <2>1. Covers(mem, RP!OriginView) BY <1>1, <1>4, Apart DEF Covers
  <2>2. RP!OwnViews(mem)
    <3> SUFFICES ASSUME NEW l \in Loc, NEW i \in 1..Len(mem[l])
                 PROVE  mem[l][i].view[l] >= i
      BY DEF RP!OwnViews
    <3>1. i \in 1..1 BY <1>4
    <3>2. i = 1 BY <3>1
    <3> QED BY <1>1, <1>4, <3>2
  <2>3. ASSUME NEW l \in Loc, NEW i \in 1..Len(mem[l]) PROVE Covers(mem, mem[l][i].view)
    <3>1. i \in 1..1 BY <1>4
    <3>2. i = 1 BY <3>1
    <3> QED BY <1>4, <2>1, <3>2
  <2>4. ASSUME NEW c \in Consumers
        PROVE  RP!Ordered(view[c]) /\ Covers(mem, view[c].cur) /\ Covers(mem, view[c].acq)
    <3>1. view[c].cur = RP!OriginView /\ view[c].acq = RP!OriginView
      BY <1>6 DEF RP!OriginThread
    <3> QED BY <1>1, <2>1, <3>1, RP!Reflexive DEF RP!Ordered
  <2> QED BY <1>6, <2>1, <2>2, <2>3, <2>4 DEF ViewsInv
<1> QED BY <1>7, <1>9, <1>10, <1>11 DEF IInv

\* Every consumer is still to be minted.
LEMMA InitInv == Init => IInv
<1> SUFFICES ASSUME Init PROVE IInv OBVIOUS
<1>1. RP!NoOutcome \in RP!Outcome BY RP!Bounds DEF RP!NoOutcome, RP!Outcome
<1>2. RP!ConsumerInit \in RP!ConsumerState
  BY <1>1, RP!Bounds DEF RP!ConsumerInit, RP!ConsumerState
<1>3. co = [c \in Consumers |-> RP!ConsumerInit]
  BY DEF Init, Ring!ConsumerInit, RP!ConsumerInit, Ring!NoOutcome, RP!NoOutcome
<1>4. /\ co \in [Consumers -> RP!ConsumerState]
      /\ \A c \in Consumers :
           /\ co[c].pc \in {"absent", "idle"} /\ co[c].cursor = 0 /\ co[c].start = 0
           /\ co[c].taken = {} /\ co[c].out = RP!NoOutcome
  BY <1>2, <1>3 DEF RP!ConsumerInit
<1> QED BY <1>4, CreatedInv DEF Init

-------------------------------------------------------------------------------
(* The theorems *)

\* The inductive invariant of the pipeline, with those of its lock and its ring.
LEMMA Invariance == Spec => []IInv
BY InitInv, StepInv, PTL DEF Spec

\* In the pipeline the ring keeps what it promises beside the lock: no record is
\* torn, an overrun is only reported to a lapped consumer, and nothing is lost
\* silently (ring.rs:249-254, 267-284).
THEOREM RingKept ==
  Spec => [](Ring!NoTornRecord /\ Ring!ResyncOnlyWhenLapped /\ Ring!NoSilentLoss)
<1>1. IInv => Ring!NoTornRecord /\ Ring!ResyncOnlyWhenLapped /\ Ring!NoSilentLoss
  <2> SUFFICES ASSUME IInv, NEW c \in Consumers
               PROVE  /\ co[c].out.kind = "item" => RP!Whole(co[c].out)
                      /\ co[c].pc = "resync" => RP!Begun > co[c].cursor + Cap
                      /\ co[c].start .. co[c].cursor - 1 \subseteq co[c].taken \cup co[c].missed
    BY DEF Ring!NoTornRecord, Ring!ResyncOnlyWhenLapped, Ring!NoSilentLoss, Ring!Whole,
           RP!Whole, Ring!Record, RP!Record, Ring!Begun, RP!Begun, Ring!Written,
           RP!Written, Ring!Latest, RP!Latest, Ring!WriteLoc, RP!WriteLoc
  <2>1. RP!ConsumerInv(mem, RP!Busy, view[c], co[c]) BY DEF IInv, RP!IInv
  <2>2. RP!Busy = RP!Begun
    BY RP!Facts DEF IInv, RP!Busy, RP!Begun
  <2> QED BY <2>1, <2>2 DEF RP!ConsumerInv, RP!InCallInv, RP!HistoryInv
<1> QED BY <1>1, Invariance, PTL

\* And the lock beside the ring: only a full turn of its counter can tear a
\* snapshot (seqlock.rs:48-61).
THEOREM LockKept == Spec => []Lock!TornOnlyIfWrapped
<1>1. IInv => Lock!TornOnlyIfWrapped
  BY DEF IInv, LP!IInv, LP!ReaderInv, LP!OutInv, LP!Intact,
         Lock!TornOnlyIfWrapped, Lock!Intact
<1> QED BY <1>1, Invariance, PTL

\* A load of the lock that returns: what it validated, and that its second load
\* of the counter was no older than its fence allowed.
LEMMA Returns ==
  ASSUME IInv, [Next]_vars, NEW c \in Consumers, LoadReturned(c)
  PROVE  /\ rd[c].pc = "check"
         /\ rd'[c].out.words = rd[c].got
         /\ rd'[c].out.i2 \in view[c].acq[LP!SeqLoc] .. Len(mem[LP!SeqLoc])
<1>0. /\ rd \in [Consumers -> LP!ReaderState] /\ view \in [Consumers -> RP!Thread]
  BY Facts DEF IInv, LP!IInv, LP!TypeOK
<1>1. rd[c].pc # "idle" /\ rd'[c].pc = "idle" BY DEF LoadReturned
<1>2. rd' # rd BY <1>1
<1>3. PICK d \in Consumers : LP!Call(d) \/ LP!Load(d)
  <2>1. CASE Apply \/ PushEvent BY <1>2, <2>1 DEF Apply, PushEvent
  <2>2. CASE StoreTop
    <3>1. UNCHANGED rd BY <2>2, LockSteps, LP!StoreWrites DEF StoreTop, IInv
    <3> QED BY <1>2, <3>1
  <2>3. ASSUME NEW d \in Consumers, Consume(d) PROVE LP!Call(d) \/ LP!Load(d)
    <3>1. CASE Mint(d) \/ Poll(d) BY <1>2, <3>1 DEF Mint, Poll
    <3>2. CASE Rebase(d) \/ Snapshot(d) \/ LoadTop(d)
      BY <3>2, LockSteps DEF Rebase, Snapshot, LoadTop
    <3> QED BY <2>3, <3>1, <3>2 DEF Consume
  <2>4. CASE UNCHANGED vars BY <1>2, <2>4 DEF vars
  <2> QED BY <2>1, <2>2, <2>3, <2>4 DEF Next, Process
<1>4. ~LP!Call(d)
  <2> SUFFICES ASSUME LP!Call(d) PROVE FALSE OBVIOUS
  <2>1. rd' = [rd EXCEPT ![d].pc = "seq", ![d].retries = 0, ![d].since = LP!Published]
    BY DEF LP!Call
  <2>2. rd'[d].pc = "seq" /\ \A e \in Consumers \ {d} : rd'[e] = rd[e]
    BY <1>0, <2>1 DEF LP!ReaderState
  <2> QED BY <1>1, <2>2
<1>5. ~LP!LoadSeq(d)
  <2> SUFFICES ASSUME LP!LoadSeq(d) PROVE FALSE OBVIOUS
  <2>1. PICK i : IF mem[LP!SeqLoc][i].val % 2 = 0
                   THEN rd' = [rd EXCEPT ![d].pc = "payload", ![d].s1 = mem[LP!SeqLoc][i].val,
                                         ![d].i1 = i, ![d].got = <<>>]
                   ELSE LP!Retry(d)
    BY DEF LP!LoadSeq
  <2>2. CASE mem[LP!SeqLoc][i].val % 2 = 0
    <3> DEFINE k == [rd[d] EXCEPT !.pc = "payload", !.s1 = mem[LP!SeqLoc][i].val,
                                  !.i1 = i, !.got = <<>>]
    <3>1. rd' = [rd EXCEPT ![d] = k] BY <2>1, <2>2
    <3>2. k.pc = "payload" BY <1>0 DEF LP!ReaderState
    <3> HIDE DEF k
    <3>3. rd'[d].pc = "payload" /\ \A e \in Consumers \ {d} : rd'[e] = rd[e]
      BY <1>0, <3>1, <3>2
    <3> QED BY <1>1, <3>3
  <2>3. CASE mem[LP!SeqLoc][i].val % 2 # 0
    <3>1. LP!Retry(d) BY <2>1, <2>3
    <3>2. rd'[d].pc = "seq" /\ \A e \in Consumers \ {d} : rd'[e] = rd[e]
      BY <1>0, <3>1 DEF LP!Retry, LP!ReaderState
    <3> QED BY <1>1, <3>2
  <2> QED BY <2>2, <2>3
<1>6. ~LP!LoadWord(d)
  <2> SUFFICES ASSUME LP!LoadWord(d) PROVE FALSE OBVIOUS
  <2>1. rd'[d].pc \in {"payload", "check"} /\ \A e \in Consumers \ {d} : rd'[e] = rd[e]
    BY <1>0 DEF LP!LoadWord, LP!ReaderState
  <2> QED BY <1>1, <2>1
<1>7. LP!Recheck(d) BY <1>3, <1>4, <1>5, <1>6 DEF LP!Load
<1>8. PICK i2 \in LP!Visible(mem, LP!FenceAcquire(view[d]), LP!SeqLoc) :
        IF mem[LP!SeqLoc][i2].val = rd[d].s1 THEN LP!Return(d, i2) ELSE LP!Retry(d)
  BY <1>7 DEF LP!Recheck
<1>9. ~LP!Retry(d)
  <2> SUFFICES ASSUME LP!Retry(d) PROVE FALSE OBVIOUS
  <2>1. rd'[d].pc = "seq" /\ \A e \in Consumers \ {d} : rd'[e] = rd[e]
    BY <1>0 DEF LP!Retry, LP!ReaderState
  <2> QED BY <1>1, <2>1
<1>10. LP!Return(d, i2) BY <1>8, <1>9
<1>11. /\ rd'[d].out = [i1 |-> rd[d].i1, i2 |-> i2, words |-> rd[d].got,
                        retries |-> rd[d].retries, since |-> rd[d].since]
       /\ \A e \in Consumers \ {d} : rd'[e] = rd[e]
  BY <1>0, <1>10 DEF LP!Return, LP!ReaderState
<1>12. d = c BY <1>1, <1>11
<1>13. i2 \in view[d].acq[LP!SeqLoc] .. Len(mem[LP!SeqLoc])
  BY <1>0, <1>8 DEF LP!Visible, LP!FenceAcquire, RP!Thread
<1>14. rd[d].pc = "check" BY <1>7 DEF LP!Recheck
<1> QED BY <1>11, <1>12, <1>13, <1>14

\* As long as fewer events are processed than turn the counter once round, the
\* snapshot a consumer resyncs from is whole, and its stamp covers every event
\* the ring has told that consumer of, so every one it skipped, under all the
\* reads the memory model allows (engine/src/lib.rs:77-84, 151-156).
THEOREM SnapshotCovers ==
  ASSUME 2 * MaxEvents < SeqMod
  PROVE  Spec => SnapshotCoversSkipped
<1>1. ASSUME IInv, IInv', [Next]_vars, NEW c \in Consumers, LoadReturned(c)
      PROVE  /\ \A w \in 1..TopWords : rd'[c].out.words[w] = rd'[c].out.words[1]
             /\ rd'[c].out.words[1] >= Known(c)
  <2> DEFINE o == rd'[c].out
             p == view[c].cur[RP!WriteLoc]
  <2>1. /\ rd[c].pc = "check" /\ o.words = rd[c].got
        /\ o.i2 \in view[c].acq[LP!SeqLoc] .. Len(mem[LP!SeqLoc])
    BY <1>1, Returns
  <2>2. \A w \in 1..TopWords : o.words[w] \in Nat
    <3>1. rd[c] \in LP!ReaderState BY <1>1 DEF IInv, LP!IInv, LP!TypeOK
    <3>2. rd[c].got \in Seq(Nat) BY <3>1 DEF LP!ReaderState
    <3>3. Len(rd[c].got) = TopWords
      BY <1>1, <2>1 DEF IInv, LP!IInv, LP!ReaderInv, LP!SnapInv
    <3> QED BY <2>1, <3>2, <3>3
  <2>3. o.i1 = o.i2 /\ LP!Intact(o) /\ o.i1 \in Nat
    <3>1. LP!OutInv(o) BY <1>1 DEF IInv, LP!IInv, LP!ReaderInv
    <3>2. rd' \in [Consumers -> LP!ReaderState] BY <1>1 DEF IInv, LP!IInv, LP!TypeOK
    <3>3. o.i1 \in Nat \ {0} /\ o.i2 \in Nat BY <3>2 DEF LP!ReaderState, LP!Snapshot
    <3>4. /\ o.i2 <= 2 * MaxEvents + 1
          /\ \/ o.i1 = o.i2 /\ LP!Intact(o)
             \/ o.i2 - o.i1 >= SeqMod
      BY <3>1 DEF LP!OutInv
    <3> QED BY <3>3, <3>4, LP!Bounds
  <2>4. o.i2 >= 2 * p - 1 /\ p \in Nat /\ p >= 1 /\ p <= Len(mem[RP!WriteLoc])
    <3>1. view[c] \in RP!Thread BY <1>1, Facts
    <3>2. /\ RP!Ordered(view[c]) /\ Covers(mem, view[c].cur)
      BY <1>1 DEF IInv, ViewsInv
    <3>3. view[c].acq[LP!SeqLoc] >= view[c].cur[LP!SeqLoc]
      BY <3>2, Apart DEF RP!Ordered, RP!Forward
    <3>4. /\ p \in Nat \ {0} /\ view[c].cur[LP!SeqLoc] \in Nat
          /\ view[c].acq[LP!SeqLoc] \in Nat
      BY <3>1, Apart DEF RP!Thread, RP!View
    <3>5. o.i2 >= view[c].acq[LP!SeqLoc] /\ o.i2 \in Nat BY <2>1, <2>3
    <3>6. p <= Len(mem[RP!WriteLoc]) /\ view[c].cur[LP!SeqLoc] >= 2 * p - 1
      BY <3>2 DEF Covers
    <3> HIDE DEF o, p
    <3> QED BY <3>3, <3>4, <3>5, <3>6
  <2>5. Known(c) = p - 1
    <3>1. RP!WriteInv(mem) BY <1>1 DEF IInv, RP!IInv, RP!MemoryInv
    <3>2. Len(mem[RP!WriteLoc]) \in Nat BY <1>1, Facts
    <3>3. p \in 1..Len(mem[RP!WriteLoc]) BY <2>4, <3>2
    <3>4. Known(c) = mem[RP!WriteLoc][p].val
      BY DEF Known, Ring!WriteLoc, RP!WriteLoc
    <3> QED BY <3>1, <3>3, <3>4 DEF RP!WriteInv
  <2>6. \A w \in 1..TopWords : 2 * o.words[w] = o.i1 - 1
    BY <2>3 DEF LP!Intact
  <2> HIDE DEF o, p
  <2>7. 1 \in 1..TopWords BY LP!Bounds
  <2>8. \A w \in 1..TopWords : o.words[w] = o.words[1]
    BY <2>2, <2>3, <2>6, <2>7
  <2>9. o.words[1] >= p - 1 BY <2>2, <2>3, <2>4, <2>6, <2>7
  <2> QED BY <2>5, <2>8, <2>9 DEF o
<1>2. IInv /\ IInv' /\ [Next]_vars =>
        [\A c \in Consumers : LoadReturned(c) =>
           /\ \A w \in 1..TopWords : rd'[c].out.words[w] = rd'[c].out.words[1]
           /\ rd'[c].out.words[1] >= Known(c)]_vars
  BY <1>1
<1> QED BY <1>2, Invariance, PTL DEF Spec, SnapshotCoversSkipped

-------------------------------------------------------------------------------
(* Beside other code in one memory *)

\* The atomics of neither the lock nor the ring.
OtherLoc == Loc \ (LP!LockLoc \cup RP!RingLoc)

\* The producer's thread may Release other atomics, between its steps,
LEMMA OtherStore ==
  ASSUME IInv, UNCHANGED <<fenced, view, wr, rd, pr, co, ep>>,
         NEW l \in OtherLoc, NEW x \in Nat, mem' = RP!StoreRelease(mem, l, x)
  PROVE  IInv'
<1>1. l \in Loc /\ l \notin LP!LockLoc /\ l \notin RP!RingLoc BY DEF OtherLoc
<1>2. RP!Writable(mem, fenced) /\ view \in [Consumers -> RP!Thread] BY Facts
<1>3. RP!Writes(mem, mem', fenced, fenced', {}, {l}) BY DEF RP!Writes
<1>4. /\ RP!Writable(mem', fenced') /\ RP!Grows(mem, mem')
      /\ RP!Forward(fenced, fenced')
      /\ \A k \in LP!LockLoc \cup RP!RingLoc : mem'[k] = mem[k]
  <2> DEFINE L == {}
             R == {l}
  <2>1. L \in SUBSET Loc /\ R \in SUBSET Loc BY <1>1
  <2>2. RP!Writes(mem, mem', fenced, fenced', L, R) BY <1>3
  <2>3. \A k \in LP!LockLoc \cup RP!RingLoc : k \in Loc \ (L \cup R) BY <1>1, Apart
  <2> HIDE DEF L, R
  <2>4. /\ RP!Writable(mem', fenced') /\ RP!Grows(mem, mem')
        /\ RP!Forward(fenced, fenced')
        /\ \A k \in Loc \ (L \cup R) : mem'[k] = mem[k]
    BY <1>2, <2>1, <2>2, RP!WritesGrow
  <2> QED BY <2>3, <2>4
<1>5. \A c \in Consumers : /\ RP!Forward(view[c].cur, view'[c].cur)
                           /\ RP!Forward(view[c].acq, view'[c].acq)
  BY <1>2, RP!Reflexive DEF RP!Thread
<1>6. RP!IInv' BY <1>2, <1>4, <1>5, RP!OtherStep DEF IInv, RP!Writable
<1>7. LP!IInv' BY <1>2, <1>4, <1>5, OneMemory, LP!OtherStep DEF IInv, RP!Writable
<1>8. mem'[RP!WriteLoc] = mem[RP!WriteLoc] /\ mem'[LP!SeqLoc] = mem[LP!SeqLoc]
  BY <1>4, Apart
<1>9. PipelineInv' BY <1>8 DEF IInv, PipelineInv, RP!Pub
<1>10. ViewsInv(mem', fenced', view')
  <2> DEFINE b == wr.pc = "idle"
  <2>1. /\ RP!Pub \in Nat /\ wr.n \in Nat /\ b \in BOOLEAN
        /\ Len(mem'[RP!WriteLoc]) = RP!Pub + 1
        /\ Len(mem'[LP!SeqLoc]) = IF b THEN 2 * wr.n + 1 ELSE 2 * wr.n
    BY <1>8, Facts
  <2>2. wr.n >= IF b THEN RP!Pub ELSE RP!Pub + 1
    BY Facts DEF IInv, PipelineInv
  <2>3. Covers(mem', RP!Stored(mem')) BY <2>1, <2>2, StoredCovers
  <2>4. {} \in SUBSET Loc /\ {l} \in SUBSET Loc /\ RP!WriteLoc \notin {} BY <1>1
  <2> QED BY <1>2, <1>3, <2>3, <2>4, StoreViews DEF IInv
<1> QED BY <1>6, <1>7, <1>9, <1>10 DEF IInv

\* and a consumer Acquire them.
LEMMA OtherLoad ==
  ASSUME IInv, UNCHANGED <<mem, fenced, wr, rd, pr, co, ep>>, NEW c \in Consumers,
         NEW l \in OtherLoc, NEW i \in RP!Visible(mem, view[c], l),
         view' = [view EXCEPT ![c] = RP!LoadAcquire(mem, view[c], l, i)]
  PROVE  IInv'
<1>1. RP!Reads(mem, view[c], RP!LoadAcquire(mem, view[c], l, i), {}, {l})
  BY DEF RP!Reads
<1>2. {} \in SUBSET Loc /\ {l} \in SUBSET Loc /\ RP!WriteLoc \notin {} BY DEF OtherLoc
<1>3. /\ ViewsInv(mem', fenced', view')
      /\ mem' \in RP!Memory /\ RP!Grows(mem, mem')
      /\ fenced' \in RP!View /\ RP!Forward(fenced, fenced')
      /\ \A k \in Loc : fenced'[k] <= Len(mem'[k])
      /\ view' \in [Consumers -> RP!Thread]
      /\ \A d \in Consumers : /\ RP!Forward(view[d].cur, view'[d].cur)
                              /\ RP!Forward(view[d].acq, view'[d].acq)
  BY <1>1, <1>2, ConsumerLoads
<1>4. RP!IInv' BY <1>3, RP!OtherStep DEF IInv
<1>5. LP!IInv' BY <1>3, OneMemory, LP!OtherStep DEF IInv
<1>6. PipelineInv' BY DEF IInv, PipelineInv, RP!Pub
<1> QED BY <1>3, <1>4, <1>5, <1>6 DEF IInv

\* The steps of process leave other atomics, and the consumers, alone.
LEMMA ProcessKeeps ==
  ASSUME IInv, Process
  PROVE  /\ \A l \in OtherLoc : mem'[l] = mem[l]
         /\ UNCHANGED <<view, co, ec>>
         /\ ~Apply => ep'.stamp = ep.stamp
<1>1. RP!Writable(mem, fenced) BY Facts
<1>2. ep \in [pc : {"idle", "store", "push"}, stamp : 0..MaxEvents]
  BY DEF IInv, PipelineInv
<1>3. CASE Apply BY <1>3 DEF Apply
<1>4. CASE StoreTop
  <2>1. /\ RP!Writes(mem, mem', fenced, fenced', LP!LockLoc, {LP!SeqLoc})
        /\ UNCHANGED view
    BY <1>4, LockSteps, LP!StoreWrites, OneMemory DEF IInv, StoreTop
  <2>2. /\ RP!Writable(mem', fenced') /\ RP!Grows(mem, mem')
        /\ RP!Forward(fenced, fenced')
        /\ \A k \in Loc \ (LP!LockLoc \cup {LP!SeqLoc}) : mem'[k] = mem[k]
    BY <1>1, <2>1, RP!WritesGrow, Apart
  <2>3. \A k \in OtherLoc : k \in Loc \ (LP!LockLoc \cup {LP!SeqLoc})
    BY Apart DEF OtherLoc
  <2>4. ep'.stamp = ep.stamp /\ UNCHANGED <<co, ec>> BY <1>2, <1>4 DEF StoreTop
  <2> QED BY <2>1, <2>2, <2>3, <2>4
<1>5. CASE PushEvent
  <2> DEFINE L == RP!RingLoc \ {RP!WriteLoc}
  <2>1. /\ RP!Writes(mem, mem', fenced, fenced', L, RP!RingLoc)
        /\ UNCHANGED <<view, co>>
    BY <1>5, RingSteps, RP!PushWrites DEF IInv, PushEvent
  <2>2. L \in SUBSET Loc /\ RP!RingLoc \in SUBSET Loc BY Apart
  <2>3. \A k \in OtherLoc : k \in Loc \ (L \cup RP!RingLoc) BY DEF OtherLoc
  <2> HIDE DEF L
  <2>4. /\ RP!Writable(mem', fenced') /\ RP!Grows(mem, mem')
        /\ RP!Forward(fenced, fenced')
        /\ \A k \in Loc \ (L \cup RP!RingLoc) : mem'[k] = mem[k]
    BY <1>1, <2>1, <2>2, RP!WritesGrow
  <2>5. ep'.stamp = ep.stamp /\ UNCHANGED ec BY <1>2, <1>5 DEF PushEvent
  <2> QED BY <2>1, <2>3, <2>4, <2>5
<1> QED BY <1>3, <1>4, <1>5 DEF Process

\* A consumer loads, and stores nothing.
LEMMA ConsumeKeeps ==
  ASSUME IInv, NEW c \in Consumers, Consume(c)
  PROVE  /\ UNCHANGED <<mem, fenced, pr, ep>>
         /\ \A d \in Consumers \ {c} : view'[d] = view[d]
<1>1. view \in [Consumers -> RP!Thread] BY Facts
<1>2. CASE Mint(c) \/ Poll(c)
  <2>1. RP!Join(c) \/ RP!TryRecv(c) BY <1>2, RingSteps DEF Mint, Poll
  <2>2. /\ UNCHANGED <<mem, fenced, pr>>
        /\ \E t : view' = [view EXCEPT ![c] = t]
    BY <2>1, RP!RecvReads DEF IInv
  <2> QED BY <1>1, <1>2, <2>2 DEF Mint, Poll
<1>3. CASE Rebase(c) \/ Snapshot(c)
  <2>1. LP!Call(c) BY <1>3, LockSteps DEF Rebase, Snapshot
  <2> QED BY <1>3, <2>1 DEF LP!Call, Rebase, Snapshot
<1>4. CASE LoadTop(c)
  <2>1. LP!Load(c) BY <1>4, LockSteps DEF LoadTop
  <2>2. /\ UNCHANGED <<mem, fenced>>
        /\ \E t : view' = [view EXCEPT ![c] = t]
    BY <2>1, LP!LoadReads DEF IInv
  <2> QED BY <1>1, <1>4, <2>2 DEF LoadTop
<1> QED BY <1>2, <1>3, <1>4 DEF Consume

-------------------------------------------------------------------------------
(* The inductive invariant *)

Tally == [deliveries : Nat, overruns : 0 .. MaxResyncs, skipped : Nat]

ConsumerThread ==
  [pc : {"warmup", "announce", "wait", "base", "drain", "idle", "exited"},
   warm : 0 .. WarmupPolls, base : {0, ClockBase}, tally : Tally]

EngineConsumer == [pc : {"poll", "rebase", "load"}, seen : Nat, resyncs : 0 .. MaxResyncs]

ThreadTypes ==
  /\ args \in [K : SUBSET Consumers, n : 0 .. MaxEvents]
  /\ args \in Cells \cup {NoCell}
  /\ drv \in {"wait", "base", "started", "run", "exited"}
  /\ cs \in [K -> ConsumerThread]
  /\ ec \in [Consumers -> EngineConsumer]

\* The consumers past their warm-up.
Past == {c \in K : cs[c].pc \notin {"warmup", "announce"}}

\* The barrier: ready counts them, and the producer passes it with all of them.
BarrierInv ==
  /\ ready = Cardinality(Past)
  /\ drv # "wait" => Past = K
  /\ drv \in {"wait", "base", "started"} => ep = [pc |-> "idle", stamp |-> 0]
  /\ ep.stamp <= n

\* The base: who acquires started has it.
BaseInv ==
  /\ drv = "started" => Len(mem[BaseLoc]) >= 2
  /\ \A i \in 2..Len(mem[BaseLoc]) : mem[BaseLoc][i].val = ClockBase
  /\ \A i \in 1..Len(mem[StartedLoc]) :
       mem[StartedLoc][i].val = 1 => mem[StartedLoc][i].view[BaseLoc] >= 2
  /\ \A c \in K : cs[c].pc = "base" => view[c].cur[BaseLoc] >= 2

\* Consumer k, of the ring's state j and the engine's e, polls the empty ring until
\* it drains; an overrun it has not yet returned is its last outcome.
DrainInv(k, j, e) ==
  /\ k.pc = "warmup" => k.warm < WarmupPolls
  /\ k.pc \in {"warmup", "announce", "wait", "base"} =>
       j.cursor = 0 /\ k.tally = NoTally
  /\ k.pc # "drain" => j.pc = "idle" /\ e.pc = "poll"
  /\ k.pc \in {"drain", "idle", "exited"} => k.base = ClockBase
  /\ j.pc # "absent"
  /\ e.pc # "poll" => j.pc = "idle" /\ j.out.kind = "overrun"
  /\ k.tally.deliveries = e.seen

CellInv ==
  /\ IInv /\ ThreadTypes /\ BarrierInv /\ BaseInv
  /\ \A c \in K : DrainInv(cs[c], co[c], ec[c])

\* With current reads: every position below the cursor is in the tally, or in the
\* overrun that the consumer is about to return.
Pending(c) == IF ec[c].pc = "poll" THEN 0 ELSE co[c].out.skipped

AccountInv ==
  /\ \A c \in K :
       /\ co[c].cursor = cs[c].tally.deliveries + cs[c].tally.skipped + Pending(c)
       /\ cs[c].pc = "exited" => co[c].cursor = n
  /\ \A c \in Consumers \ K : ec[c].seen = 0
  /\ cell.joined \in SUBSET {c \in K : cs[c].pc = "exited"}
  /\ cell.tally \in [deliveries : Nat, overruns : Nat, skipped : Nat]
  /\ cell.tally.deliveries + cell.tally.skipped = n * Cardinality(cell.joined)

-------------------------------------------------------------------------------
(* The flags and the threads *)

\* The flags are atomics of their own.
LEMMA Flags ==
  /\ BaseLoc \in OtherLoc /\ StartedLoc \in OtherLoc /\ DoneLoc \in OtherLoc
  /\ BaseLoc # StartedLoc /\ BaseLoc # DoneLoc /\ StartedLoc # DoneLoc
  /\ BaseLoc \in Loc /\ StartedLoc \in Loc /\ DoneLoc \in Loc
<1>1. BaseLoc \in Loc /\ StartedLoc \in Loc /\ DoneLoc \in Loc BY EndToEndAssumption
<1>2. /\ BaseLoc[1] = "base_raw" /\ StartedLoc[1] = "started" /\ DoneLoc[1] = "done"
  BY DEF BaseLoc, StartedLoc, DoneLoc
<1>3. \A l \in LP!LockLoc \cup RP!RingLoc :
        l[1] \in {"seq", "payload", "write", "stamp", "word"}
  BY DEF LP!LockLoc, LP!SeqLoc, LP!PayLoc, RP!RingLoc, RP!WriteLoc, RP!StampLoc,
         RP!WordLoc
<1> HIDE DEF BaseLoc, StartedLoc, DoneLoc
<1> QED BY <1>1, <1>2, <1>3 DEF OtherLoc

\* The consumers and the corpus of a cell.
LEMMA Members ==
  ASSUME ThreadTypes
  PROVE  /\ K \in SUBSET Consumers /\ n \in 0 .. MaxEvents
         /\ IsFiniteSet(K) /\ Cardinality(K) \in Nat
         /\ Past \in SUBSET K /\ IsFiniteSet(Past)
<1>1. K \in SUBSET Consumers /\ n \in 0 .. MaxEvents BY DEF ThreadTypes, K, n
<1>2. IsFiniteSet(K) BY <1>1, EndToEndAssumption, FS_Subset
<1>3. Past \in SUBSET K BY DEF Past
<1> QED BY <1>1, <1>2, <1>3, FS_Subset, FS_CardinalityType

\* A step of poll, of what it leaves alone.
Polled(j, e, i, f) ==
  \/ /\ e.pc = "poll" /\ RP!Moved(RP!Pub, j, i)
     /\ f.pc = IF i.pc = "idle" /\ i.out.kind = "overrun" THEN "rebase" ELSE "poll"
     /\ f.seen = IF i.pc = "idle" /\ i.out.kind = "item" THEN e.seen + 1 ELSE e.seen
  \/ /\ e.pc # "poll" /\ i = j
     /\ f.pc \in {"load", "poll"} /\ f.seen = e.seen

\* What a step of EngineConsumer::poll leads to (engine/src/lib.rs:144-160).
LEMMA PollMoves ==
  ASSUME IInv, ec \in [Consumers -> EngineConsumer], NEW c \in Consumers, PollStep(c)
  PROVE  /\ IInv' /\ UNCHANGED <<mem, fenced, pr, ep>>
         /\ ec' \in [Consumers -> EngineConsumer]
         /\ Polled(co[c], ec[c], co'[c], ec'[c])
         /\ \A d \in Consumers \ {c} :
              co'[d] = co[d] /\ ec'[d] = ec[d] /\ view'[d] = view[d]
<1>1. Consume(c) BY DEF PollStep, Consume
<1>2. /\ UNCHANGED <<mem, fenced, pr, ep>>
      /\ \A d \in Consumers \ {c} : view'[d] = view[d]
  BY <1>1, ConsumeKeeps
<1>3. IInv'
  <2>1. Next BY <1>1 DEF Next
  <2> QED BY <2>1, StepInv
<1>4. ec[c] \in EngineConsumer OBVIOUS
<1>5. CASE Poll(c)
  <2>1. RP!Moved(RP!Pub, co[c], co'[c]) /\ \A d \in Consumers \ {c} : co'[d] = co[d]
    <3>1. RP!TryRecv(c) /\ RP!IInv BY <1>5, RingSteps DEF Poll, IInv
    <3> QED BY <3>1, RP!RecvMoved
  <2> DEFINE p == IF co'[c].pc = "idle" /\ co'[c].out.kind = "overrun" THEN "rebase" ELSE "poll"
             x == IF co'[c].pc = "idle" /\ co'[c].out.kind = "item" THEN ec[c].seen + 1
                  ELSE ec[c].seen
             f == [ec[c] EXCEPT !.pc = p, !.seen = x]
  <2>2. ec' = [ec EXCEPT ![c] = f] /\ ec[c].pc = "poll" BY <1>5 DEF Poll
  <2>3. p \in {"poll", "rebase"} /\ x \in Nat BY <1>4 DEF EngineConsumer
  <2>4. f \in EngineConsumer /\ f.pc = p /\ f.seen = x
    <3> HIDE DEF p, x
    <3> QED BY <1>4, <2>3 DEF EngineConsumer
  <2> HIDE DEF f
  <2>5. /\ ec' \in [Consumers -> EngineConsumer] /\ ec'[c] = f
        /\ \A d \in Consumers \ {c} : ec'[d] = ec[d]
    BY <2>2, <2>4
  <2>6. Polled(co[c], ec[c], co'[c], ec'[c]) BY <2>1, <2>2, <2>4, <2>5 DEF Polled
  <2> QED BY <1>2, <1>3, <2>1, <2>5, <2>6
<1>6. CASE Rebase(c)
  <2> DEFINE x == IF ec[c].resyncs < MaxResyncs THEN ec[c].resyncs + 1 ELSE ec[c].resyncs
             f == [ec[c] EXCEPT !.pc = "load", !.resyncs = x]
  <2>1. ec' = [ec EXCEPT ![c] = f] /\ ec[c].pc = "rebase" /\ UNCHANGED co
    BY <1>6 DEF Rebase
  <2>2. x \in 0 .. MaxResyncs BY <1>4, EngineAssumption DEF EngineConsumer
  <2>3. f \in EngineConsumer /\ f.pc = "load" /\ f.seen = ec[c].seen
    <3> HIDE DEF x
    <3> QED BY <1>4, <2>2 DEF EngineConsumer
  <2> HIDE DEF f
  <2>4. /\ ec' \in [Consumers -> EngineConsumer] /\ ec'[c] = f
        /\ \A d \in Consumers \ {c} : ec'[d] = ec[d]
    BY <2>1, <2>3
  <2> QED BY <1>2, <1>3, <2>1, <2>3, <2>4 DEF Polled
<1>7. CASE LoadTop(c)
  <2> DEFINE p == IF rd'[c].pc = "idle" THEN "poll" ELSE "load"
             f == [ec[c] EXCEPT !.pc = p]
  <2>1. ec' = [ec EXCEPT ![c] = f] /\ ec[c].pc = "load" /\ UNCHANGED co
    BY <1>7 DEF LoadTop
  <2>2. f \in EngineConsumer /\ f.pc \in {"load", "poll"} /\ f.seen = ec[c].seen
    BY <1>4 DEF EngineConsumer
  <2> HIDE DEF f
  <2>3. /\ ec' \in [Consumers -> EngineConsumer] /\ ec'[c] = f
        /\ \A d \in Consumers \ {c} : ec'[d] = ec[d]
    BY <2>1, <2>2
  <2> QED BY <1>2, <1>3, <2>1, <2>2, <2>3 DEF Polled
<1> QED BY <1>5, <1>6, <1>7 DEF PollStep

-------------------------------------------------------------------------------
(* Every step keeps the invariant *)

\* A step of consumer c leaves its thread at k: its own part is to be shown.
LEMMA OneConsumer ==
  ASSUME CellInv, IInv', UNCHANGED <<mem, args, drv, ep>>, NEW c \in K,
         NEW k \in ConsumerThread, cs' = [cs EXCEPT ![c] = k],
         ec' \in [Consumers -> EngineConsumer],
         \A d \in Consumers \ {c} :
           co'[d] = co[d] /\ ec'[d] = ec[d] /\ view'[d] = view[d],
         \/ /\ ready' = ready
            /\ k.pc \in {"warmup", "announce"} <=> cs[c].pc \in {"warmup", "announce"}
         \/ ready' = ready + 1 /\ cs[c].pc = "announce" /\ k.pc = "wait",
         k.pc = "base" => view'[c].cur[BaseLoc] >= 2,
         DrainInv(k, co'[c], ec'[c])
  PROVE  CellInv'
<1>1. ThreadTypes /\ BarrierInv /\ BaseInv BY DEF CellInv
<1>2. K' = K /\ n' = n BY DEF K, n
<1>3. K \in SUBSET Consumers /\ IsFiniteSet(Past) /\ Past \in SUBSET K
  BY <1>1, Members
<1>4. cs \in [K -> ConsumerThread] BY <1>1 DEF ThreadTypes
<1>5. /\ cs' \in [K -> ConsumerThread] /\ cs'[c] = k
      /\ \A d \in K \ {c} : cs'[d] = cs[d]
  BY <1>4
<1>6. ThreadTypes' BY <1>1, <1>2, <1>5 DEF ThreadTypes
<1>7. BarrierInv'
  <2>1. CASE /\ ready' = ready
             /\ k.pc \in {"warmup", "announce"} <=> cs[c].pc \in {"warmup", "announce"}
    <3>1. \A d \in K : cs'[d].pc \in {"warmup", "announce"} <=> cs[d].pc \in {"warmup", "announce"}
      BY <1>5, <2>1
    <3>2. Past' = Past BY <1>2, <3>1 DEF Past
    <3> QED BY <1>1, <1>2, <2>1, <3>2 DEF BarrierInv
  <2>2. CASE ready' = ready + 1 /\ cs[c].pc = "announce" /\ k.pc = "wait"
    <3>1. c \notin Past BY <2>2 DEF Past
    <3>2. Past' = Past \cup {c}
      <4>1. \A d \in K : d \in Past' <=> d \in Past \/ d = c
        BY <1>2, <1>5, <2>2 DEF Past
      <4>2. Past' \in SUBSET K BY <1>2 DEF Past
      <4> QED BY <1>3, <4>1, <4>2
    <3>3. Cardinality(Past') = Cardinality(Past) + 1
      BY <1>3, <3>1, <3>2, FS_AddElement
    <3>4. drv = "wait" BY <1>1, <3>1 DEF BarrierInv
    <3> QED BY <1>1, <1>2, <2>2, <3>3, <3>4 DEF BarrierInv
  <2> QED BY <2>1, <2>2
<1>8. BaseInv'
  <2>1. \A d \in K : cs'[d].pc = "base" => view'[d].cur[BaseLoc] >= 2
    <3> SUFFICES ASSUME NEW d \in K, cs'[d].pc = "base"
                 PROVE  view'[d].cur[BaseLoc] >= 2
      OBVIOUS
    <3>1. CASE d = c BY <1>5, <3>1
    <3>2. CASE d # c
      <4>1. view'[d] = view[d] /\ cs[d].pc = "base" BY <1>3, <1>5, <3>2
      <4> QED BY <1>1, <4>1 DEF BaseInv
    <3> QED BY <3>1, <3>2
  <2> QED BY <1>1, <1>2, <2>1 DEF BaseInv
<1>9. ASSUME NEW d \in K PROVE DrainInv(cs'[d], co'[d], ec'[d])
  <2>1. CASE d = c BY <1>5, <2>1
  <2>2. CASE d # c
    <3>1. cs'[d] = cs[d] /\ co'[d] = co[d] /\ ec'[d] = ec[d] BY <1>3, <1>5, <2>2
    <3> QED BY <3>1 DEF CellInv
  <2> QED BY <2>1, <2>2
<1> QED BY <1>2, <1>6, <1>7, <1>8, <1>9 DEF CellInv

\* A step of none of the engine's threads.
LEMMA EngineStays == IInv /\ UNCHANGED vars => IInv'
BY StepInv

\* A flag that a consumer acquires.
LEMMA AcquiredInv ==
  ASSUME IInv, NEW c \in Consumers, NEW l \in OtherLoc, NEW i, Acquired(c, l, i)
  PROVE  /\ IInv' /\ i \in 1..Len(mem[l]) /\ i >= view[c].cur[l]
         /\ RP!Forward(mem[l][i].view, view'[c].cur)
         /\ \A d \in Consumers \ {c} : view'[d] = view[d]
         /\ UNCHANGED <<mem, fenced, wr, rd, pr, co, ep, ec, args, ready, drv, cell>>
<1>1. /\ i \in RP!Visible(mem, view[c], l)
      /\ view' = [view EXCEPT ![c] = RP!LoadAcquire(mem, view[c], l, i)]
      /\ UNCHANGED <<mem, fenced, wr, rd, pr, co, ep, ec, args, ready, drv, cell>>
  BY DEF Acquired, Ring!Visible, RP!Visible, Ring!LoadAcquire, RP!LoadAcquire,
         Ring!JoinViews, RP!JoinViews
<1>2. IInv' BY <1>1, OtherLoad
<1>3. mem \in RP!Memory /\ view \in [Consumers -> RP!Thread] /\ l \in Loc
  BY Facts DEF RP!Writable, OtherLoc
<1>4. view[c] \in RP!Thread BY <1>3
<1>5. /\ i \in 1..Len(mem[l]) /\ i >= view[c].cur[l]
      /\ RP!Forward(mem[l][i].view, RP!LoadAcquire(mem, view[c], l, i).cur)
  BY <1>1, <1>3, <1>4, RP!Loaded
<1> QED BY <1>1, <1>2, <1>3, <1>5

\* run_consumer: a poll of the warm-up finds the ring empty (e2e.rs:217-220).
LEMMA WarmupInv == ASSUME CellInv, NEW c \in K, Warmup(c) PROVE CellInv'
<1>1. /\ IInv /\ ThreadTypes /\ BarrierInv /\ DrainInv(cs[c], co[c], ec[c])
  BY DEF CellInv
<1>2. /\ c \in Consumers /\ cs[c] \in ConsumerThread /\ cs[c].pc = "warmup" /\ PollStep(c)
      /\ cs \in [K -> ConsumerThread] /\ ec \in [Consumers -> EngineConsumer]
      /\ UNCHANGED <<args, ready, drv, cell>>
  BY <1>1, Members DEF ThreadTypes, Warmup
<1>3. /\ IInv' /\ UNCHANGED <<mem, fenced, pr, ep>>
      /\ ec' \in [Consumers -> EngineConsumer]
      /\ Polled(co[c], ec[c], co'[c], ec'[c])
      /\ \A d \in Consumers \ {c} :
           co'[d] = co[d] /\ ec'[d] = ec[d] /\ view'[d] = view[d]
  BY <1>1, <1>2, PollMoves
<1>4. RP!Pub = 0
  <2>1. c \notin Past BY <1>2 DEF Past
  <2>2. drv = "wait" BY <1>1, <2>1 DEF BarrierInv
  <2>3. ep = [pc |-> "idle", stamp |-> 0] BY <1>1, <2>2 DEF BarrierInv
  <2> QED BY <1>1, <2>3 DEF IInv, PipelineInv
<1>5. /\ co[c].pc = "idle" /\ co[c].cursor = 0 /\ ec[c].pc = "poll"
      /\ cs[c].tally = NoTally /\ cs[c].warm < WarmupPolls
      /\ cs[c].tally.deliveries = ec[c].seen
  BY <1>1, <1>2 DEF DrainInv
<1>6. /\ co'[c].pc = "idle" /\ co'[c].out.kind = "empty" /\ co'[c].cursor = 0
      /\ ec'[c].pc = "poll" /\ ec'[c].seen = ec[c].seen
  BY <1>3, <1>4, <1>5 DEF Polled, RP!Moved
<1> DEFINE warm == cs[c].warm + 1
           p == IF warm = WarmupPolls THEN "announce" ELSE cs[c].pc
           k == [cs[c] EXCEPT !.warm = warm, !.pc = p]
<1>7. cs' = [cs EXCEPT ![c] = k]
  <2>1. Returned(c) BY <1>6 DEF Returned
  <2>2. cs' = [cs EXCEPT ![c].warm = warm, ![c].pc = p] BY <2>1 DEF Warmup
  <2> HIDE DEF warm, p
  <2> QED BY <1>2, <2>2
<1>8. /\ warm \in 0 .. WarmupPolls /\ p \in {"warmup", "announce"}
      /\ p = "warmup" => warm < WarmupPolls
  BY <1>2, <1>5, EndToEndAssumption DEF ConsumerThread
<1> HIDE DEF warm, p
<1>9. /\ k \in ConsumerThread /\ k.pc = p /\ k.warm = warm /\ k.tally = cs[c].tally
  BY <1>2, <1>8 DEF ConsumerThread
<1> HIDE DEF k
<1>10. DrainInv(k, co'[c], ec'[c])
  BY <1>5, <1>6, <1>8, <1>9 DEF DrainInv
<1>11. p # "base" BY <1>8
<1> QED BY <1>2, <1>3, <1>7, <1>8, <1>9, <1>10, <1>11, OneConsumer

\* It reports ready (e2e.rs:222).
LEMMA AnnounceInv == ASSUME CellInv, NEW c \in K, Announce(c) PROVE CellInv'
<1>1. /\ IInv /\ ThreadTypes /\ DrainInv(cs[c], co[c], ec[c]) BY DEF CellInv
<1>2. /\ cs[c] \in ConsumerThread /\ cs[c].pc = "announce"
      /\ cs \in [K -> ConsumerThread] /\ ec \in [Consumers -> EngineConsumer]
      /\ UNCHANGED <<vars, args, drv, cell>> /\ ready' = ready + 1
      /\ cs' = [cs EXCEPT ![c].pc = "wait"]
  BY <1>1 DEF ThreadTypes, Announce
<1>3. IInv' BY <1>1, <1>2, EngineStays
<1> DEFINE k == [cs[c] EXCEPT !.pc = "wait"]
<1>4. cs' = [cs EXCEPT ![c] = k] BY <1>2
<1>5. k \in ConsumerThread /\ k.pc = "wait" /\ k.tally = cs[c].tally
  BY <1>2 DEF ConsumerThread
<1> HIDE DEF k
<1>6. UNCHANGED <<mem, view, co, ec, ep>> BY <1>2 DEF vars
<1>7. DrainInv(k, co'[c], ec'[c]) BY <1>1, <1>2, <1>5, <1>6 DEF DrainInv
<1> QED BY <1>2, <1>3, <1>4, <1>5, <1>6, <1>7, OneConsumer

\* It waits for started, and then has the base (e2e.rs:223-225).
LEMMA AwaitStartInv == ASSUME CellInv, NEW c \in K, AwaitStart(c) PROVE CellInv'
<1>1. /\ IInv /\ ThreadTypes /\ BaseInv /\ DrainInv(cs[c], co[c], ec[c]) BY DEF CellInv
<1>2. PICK i \in DOMAIN mem[StartedLoc] :
        /\ Acquired(c, StartedLoc, i)
        /\ cs' = [cs EXCEPT ![c].pc = IF mem[StartedLoc][i].val = 1 THEN "base" ELSE @]
  BY DEF AwaitStart
<1>3. /\ c \in Consumers /\ cs[c] \in ConsumerThread /\ cs[c].pc = "wait"
      /\ cs \in [K -> ConsumerThread] /\ ec \in [Consumers -> EngineConsumer]
  BY <1>1, Members DEF ThreadTypes, AwaitStart
<1>4. /\ IInv' /\ i \in 1..Len(mem[StartedLoc])
      /\ RP!Forward(mem[StartedLoc][i].view, view'[c].cur)
      /\ \A d \in Consumers \ {c} : view'[d] = view[d]
      /\ UNCHANGED <<mem, co, ep, ec, args, ready, drv, cell>>
  BY <1>1, <1>2, <1>3, Flags, AcquiredInv
<1> DEFINE p == IF mem[StartedLoc][i].val = 1 THEN "base" ELSE cs[c].pc
           k == [cs[c] EXCEPT !.pc = p]
<1>5. cs' = [cs EXCEPT ![c] = k] BY <1>2, <1>3
<1>6. p \in {"wait", "base"} BY <1>3
<1>7. p = "base" => view'[c].cur[BaseLoc] >= 2
  <2> SUFFICES ASSUME p = "base" PROVE view'[c].cur[BaseLoc] >= 2 OBVIOUS
  <2>1. mem[StartedLoc][i].val = 1 BY <1>3
  <2>2. mem[StartedLoc][i].view[BaseLoc] >= 2 BY <1>1, <1>4, <2>1 DEF BaseInv
  <2>3. view'[c].cur[BaseLoc] >= mem[StartedLoc][i].view[BaseLoc]
    BY <1>4, Flags DEF RP!Forward
  <2>4. view'[c].cur[BaseLoc] \in Nat
    <3>1. view' \in [Consumers -> RP!Thread] BY <1>4 DEF IInv, RP!IInv, RP!TypeOK
    <3> QED BY <1>3, <3>1, Flags DEF RP!Thread, RP!View
  <2>5. mem[StartedLoc][i].view[BaseLoc] \in Nat
    <3>1. mem \in RP!Memory BY <1>1, Facts DEF RP!Writable
    <3>2. mem[StartedLoc][i].view \in RP!View BY <1>4, <3>1, Flags, RP!MessageType
    <3> QED BY <3>2, Flags DEF RP!View
  <2> QED BY <2>2, <2>3, <2>4, <2>5
<1> HIDE DEF p
<1>8. k \in ConsumerThread /\ k.pc = p /\ k.tally = cs[c].tally
  BY <1>3, <1>6 DEF ConsumerThread
<1> HIDE DEF k
<1>9. DrainInv(k, co'[c], ec'[c]) BY <1>1, <1>3, <1>4, <1>6, <1>8 DEF DrainInv
<1> QED BY <1>3, <1>4, <1>5, <1>6, <1>7, <1>8, <1>9, OneConsumer

\* It loads the base the producer published (e2e.rs:226).
LEMMA LoadBaseInv == ASSUME CellInv, NEW c \in K, LoadBase(c) PROVE CellInv'
<1>1. /\ IInv /\ ThreadTypes /\ BaseInv /\ DrainInv(cs[c], co[c], ec[c]) BY DEF CellInv
<1>2. PICK i \in DOMAIN mem[BaseLoc] :
        /\ Acquired(c, BaseLoc, i)
        /\ cs' = [cs EXCEPT ![c].pc = "drain", ![c].base = mem[BaseLoc][i].val]
  BY DEF LoadBase
<1>3. /\ c \in Consumers /\ cs[c] \in ConsumerThread /\ cs[c].pc = "base"
      /\ cs \in [K -> ConsumerThread] /\ ec \in [Consumers -> EngineConsumer]
  BY <1>1, Members DEF ThreadTypes, LoadBase
<1>4. /\ IInv' /\ i \in 1..Len(mem[BaseLoc]) /\ i >= view[c].cur[BaseLoc]
      /\ \A d \in Consumers \ {c} : view'[d] = view[d]
      /\ UNCHANGED <<mem, co, ep, ec, args, ready, drv, cell>>
  BY <1>1, <1>2, <1>3, Flags, AcquiredInv
<1>5. mem[BaseLoc][i].val = ClockBase
  <2>1. view[c].cur[BaseLoc] \in Nat
    <3>1. view \in [Consumers -> RP!Thread] BY <1>1, Facts
    <3> QED BY <1>3, <3>1, Flags DEF RP!Thread, RP!View
  <2>2. view[c].cur[BaseLoc] >= 2 BY <1>1, <1>3 DEF BaseInv
  <2>3. i \in 2..Len(mem[BaseLoc])
    <3>1. i \in Nat /\ i <= Len(mem[BaseLoc]) BY <1>4
    <3> QED BY <1>4, <2>1, <2>2
  <2> QED BY <1>1, <2>3 DEF BaseInv
<1> DEFINE k == [cs[c] EXCEPT !.pc = "drain", !.base = ClockBase]
<1>6. cs' = [cs EXCEPT ![c] = k] BY <1>2, <1>3, <1>5
<1>7. /\ k \in ConsumerThread /\ k.pc = "drain" /\ k.tally = cs[c].tally
      /\ k.base = ClockBase
  BY <1>3 DEF ConsumerThread
<1> HIDE DEF k
<1>8. DrainInv(k, co'[c], ec'[c]) BY <1>1, <1>3, <1>4, <1>7 DEF DrainInv
<1> QED BY <1>3, <1>4, <1>6, <1>7, <1>8, OneConsumer

\* A step of poll takes the engine's consumer from e to f and the ring's to i:
\* the tally t after it, of the tally u before.
Counts(t, u, e, i, f) ==
  /\ t \in Tally
  /\ t.deliveries = u.deliveries + (f.seen - e.seen)
  /\ t.skipped = u.skipped +
       (IF e.pc # "poll" /\ f.pc = "poll" THEN i.out.skipped ELSE 0)

\* The tally follows the outcomes.
LEMMA TallyCounts ==
  ASSUME NEW u \in Tally, NEW j, NEW e \in EngineConsumer, NEW f \in EngineConsumer,
         NEW i \in RP!ConsumerState, Polled(j, e, i, f),
         e.pc # "poll" => j.pc = "idle" /\ j.out.kind = "overrun"
  PROVE  Counts(IF f.pc = "poll" /\ i.pc = "idle" THEN Tallied(u, i.out) ELSE u,
                u, e, i, f)
<1> DEFINE t == IF f.pc = "poll" /\ i.pc = "idle" THEN Tallied(u, i.out) ELSE u
<1>1. /\ u.deliveries \in Nat /\ u.overruns \in 0 .. MaxResyncs /\ u.skipped \in Nat
      /\ e.seen \in Nat /\ f.seen \in Nat /\ i.out.skipped \in Nat
      /\ MaxResyncs \in Nat
  BY EngineAssumption DEF Tally, EngineConsumer, RP!ConsumerState, RP!Outcome
<1>2. CASE e.pc = "poll"
  <2>1. /\ RP!Moved(RP!Pub, j, i)
        /\ f.pc = IF i.pc = "idle" /\ i.out.kind = "overrun" THEN "rebase" ELSE "poll"
        /\ f.seen = IF i.pc = "idle" /\ i.out.kind = "item" THEN e.seen + 1 ELSE e.seen
    BY <1>2 DEF Polled
  <2>2. CASE i.pc # "idle"
    <3>1. t = u /\ f.seen = e.seen BY <2>1, <2>2
    <3> HIDE DEF t
    <3>2. Counts(t, u, e, i, f) BY <1>1, <1>2, <3>1 DEF Counts
    <3> QED BY <3>2 DEF t
  <2>3. CASE i.pc = "idle" /\ i.out.kind = "overrun"
    <3>1. t = u /\ f.seen = e.seen BY <2>1, <2>3
    <3> HIDE DEF t
    <3>2. Counts(t, u, e, i, f) BY <1>1, <1>2, <3>1 DEF Counts
    <3> QED BY <3>2 DEF t
  <2>4. CASE i.pc = "idle" /\ i.out.kind = "empty"
    <3>1. t = u /\ f.seen = e.seen BY <2>1, <2>4 DEF Tallied
    <3> HIDE DEF t
    <3>2. Counts(t, u, e, i, f) BY <1>1, <1>2, <3>1 DEF Counts
    <3> QED BY <3>2 DEF t
  <2>5. CASE i.pc = "idle" /\ i.out.kind = "item"
    <3>1. t = [u EXCEPT !.deliveries = @ + 1] /\ f.seen = e.seen + 1
      BY <2>1, <2>5 DEF Tallied
    <3> HIDE DEF t
    <3>2. t \in Tally /\ t.deliveries = u.deliveries + 1 /\ t.skipped = u.skipped
      BY <1>1, <3>1 DEF Tally
    <3>3. Counts(t, u, e, i, f) BY <1>1, <1>2, <3>1, <3>2 DEF Counts
    <3> QED BY <3>3 DEF t
  <2> QED BY <2>1, <2>2, <2>3, <2>4, <2>5 DEF RP!Moved
<1>3. CASE e.pc # "poll"
  <2>1. i = j /\ i.pc = "idle" /\ i.out.kind = "overrun" /\ f.seen = e.seen
    BY <1>3 DEF Polled
  <2>2. CASE f.pc # "poll"
    <3>1. t = u BY <2>2
    <3> HIDE DEF t
    <3>2. Counts(t, u, e, i, f) BY <1>1, <2>1, <2>2, <3>1 DEF Counts
    <3> QED BY <3>2 DEF t
  <2>3. CASE f.pc = "poll"
    <3> DEFINE x == IF u.overruns < MaxResyncs THEN u.overruns + 1 ELSE u.overruns
               y == u.skipped + i.out.skipped
    <3>1. t = [u EXCEPT !.overruns = x, !.skipped = y]
      BY <2>1, <2>3 DEF Tallied
    <3>2. x \in 0 .. MaxResyncs /\ y \in Nat BY <1>1
    <3> HIDE DEF t, x, y
    <3>3. /\ t \in Tally /\ t.deliveries = u.deliveries /\ t.skipped = y
      BY <3>1, <3>2 DEF Tally
    <3> USE DEF y
    <3>4. Counts(t, u, e, i, f) BY <1>1, <1>3, <2>1, <2>3, <3>3 DEF Counts
    <3> QED BY <3>4 DEF t
  <2> QED BY <2>2, <2>3
<1> QED BY <1>2, <1>3

\* A poll of the loop, and what it adds to the tally (e2e.rs:229-243).
LEMMA DrainCounts ==
  ASSUME CellInv, NEW c \in K, Drain(c)
  PROVE  /\ CellInv' /\ UNCHANGED <<mem, ep, args, ready, drv, cell>>
         /\ cs'[c].pc \in {"drain", "idle"}
         /\ Polled(co[c], ec[c], co'[c], ec'[c])
         /\ Counts(cs'[c].tally, cs[c].tally, ec[c], co'[c], ec'[c])
         /\ \A d \in K \ {c} : cs'[d] = cs[d] /\ co'[d] = co[d] /\ ec'[d] = ec[d]
<1>1. /\ IInv /\ ThreadTypes /\ DrainInv(cs[c], co[c], ec[c]) BY DEF CellInv
<1>2. /\ c \in Consumers /\ cs[c] \in ConsumerThread /\ cs[c].pc = "drain" /\ PollStep(c)
      /\ cs \in [K -> ConsumerThread] /\ ec \in [Consumers -> EngineConsumer]
      /\ K \in SUBSET Consumers /\ UNCHANGED <<args, ready, drv, cell>>
  BY <1>1, Members DEF ThreadTypes, Drain
<1>3. /\ IInv' /\ UNCHANGED <<mem, fenced, pr, ep>>
      /\ ec' \in [Consumers -> EngineConsumer]
      /\ Polled(co[c], ec[c], co'[c], ec'[c])
      /\ \A d \in Consumers \ {c} :
           co'[d] = co[d] /\ ec'[d] = ec[d] /\ view'[d] = view[d]
  BY <1>1, <1>2, PollMoves
<1> DEFINE r == ec'[c].pc = "poll" /\ co'[c].pc = "idle"
           t == IF r THEN Tallied(cs[c].tally, co'[c].out) ELSE cs[c].tally
           p == IF r /\ co'[c].out.kind = "empty" THEN "idle" ELSE "drain"
           k == [cs[c] EXCEPT !.tally = t, !.pc = p]
<1>4. /\ ec[c] \in EngineConsumer /\ ec'[c] \in EngineConsumer
      /\ cs[c].tally \in Tally /\ co'[c] \in RP!ConsumerState
  <2>1. co' \in [Consumers -> RP!ConsumerState] BY <1>3, RP!NextTypes DEF IInv, RP!IInv
  <2> QED BY <1>2, <1>3, <2>1 DEF ConsumerThread
<1>5. Counts(t, cs[c].tally, ec[c], co'[c], ec'[c])
  <2>1. ec[c].pc # "poll" => co[c].pc = "idle" /\ co[c].out.kind = "overrun"
    BY <1>1 DEF DrainInv
  <2> QED BY <1>3, <1>4, <2>1, TallyCounts
<1>6. cs' = [cs EXCEPT ![c] = k]
  <2>1. r <=> Returned(c) BY DEF Returned
  <2>2. CASE r
    <3>1. cs' = [cs EXCEPT ![c].tally = Tallied(cs[c].tally, co'[c].out),
                           ![c].pc = IF co'[c].out.kind = "empty" THEN "idle" ELSE cs[c].pc]
      BY <2>1, <2>2 DEF Drain
    <3>2. t = Tallied(cs[c].tally, co'[c].out)
      BY <2>2
    <3>3. p = IF co'[c].out.kind = "empty" THEN "idle" ELSE cs[c].pc BY <1>2, <2>2
    <3>4. cs' = [cs EXCEPT ![c].tally = t, ![c].pc = p] BY <3>1, <3>2, <3>3
    <3> HIDE DEF t, p, r
    <3> QED BY <1>2, <3>4
  <2>3. CASE ~r
    <3>1. cs' = cs BY <2>1, <2>3 DEF Drain
    <3>2. t = cs[c].tally /\ p = cs[c].pc BY <1>2, <2>3
    <3> HIDE DEF t, p, r
    <3>3. k = cs[c] BY <1>2, <3>2 DEF ConsumerThread
    <3> QED BY <1>2, <3>1, <3>3
  <2> QED BY <2>2, <2>3
<1>7. /\ p \in {"drain", "idle"}
      /\ p = "idle" => co'[c].pc = "idle" /\ ec'[c].pc = "poll"
  OBVIOUS
<1>8. t \in Tally /\ t.deliveries = cs[c].tally.deliveries + (ec'[c].seen - ec[c].seen)
  BY <1>5 DEF Counts
<1> HIDE DEF r, t, p
<1>9. /\ k \in ConsumerThread /\ k.pc = p /\ k.tally = t /\ k.base = cs[c].base
  BY <1>2, <1>7, <1>8 DEF ConsumerThread
<1> HIDE DEF k
<1>10. DrainInv(k, co'[c], ec'[c])
  <2>1. /\ cs[c].base = ClockBase /\ co[c].pc # "absent"
        /\ ec[c].pc # "poll" => co[c].pc = "idle" /\ co[c].out.kind = "overrun"
        /\ cs[c].tally.deliveries = ec[c].seen
    BY <1>1, <1>2 DEF DrainInv
  <2>2. /\ co'[c].pc # "absent"
        /\ ec'[c].pc # "poll" => co'[c].pc = "idle" /\ co'[c].out.kind = "overrun"
    BY <1>3, <2>1 DEF Polled, RP!Moved
  <2>3. t.deliveries = ec'[c].seen BY <1>4, <1>8, <2>1 DEF EngineConsumer
  <2> QED BY <1>7, <1>9, <2>1, <2>2, <2>3 DEF DrainInv
<1>11. k.pc # "base" BY <1>7, <1>9
<1>12. k.pc \in {"warmup", "announce"} <=> cs[c].pc \in {"warmup", "announce"}
  BY <1>2, <1>7, <1>9
<1>13. CellInv'
  BY <1>2, <1>3, <1>6, <1>9, <1>10, <1>11, <1>12, OneConsumer
<1>14. cs'[c] = k /\ \A d \in K \ {c} : cs'[d] = cs[d] BY <1>2, <1>6
<1> QED BY <1>2, <1>3, <1>5, <1>7, <1>9, <1>13, <1>14

\* Idle, it drains on or stops (e2e.rs:244-248).
LEMMA CheckDoneInv ==
  ASSUME CellInv, NEW c \in K, CheckDone(c)
  PROVE  /\ CellInv' /\ UNCHANGED <<mem, co, ec, ep, args, ready, drv, cell>>
         /\ cs'[c].tally = cs[c].tally
         /\ cs'[c].pc = "exited" => co[c].cursor >= n
         /\ \A d \in K \ {c} : cs'[d] = cs[d]
<1>1. /\ IInv /\ ThreadTypes /\ DrainInv(cs[c], co[c], ec[c]) BY DEF CellInv
<1>2. PICK i \in DOMAIN mem[DoneLoc] :
        /\ Acquired(c, DoneLoc, i)
        /\ cs' = [cs EXCEPT ![c].pc =
                    IF Over(mem[DoneLoc][i].val, c) THEN "exited" ELSE "drain"]
  BY DEF CheckDone
<1>3. /\ c \in Consumers /\ cs[c] \in ConsumerThread /\ cs[c].pc = "idle"
      /\ cs \in [K -> ConsumerThread] /\ ec \in [Consumers -> EngineConsumer]
  BY <1>1, Members DEF ThreadTypes, CheckDone
<1>4. /\ IInv' /\ \A d \in Consumers \ {c} : view'[d] = view[d]
      /\ UNCHANGED <<mem, co, ep, ec, args, ready, drv, cell>>
  BY <1>1, <1>2, <1>3, Flags, AcquiredInv
<1> DEFINE p == IF Over(mem[DoneLoc][i].val, c) THEN "exited" ELSE "drain"
           k == [cs[c] EXCEPT !.pc = p]
<1>5. cs' = [cs EXCEPT ![c] = k] BY <1>2, <1>3
<1>6. p \in {"exited", "drain"} /\ (p = "exited" => co[c].cursor >= n) BY DEF Over
<1> HIDE DEF p
<1>7. k \in ConsumerThread /\ k.pc = p /\ k.tally = cs[c].tally /\ k.base = cs[c].base
  BY <1>3, <1>6 DEF ConsumerThread
<1> HIDE DEF k
<1>8. DrainInv(k, co'[c], ec'[c]) BY <1>1, <1>3, <1>4, <1>6, <1>7 DEF DrainInv
<1>9. k.pc # "base" /\ k.pc \notin {"warmup", "announce"} BY <1>6, <1>7
<1>10. CellInv' BY <1>3, <1>4, <1>5, <1>7, <1>8, <1>9, OneConsumer
<1>11. cs'[c] = k /\ \A d \in K \ {c} : cs'[d] = cs[d] BY <1>3, <1>5
<1> QED BY <1>4, <1>6, <1>7, <1>10, <1>11

\* The producer's thread leaves the consumers as they are.
LEMMA ProducerStays ==
  ASSUME CellInv, UNCHANGED <<args, ready, cs, co, ec, view>>, IInv',
         drv' \in {"wait", "base", "started", "run", "exited"}
  PROVE  /\ ThreadTypes' /\ K' = K /\ n' = n /\ Past' = Past
         /\ BarrierInv' /\ BaseInv' => CellInv'
<1>1. K' = K /\ n' = n BY DEF K, n
<1>2. ThreadTypes' BY <1>1 DEF CellInv, ThreadTypes
<1>3. Past' = Past BY <1>1 DEF Past
<1>4. \A c \in K : DrainInv(cs'[c], co'[c], ec'[c]) BY DEF CellInv
<1> QED BY <1>1, <1>2, <1>3, <1>4 DEF CellInv

\* The barrier opens on ready, which counts every consumer (e2e.rs:277-282).
LEMMA WaitReadyInv == ASSUME CellInv, WaitReady PROVE CellInv'
<1>1. IInv /\ ThreadTypes /\ BarrierInv /\ BaseInv BY DEF CellInv
<1>2. /\ drv = "wait" /\ drv' = "base" /\ ready >= Cardinality(K)
      /\ UNCHANGED <<vars, args, ready, cs>>
  BY DEF WaitReady
<1>3. UNCHANGED <<mem, view, co, ec, ep>> BY <1>2 DEF vars
<1>4. IInv' BY <1>1, <1>2, EngineStays
<1>5. Past = K
  <2>1. /\ Past \in SUBSET K /\ IsFiniteSet(K) /\ Cardinality(K) \in Nat
    BY <1>1, Members
  <2>2. Cardinality(Past) >= Cardinality(K) BY <1>1, <1>2 DEF BarrierInv
  <2>3. Cardinality(Past) <= Cardinality(K) /\ (Cardinality(Past) = Cardinality(K) => Past = K)
    BY <2>1, FS_Subset
  <2>4. Cardinality(Past) \in Nat BY <2>1, FS_Subset, FS_CardinalityType
  <2> HIDE DEF Past, K
  <2> QED BY <2>1, <2>2, <2>3, <2>4
<1>6. /\ K' = K /\ n' = n /\ Past' = Past /\ (BarrierInv' /\ BaseInv' => CellInv')
  BY <1>2, <1>3, <1>4, ProducerStays
<1>7. BarrierInv' BY <1>1, <1>2, <1>3, <1>5, <1>6 DEF BarrierInv
<1>8. BaseInv' BY <1>1, <1>2, <1>3, <1>6 DEF BaseInv
<1> QED BY <1>6, <1>7, <1>8

\* A flag the producer's thread stores: it carries all stored before.
LEMMA Raised ==
  ASSUME IInv, NEW l \in OtherLoc, NEW x \in Nat, Raise(l, x)
  PROVE  /\ IInv' /\ UNCHANGED <<fenced, view, wr, rd, pr, co, ep, ec, args, ready, cs, cell>>
         /\ \A k \in Loc \ {l} : mem'[k] = mem[k]
         /\ \A k \in Loc : Len(mem[k]) \in Nat /\ Len(mem[k]) >= 1
         /\ Len(mem'[l]) = Len(mem[l]) + 1
         /\ \A i \in 1..Len(mem[l]) : mem'[l][i] = mem[l][i]
         /\ mem'[l][Len(mem[l]) + 1].val = x
         /\ \A k \in Loc \ {l} : mem'[l][Len(mem[l]) + 1].view[k] = Len(mem[k])
<1>1. /\ mem' = RP!Put(mem, l, x, RP!Stored(mem))
      /\ UNCHANGED <<fenced, view, wr, rd, pr, co, ep, ec, args, ready, cs, cell>>
  BY DEF Raise, Ring!StoreRelease, Ring!Put, RP!Put, Ring!Stored, RP!Stored
<1>2. mem' = RP!StoreRelease(mem, l, x) BY <1>1 DEF RP!StoreRelease
<1>3. IInv' BY <1>1, <1>2, OtherStore
<1>4. /\ mem \in RP!Memory /\ RP!Stored(mem) \in RP!View /\ l \in Loc
      /\ \A k \in Loc : Len(mem[k]) \in Nat /\ Len(mem[k]) >= 1
  BY RP!Facts DEF IInv, OtherLoc
<1>5. /\ \A k \in Loc \ {l} : mem'[k] = mem[k]
      /\ Len(mem'[l]) = Len(mem[l]) + 1
      /\ \A i \in 1..Len(mem[l]) : mem'[l][i] = mem[l][i]
      /\ mem'[l][Len(mem[l]) + 1].val = x
      /\ mem'[l][Len(mem[l]) + 1].view = [RP!Stored(mem) EXCEPT ![l] = Len(mem[l]) + 1]
  BY <1>1, <1>4, RP!PutMessage
<1>6. \A k \in Loc \ {l} : mem'[l][Len(mem[l]) + 1].view[k] = Len(mem[k])
  BY <1>5 DEF RP!Stored
<1> QED BY <1>1, <1>3, <1>4, <1>5, <1>6

\* The base is stored before started (e2e.rs:284-287).
LEMMA StartInv == ASSUME CellInv, Start PROVE CellInv'
<1>1. IInv /\ ThreadTypes /\ BarrierInv /\ BaseInv BY DEF CellInv
<1>2. CASE drv = "base" /\ drv' = "started" /\ Raise(BaseLoc, ClockBase)
  <2>0. ClockBase \in Nat BY DEF ClockBase
  <2>1. /\ IInv' /\ UNCHANGED <<view, co, ep, ec, args, ready, cs>>
        /\ mem'[StartedLoc] = mem[StartedLoc]
        /\ Len(mem[BaseLoc]) \in Nat /\ Len(mem[BaseLoc]) >= 1
        /\ Len(mem'[BaseLoc]) = Len(mem[BaseLoc]) + 1
        /\ \A i \in 1..Len(mem[BaseLoc]) : mem'[BaseLoc][i] = mem[BaseLoc][i]
        /\ mem'[BaseLoc][Len(mem[BaseLoc]) + 1].val = ClockBase
    BY <1>1, <1>2, <2>0, Flags, Raised
  <2>2. /\ K' = K /\ n' = n /\ Past' = Past /\ (BarrierInv' /\ BaseInv' => CellInv')
    BY <1>2, <2>1, ProducerStays
  <2>3. BarrierInv' BY <1>1, <1>2, <2>1, <2>2 DEF BarrierInv
  <2>4. \A i \in 2..Len(mem'[BaseLoc]) : mem'[BaseLoc][i].val = ClockBase
    <3> SUFFICES ASSUME NEW i \in 2..Len(mem'[BaseLoc])
                 PROVE  mem'[BaseLoc][i].val = ClockBase
      OBVIOUS
    <3>1. i = Len(mem[BaseLoc]) + 1 \/ i \in 2..Len(mem[BaseLoc]) BY <2>1
    <3>2. i \in 2..Len(mem[BaseLoc]) => i \in 1..Len(mem[BaseLoc]) BY <2>1
    <3> QED BY <1>1, <2>1, <3>1, <3>2 DEF BaseInv
  <2>5. BaseInv' BY <1>1, <1>2, <2>1, <2>2, <2>4 DEF BaseInv
  <2> QED BY <2>2, <2>3, <2>5
<1>3. CASE drv = "started" /\ drv' = "run" /\ Raise(StartedLoc, 1)
  <2>1. /\ IInv' /\ UNCHANGED <<view, co, ep, ec, args, ready, cs>>
        /\ mem'[BaseLoc] = mem[BaseLoc]
        /\ Len(mem[StartedLoc]) \in Nat
        /\ Len(mem'[StartedLoc]) = Len(mem[StartedLoc]) + 1
        /\ \A i \in 1..Len(mem[StartedLoc]) : mem'[StartedLoc][i] = mem[StartedLoc][i]
        /\ mem'[StartedLoc][Len(mem[StartedLoc]) + 1].view[BaseLoc] = Len(mem[BaseLoc])
    BY <1>1, <1>3, Flags, Raised
  <2>2. /\ K' = K /\ n' = n /\ Past' = Past /\ (BarrierInv' /\ BaseInv' => CellInv')
    BY <1>3, <2>1, ProducerStays
  <2>3. BarrierInv' BY <1>1, <1>3, <2>1, <2>2 DEF BarrierInv
  <2>4. \A i \in 1..Len(mem'[StartedLoc]) :
          mem'[StartedLoc][i].val = 1 => mem'[StartedLoc][i].view[BaseLoc] >= 2
    <3> SUFFICES ASSUME NEW i \in 1..Len(mem'[StartedLoc]), mem'[StartedLoc][i].val = 1
                 PROVE  mem'[StartedLoc][i].view[BaseLoc] >= 2
      OBVIOUS
    <3>1. i = Len(mem[StartedLoc]) + 1 \/ i \in 1..Len(mem[StartedLoc]) BY <2>1
    <3> QED BY <1>1, <1>3, <2>1, <3>1 DEF BaseInv
  <2>5. BaseInv' BY <1>1, <1>3, <2>1, <2>2, <2>4 DEF BaseInv
  <2> QED BY <2>2, <2>3, <2>5
<1> QED BY <1>2, <1>3 DEF Start

\* The paced loop runs the engine's process on the next event, up to the last.
LEMMA ProduceInv ==
  ASSUME CellInv, Produce
  PROVE  CellInv' /\ UNCHANGED <<args, ready, cs, cell, co, ec>>
<1>1. IInv /\ ThreadTypes /\ BarrierInv /\ BaseInv BY DEF CellInv
<1>2. /\ drv = "run" /\ UNCHANGED <<args, ready, drv, cs, cell>> /\ Process
      /\ Apply => ep.stamp < n
  <2>1. /\ drv = "run" /\ UNCHANGED cellVars
        /\ (ep.stamp < n /\ Apply) \/ StoreTop \/ PushEvent
    BY DEF Produce
  <2>2. ~(Apply /\ (StoreTop \/ PushEvent)) BY DEF Apply, StoreTop, PushEvent
  <2> QED BY <2>1, <2>2 DEF cellVars, Process
<1>3. IInv'
  <2>1. Next BY <1>2 DEF Next
  <2> QED BY <1>1, <2>1, StepInv
<1>4. /\ mem'[BaseLoc] = mem[BaseLoc] /\ mem'[StartedLoc] = mem[StartedLoc]
      /\ UNCHANGED <<view, co, ec>> /\ (~Apply => ep'.stamp = ep.stamp)
  BY <1>1, <1>2, ProcessKeeps, Flags
<1>5. /\ K' = K /\ n' = n /\ Past' = Past /\ (BarrierInv' /\ BaseInv' => CellInv')
  BY <1>1, <1>2, <1>3, <1>4, ProducerStays DEF ThreadTypes
<1>6. ep'.stamp <= n
  <2>1. CASE Apply
    <3>1. ep'.stamp = ep.stamp + 1 BY <2>1 DEF Apply
    <3>2. ep.stamp \in Nat /\ n \in Nat BY <1>1, Facts, Members
    <3> QED BY <1>2, <2>1, <3>1, <3>2
  <2>2. CASE ~Apply BY <1>1, <1>4, <2>2 DEF BarrierInv
  <2> QED BY <2>1, <2>2
<1>7. BarrierInv' BY <1>1, <1>2, <1>5, <1>6 DEF BarrierInv
<1>8. BaseInv' BY <1>1, <1>2, <1>4, <1>5 DEF BaseInv
<1> QED BY <1>2, <1>4, <1>5, <1>7, <1>8

\* After the last event it sets done (e2e.rs:301).
LEMMA FinishInv ==
  ASSUME CellInv, Finish
  PROVE  CellInv' /\ UNCHANGED <<args, ready, cs, cell, co, ec, ep>>
<1>1. IInv /\ ThreadTypes /\ BarrierInv /\ BaseInv BY DEF CellInv
<1>2. drv = "run" /\ drv' = "exited" /\ Raise(DoneLoc, 1) BY DEF Finish
<1>3. /\ IInv' /\ UNCHANGED <<view, co, ep, ec, args, ready, cs, cell>>
      /\ mem'[BaseLoc] = mem[BaseLoc] /\ mem'[StartedLoc] = mem[StartedLoc]
  BY <1>1, <1>2, Flags, Raised
<1>4. /\ K' = K /\ n' = n /\ Past' = Past /\ (BarrierInv' /\ BaseInv' => CellInv')
  BY <1>2, <1>3, ProducerStays
<1>5. BarrierInv' BY <1>1, <1>2, <1>3, <1>4 DEF BarrierInv
<1>6. BaseInv' BY <1>1, <1>2, <1>3, <1>4 DEF BaseInv
<1> QED BY <1>3, <1>4, <1>5, <1>6

\* The main thread joins, and reports, outside all that (e2e.rs:353-376).
LEMMA JoinInv ==
  ASSUME CellInv, UNCHANGED <<vars, args, ready, drv, cs>>
  PROVE  CellInv'
<1>1. IInv /\ ThreadTypes /\ BarrierInv /\ BaseInv BY DEF CellInv
<1>2. UNCHANGED <<mem, view, co, ec, ep>> BY DEF vars
<1>3. IInv' BY <1>1, EngineStays
<1>4. /\ K' = K /\ n' = n /\ Past' = Past /\ (BarrierInv' /\ BaseInv' => CellInv')
  BY <1>1, <1>2, <1>3, ProducerStays DEF ThreadTypes
<1>5. BarrierInv' BY <1>1, <1>2, <1>4 DEF BarrierInv
<1>6. BaseInv' BY <1>1, <1>2, <1>4 DEF BaseInv
<1> QED BY <1>4, <1>5, <1>6

\* Every step of the cell.
LEMMA CellStepInv == CellInv /\ [CellNext]_e2eVars => CellInv'
<1> SUFFICES ASSUME CellInv, [CellNext]_e2eVars PROVE CellInv' OBVIOUS
<1>1. CASE Producing
  BY <1>1, WaitReadyInv, StartInv, ProduceInv, FinishInv DEF Producing
<1>2. ASSUME NEW c \in K, Consuming(c) PROVE CellInv'
  BY <1>2, WarmupInv, AnnounceInv, AwaitStartInv, LoadBaseInv, DrainCounts, CheckDoneInv
  DEF Consuming
<1>3. CASE Join \/ Report \/ UNCHANGED e2eVars
  BY <1>3, JoinInv DEF Join, Report, e2eVars, cellVars
<1> QED BY <1>1, <1>2, <1>3 DEF CellNext

\* The cell starts on an empty ring, its consumers minted (e2e.rs:321-338).
LEMMA CellStartInv ==
  ASSUME NEW a \in Cells \cup {NoCell}, CellStart(a)
  PROVE  CellInv /\ AccountInv
<1>1. /\ args = a /\ a \in [K : SUBSET Consumers, n : 0 .. MaxEvents]
      /\ K \in SUBSET Consumers /\ n \in Nat
  BY EndToEndAssumption, RP!Bounds DEF NoCell, CellStart, K, n
<1>2. /\ Created /\ ready = 0 /\ drv = IF a = NoCell THEN "exited" ELSE "wait"
      /\ cs = [c \in K |->
                 [pc |-> "warmup", warm |-> 0, base |-> 0, tally |-> NoTally]]
      /\ cell = [joined |-> {}, tally |-> NoTally]
  BY DEF CellStart
<1> DEFINE j == [RP!ConsumerInit EXCEPT !.pc = "idle"]
<1>3. co = [c \in Consumers |-> IF c \in K THEN j ELSE RP!ConsumerInit]
  BY DEF CellStart, Ring!ConsumerInit, RP!ConsumerInit, Ring!NoOutcome, RP!NoOutcome
<1>4. ASSUME NEW k \in {j, RP!ConsumerInit}
      PROVE  /\ k \in RP!ConsumerState /\ k.pc \in {"absent", "idle"} /\ k.cursor = 0
             /\ k.start = 0 /\ k.taken = {} /\ k.out = RP!NoOutcome
  <2>1. RP!NoOutcome \in RP!Outcome BY RP!Bounds DEF RP!NoOutcome, RP!Outcome
  <2>2. RP!ConsumerInit \in RP!ConsumerState
    BY <2>1, RP!Bounds DEF RP!ConsumerInit, RP!ConsumerState
  <2>3. j \in RP!ConsumerState BY <2>2 DEF RP!ConsumerState
  <2> DEFINE Starts(x) == /\ x.pc \in {"absent", "idle"} /\ x.cursor = 0 /\ x.start = 0
                          /\ x.taken = {} /\ x.out = RP!NoOutcome
  <2>4. Starts(RP!ConsumerInit) BY DEF RP!ConsumerInit
  <2>5. Starts(j) BY DEF RP!ConsumerInit
  <2>6. k = j \/ k = RP!ConsumerInit OBVIOUS
  <2> HIDE DEF j
  <2>7. k \in RP!ConsumerState /\ Starts(k) BY <2>2, <2>3, <2>4, <2>5, <2>6
  <2> QED BY <2>7
<1>5. j.pc = "idle" BY DEF RP!ConsumerInit
<1> HIDE DEF j
<1>6. /\ co \in [Consumers -> RP!ConsumerState]
      /\ \A c \in Consumers :
           /\ co[c].pc \in {"absent", "idle"} /\ co[c].cursor = 0 /\ co[c].start = 0
           /\ co[c].taken = {} /\ co[c].out = RP!NoOutcome
  BY <1>3, <1>4
<1>7. IInv BY <1>2, <1>6, CreatedInv
<1>8. /\ ep = [pc |-> "idle", stamp |-> 0]
      /\ ec = [c \in Consumers |-> [pc |-> "poll", seen |-> 0, resyncs |-> 0]]
  BY <1>2 DEF Created
<1>9. ASSUME NEW c \in K
      PROVE  /\ co[c].pc = "idle" /\ co[c].cursor = 0
             /\ ec[c].pc = "poll" /\ ec[c].seen = 0
             /\ cs[c].pc = "warmup" /\ cs[c].warm = 0 /\ cs[c].tally = NoTally
  BY <1>1, <1>2, <1>3, <1>5, <1>6, <1>8
<1>10. ThreadTypes
  <2>1. NoTally \in Tally BY EngineAssumption DEF NoTally, Tally
  <2>2. [pc |-> "warmup", warm |-> 0, base |-> 0, tally |-> NoTally] \in ConsumerThread
    BY <2>1, EndToEndAssumption DEF ConsumerThread
  <2>3. [pc |-> "poll", seen |-> 0, resyncs |-> 0] \in EngineConsumer
    BY EngineAssumption DEF EngineConsumer
  <2>4. cs \in [K -> ConsumerThread] /\ ec \in [Consumers -> EngineConsumer]
    BY <1>2, <1>8, <2>2, <2>3
  <2> QED BY <1>1, <1>2, <2>4 DEF ThreadTypes
<1>11. BarrierInv
  <2>1. Past = {} BY <1>9 DEF Past
  <2>2. drv # "wait" => K = {} BY <1>1, <1>2 DEF K, NoCell
  <2>3. 0 <= n /\ ep.stamp = 0 BY <1>1, <1>8
  <2> QED BY <1>2, <1>8, <2>1, <2>2, <2>3, FS_EmptySet DEF BarrierInv
<1>12. BaseInv
  <2>1. mem = [l \in Loc |-> Ring!Fresh(Ring!InitVal(l))] BY <1>2 DEF Created
  <2>2. /\ Len(mem[BaseLoc]) = 1 /\ Len(mem[StartedLoc]) = 1
        /\ mem[StartedLoc][1].val = Ring!InitVal(StartedLoc)
    BY <2>1, Flags DEF Ring!Fresh
  <2>3. Ring!InitVal(StartedLoc) = 0
    <3>1. StartedLoc \notin {Ring!StampLoc(s) : s \in 0..Cap - 1}
      BY DEF StartedLoc, Ring!StampLoc
    <3> QED BY <3>1 DEF Ring!InitVal
  <2>4. \A i \in 1..Len(mem[StartedLoc]) : mem[StartedLoc][i].val # 1
    <3>1. \A i \in 1..1 : i = 1 OBVIOUS
    <3> QED BY <2>2, <2>3, <3>1
  <2>5. ~(\E i \in 2..Len(mem[BaseLoc]) : TRUE) BY <2>2
  <2>6. drv # "started" /\ \A c \in K : cs[c].pc # "base" BY <1>2, <1>9
  <2> QED BY <2>4, <2>5, <2>6 DEF BaseInv
<1>13. \A c \in K : DrainInv(cs[c], co[c], ec[c])
  BY <1>9, EndToEndAssumption DEF DrainInv, NoTally
<1>14. AccountInv
  <2>1. \A c \in K : /\ co[c].cursor = cs[c].tally.deliveries + cs[c].tally.skipped + Pending(c)
                     /\ cs[c].pc # "exited"
    BY <1>9 DEF Pending, NoTally
  <2>2. n * Cardinality({}) = 0 BY <1>1, FS_EmptySet
  <2>3. \A c \in Consumers : ec[c].seen = 0 BY <1>8
  <2>4. /\ cell.joined = {} /\ cell.tally \in [deliveries : Nat, overruns : Nat, skipped : Nat]
        /\ cell.tally.deliveries + cell.tally.skipped = 0
    BY <1>2 DEF NoTally
  <2> QED BY <2>1, <2>2, <2>3, <2>4 DEF AccountInv
<1> QED BY <1>7, <1>10, <1>11, <1>12, <1>13, <1>14 DEF CellInv

\* In a cell, while a consumer warms up nothing is pushed, and each consumer measures
\* from the published base.
LEMMA CellStarts == CellInv => StartsTogether
<1> SUFFICES ASSUME CellInv, NEW c \in K
             PROVE  /\ cs[c].pc = "warmup" => Ring!Begun = 0
                    /\ cs[c].tally.deliveries = ec[c].seen
                    /\ cs[c].pc \in {"drain", "idle", "exited"} => cs[c].base = ClockBase
  BY DEF StartsTogether, WarmupTakesNothing, SharedBase
<1>1. IInv /\ BarrierInv /\ DrainInv(cs[c], co[c], ec[c]) BY DEF CellInv
<1>2. ASSUME cs[c].pc = "warmup" PROVE Ring!Begun = 0
  <2>1. c \notin Past BY <1>2 DEF Past
  <2>2. ep = [pc |-> "idle", stamp |-> 0] BY <1>1, <2>1 DEF BarrierInv
  <2>3. RP!Pub = 0 /\ pr.pc = "idle" BY <1>1, <2>2 DEF IInv, PipelineInv
  <2>4. RP!Written = 0 BY <1>1, <2>3, RP!Facts DEF IInv
  <2>5. Ring!Begun = RP!Written
    BY <2>3 DEF Ring!Begun, Ring!Written, RP!Written, Ring!Latest, RP!Latest,
                Ring!WriteLoc, RP!WriteLoc
  <2> QED BY <2>4, <2>5
<1> QED BY <1>1, <1>2 DEF DrainInv

-------------------------------------------------------------------------------
(* The accounting *)

\* A step of consumer c that it takes before it has stopped: its own part is to
\* be shown.
LEMMA OneAccount ==
  ASSUME AccountInv, CellInv, UNCHANGED <<args, cell>>, NEW c \in K, cs[c].pc # "exited",
         \A d \in K \ {c} : cs'[d] = cs[d] /\ co'[d] = co[d] /\ ec'[d] = ec[d],
         \A d \in Consumers \ {c} : ec'[d] = ec[d],
         co'[c].cursor = cs'[c].tally.deliveries + cs'[c].tally.skipped + Pending(c)',
         cs'[c].pc = "exited" => co'[c].cursor = n
  PROVE  AccountInv'
<1>1. K' = K /\ n' = n /\ K \in SUBSET Consumers BY Members DEF CellInv, K, n
<1>2. ASSUME NEW d \in K
      PROVE  /\ co'[d].cursor = cs'[d].tally.deliveries + cs'[d].tally.skipped + Pending(d)'
             /\ cs'[d].pc = "exited" => co'[d].cursor = n
  <2>1. CASE d = c BY <2>1
  <2>2. CASE d # c BY <2>2 DEF AccountInv, Pending
  <2> QED BY <2>1, <2>2
<1>3. \A d \in Consumers \ K : ec'[d].seen = 0 BY <1>1 DEF AccountInv
<1>4. cell.joined \in SUBSET {d \in K : cs'[d].pc = "exited"}
  <2> SUFFICES ASSUME NEW d \in cell.joined PROVE d \in K /\ cs'[d].pc = "exited"
    OBVIOUS
  <2>1. d \in K /\ cs[d].pc = "exited" BY DEF AccountInv
  <2> QED BY <2>1
<1> QED BY <1>1, <1>2, <1>3, <1>4 DEF AccountInv

\* What leaves the consumers and the totals alone leaves the accounts.
LEMMA AccountStays ==
  ASSUME AccountInv, UNCHANGED <<args, cs, co, ec, cell>>
  PROVE  AccountInv'
<1>1. K' = K /\ n' = n BY DEF K, n
<1>2. \A c \in K : Pending(c)' = Pending(c) BY DEF Pending
<1> QED BY <1>1, <1>2 DEF AccountInv

\* A consumer that stops is at n: it knows of no more than were pushed.
LEMMA AtMostAll ==
  ASSUME CellInv, NEW c \in K
  PROVE  co[c].cursor \in Nat /\ co[c].cursor <= n
<1>1. /\ IInv /\ ThreadTypes /\ BarrierInv BY DEF CellInv
<1>2. c \in Consumers /\ n \in Nat BY <1>1, Members
<1>3. co[c].cursor \in Nat /\ co[c].cursor <= RP!Pub /\ RP!Pub \in Nat
  BY <1>1, <1>2, RP!ConsumerFacts, Facts DEF IInv
<1>4. ep.stamp \in Nat /\ RP!Pub <= ep.stamp /\ ep.stamp <= n
  <2>1. ep.stamp \in Nat /\ RP!Pub = IF ep.pc = "idle" THEN ep.stamp ELSE ep.stamp - 1
    BY <1>1 DEF IInv, PipelineInv
  <2> QED BY <1>1, <2>1 DEF BarrierInv
<1> QED BY <1>2, <1>3, <1>4

\* Before it drains a consumer has counted nothing.
LEMMA EarlyAccount ==
  ASSUME CellInv', NEW c \in K, K' = K,
         cs'[c].pc \in {"warmup", "announce", "wait", "base"}
  PROVE  co'[c].cursor = cs'[c].tally.deliveries + cs'[c].tally.skipped + Pending(c)'
<1>1. DrainInv(cs'[c], co'[c], ec'[c]) BY DEF CellInv
<1>2. /\ co'[c].cursor = 0 /\ cs'[c].tally = NoTally /\ ec'[c].pc = "poll"
  BY <1>1 DEF DrainInv
<1> QED BY <1>2 DEF Pending, NoTally

\* A poll of the loop accounts for every position its cursor passes, when each
\* load is of the newest store.
LEMMA DrainAccount ==
  ASSUME StaleReads = FALSE, CellInv, AccountInv, NEW c \in K, Drain(c)
  PROVE  co'[c].cursor = cs'[c].tally.deliveries + cs'[c].tally.skipped + Pending(c)'
<1> DEFINE u == cs[c].tally
           t == cs'[c].tally
           e == ec[c]
           f == ec'[c]
           j == co[c]
           i == co'[c]
<1>1. /\ Polled(j, e, i, f) /\ Counts(t, u, e, i, f) /\ CellInv'
  BY DrainCounts
<1>2. /\ c \in Consumers /\ ThreadTypes /\ ThreadTypes' /\ K' = K
      /\ IInv /\ IInv' /\ args' = args
  BY <1>1, Members, DrainCounts DEF CellInv, K
<1>3. /\ u \in Tally /\ t \in Tally
      /\ e.seen \in Nat /\ f.seen \in Nat
  <2>1. cs[c] \in ConsumerThread /\ cs'[c] \in ConsumerThread
    BY <1>2 DEF ThreadTypes
  <2>2. ec[c] \in EngineConsumer /\ ec'[c] \in EngineConsumer BY <1>2 DEF ThreadTypes
  <2> QED BY <2>1, <2>2 DEF ConsumerThread, EngineConsumer
<1>4. /\ u.deliveries \in Nat /\ u.skipped \in Nat /\ t.deliveries \in Nat
      /\ t.skipped \in Nat
  BY <1>3 DEF Tally
<1>5. j \in RP!ConsumerState /\ i \in RP!ConsumerState
  <2>1. co \in [Consumers -> RP!ConsumerState] /\ co' \in [Consumers -> RP!ConsumerState]
    BY <1>2, RP!Types, RP!NextTypes DEF IInv, RP!IInv
  <2> QED BY <1>2, <2>1
<1>6. /\ j.cursor \in Nat /\ i.cursor \in Nat
      /\ j.out.skipped \in Nat /\ i.out.skipped \in Nat
  <2>1. ASSUME NEW k \in RP!ConsumerState PROVE k.cursor \in Nat /\ k.out.skipped \in Nat
    <3>1. k.cursor \in Nat /\ k.out \in RP!Outcome BY DEF RP!ConsumerState
    <3> QED BY <3>1 DEF RP!Outcome
  <2> QED BY <1>5, <2>1
<1>7. j.cursor = u.deliveries + u.skipped + (IF e.pc = "poll" THEN 0 ELSE j.out.skipped)
  BY DEF AccountInv, Pending
<1>8. /\ t.deliveries = u.deliveries + (f.seen - e.seen)
      /\ t.skipped = u.skipped +
           (IF e.pc # "poll" /\ f.pc = "poll" THEN i.out.skipped ELSE 0)
  BY <1>1 DEF Counts
<1>9. (e.pc = "poll" => RP!Moved(RP!Pub, j, i)) /\ Polled(j, e, i, f)
  BY <1>1 DEF Polled
<1> HIDE DEF u, t, e, f, j, i
<1>10. i.cursor = t.deliveries + t.skipped + (IF f.pc = "poll" THEN 0 ELSE i.out.skipped)
  <2>1. CASE e.pc # "poll"
    <3>1. i = j /\ f.seen = e.seen BY <1>9, <2>1 DEF Polled
    <3> QED BY <1>3, <1>4, <1>6, <1>7, <1>8, <2>1, <3>1
  <2>2. CASE e.pc = "poll"
    <3>1. /\ f.pc = IF i.pc = "idle" /\ i.out.kind = "overrun" THEN "rebase" ELSE "poll"
          /\ f.seen = IF i.pc = "idle" /\ i.out.kind = "item" THEN e.seen + 1 ELSE e.seen
      BY <1>9, <2>2 DEF Polled
    <3>2. CASE i.pc # "idle" /\ i.cursor = j.cursor
      BY <1>3, <1>4, <1>6, <1>7, <1>8, <2>2, <3>1, <3>2
    <3>3. CASE i.pc = "idle" /\ i.out.kind = "empty" /\ i.cursor = j.cursor
      BY <1>3, <1>4, <1>6, <1>7, <1>8, <2>2, <3>1, <3>3
    <3>4. CASE i.pc = "idle" /\ i.out.kind = "item" /\ i.cursor = j.cursor + 1
      BY <1>3, <1>4, <1>6, <1>7, <1>8, <2>2, <3>1, <3>4
    <3>5. CASE i.pc = "idle" /\ i.out.kind = "overrun" /\ i.cursor = j.cursor + i.out.skipped
      BY <1>3, <1>4, <1>6, <1>7, <1>8, <2>2, <3>1, <3>5
    <3> QED BY <1>9, <2>2, <3>2, <3>3, <3>4, <3>5 DEF RP!Moved
  <2> QED BY <2>1, <2>2
<1>11. Pending(c)' = IF ec'[c].pc = "poll" THEN 0 ELSE co'[c].out.skipped BY DEF Pending
<1> QED BY <1>10, <1>11 DEF t, f, i

\* Every step of a consumer's thread keeps the accounts.
LEMMA ConsumingAccount ==
  ASSUME StaleReads = FALSE, CellInv, AccountInv, NEW c \in K, Consuming(c)
  PROVE  AccountInv'
<1>1. /\ ThreadTypes /\ IInv /\ cs \in [K -> ConsumerThread]
      /\ ec \in [Consumers -> EngineConsumer] /\ c \in Consumers
      /\ K \in SUBSET Consumers /\ cs[c] \in ConsumerThread
  BY Members DEF CellInv, ThreadTypes
<1>2. CASE Warmup(c)
  <2>1. /\ PollStep(c) /\ cs[c].pc = "warmup" /\ UNCHANGED <<args, cell>> /\ K' = K
    BY <1>2 DEF Warmup, K
  <2>2. \A d \in Consumers \ {c} : co'[d] = co[d] /\ ec'[d] = ec[d]
    BY <1>1, <2>1, PollMoves
  <2>3. cs'[c].pc \in {"warmup", "announce"} /\ \A d \in K \ {c} : cs'[d] = cs[d]
    <3> DEFINE warm == cs[c].warm + (IF Returned(c) THEN 1 ELSE 0)
               p == IF warm = WarmupPolls THEN "announce" ELSE cs[c].pc
               k == [cs[c] EXCEPT !.warm = warm, !.pc = p]
    <3>1. cs' = [cs EXCEPT ![c].warm = warm, ![c].pc = p] BY <1>2 DEF Warmup
    <3>2. p \in {"warmup", "announce"} BY <2>1
    <3> HIDE DEF warm, p
    <3>3. cs' = [cs EXCEPT ![c] = k] BY <1>1, <3>1
    <3>4. k.pc = p BY <1>1 DEF ConsumerThread
    <3> HIDE DEF k
    <3> QED BY <1>1, <3>2, <3>3, <3>4
  <2>4. CellInv' BY <1>2, WarmupInv
  <2>5. co'[c].cursor = cs'[c].tally.deliveries + cs'[c].tally.skipped + Pending(c)'
    BY <2>1, <2>3, <2>4, EarlyAccount
  <2> QED BY <1>1, <2>1, <2>2, <2>3, <2>5, OneAccount
<1>3. CASE Announce(c)
  <2>1. /\ cs[c].pc = "announce" /\ UNCHANGED <<args, cell, vars>> /\ K' = K
        /\ cs' = [cs EXCEPT ![c].pc = "wait"]
    BY <1>3 DEF Announce, K
  <2>2. UNCHANGED <<co, ec>> BY <2>1 DEF vars
  <2>3. cs'[c].pc = "wait" /\ \A d \in K \ {c} : cs'[d] = cs[d]
    BY <1>1, <2>1 DEF ConsumerThread
  <2>4. CellInv' BY <1>3, AnnounceInv
  <2>5. co'[c].cursor = cs'[c].tally.deliveries + cs'[c].tally.skipped + Pending(c)'
    BY <2>1, <2>3, <2>4, EarlyAccount
  <2> QED BY <1>1, <2>1, <2>2, <2>3, <2>5, OneAccount
<1>4. CASE AwaitStart(c)
  <2>1. PICK i \in DOMAIN mem[StartedLoc] :
          /\ Acquired(c, StartedLoc, i)
          /\ cs' = [cs EXCEPT ![c].pc = IF mem[StartedLoc][i].val = 1 THEN "base" ELSE @]
    BY <1>4 DEF AwaitStart
  <2>2. cs[c].pc = "wait" /\ UNCHANGED <<args, cell, co, ec>> /\ K' = K
    BY <1>4, <2>1 DEF AwaitStart, Acquired, K
  <2>3. cs'[c].pc \in {"wait", "base"} /\ \A d \in K \ {c} : cs'[d] = cs[d]
    BY <1>1, <2>1, <2>2 DEF ConsumerThread
  <2>4. CellInv' BY <1>4, AwaitStartInv
  <2>5. co'[c].cursor = cs'[c].tally.deliveries + cs'[c].tally.skipped + Pending(c)'
    BY <2>2, <2>3, <2>4, EarlyAccount
  <2> QED BY <1>1, <2>2, <2>3, <2>5, OneAccount
<1>5. CASE LoadBase(c)
  <2>1. PICK i \in DOMAIN mem[BaseLoc] :
          /\ Acquired(c, BaseLoc, i)
          /\ cs' = [cs EXCEPT ![c].pc = "drain", ![c].base = mem[BaseLoc][i].val]
    BY <1>5 DEF LoadBase
  <2>2. cs[c].pc = "base" /\ UNCHANGED <<args, cell, co, ec>>
    BY <1>5, <2>1 DEF LoadBase, Acquired
  <2> DEFINE x == mem[BaseLoc][i].val
             k == [cs[c] EXCEPT !.pc = "drain", !.base = x]
  <2>3. cs' = [cs EXCEPT ![c] = k] BY <1>1, <2>1
  <2> HIDE DEF x
  <2>4. k.pc = "drain" /\ k.tally = cs[c].tally BY <1>1 DEF ConsumerThread
  <2> HIDE DEF k
  <2>5. /\ cs'[c].pc = "drain" /\ cs'[c].tally = cs[c].tally
        /\ \A d \in K \ {c} : cs'[d] = cs[d]
    BY <1>1, <2>3, <2>4
  <2>6. co'[c].cursor = cs'[c].tally.deliveries + cs'[c].tally.skipped + Pending(c)'
    BY <2>2, <2>5 DEF AccountInv, Pending
  <2> QED BY <2>2, <2>5, <2>6, OneAccount
<1>6. CASE Drain(c)
  <2>1. /\ UNCHANGED <<args, cell>> /\ cs[c].pc = "drain" /\ cs'[c].pc \in {"drain", "idle"}
        /\ \A d \in K \ {c} : cs'[d] = cs[d] /\ co'[d] = co[d] /\ ec'[d] = ec[d]
    BY <1>6, DrainCounts DEF Drain
  <2>2. \A d \in Consumers \ {c} : ec'[d] = ec[d] BY <1>1, <1>6, PollMoves DEF Drain
  <2>3. co'[c].cursor = cs'[c].tally.deliveries + cs'[c].tally.skipped + Pending(c)'
    BY <1>6, DrainAccount
  <2> QED BY <2>1, <2>2, <2>3, OneAccount
<1>7. CASE CheckDone(c)
  <2>1. /\ UNCHANGED <<args, cell, co, ec>> /\ cs[c].pc = "idle"
        /\ cs'[c].tally = cs[c].tally
        /\ cs'[c].pc = "exited" => co[c].cursor >= n
        /\ \A d \in K \ {c} : cs'[d] = cs[d]
    BY <1>7, CheckDoneInv DEF CheckDone
  <2>2. cs'[c].pc = "exited" => co'[c].cursor = n
    BY <1>1, <2>1, AtMostAll, Members
  <2>3. co'[c].cursor = cs'[c].tally.deliveries + cs'[c].tally.skipped + Pending(c)'
    BY <2>1 DEF AccountInv, Pending
  <2> QED BY <2>1, <2>2, <2>3, OneAccount
<1> QED BY <1>2, <1>3, <1>4, <1>5, <1>6, <1>7 DEF Consuming

\* What an exited consumer has counted.
LEMMA Exited ==
  ASSUME CellInv, AccountInv, NEW c \in K, cs[c].pc = "exited"
  PROVE  /\ cs[c].tally \in Tally
         /\ cs[c].tally.deliveries + cs[c].tally.skipped = n
<1>1. ThreadTypes /\ DrainInv(cs[c], co[c], ec[c]) BY DEF CellInv
<1>2. cs[c] \in ConsumerThread BY <1>1 DEF ThreadTypes
<1>3. cs[c].tally \in Tally BY <1>2 DEF ConsumerThread
<1>4. ec[c].pc = "poll" BY <1>1 DEF DrainInv
<1>5. n = cs[c].tally.deliveries + cs[c].tally.skipped + 0
  BY <1>4 DEF AccountInv, Pending
<1> QED BY <1>3, <1>5 DEF Tally

\* The totals take one consumer more (e2e.rs:360-367).
LEMMA JoinAccount == ASSUME CellInv, AccountInv, Join PROVE AccountInv'
<1>1. PICK c \in K \ cell.joined :
        /\ cs[c].pc = "exited"
        /\ cell' = [joined |-> cell.joined \cup {c},
                    tally |-> [k \in DOMAIN NoTally |-> cell.tally[k] + cs[c].tally[k]]]
  BY DEF Join
<1>2. UNCHANGED <<vars, args, cs>> BY DEF Join
<1>3. UNCHANGED <<co, ec>> BY <1>2 DEF vars
<1>4. K' = K /\ n' = n BY <1>2 DEF K, n
<1>5. /\ cs[c].tally \in Tally /\ cs[c].tally.deliveries + cs[c].tally.skipped = n
  BY <1>1, Exited
<1>6. /\ n \in Nat /\ IsFiniteSet(K) BY Members DEF CellInv
<1>7. IsFiniteSet(cell.joined) /\ Cardinality(cell.joined) \in Nat
  <2>1. cell.joined \in SUBSET K BY DEF AccountInv
  <2> QED BY <1>6, <2>1, FS_Subset, FS_CardinalityType
<1>8. Cardinality(cell'.joined) = Cardinality(cell.joined) + 1
  BY <1>1, <1>7, FS_AddElement
<1>9. DOMAIN NoTally = {"deliveries", "overruns", "skipped"} BY DEF NoTally
<1> DEFINE t == cell.tally
           u == cs[c].tally
<1>10. /\ t.deliveries \in Nat /\ t.overruns \in Nat /\ t.skipped \in Nat
       /\ u.deliveries \in Nat /\ u.overruns \in Nat /\ u.skipped \in Nat
  BY <1>5, EngineAssumption DEF Tally, AccountInv
<1>11. /\ cell'.tally.deliveries = t.deliveries + u.deliveries
       /\ cell'.tally.overruns = t.overruns + u.overruns
       /\ cell'.tally.skipped = t.skipped + u.skipped
       /\ cell'.tally = [k \in {"deliveries", "overruns", "skipped"} |-> cell'.tally[k]]
  BY <1>1, <1>9
<1> HIDE DEF u
<1>12. cell'.tally \in [deliveries : Nat, overruns : Nat, skipped : Nat]
  BY <1>10, <1>11
<1>13. cell'.tally.deliveries + cell'.tally.skipped = n * Cardinality(cell'.joined)
  <2> DEFINE q == Cardinality(cell.joined)
  <2>1. t.deliveries + t.skipped = n * q BY DEF AccountInv
  <2>2. u.deliveries + u.skipped = n BY <1>5 DEF u
  <2> HIDE DEF q, t
  <2>3. q \in Nat BY <1>7 DEF q
  <2>4. n * (q + 1) = n * q + n /\ n * q \in Nat BY <1>6, <2>3
  <2>5. Cardinality(cell'.joined) = q + 1 BY <1>8 DEF q
  <2> QED BY <1>6, <1>10, <1>11, <2>1, <2>2, <2>4, <2>5
<1>14. cell'.joined \in SUBSET {d \in K : cs[d].pc = "exited"}
  BY <1>1 DEF AccountInv
<1>15. \A d \in K : Pending(d)' = Pending(d) BY <1>3 DEF Pending
<1> QED BY <1>2, <1>3, <1>4, <1>12, <1>13, <1>14, <1>15 DEF AccountInv

\* Every step keeps the accounts.
LEMMA AccountStep ==
  ASSUME StaleReads = FALSE
  PROVE  CellInv /\ AccountInv /\ [CellNext]_e2eVars => AccountInv'
<1> SUFFICES ASSUME CellInv, AccountInv, [CellNext]_e2eVars PROVE AccountInv' OBVIOUS
<1>1. CASE Producing
  <2>1. CASE WaitReady BY <2>1, AccountStays DEF WaitReady, vars
  <2>2. CASE Start BY <2>2, AccountStays DEF Start, Raise
  <2>3. CASE Produce BY <2>3, ProduceInv, AccountStays
  <2>4. CASE Finish BY <2>4, FinishInv, AccountStays
  <2> QED BY <1>1, <2>1, <2>2, <2>3, <2>4 DEF Producing
<1>2. ASSUME NEW c \in K, Consuming(c) PROVE AccountInv'
  BY <1>2, ConsumingAccount
<1>3. CASE Join BY <1>3, JoinAccount
<1>4. CASE Report \/ UNCHANGED e2eVars
  BY <1>4, AccountStays DEF Report, e2eVars, cellVars, vars
<1> QED BY <1>1, <1>2, <1>3, <1>4 DEF CellNext

\* When a consumer of a cell stops, each of its events was delivered to it or counted as
\* skipped, and the totals of the cell are those of all.
LEMMA CellCounts == CellInv /\ AccountInv => EveryEventAccounted
BY Exited DEF EveryEventAccounted, AccountInv, Joined

\* Every variable of the engine has its type.
LEMMA EngineTyped ==
  ASSUME IInv, ec \in [Consumers -> EngineConsumer],
         \A c \in Consumers : ec[c].seen \in 0..MaxEvents
  PROVE  TypeOK
<1>1. ec \in [Consumers -> [pc : {"poll", "rebase", "load"}, seen : 0..MaxEvents,
                            resyncs : 0..MaxResyncs]]
  BY DEF EngineConsumer
<1>2. ep \in [pc : {"idle", "store", "push"}, stamp : 0..MaxEvents]
  BY DEF IInv, PipelineInv
<1>3. Ring!TypeOK
  <2>1. RP!TypeOK BY DEF IInv, RP!IInv
  <2> QED BY <2>1 DEF RP!TypeOK, Ring!TypeOK, RP!Memory, Ring!Memory, RP!Message,
                      Ring!Message, RP!View, Ring!View, RP!Thread, Ring!Thread,
                      RP!Outcome, Ring!Outcome
<1>4. Lock!TypeOK
  <2>1. LP!TypeOK BY DEF IInv, LP!IInv
  <2> QED BY <2>1 DEF LP!TypeOK, Lock!TypeOK, LP!Memory, Lock!Memory, LP!Message,
                      Lock!Message, LP!View, Lock!View, LP!Thread, Lock!Thread,
                      LP!Snapshot, Lock!Snapshot, LP!WriterState, Lock!WriterState,
                      LP!ReaderState, Lock!ReaderState
<1> QED BY <1>1, <1>2, <1>3, <1>4 DEF TypeOK

\* In a cell no consumer counts more than the corpus holds.
LEMMA CellTyped == CellInv /\ AccountInv => CellTypeOK
<1> SUFFICES ASSUME CellInv, AccountInv PROVE CellTypeOK OBVIOUS
<1>1. IInv /\ ThreadTypes /\ BarrierInv BY DEF CellInv
<1>2. /\ K \in SUBSET Consumers /\ n \in 0 .. MaxEvents /\ IsFiniteSet(K)
      /\ Past \in SUBSET K
  BY <1>1, Members
<1>3. ASSUME NEW c \in K
      PROVE  /\ cs[c] \in [pc : {"warmup", "announce", "wait", "base", "drain", "idle",
                                 "exited"},
                           warm : 0 .. WarmupPolls, base : {0, ClockBase},
                           tally : [deliveries : 0 .. n, overruns : 0 .. MaxResyncs,
                                    skipped : 0 .. n]]
             /\ ec[c].seen \in 0 .. MaxEvents
  <2>1. cs[c] \in ConsumerThread BY <1>1 DEF ThreadTypes
  <2> DEFINE t == cs[c].tally
  <2>2. t \in Tally BY <2>1 DEF ConsumerThread
  <2>3. t.deliveries \in Nat /\ t.skipped \in Nat BY <2>2 DEF Tally
  <2>4. Pending(c) \in Nat
    <3>1. co[c] \in RP!ConsumerState
      BY <1>1, <1>2, RP!ConsumerFacts DEF IInv
    <3>2. co[c].out \in RP!Outcome BY <3>1 DEF RP!ConsumerState
    <3>3. co[c].out.skipped \in Nat BY <3>2 DEF RP!Outcome
    <3> QED BY <3>3 DEF Pending
  <2>5. co[c].cursor <= n /\ co[c].cursor = t.deliveries + t.skipped + Pending(c)
    BY AtMostAll DEF AccountInv
  <2>6. t.deliveries \in 0 .. n /\ t.skipped \in 0 .. n
    <3> HIDE DEF t
    <3> QED BY <1>2, <2>3, <2>4, <2>5
  <2>7. t \in [deliveries : 0 .. n, overruns : 0 .. MaxResyncs, skipped : 0 .. n]
    <3> HIDE DEF t
    <3> QED BY <2>2, <2>6 DEF Tally
  <2>8. ec[c].seen = t.deliveries BY DEF CellInv, DrainInv
  <2>9. ec[c].seen \in 0 .. MaxEvents
    <3> HIDE DEF t
    <3> QED BY <1>2, <2>6, <2>8, RP!Bounds
  <2> QED BY <2>1, <2>7, <2>9 DEF ConsumerThread
<1>4. cs \in [K ->
        [pc : {"warmup", "announce", "wait", "base", "drain", "idle", "exited"},
         warm : 0 .. WarmupPolls, base : {0, ClockBase},
         tally : [deliveries : 0 .. n, overruns : 0 .. MaxResyncs, skipped : 0 .. n]]]
  BY <1>1, <1>3 DEF ThreadTypes
<1>5. ready \in 0 .. Cardinality(K)
  <2>1. /\ Cardinality(Past) \in Nat /\ Cardinality(K) \in Nat
        /\ Cardinality(Past) <= Cardinality(K)
    BY <1>2, FS_Subset, FS_CardinalityType
  <2> HIDE DEF Past, K
  <2> QED BY <1>1, <2>1 DEF BarrierInv
<1>6. ASSUME NEW c \in Consumers PROVE ec[c].seen \in 0..MaxEvents
  <2>1. CASE c \in K BY <1>3, <2>1
  <2>2. CASE c \notin K BY <2>2, RP!Bounds DEF AccountInv
  <2> QED BY <2>1, <2>2
<1>7. TypeOK BY <1>1, <1>6, EngineTyped DEF ThreadTypes
<1>8. cell.joined \in SUBSET K BY DEF AccountInv
<1> QED BY <1>1, <1>4, <1>5, <1>7, <1>8 DEF CellTypeOK, ThreadTypes

-------------------------------------------------------------------------------
(* The demo *)

\* Its consumer, of the ring's state j and the engine's e, is given each of the b
\* events pushed as soon as it is pushed.
KeepingUp(d, b, j, e) ==
  /\ e.pc = "poll" /\ e.resyncs = 0 /\ d.delivered = j.cursor
  /\ IF d.pc = "poll" THEN j.pc # "resync" /\ j.cursor + 1 = b
                      ELSE j.pc = "idle" /\ j.cursor = b

\* Or has read none of the k events, is reloading the top of book after its overrun,
Unread(j, e) == j.cursor = 0 /\ e.pc = "poll" /\ e.seen = 0

Reloading(k, j, e, r) ==
  /\ e.pc \in {"rebase", "load"} /\ e.seen = 0
  /\ j.pc = "idle" /\ j.out.kind = "overrun" /\ j.cursor = k - Cap
  /\ e.pc = "load" => e.resyncs > 0 /\ LP!Holds(r, k)

\* or has it, and reads on from the oldest event the ring keeps.
Reloaded(k, j, e, r) ==
  /\ e.pc = "poll" /\ e.resyncs > 0 /\ j.pc # "resync"
  /\ e.seen = j.cursor - (k - Cap)
  /\ r.out.words = [w \in 1..TopWords |-> k]

Lapped(k, d, j, e, r) ==
  /\ d.pc # "poll"
  /\ d.pc = "process" => Unread(j, e) /\ j.pc = "idle"
  /\ d.pc = "drain" => Unread(j, e) \/ Reloading(k, j, e, r) \/ Reloaded(k, j, e, r)
  /\ d.pc = "done" => Reloaded(k, j, e, r) /\ j.cursor = k

\* Scene s, of d so far, with the producer at p and b events pushed.
SceneInv(s, d, p, b, j, e, r) ==
  /\ d \in [pc : {"new", "process", "poll", "drain", "done"}, delivered : Nat]
  /\ p.stamp <= s.n
  /\ d.pc # "process" => p.pc = "idle"
  /\ d.pc = "process" /\ p.pc = "idle" => p.stamp < s.n
  /\ d.pc \in {"drain", "done"} => p.stamp = s.n
  /\ IF d.pc = "new"
       THEN /\ p.stamp = 0 /\ d.delivered = 0
            /\ j.cursor = 0 /\ e = [pc |-> "poll", seen |-> 0, resyncs |-> 0]
       ELSE IF s.scene = "keeping_up" THEN KeepingUp(d, b, j, e)
            ELSE Lapped(s.n, d, j, e, r)

DemoInv ==
  IF show = <<>> THEN demo.pc = "new"
  ELSE /\ show \in {<<s>> : s \in Scenes}
       /\ IInv /\ ec \in [Consumers -> EngineConsumer]
       /\ SceneInv(show[1], demo, ep, RP!Pub, co[me], ec[me], rd[me])

\* A scene of the demo: its thread reads what it has written (engine/src/main.rs:23-73).
LEMMA SceneFacts ==
  ASSUME show \in {<<s>> : s \in Scenes}
  PROVE  /\ StaleReads = FALSE /\ MaxResyncs >= 1
         /\ me \in Consumers /\ scene \in {"keeping_up", "lapped"}
         /\ me = show[1].consumer /\ scene = show[1].scene /\ events = show[1].n
         /\ events \in Nat /\ events >= 1 /\ events <= MaxEvents
         /\ scene = "lapped" => events > Cap
         /\ Cap \in Nat /\ Cap >= 1 /\ TopWords \in Nat
<1>1. PICK s \in Scenes : show = <<s>> OBVIOUS
<1>2. /\ s \in [consumer : Consumers, scene : {"keeping_up", "lapped"}, n : 1 .. MaxEvents]
      /\ s.scene = "lapped" => s.n > Cap
      /\ ~StaleReads /\ MaxResyncs >= 1
  BY <1>1, DemoAssumption
<1>3. show[1] = s BY <1>1
<1>4. StaleReads \in BOOLEAN BY DEF RP!SpmcRingAssumption
<1>5. MaxEvents \in Nat /\ Cap \in Nat /\ Cap >= 1 BY RP!Bounds
<1>6. TopWords \in Nat BY LP!Bounds
<1> QED BY <1>2, <1>3, <1>4, <1>5, <1>6 DEF me, scene, events

\* A step of poll between two events, by the newest reads: b events are pushed and the
\* last top of book is that of event k.
QuietPoll(b, k, j, e, r, i, f, q) ==
  \/ /\ e.pc = "poll" /\ RP!Quiet(b, j, i) /\ q = r /\ f.resyncs = e.resyncs
     /\ f.pc = IF i.pc = "idle" /\ i.out.kind = "overrun" THEN "rebase" ELSE "poll"
     /\ f.seen = IF i.pc = "idle" /\ i.out.kind = "item" THEN e.seen + 1 ELSE e.seen
  \/ /\ e.pc = "rebase" /\ i = j /\ LP!Holds(q, k)
     /\ f.pc = "load" /\ f.seen = e.seen /\ f.resyncs > 0
  \/ /\ e.pc = "load" /\ i = j
     /\ LP!Holds(r, k) =>
          /\ LP!Holds(q, k)
          /\ q.pc = "idle" => q.out.words = [w \in 1..TopWords |-> k]
     /\ f.pc = IF q.pc = "idle" THEN "poll" ELSE "load"
     /\ f.seen = e.seen /\ f.resyncs = e.resyncs

\* What poll leads to while the one thread is not inside process
\* (engine/src/lib.rs:144-160).
LEMMA PollQuiet ==
  ASSUME IInv, ec \in [Consumers -> EngineConsumer], ep.pc = "idle",
         StaleReads = FALSE, MaxResyncs >= 1, NEW c \in Consumers, PollStep(c)
  PROVE  /\ IInv' /\ UNCHANGED ep /\ RP!Pub' = RP!Pub
         /\ ec' \in [Consumers -> EngineConsumer]
         /\ QuietPoll(RP!Pub, ep.stamp, co[c], ec[c], rd[c], co'[c], ec'[c], rd'[c])
<1>1. /\ IInv' /\ UNCHANGED <<mem, fenced, pr, ep>>
      /\ ec' \in [Consumers -> EngineConsumer]
      /\ Polled(co[c], ec[c], co'[c], ec'[c])
  BY PollMoves
<1>2. RP!Pub' = RP!Pub BY <1>1 DEF RP!Pub
<1>3. /\ RP!IInv /\ LP!IInv /\ pr.pc = "idle" /\ wr.pc = "idle" /\ wr.n = ep.stamp
  BY DEF IInv, PipelineInv
<1>4. ec[c] \in EngineConsumer /\ rd \in [Consumers -> LP!ReaderState]
  BY <1>3 DEF LP!IInv, LP!TypeOK
<1>5. CASE Poll(c)
  <2>1. RP!TryRecv(c) /\ ec[c].pc = "poll" /\ UNCHANGED rd
    BY <1>5, RingSteps DEF Poll
  <2>2. RP!Quiet(RP!Pub, co[c], co'[c]) BY <1>3, <2>1, RP!RecvQuiet
  <2>3. ec'[c].resyncs = ec[c].resyncs BY <1>4, <1>5 DEF Poll, EngineConsumer
  <2> QED BY <1>1, <1>2, <2>1, <2>2, <2>3 DEF Polled, QuietPoll
<1>6. CASE Rebase(c)
  <2>1. LP!Call(c) /\ ec[c].pc = "rebase" BY <1>6, LockSteps DEF Rebase
  <2>2. rd'[c].pc = "seq" BY <1>4, <2>1 DEF LP!Call, LP!ReaderState
  <2>3. LP!Holds(rd'[c], ep.stamp) BY <2>2 DEF LP!Holds
  <2>4. co' = co BY <1>6 DEF Rebase
  <2> DEFINE x == IF ec[c].resyncs < MaxResyncs THEN ec[c].resyncs + 1 ELSE ec[c].resyncs
  <2>5. /\ ec'[c].pc = "load" /\ ec'[c].seen = ec[c].seen /\ ec'[c].resyncs = x
    BY <1>4, <1>6 DEF Rebase, EngineConsumer
  <2>6. x > 0 BY <1>4, EngineAssumption DEF EngineConsumer
  <2> HIDE DEF x
  <2> QED BY <1>1, <1>2, <2>1, <2>3, <2>4, <2>5, <2>6 DEF QuietPoll
<1>7. CASE LoadTop(c)
  <2>1. LP!Load(c) /\ ec[c].pc = "load" /\ co' = co BY <1>7, LockSteps DEF LoadTop
  <2>2. LP!Holds(rd[c], ep.stamp) =>
          /\ LP!Holds(rd'[c], ep.stamp)
          /\ rd'[c].pc = "idle" => rd'[c].out.words = [w \in 1..TopWords |-> ep.stamp]
    BY <1>3, <2>1, LP!LoadQuiet
  <2>3. /\ ec'[c].pc = IF rd'[c].pc = "idle" THEN "poll" ELSE "load"
        /\ ec'[c].seen = ec[c].seen /\ ec'[c].resyncs = ec[c].resyncs
    BY <1>4, <1>7 DEF LoadTop, EngineConsumer
  <2> QED BY <1>1, <1>2, <2>1, <2>2, <2>3 DEF QuietPoll
<1> QED BY <1>5, <1>6, <1>7 DEF PollStep


\* What the invariant says of a scene.
LEMMA DemoFacts ==
  ASSUME DemoInv, Perform
  PROVE  /\ show \in {<<s>> : s \in Scenes} /\ UNCHANGED <<show, me, scene, events>>
         /\ IInv /\ ec \in [Consumers -> EngineConsumer]
         /\ SceneInv(show[1], demo, ep, RP!Pub, co[me], ec[me], rd[me])
         /\ co \in [Consumers -> RP!ConsumerState] /\ co[me] \in RP!ConsumerState
         /\ co[me].cursor \in Nat /\ co[me].cursor <= RP!Pub /\ RP!Pub \in Nat
         /\ ep \in [pc : {"idle", "store", "push"}, stamp : 0..MaxEvents]
         /\ ep.stamp \in Nat /\ RP!Pub = IF ep.pc = "idle" THEN ep.stamp ELSE ep.stamp - 1
<1>1. show # <<>> /\ UNCHANGED show BY DEF Perform
<1>2. /\ show \in {<<s>> : s \in Scenes}
      /\ IInv /\ ec \in [Consumers -> EngineConsumer]
      /\ SceneInv(show[1], demo, ep, RP!Pub, co[me], ec[me], rd[me])
  BY <1>1 DEF DemoInv
<1>3. UNCHANGED <<me, scene, events>> BY <1>1 DEF me, scene, events
<1>4. me \in Consumers BY <1>2, SceneFacts
<1>5. /\ co[me] \in RP!ConsumerState /\ co[me].cursor \in Nat /\ co[me].cursor <= RP!Pub
      /\ co \in [Consumers -> RP!ConsumerState]
  BY <1>2, <1>4, RP!ConsumerFacts, RP!Types DEF IInv, RP!IInv
<1>6. /\ RP!Pub \in Nat /\ ep.stamp \in Nat
      /\ ep \in [pc : {"idle", "store", "push"}, stamp : 0..MaxEvents]
      /\ RP!Pub = IF ep.pc = "idle" THEN ep.stamp ELSE ep.stamp - 1
  BY <1>2, Facts DEF IInv, PipelineInv
<1> QED BY <1>1, <1>2, <1>3, <1>5, <1>6

\* The scene's consumer is minted on the empty ring (engine/src/main.rs:32, 55).
LEMMA MintFirstInv == ASSUME DemoInv, Perform, MintFirst PROVE DemoInv'
<1>1. /\ show \in {<<s>> : s \in Scenes} /\ UNCHANGED <<show, me, scene, events>>
      /\ IInv /\ ec \in [Consumers -> EngineConsumer]
      /\ SceneInv(show[1], demo, ep, RP!Pub, co[me], ec[me], rd[me])
      /\ co \in [Consumers -> RP!ConsumerState]
      /\ RP!Pub = IF ep.pc = "idle" THEN ep.stamp ELSE ep.stamp - 1
  BY DemoFacts
<1>2. /\ me \in Consumers /\ events >= 1 /\ events \in Nat
      /\ events = show[1].n /\ scene = show[1].scene
  BY <1>1, SceneFacts
<1>3. /\ demo.pc = "new" /\ Mint(me) /\ demo' = [demo EXCEPT !.pc = "process"]
  BY DEF MintFirst
<1>4. /\ ep.pc = "idle" /\ ep.stamp = 0 /\ demo.delivered = 0
      /\ ec[me] = [pc |-> "poll", seen |-> 0, resyncs |-> 0]
  BY <1>1, <1>3 DEF SceneInv
<1>5. RP!Pub = 0 BY <1>1, <1>4
<1>6. Consume(me) BY <1>3 DEF Consume
<1>7. UNCHANGED <<mem, fenced, pr, ep>> BY <1>1, <1>2, <1>6, ConsumeKeeps
<1>8. IInv' BY <1>1, <1>2, <1>6, StepInv DEF Next
<1>9. UNCHANGED <<rd, ec>> BY <1>3 DEF Mint
<1>10. co'[me].pc = "idle" /\ co'[me].cursor = 0
  <2>1. RP!Join(me) BY <1>3, RingSteps DEF Mint
  <2>2. PICK i \in RP!Visible(mem, view[me], RP!WriteLoc) :
          \E x \in {mem[RP!WriteLoc][i].val, RP!MonusCap(mem[RP!WriteLoc][i].val)} :
            co' = [co EXCEPT ![me].pc = "idle", ![me].cursor = x, ![me].start = x]
    BY <2>1 DEF RP!Join
  <2>3. mem[RP!WriteLoc][i].val = 0
    <3>1. i = Len(mem[RP!WriteLoc]) BY <1>1, <2>2, SceneFacts, RP!Current
    <3>2. Len(mem[RP!WriteLoc]) = 1
      <4>1. Len(mem[RP!WriteLoc]) = RP!Pub + 1 BY <1>1, Facts
      <4> QED BY <1>5, <4>1
    <3>3. i \in 1..Len(mem[RP!WriteLoc]) BY <3>1, <3>2
    <3>4. RP!WriteInv(mem) BY <1>1 DEF IInv, RP!IInv, RP!MemoryInv
    <3>5. mem[RP!WriteLoc][i].val = i - 1 BY <3>3, <3>4 DEF RP!WriteInv
    <3> QED BY <3>1, <3>2, <3>5
  <2>4. RP!MonusCap(0) = 0 BY RP!Bounds DEF RP!MonusCap
  <2>5. co' = [co EXCEPT ![me].pc = "idle", ![me].cursor = 0, ![me].start = 0]
    BY <2>2, <2>3, <2>4
  <2> QED BY <1>1, <1>2, <2>5 DEF RP!ConsumerState
<1>11. RP!Pub' = 0 BY <1>5, <1>7 DEF RP!Pub
<1>12. /\ demo' \in [pc : {"new", "process", "poll", "drain", "done"}, delivered : Nat]
       /\ demo'.pc = "process" /\ demo'.delivered = 0
  BY <1>1, <1>3, <1>4 DEF SceneInv
<1>13. SceneInv(show[1], demo', ep', RP!Pub', co'[me], ec'[me], rd'[me])
  BY <1>2, <1>4, <1>7, <1>9, <1>10, <1>11, <1>12
  DEF SceneInv, KeepingUp, Lapped, Unread
<1> QED BY <1>1, <1>8, <1>9, <1>13 DEF DemoInv

\* A step of process: the events of a scene are as many as it says
\* (engine/src/main.rs:34-36, 57-59).
LEMMA ProcessNextInv == ASSUME DemoInv, Perform, ProcessNext PROVE DemoInv'
<1>1. /\ show \in {<<s>> : s \in Scenes} /\ UNCHANGED <<show, me, scene, events>>
      /\ IInv /\ ec \in [Consumers -> EngineConsumer]
      /\ SceneInv(show[1], demo, ep, RP!Pub, co[me], ec[me], rd[me])
      /\ co[me].cursor \in Nat /\ RP!Pub \in Nat /\ ep.stamp \in Nat
      /\ RP!Pub = IF ep.pc = "idle" THEN ep.stamp ELSE ep.stamp - 1
  BY DemoFacts
<1>2. /\ events \in Nat /\ events = show[1].n /\ scene = show[1].scene
      /\ scene \in {"keeping_up", "lapped"}
  BY <1>1, SceneFacts
<1>3. /\ demo.pc = "process"
      /\ (ep.stamp < events /\ Apply) \/ StoreTop \/ PushEvent
      /\ demo' = [demo EXCEPT !.pc =
           IF ep'.pc # "idle" THEN "process"
           ELSE IF scene = "keeping_up" THEN "poll"
           ELSE IF ep'.stamp < events THEN "process" ELSE "drain"]
  BY DEF ProcessNext
<1>4. Process BY <1>3 DEF Process
<1>5. UNCHANGED <<co, ec>> /\ (~Apply => ep'.stamp = ep.stamp)
  BY <1>1, <1>4, ProcessKeeps
<1>6. IInv' BY <1>1, <1>4, StepInv DEF Next
<1>7. /\ ep'.stamp \in Nat
      /\ RP!Pub' = IF ep'.pc = "idle" THEN ep'.stamp ELSE ep'.stamp - 1
  BY <1>6 DEF IInv, PipelineInv
<1>8. \/ ep.pc = "idle" /\ ep.stamp < events /\ ep'.pc # "idle" /\ ep'.stamp = ep.stamp + 1
      \/ ep.pc # "idle" /\ ep'.stamp = ep.stamp
  <2>1. CASE ep.stamp < events /\ Apply BY <2>1 DEF Apply, StageAfter
  <2>2. CASE StoreTop \/ PushEvent
    <3>1. ep.pc # "idle" BY <2>2 DEF StoreTop, PushEvent
    <3> QED BY <1>5, <3>1 DEF Apply
  <2> QED BY <1>3, <2>1, <2>2
<1>9. /\ demo' \in [pc : {"new", "process", "poll", "drain", "done"}, delivered : Nat]
      /\ demo'.delivered = demo.delivered
      /\ demo'.pc = IF ep'.pc # "idle" THEN "process"
                    ELSE IF scene = "keeping_up" THEN "poll"
                    ELSE IF ep'.stamp < events THEN "process" ELSE "drain"
  BY <1>1, <1>3 DEF SceneInv
<1>10. ep'.stamp <= events BY <1>1, <1>2, <1>8 DEF SceneInv
<1>11. SceneInv(show[1], demo', ep', RP!Pub', co[me], ec[me], rd'[me])
  <2>1. CASE scene = "keeping_up"
    <3>1. /\ KeepingUp(demo, RP!Pub, co[me], ec[me])
      BY <1>1, <1>2, <1>3, <2>1 DEF SceneInv
    <3>2. KeepingUp(demo', RP!Pub', co[me], ec[me])
      BY <1>1, <1>3, <1>7, <1>8, <1>9, <2>1, <3>1 DEF KeepingUp
    <3> QED BY <1>2, <1>9, <1>10, <2>1, <3>2 DEF SceneInv
  <2>2. CASE scene = "lapped"
    <3>1. Unread(co[me], ec[me]) /\ co[me].pc = "idle"
      BY <1>1, <1>2, <1>3, <2>2 DEF SceneInv, Lapped
    <3>2. Lapped(events, demo', co[me], ec[me], rd'[me])
      BY <1>9, <2>2, <3>1 DEF Lapped
    <3> QED BY <1>2, <1>7, <1>9, <1>10, <2>2, <3>2 DEF SceneInv
  <2> QED BY <1>2, <2>1, <2>2
<1> QED BY <1>1, <1>5, <1>6, <1>11 DEF DemoInv

\* A step of the poll after an event: it returns that event (engine/src/main.rs:36-39).
LEMMA PollNextInv == ASSUME DemoInv, Perform, PollNext PROVE DemoInv'
<1>1. /\ show \in {<<s>> : s \in Scenes} /\ UNCHANGED <<show, me, scene, events>>
      /\ IInv /\ ec \in [Consumers -> EngineConsumer]
      /\ SceneInv(show[1], demo, ep, RP!Pub, co[me], ec[me], rd[me])
      /\ co[me].cursor \in Nat /\ RP!Pub \in Nat /\ ep.stamp \in Nat
      /\ RP!Pub = IF ep.pc = "idle" THEN ep.stamp ELSE ep.stamp - 1
  BY DemoFacts
<1>2. /\ me \in Consumers /\ StaleReads = FALSE /\ MaxResyncs >= 1
      /\ events \in Nat /\ events = show[1].n /\ scene = show[1].scene
      /\ scene \in {"keeping_up", "lapped"} /\ Cap \in Nat /\ Cap >= 1
  BY <1>1, SceneFacts
<1>3. /\ demo.pc = "poll" /\ PollStep(me)
      /\ demo' = IF ~Returned(me) THEN demo
                 ELSE [pc |-> IF ep.stamp < events THEN "process" ELSE "drain",
                       delivered |-> Counted]
  BY DEF PollNext
<1>4. ep.pc = "idle" /\ scene = "keeping_up" /\ KeepingUp(demo, RP!Pub, co[me], ec[me])
  BY <1>1, <1>2, <1>3 DEF SceneInv, Lapped
<1>5. /\ IInv' /\ UNCHANGED ep /\ RP!Pub' = RP!Pub
      /\ ec' \in [Consumers -> EngineConsumer]
      /\ QuietPoll(RP!Pub, ep.stamp, co[me], ec[me], rd[me], co'[me], ec'[me], rd'[me])
  BY <1>1, <1>2, <1>3, <1>4, PollQuiet
<1>6. /\ ec[me].pc = "poll" /\ ec[me].resyncs = 0 /\ demo.delivered = co[me].cursor
      /\ co[me].pc # "resync" /\ co[me].cursor + 1 = RP!Pub
  BY <1>3, <1>4 DEF KeepingUp
<1>7. /\ RP!Quiet(RP!Pub, co[me], co'[me]) /\ ec'[me].resyncs = 0
      /\ ec'[me].pc = IF co'[me].pc = "idle" /\ co'[me].out.kind = "overrun"
                      THEN "rebase" ELSE "poll"
  BY <1>5, <1>6 DEF QuietPoll
<1>8. \/ /\ co'[me].pc \notin {"idle", "resync"} /\ co'[me].cursor = co[me].cursor
      \/ /\ co'[me].pc = "idle" /\ co'[me].out.kind = "item"
         /\ co'[me].cursor = co[me].cursor + 1
  BY <1>1, <1>2, <1>6, <1>7 DEF RP!Quiet
<1>9. ec'[me].pc = "poll" BY <1>7, <1>8
<1>10. SceneInv(show[1], demo', ep, RP!Pub, co'[me], ec'[me], rd'[me])
  <2>1. CASE co'[me].pc \notin {"idle", "resync"} /\ co'[me].cursor = co[me].cursor
    <3>1. demo' = demo BY <1>3, <2>1 DEF Returned
    <3>2. KeepingUp(demo', RP!Pub, co'[me], ec'[me])
      BY <1>3, <1>6, <1>7, <1>9, <2>1, <3>1 DEF KeepingUp
    <3> QED BY <1>1, <1>2, <1>3, <1>4, <3>1, <3>2 DEF SceneInv
  <2>2. CASE /\ co'[me].pc = "idle" /\ co'[me].out.kind = "item"
             /\ co'[me].cursor = co[me].cursor + 1
    <3>1. Returned(me) /\ Counted = demo.delivered + 1
      BY <1>1, <1>9, <2>2 DEF Returned, Counted
    <3>2. demo' = [pc |-> IF ep.stamp < events THEN "process" ELSE "drain",
                   delivered |-> demo.delivered + 1]
      BY <1>3, <3>1
    <3>3. KeepingUp(demo', RP!Pub, co'[me], ec'[me])
      BY <1>1, <1>6, <1>7, <1>9, <2>2, <3>2 DEF KeepingUp
    <3>4. demo.delivered + 1 \in Nat BY <1>1, <1>6
    <3>5. /\ demo' \in [pc : {"new", "process", "poll", "drain", "done"}, delivered : Nat]
          /\ demo'.pc = IF ep.stamp < events THEN "process" ELSE "drain"
      BY <3>2, <3>4
    <3>6. ep.stamp <= events BY <1>1, <1>2 DEF SceneInv
    <3> QED BY <1>1, <1>2, <1>4, <3>3, <3>5, <3>6 DEF SceneInv
  <2> QED BY <1>8, <2>1, <2>2
<1> QED BY <1>1, <1>5, <1>10 DEF DemoInv


\* What a poll of the scene's last loop leads to: the consumer that kept up finds the
\* ring empty, the other is overrun, reloads, reads on, and ends with the ring's last.
LEMMA LastPolls ==
  ASSUME NEW k \in Nat, k > Cap, Cap \in Nat, NEW j, NEW e \in EngineConsumer, NEW r,
         NEW i, NEW f, NEW q,
         j.cursor \in Nat, j.cursor <= k, QuietPoll(k, k, j, e, r, i, f, q),
         Unread(j, e) \/ Reloading(k, j, e, r) \/ Reloaded(k, j, e, r)
  PROVE  \/ /\ ~(f.pc = "poll" /\ i.pc = "idle")
            /\ Unread(i, f) \/ Reloading(k, i, f, q) \/ Reloaded(k, i, f, q)
         \/ /\ f.pc = "poll" /\ i.pc = "idle" /\ Reloaded(k, i, f, q)
            /\ \/ i.out.kind \in {"item", "overrun"}
               \/ i.out.kind = "empty" /\ i.cursor = k
<1>1. e.seen \in Nat BY DEF EngineConsumer
<1>2. CASE Unread(j, e)
  <2>1. /\ j.cursor = 0 /\ e.pc = "poll" /\ e.seen = 0 BY <1>2 DEF Unread
  <2>2. /\ RP!Quiet(k, j, i)
        /\ f.pc = IF i.pc = "idle" /\ i.out.kind = "overrun" THEN "rebase" ELSE "poll"
        /\ f.seen = IF i.pc = "idle" /\ i.out.kind = "item" THEN e.seen + 1 ELSE e.seen
    BY <2>1 DEF QuietPoll
  <2>3. \/ i.pc # "idle" /\ i.cursor = 0
        \/ i.pc = "idle" /\ i.out.kind = "overrun" /\ i.cursor = k - Cap
    BY <2>1, <2>2 DEF RP!Quiet
  <2>4. CASE i.pc # "idle" /\ i.cursor = 0 BY <2>1, <2>2, <2>4 DEF Unread
  <2>5. CASE i.pc = "idle" /\ i.out.kind = "overrun" /\ i.cursor = k - Cap
    BY <2>1, <2>2, <2>5 DEF Reloading
  <2> QED BY <2>3, <2>4, <2>5
<1>3. CASE Reloading(k, j, e, r)
  <2>1. /\ e.pc \in {"rebase", "load"} /\ e.seen = 0
        /\ j.pc = "idle" /\ j.out.kind = "overrun" /\ j.cursor = k - Cap
        /\ e.pc = "load" => e.resyncs > 0 /\ LP!Holds(r, k)
    BY <1>3 DEF Reloading
  <2>2. CASE e.pc = "rebase"
    <3>1. /\ i = j /\ LP!Holds(q, k) /\ f.pc = "load" /\ f.seen = e.seen /\ f.resyncs > 0
      BY <2>2 DEF QuietPoll
    <3> QED BY <2>1, <3>1 DEF Reloading
  <2>3. CASE e.pc = "load"
    <3>1. /\ i = j /\ LP!Holds(q, k)
          /\ q.pc = "idle" => q.out.words = [w \in 1..TopWords |-> k]
          /\ f.pc = IF q.pc = "idle" THEN "poll" ELSE "load"
          /\ f.seen = e.seen /\ f.resyncs = e.resyncs
      BY <2>1, <2>3 DEF QuietPoll
    <3>2. CASE q.pc = "idle"
      <4>1. f.seen = i.cursor - (k - Cap) BY <2>1, <3>1
      <4>2. Reloaded(k, i, f, q) BY <2>1, <2>3, <3>1, <3>2, <4>1 DEF Reloaded
      <4> QED BY <2>1, <3>1, <3>2, <4>2
    <3>3. CASE q.pc # "idle" BY <2>1, <2>3, <3>1, <3>3 DEF Reloading
    <3> QED BY <3>2, <3>3
  <2> QED BY <2>1, <2>2, <2>3
<1>4. CASE Reloaded(k, j, e, r)
  <2>1. /\ e.pc = "poll" /\ e.resyncs > 0 /\ j.pc # "resync"
        /\ e.seen = j.cursor - (k - Cap)
        /\ r.out.words = [w \in 1..TopWords |-> k]
    BY <1>4 DEF Reloaded
  <2>2. /\ RP!Quiet(k, j, i) /\ q = r /\ f.resyncs = e.resyncs
        /\ f.pc = IF i.pc = "idle" /\ i.out.kind = "overrun" THEN "rebase" ELSE "poll"
        /\ f.seen = IF i.pc = "idle" /\ i.out.kind = "item" THEN e.seen + 1 ELSE e.seen
    BY <2>1 DEF QuietPoll
  <2>3. ~(k > j.cursor + Cap) BY <1>1, <2>1
  <2>4. \/ i.pc \notin {"idle", "resync"} /\ i.cursor = j.cursor
        \/ i.pc = "idle" /\ i.out.kind = "empty" /\ i.cursor = j.cursor /\ j.cursor >= k
        \/ i.pc = "idle" /\ i.out.kind = "item" /\ i.cursor = j.cursor + 1
    BY <2>1, <2>2, <2>3 DEF RP!Quiet
  <2>5. f.pc = "poll" /\ i.pc # "resync" BY <2>2, <2>4
  <2>6. f.seen = i.cursor - (k - Cap) BY <1>1, <2>1, <2>2, <2>4
  <2>7. Reloaded(k, i, f, q) BY <2>1, <2>2, <2>5, <2>6 DEF Reloaded
  <2> QED BY <2>4, <2>5, <2>7
<1> QED BY <1>2, <1>3, <1>4

\* A step of a scene's last loop (engine/src/main.rs:41-47, 60-71).
LEMMA DrainRestInv == ASSUME DemoInv, Perform, DrainRest PROVE DemoInv'
<1>1. /\ show \in {<<s>> : s \in Scenes} /\ UNCHANGED <<show, me, scene, events>>
      /\ IInv /\ ec \in [Consumers -> EngineConsumer]
      /\ SceneInv(show[1], demo, ep, RP!Pub, co[me], ec[me], rd[me])
      /\ co[me].cursor \in Nat /\ co[me].cursor <= RP!Pub
      /\ RP!Pub = IF ep.pc = "idle" THEN ep.stamp ELSE ep.stamp - 1
  BY DemoFacts
<1>2. /\ me \in Consumers /\ StaleReads = FALSE /\ MaxResyncs >= 1
      /\ events \in Nat /\ events = show[1].n /\ scene = show[1].scene
      /\ scene \in {"keeping_up", "lapped"} /\ Cap \in Nat
      /\ scene = "lapped" => events > Cap
  BY <1>1, SceneFacts
<1>3. /\ demo.pc = "drain" /\ PollStep(me)
      /\ demo' = IF ~Returned(me) THEN demo
                 ELSE [pc |-> IF \/ co'[me].out.kind = "item"
                                 \/ scene = "lapped" /\ co'[me].out.kind = "overrun"
                              THEN "drain" ELSE "done",
                       delivered |-> Counted]
  BY DEF DrainRest
<1>4. ep.pc = "idle" /\ ep.stamp = events /\ RP!Pub = events /\ demo.delivered \in Nat
  BY <1>1, <1>2, <1>3 DEF SceneInv
<1>5. /\ IInv' /\ UNCHANGED ep /\ RP!Pub' = events
      /\ ec' \in [Consumers -> EngineConsumer]
      /\ QuietPoll(events, events, co[me], ec[me], rd[me], co'[me], ec'[me], rd'[me])
  BY <1>1, <1>2, <1>3, <1>4, PollQuiet
<1>6. Counted \in Nat
  BY <1>4 DEF Counted
<1>7. demo' \in [pc : {"new", "process", "poll", "drain", "done"}, delivered : Nat]
  BY <1>1, <1>3, <1>6 DEF SceneInv
<1>8. demo'.pc \in {"drain", "done"} BY <1>3
<1>9. CASE scene = "keeping_up"
  <2>1. KeepingUp(demo, events, co[me], ec[me])
    BY <1>1, <1>2, <1>3, <1>4, <1>9 DEF SceneInv
  <2>2. /\ ec[me].pc = "poll" /\ ec[me].resyncs = 0 /\ demo.delivered = co[me].cursor
        /\ co[me].pc = "idle" /\ co[me].cursor = events
    BY <1>3, <2>1 DEF KeepingUp
  <2>3. /\ RP!Quiet(events, co[me], co'[me]) /\ ec'[me].resyncs = 0
        /\ ec'[me].pc = IF co'[me].pc = "idle" /\ co'[me].out.kind = "overrun"
                        THEN "rebase" ELSE "poll"
    BY <1>5, <2>2 DEF QuietPoll
  <2>4. co'[me].pc = "idle" /\ co'[me].out.kind = "empty" /\ co'[me].cursor = events
    BY <1>2, <2>2, <2>3 DEF RP!Quiet
  <2>5. ec'[me].pc = "poll" BY <2>3, <2>4
  <2>6. Returned(me) /\ Counted = demo.delivered
    BY <1>4, <2>4, <2>5 DEF Returned, Counted
  <2>7. demo' = [pc |-> "done", delivered |-> demo.delivered] BY <1>3, <1>9, <2>4, <2>6
  <2>8. KeepingUp(demo', events, co'[me], ec'[me])
    BY <2>2, <2>3, <2>4, <2>5, <2>7 DEF KeepingUp
  <2>9. SceneInv(show[1], demo', ep, events, co'[me], ec'[me], rd'[me])
    BY <1>2, <1>4, <1>7, <1>8, <1>9, <2>8 DEF SceneInv
  <2> QED BY <1>1, <1>5, <2>9 DEF DemoInv
<1>10. CASE scene = "lapped"
  <2>1. \/ Unread(co[me], ec[me]) \/ Reloading(events, co[me], ec[me], rd[me])
        \/ Reloaded(events, co[me], ec[me], rd[me])
    BY <1>1, <1>2, <1>3, <1>10 DEF SceneInv, Lapped
  <2>2. \/ /\ ~Returned(me)
           /\ \/ Unread(co'[me], ec'[me]) \/ Reloading(events, co'[me], ec'[me], rd'[me])
              \/ Reloaded(events, co'[me], ec'[me], rd'[me])
        \/ /\ Returned(me) /\ Reloaded(events, co'[me], ec'[me], rd'[me])
           /\ \/ co'[me].out.kind \in {"item", "overrun"}
              \/ co'[me].out.kind = "empty" /\ co'[me].cursor = events
    <3>1. ec[me] \in EngineConsumer BY <1>1, <1>2
    <3> QED BY <1>1, <1>2, <1>4, <1>5, <1>10, <2>1, <3>1, LastPolls DEF Returned
  <2>3. Lapped(events, demo', co'[me], ec'[me], rd'[me])
    <3>1. CASE ~Returned(me)
      <4>1. demo'.pc = "drain" BY <1>3, <3>1
      <4> QED BY <2>2, <3>1, <4>1 DEF Lapped
    <3>2. CASE Returned(me)
      <4>1. demo'.pc = IF co'[me].out.kind \in {"item", "overrun"} THEN "drain" ELSE "done"
        BY <1>3, <1>10, <3>2
      <4> QED BY <2>2, <3>2, <4>1 DEF Lapped
    <3> QED BY <3>1, <3>2
  <2>4. SceneInv(show[1], demo', ep, events, co'[me], ec'[me], rd'[me])
    BY <1>2, <1>4, <1>7, <1>8, <1>10, <2>3 DEF SceneInv
  <2> QED BY <1>1, <1>5, <2>4 DEF DemoInv
<1> QED BY <1>2, <1>9, <1>10

\* Every step keeps it,
LEMMA DemoStepInv == DemoInv /\ [PipelineNext]_pipelineVars => DemoInv'
<1> SUFFICES ASSUME DemoInv, [PipelineNext]_pipelineVars PROVE DemoInv' OBVIOUS
<1>1. CASE show = <<>> /\ CellNext /\ UNCHANGED demoVars
  BY <1>1 DEF DemoInv, demoVars
<1>2. CASE Perform
  <2>1. CASE MintFirst BY <1>2, <2>1, MintFirstInv
  <2>2. CASE ProcessNext BY <1>2, <2>2, ProcessNextInv
  <2>3. CASE PollNext BY <1>2, <2>3, PollNextInv
  <2>4. CASE DrainRest BY <1>2, <2>4, DrainRestInv
  <2> QED BY <1>2, <2>1, <2>2, <2>3, <2>4 DEF Perform
<1>3. CASE UNCHANGED pipelineVars
  <2>1. /\ UNCHANGED <<mem, fenced, view, wr, rd, pr, co, ep, ec, show, demo>>
        /\ UNCHANGED vars
    BY <1>3 DEF pipelineVars, e2eVars, demoVars, vars
  <2>2. CASE show = <<>> BY <2>1, <2>2 DEF DemoInv
  <2>3. CASE show # <<>>
    <3>1. IInv' BY <2>1, <2>3, EngineStays DEF DemoInv
    <3>2. RP!Pub' = RP!Pub /\ me' = me BY <2>1 DEF RP!Pub, me
    <3> QED BY <2>1, <2>3, <3>1, <3>2 DEF DemoInv
  <2> QED BY <2>2, <2>3
<1> QED BY <1>1, <1>2, <1>3 DEF PipelineNext

\* and it holds initially.
LEMMA DemoInitInv == PipelineInit => DemoInv
<1> SUFFICES ASSUME PipelineInit PROVE DemoInv OBVIOUS
<1>1. demo = [pc |-> "new", delivered |-> 0] BY DEF PipelineInit
<1>2. CASE show = <<>> BY <1>1, <1>2 DEF DemoInv
<1>3. CASE CellStart(NoCell) /\ show \in {<<s>> : s \in Scenes}
  <2>1. Created /\ co = [c \in Consumers |-> Ring!ConsumerInit]
    <3>1. K = {} BY <1>3 DEF CellStart, K, NoCell
    <3> QED BY <1>3, <3>1 DEF CellStart
  <2>2. IInv BY <2>1, InitInv DEF Init
  <2>3. /\ me \in Consumers /\ events = show[1].n /\ events \in Nat
        /\ MaxResyncs >= 1 /\ show # <<>>
    <3>1. show # <<>> BY <1>3
    <3> QED BY <1>3, <3>1, SceneFacts
  <2>4. ep.stamp = 0 /\ ep.pc = "idle" BY <2>1 DEF Created
  <2>5. ec = [c \in Consumers |-> [pc |-> "poll", seen |-> 0, resyncs |-> 0]]
    BY <2>1 DEF Created
  <2>6. 0 \in 0 .. MaxResyncs BY EngineAssumption
  <2>7. ec \in [Consumers -> EngineConsumer] BY <2>5, <2>6 DEF EngineConsumer
  <2>8. co[me].cursor = 0 BY <2>1, <2>3 DEF Ring!ConsumerInit
  <2>9. SceneInv(show[1], demo, ep, RP!Pub, co[me], ec[me], rd[me])
    BY <1>1, <2>3, <2>4, <2>5, <2>8 DEF SceneInv
  <2> QED BY <1>3, <2>2, <2>3, <2>7, <2>9 DEF DemoInv
<1> QED BY <1>2, <1>3 DEF PipelineInit

\* The demo's assertions hold, for every ring, every number of events and every consumer:
\* the consumer that keeps up is given every event and never overrun; the one that was
\* lapped reloads the top of book of the last event and is still given the whole ring
\* (engine/src/main.rs:41, 48, 66-70).
THEOREM DemoHolds == PipelineSpec => []DemoAsserts
<1>1. DemoInv => DemoAsserts
  <2> SUFFICES ASSUME DemoInv, demo.pc = "done"
               PROVE  IF scene = "keeping_up"
                        THEN demo.delivered = events /\ ec[me].resyncs = 0
                        ELSE /\ ec[me].resyncs > 0 /\ ec[me].seen = Cap
                             /\ rd[me].out.words = [w \in 1 .. TopWords |-> events]
    BY DEF DemoAsserts
  <2>1. /\ show \in {<<s>> : s \in Scenes} /\ IInv
        /\ SceneInv(show[1], demo, ep, RP!Pub, co[me], ec[me], rd[me])
    BY DEF DemoInv
  <2>2. /\ events = show[1].n /\ scene = show[1].scene /\ events \in Nat
        /\ Cap \in Nat
    BY <2>1, SceneFacts
  <2>3. ep.pc = "idle" /\ ep.stamp = events BY <2>1, <2>2 DEF SceneInv
  <2>4. RP!Pub = events BY <2>1, <2>3 DEF IInv, PipelineInv
  <2>5. CASE scene = "keeping_up" BY <2>1, <2>2, <2>4, <2>5 DEF SceneInv, KeepingUp
  <2>6. CASE scene # "keeping_up"
    <3>1. Lapped(events, demo, co[me], ec[me], rd[me])
      BY <2>1, <2>2, <2>6 DEF SceneInv
    <3>2. /\ ec[me].resyncs > 0 /\ ec[me].seen = events - (events - Cap)
          /\ rd[me].out.words = [w \in 1 .. TopWords |-> events]
      BY <3>1 DEF Lapped, Reloaded
    <3> QED BY <2>2, <2>6, <3>2
  <2> QED BY <2>5, <2>6
<1> QED BY <1>1, DemoInitInv, DemoStepInv, PTL DEF PipelineSpec

-------------------------------------------------------------------------------
(* The benchmark and the demo together *)

\* While a scene is played no cell runs: its variables are those of none.
NoCellRuns ==
  /\ args = NoCell /\ ready = 0 /\ drv = "exited"
  /\ cs = [c \in K |-> cs[c]]
  /\ cell = [joined |-> {}, tally |-> NoTally]

\* What is the case in a cell (I) or else in a scene.
InPart(I) == IF show = <<>> THEN I ELSE NoCellRuns

\* A behaviour begins in a cell or in a scene,
LEMMA PartStarts ==
  ASSUME PipelineInit
  PROVE  InPart(CellInv) /\ InPart(CellInv /\ AccountInv)
<1>1. CASE \E a \in Cells : CellStart(a) /\ show = <<>>
  BY <1>1, CellStartInv DEF InPart
<1>2. CASE CellStart(NoCell) /\ show \in {<<s>> : s \in Scenes}
  <2>1. show # <<>> BY <1>2
  <2>2. K = {} BY <1>2 DEF CellStart, K, NoCell
  <2>3. NoCellRuns BY <1>2, <2>2 DEF CellStart, NoCellRuns
  <2> QED BY <2>1, <2>3 DEF InPart
<1> QED BY <1>1, <1>2 DEF PipelineInit

\* and stays in it.
LEMMA PartStays ==
  ASSUME [PipelineNext]_pipelineVars
  PROVE  \/ show = <<>> /\ show' = show /\ [CellNext]_e2eVars
         \/ /\ show # <<>> /\ show' = show
            /\ NoCellRuns => NoCellRuns'
<1>1. CASE show = <<>> /\ CellNext /\ UNCHANGED demoVars BY <1>1 DEF demoVars
<1>2. CASE Perform
  <2>1. show # <<>> /\ show' = show /\ UNCHANGED <<args, ready, drv, cs, cell>>
    BY <1>2 DEF Perform, cellVars
  <2>2. NoCellRuns => NoCellRuns' BY <2>1 DEF NoCellRuns, K
  <2> QED BY <2>1, <2>2
<1>3. CASE UNCHANGED pipelineVars
  <2>1. show' = show /\ UNCHANGED e2eVars /\ UNCHANGED <<args, ready, drv, cs, cell>>
    BY <1>3 DEF pipelineVars, demoVars, e2eVars, cellVars
  <2>2. NoCellRuns => NoCellRuns' BY <2>1 DEF NoCellRuns, K
  <2> QED BY <2>1, <2>2
<1> QED BY <1>1, <1>2, <1>3 DEF PipelineNext

\* The barrier starts all threads together: while a consumer warms up nothing is
\* pushed, so every event is measured, and each measures from the published base,
\* under all the reads the memory model allows (e2e.rs:143-147, 277-287).
THEOREM BarrierHolds == PipelineSpec => []StartsTogether
<1>1. PipelineInit => InPart(CellInv) BY PartStarts
<1>2. InPart(CellInv) /\ [PipelineNext]_pipelineVars => InPart(CellInv)'
  BY PartStays, CellStepInv DEF InPart
<1>3. InPart(CellInv) => StartsTogether
  <2>1. CASE show = <<>> BY <2>1, CellStarts DEF InPart
  <2>2. CASE show # <<>>
    <3>1. NoCellRuns => K = {} BY DEF NoCellRuns, K, NoCell
    <3> QED BY <2>2, <3>1 DEF InPart, StartsTogether, WarmupTakesNothing, SharedBase
  <2> QED BY <2>1, <2>2
<1> QED BY <1>1, <1>2, <1>3, PTL DEF PipelineSpec

\* The invariant of the cell with its accounts.
LEMMA AccountsHold ==
  ASSUME StaleReads = FALSE
  PROVE  PipelineSpec => []InPart(CellInv /\ AccountInv)
<1>1. PipelineInit => InPart(CellInv /\ AccountInv) BY PartStarts
<1>2. CellInv /\ AccountInv /\ [CellNext]_e2eVars => (CellInv /\ AccountInv)'
  BY CellStepInv, AccountStep
<1>3. InPart(CellInv /\ AccountInv) /\ [PipelineNext]_pipelineVars
        => InPart(CellInv /\ AccountInv)'
  BY <1>2, PartStays DEF InPart
<1> QED BY <1>1, <1>3, PTL DEF PipelineSpec

\* When each load is of the newest store: whatever a consumer's polls met, when it
\* stops each of the n events was delivered to it or counted as skipped, and the
\* totals of the cell are those of all (e2e.rs:229-252, 357-367).
THEOREM NothingUncounted ==
  ASSUME StaleReads = FALSE
  PROVE  PipelineSpec => []EveryEventAccounted
<1>1. InPart(CellInv /\ AccountInv) => EveryEventAccounted
  <2>1. CASE show = <<>> BY <2>1, CellCounts DEF InPart
  <2>2. CASE show # <<>>
    <3>1. ASSUME NoCellRuns PROVE EveryEventAccounted
      <4>1. K = {} /\ n = 0 BY <3>1 DEF NoCellRuns, K, n, NoCell
      <4>2. cell.tally.deliveries = 0 /\ cell.tally.skipped = 0
        BY <3>1 DEF NoCellRuns, NoTally
      <4>3. n * Cardinality(K) = 0 BY <4>1, FS_EmptySet
      <4> QED BY <4>1, <4>2, <4>3 DEF EveryEventAccounted
    <3> QED BY <2>2, <3>1 DEF InPart
  <2> QED BY <2>1, <2>2
<1> QED BY <1>1, AccountsHold, PTL

\* A consumer has counted no more events than its cursor has passed.
SeenInv ==
  show # <<>> => \A c \in Consumers : ec[c].seen \in Nat /\ ec[c].seen <= co[c].cursor

\* A poll between two pushes keeps it so.
LEMMA PollSeen ==
  ASSUME NEW b \in Nat, NEW k, NEW j, NEW e, NEW r, NEW i, NEW f, NEW q, Cap \in Nat,
         QuietPoll(b, k, j, e, r, i, f, q),
         j.cursor \in Nat, e.seen \in Nat, e.seen <= j.cursor
  PROVE  f.seen \in Nat /\ f.seen <= i.cursor
<1>1. CASE /\ RP!Quiet(b, j, i)
           /\ f.seen = IF i.pc = "idle" /\ i.out.kind = "item" THEN e.seen + 1 ELSE e.seen
  <2>1. CASE i.pc = "idle" /\ i.out.kind = "item"
    <3>1. i.cursor = j.cursor + 1 BY <1>1, <2>1 DEF RP!Quiet
    <3> QED BY <1>1, <2>1, <3>1
  <2>2. CASE ~(i.pc = "idle" /\ i.out.kind = "item")
    <3>1. i.cursor = j.cursor \/ (i.cursor = b - Cap /\ b > j.cursor + Cap)
      BY <1>1, <2>2 DEF RP!Quiet
    <3> QED BY <1>1, <2>2, <3>1
  <2> QED BY <2>1, <2>2
<1>2. CASE i = j /\ f.seen = e.seen BY <1>2
<1> QED BY <1>1, <1>2 DEF QuietPoll

\* Every step of a scene does.
LEMMA SeenStepInv ==
  ASSUME DemoInv, SeenInv, [PipelineNext]_pipelineVars
  PROVE  SeenInv'
<1>1. CASE show = <<>> /\ CellNext /\ UNCHANGED demoVars BY <1>1 DEF SeenInv, demoVars
<1>2. CASE UNCHANGED pipelineVars
  BY <1>2 DEF SeenInv, pipelineVars, demoVars, e2eVars, vars
<1>3. CASE Perform
  <2>1. /\ show \in {<<s>> : s \in Scenes} /\ UNCHANGED <<show, me, scene, events>>
        /\ IInv /\ ec \in [Consumers -> EngineConsumer]
        /\ SceneInv(show[1], demo, ep, RP!Pub, co[me], ec[me], rd[me])
        /\ co \in [Consumers -> RP!ConsumerState]
        /\ RP!Pub \in Nat
    BY <1>3, DemoFacts
  <2>2. /\ me \in Consumers /\ StaleReads = FALSE /\ MaxResyncs >= 1 /\ Cap \in Nat
    BY <2>1, SceneFacts
  <2>3. \A c \in Consumers : ec[c].seen \in Nat /\ ec[c].seen <= co[c].cursor
    BY <1>3 DEF SeenInv, Perform
  <2>4. SUFFICES ASSUME NEW c \in Consumers
                 PROVE  ec'[c].seen \in Nat /\ ec'[c].seen <= co'[c].cursor
    BY DEF SeenInv
  <2>5. CASE PollStep(me) /\ ep.pc = "idle"
    <3>1. QuietPoll(RP!Pub, ep.stamp, co[me], ec[me], rd[me], co'[me], ec'[me], rd'[me])
      BY <2>1, <2>2, <2>5, PollQuiet
    <3>2. \A d \in Consumers \ {me} : co'[d] = co[d] /\ ec'[d] = ec[d]
      BY <2>1, <2>2, <2>5, PollMoves
    <3>3. co[me].cursor \in Nat BY <2>1, <2>2 DEF RP!ConsumerState
    <3>4. ec'[me].seen \in Nat /\ ec'[me].seen <= co'[me].cursor
      BY <2>1, <2>2, <2>3, <3>1, <3>3, PollSeen
    <3> QED BY <2>3, <3>2, <3>4
  <2>6. CASE MintFirst
    <3>1. Mint(me) /\ demo.pc = "new" BY <2>6 DEF MintFirst
    <3>2. ec' = ec /\ RP!Join(me) BY <3>1, RingSteps DEF Mint
    <3>3. ec[me].seen = 0
      <4>1. ec[me] = [pc |-> "poll", seen |-> 0, resyncs |-> 0]
        BY <2>1, <3>1 DEF SceneInv
      <4> QED BY <4>1
    <3>4. DemoInv' BY <1>3, <2>6, MintFirstInv
    <3>5. co' \in [Consumers -> RP!ConsumerState]
      <4>1. show' # <<>> BY <1>3, <2>1 DEF Perform
      <4>2. IInv' BY <3>4, <4>1 DEF DemoInv
      <4> QED BY <4>2, RP!Types, RP!NextTypes DEF IInv, RP!IInv
    <3>6. co'[me].cursor \in Nat BY <2>2, <3>5 DEF RP!ConsumerState
    <3>7. c # me => co'[c] = co[c]
      <4>1. PICK i \in RP!Visible(mem, view[me], RP!WriteLoc) :
              \E x \in {mem[RP!WriteLoc][i].val, RP!MonusCap(mem[RP!WriteLoc][i].val)} :
                co' = [co EXCEPT ![me].pc = "idle", ![me].cursor = x, ![me].start = x]
        BY <3>2 DEF RP!Join
      <4> QED BY <2>1, <4>1
    <3>8. CASE c = me BY <3>2, <3>3, <3>6, <3>8
    <3>9. CASE c # me BY <2>3, <3>2, <3>7, <3>9
    <3> QED BY <3>8, <3>9
  <2>7. CASE ProcessNext
    <3>1. Process BY <2>7 DEF ProcessNext, Process
    <3>2. UNCHANGED <<co, ec>> BY <2>1, <3>1, ProcessKeeps
    <3> QED BY <2>3, <3>2
  <2>8. PollNext \/ DrainRest => PollStep(me) /\ ep.pc = "idle"
    BY <2>1 DEF PollNext, DrainRest, SceneInv
  <2> QED BY <1>3, <2>5, <2>6, <2>7, <2>8 DEF Perform
<1> QED BY <1>1, <1>2, <1>3 DEF PipelineNext

\* When each load is of the newest store, no consumer counts more than the corpus holds:
\* every variable of a cell, or of a scene, and of the engine it runs has its type
\* (e2e.rs:148-180, 224, engine/src/main.rs:32-72).
THEOREM CellTypes ==
  ASSUME StaleReads = FALSE
  PROVE  PipelineSpec => []CellTypeOK
<1>1. PipelineInit => SeenInv
  <2> SUFFICES ASSUME PipelineInit, show # <<>>, NEW c \in Consumers
               PROVE  ec[c].seen \in Nat /\ ec[c].seen <= co[c].cursor
    BY DEF SeenInv
  <2>1. CellStart(NoCell) BY DEF PipelineInit
  <2>2. K = {} BY <2>1 DEF CellStart, K, NoCell
  <2>3. Created /\ co = [d \in Consumers |-> Ring!ConsumerInit]
    BY <2>1, <2>2 DEF CellStart
  <2>4. ec = [d \in Consumers |-> [pc |-> "poll", seen |-> 0, resyncs |-> 0]]
    BY <2>3 DEF Created
  <2> QED BY <2>3, <2>4 DEF Ring!ConsumerInit
<1>2. DemoInv /\ SeenInv /\ [PipelineNext]_pipelineVars => SeenInv' BY SeenStepInv
<1>3. InPart(CellInv /\ AccountInv) /\ DemoInv /\ SeenInv => CellTypeOK
  <2>1. CASE show = <<>> BY <2>1, CellTyped DEF InPart
  <2>2. CASE show # <<>>
    <3> SUFFICES ASSUME NoCellRuns, DemoInv, SeenInv PROVE CellTypeOK
      BY <2>2 DEF InPart
    <3>1. /\ show \in {<<s>> : s \in Scenes} /\ IInv
          /\ ec \in [Consumers -> EngineConsumer]
      BY <2>2 DEF DemoInv
    <3>2. ASSUME NEW c \in Consumers PROVE ec[c].seen \in 0 .. MaxEvents
      <4>1. co[c].cursor \in Nat /\ co[c].cursor <= RP!Pub
        BY <3>1, RP!ConsumerFacts DEF IInv
      <4>2. ep.stamp \in 0 .. MaxEvents /\ RP!Pub \in Nat /\ RP!Pub <= ep.stamp
        BY <3>1, Facts DEF IInv, PipelineInv
      <4>3. ec[c].seen \in Nat /\ ec[c].seen <= co[c].cursor BY <2>2 DEF SeenInv
      <4>4. MaxEvents \in Nat BY RP!Bounds
      <4> QED BY <4>1, <4>2, <4>3, <4>4
    <3>3. TypeOK BY <3>1, <3>2, EngineTyped
    <3>4. K = {} /\ cell.joined = {} /\ ready = 0
      BY DEF NoCellRuns, K, NoCell
    <3>5. Cardinality(K) = 0 BY <3>4, FS_EmptySet
    <3>6. cs \in [K ->
            [pc : {"warmup", "announce", "wait", "base", "drain", "idle", "exited"},
             warm : 0 .. WarmupPolls, base : {0, ClockBase},
             tally : [deliveries : 0 .. n, overruns : 0 .. MaxResyncs, skipped : 0 .. n]]]
      BY <3>4 DEF NoCellRuns
    <3>7. drv = "exited" /\ args = NoCell BY DEF NoCellRuns
    <3> QED BY <3>3, <3>4, <3>5, <3>6, <3>7 DEF CellTypeOK
  <2> QED BY <2>1, <2>2
<1> QED BY <1>1, <1>2, <1>3, AccountsHold, DemoInitInv, DemoStepInv, PTL DEF PipelineSpec
===============================================================================
