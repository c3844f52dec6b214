----------------------------- MODULE SeqLockProofs -----------------------------
(***************************************************************************)
(* Proofs about SeqLock, for every number of readers and payload words,    *)
(* every even width of the counter and every bound on the stores, under    *)
(* all the reads the memory model allows (StaleReads TRUE or FALSE).       *)
(***************************************************************************)
EXTENDS SeqLock, ViewMemoryProofs

\* The ranges of the constants, without the parity of SeqMod.
LEMMA Bounds ==
  /\ W \in Nat /\ W >= 1
  /\ SeqMod \in Nat /\ SeqMod >= 4
  /\ MaxStores \in Nat /\ RetryMax \in Nat /\ RetryMax >= 1
BY SeqLockAssumption

USE Bounds

\* The locations of the lock are distinct atomics (seqlock.rs:81-88).
LEMMA Locations ==
  /\ SeqLoc \in Loc
  /\ \A w \in 1..W : PayLoc(w) \in Loc /\ PayLoc(w) # SeqLoc
  /\ \A w, u \in 1..W : PayLoc(w) = PayLoc(u) => w = u
BY SeqLockAssumption DEF LockLoc, SeqLoc, PayLoc

\* A store to the memory appends one message, and every location keeps its own.
LEMMA StoreStep ==
  ASSUME mem \in Memory, NEW l \in Loc, NEW v \in Nat, NEW f \in View,
         mem' = Put(mem, l, v, f)
  PROVE  /\ mem' \in Memory
         /\ \A k \in Loc \ {l} : mem'[k] = mem[k]
         /\ Len(mem[l]) \in Nat
         /\ Len(mem'[l]) = Len(mem[l]) + 1
         /\ \A i \in 1..Len(mem[l]) : mem'[l][i] = mem[l][i]
         /\ mem'[l][Len(mem[l]) + 1].val = v
         /\ mem'[l][Len(mem[l]) + 1].view = [f EXCEPT ![l] = Len(mem[l]) + 1]
         /\ (\A k \in Loc : Len(mem[k]) >= 1) => \A k \in Loc : Len(mem'[k]) >= 1
<1> DEFINE n == Put(mem, l, v, f)
<1>1. /\ n \in Memory
      /\ \A k \in Loc \ {l} : n[k] = mem[k]
      /\ Len(mem[l]) \in Nat
      /\ Len(n[l]) = Len(mem[l]) + 1
      /\ \A i \in 1..Len(mem[l]) : n[l][i] = mem[l][i]
      /\ n[l][Len(mem[l]) + 1].val = v
      /\ n[l][Len(mem[l]) + 1].view = [f EXCEPT ![l] = Len(mem[l]) + 1]
  BY PutMessage, SMTT(60)
<1>2. mem' = n OBVIOUS
<1> HIDE DEF n
<1>3. ASSUME \A k \in Loc : Len(mem[k]) >= 1, NEW k \in Loc
      PROVE  Len(n[k]) >= 1
  <2>1. CASE k = l BY <1>1, <2>1
  <2>2. CASE k # l BY <1>1, <1>3, <2>2
  <2> QED BY <2>1, <2>2
<1> QED BY <1>1, <1>2, <1>3

\* The counter wraps at SeqMod, and an even value never wraps on the next step.
LEMMA Wrap ==
  ASSUME NEW s \in 0..SeqMod - 1
  PROVE  /\ (s + 1) % SeqMod = IF s + 1 = SeqMod THEN 0 ELSE s + 1
         /\ s + 2 <= SeqMod => (s + 2) % SeqMod = IF s + 2 = SeqMod THEN 0 ELSE s + 2
         /\ (s + 1) % SeqMod \in 0..SeqMod - 1
         /\ (s + 2) % SeqMod \in 0..SeqMod - 1
         /\ s % 2 = 0 => s + 2 <= SeqMod
BY SeqLockAssumption

\* A word appended to the words read so far.
LEMMA AppendWord ==
  ASSUME NEW q \in Seq(Nat), NEW x \in Nat
  PROVE  /\ Append(q, x) \in Seq(Nat)
         /\ Len(Append(q, x)) = Len(q) + 1
         /\ Append(q, x)[Len(q) + 1] = x
         /\ \A u \in 1..Len(q) : Append(q, x)[u] = q[u]
OBVIOUS

-------------------------------------------------------------------------------
(* The inductive invariant *)

\* How far the one store in progress has got.
WriterInv ==
  /\ wr.pc # "idle" => wr.n >= 1
  /\ \A l \in Loc : Len(mem[l]) >= 1
  /\ Len(mem[SeqLoc]) = IF wr.pc = "idle" THEN 2 * wr.n + 1 ELSE 2 * wr.n
  /\ \A w \in 1..W : Len(mem[PayLoc(w)]) =
       IF wr.pc = "payload" /\ w >= wr.w THEN wr.n ELSE wr.n + 1
  /\ wr.pc # "idle" => /\ wr.s % 2 = 0
                       /\ mem[SeqLoc][2 * wr.n].val = wr.s + 1
  /\ wr.pc # "idle" => fenced[SeqLoc] >= 2 * wr.n

\* The counter: even at the odd indices, and one more, modulo SeqMod, at each.
CounterInv ==
  /\ \A i \in 1..Len(mem[SeqLoc]) :
       mem[SeqLoc][i].val \in 0..SeqMod - 1 /\ (mem[SeqLoc][i].val + i) % 2 = 1
  /\ \A i, j \in 1..Len(mem[SeqLoc]) : i <= j /\ j - i < SeqMod =>
       \/ mem[SeqLoc][j].val = mem[SeqLoc][i].val + (j - i)
       \/ mem[SeqLoc][j].val = mem[SeqLoc][i].val + (j - i) - SeqMod

\* W2: who acquires an even counter has all the words of its store.
PublishInv ==
  \A i \in 1..Len(mem[SeqLoc]) :
    /\ mem[SeqLoc][i].view[SeqLoc] >= i
    /\ i % 2 = 1 =>
         \A w \in 1..W : 2 * mem[SeqLoc][i].view[PayLoc(w)] >= i + 1

\* W1: who fences after reading a word has the odd marker of its store.
PayloadInv ==
  \A w \in 1..W : \A j \in 1..Len(mem[PayLoc(w)]) :
    /\ mem[PayLoc(w)][j].val = j - 1
    /\ mem[PayLoc(w)][j].view[SeqLoc] >= 2 * (j - 1)

\* What a reader between R1 and s2 holds: words no older than the counter it
\* read, and no newer than its next acquire fence will show the counter to be.
SnapInv(r) ==
  /\ rd[r].i1 \in 1..Len(mem[SeqLoc]) /\ rd[r].i1 % 2 = 1
  /\ mem[SeqLoc][rd[r].i1].val = rd[r].s1
  /\ view[r].acq[SeqLoc] >= rd[r].i1
  /\ \A w \in 1..W : 2 * view[r].cur[PayLoc(w)] >= rd[r].i1 + 1
  /\ \A w \in 1..Len(rd[r].got) :
       /\ 2 * rd[r].got[w] >= rd[r].i1 - 1
       /\ 2 * rd[r].got[w] <= view[r].acq[SeqLoc]
  /\ IF rd[r].pc = "check" THEN Len(rd[r].got) = W ELSE Len(rd[r].got) < W

OutInv(o) ==
  /\ o.i1 % 2 = 1 /\ o.i2 <= 2 * MaxStores + 1
  /\ \A w \in 1..W : o.words[w] \in Nat
  /\ \/ o.i1 = o.i2 /\ Intact(o)
     \/ o.i2 - o.i1 >= SeqMod

ReaderInv ==
  \A r \in Readers :
    /\ rd[r].pc \in {"payload", "check"} => SnapInv(r)
    /\ OutInv(rd[r].out)

IInv ==
  /\ TypeOK /\ WriterInv /\ CounterInv /\ PublishInv /\ PayloadInv /\ ReaderInv

-------------------------------------------------------------------------------
(* It holds initially *)

\* A new lock, beside other new atomics of any value: the counter 0, the words 0,
\* every thread's view fresh.
LEMMA CreatedInv ==
  ASSUME mem \in Memory, fenced = OriginView, view = [r \in Readers |-> OriginThread],
         wr = WriterInit, rd = [r \in Readers |-> ReaderInit],
         \A l \in Loc : Len(mem[l]) = 1 /\ mem[l][1].view = OriginView,
         \A l \in LockLoc : mem[l][1].val = 0
  PROVE  IInv
<1>1. OriginView \in View BY DEF OriginView, View
<1>2. /\ \A l \in Loc : Len(mem[l]) = 1 /\ mem[l][1].view = OriginView
      /\ mem[SeqLoc][1].val = 0 /\ \A w \in 1..W : mem[PayLoc(w)][1].val = 0
  BY DEF LockLoc
<1>5. TypeOK
  <2>1. OriginThread \in Thread BY <1>1 DEF OriginThread, Thread
  <2>2. [w \in 1..W |-> 0] \in Seq(Nat) OBVIOUS
  <2> QED BY <1>1, <2>1, <2>2
      DEF TypeOK, WriterInit, ReaderInit, InitialSnapshot, WriterState,
          ReaderState, Snapshot
<1>6. WriterInv BY <1>2, Locations DEF WriterInv, WriterInit
<1>7. CounterInv
  <2>1. /\ Len(mem[SeqLoc]) = 1 /\ mem[SeqLoc][1].val = 0
        /\ \A i \in 1..Len(mem[SeqLoc]) : i = 1
    <3>1. Len(mem[SeqLoc]) = 1 /\ mem[SeqLoc][1].val = 0 BY <1>2, Locations
    <3>2. \A i \in 1..1 : i = 1 OBVIOUS
    <3> QED BY <3>1, <3>2
  <2>2. 0 \in 0..SeqMod - 1 /\ (0 + 1) % 2 = 1 OBVIOUS
  <2> QED BY <2>1, <2>2 DEF CounterInv
<1>8. PublishInv BY <1>2, Locations DEF PublishInv, OriginView
<1>9. PayloadInv BY <1>2, Locations DEF PayloadInv, OriginView
<1>10. ReaderInv
  <2> SUFFICES ASSUME NEW r \in Readers
               PROVE  rd[r].pc = "idle" /\ OutInv(rd[r].out)
    BY DEF ReaderInv
  <2>1. rd[r].pc = "idle" /\ rd[r].out = InitialSnapshot
    BY DEF ReaderInit
  <2>2. OutInv(InitialSnapshot) BY DEF OutInv, Intact, InitialSnapshot
  <2> QED BY <2>1, <2>2
<1> QED BY <1>5, <1>6, <1>7, <1>8, <1>9, <1>10 DEF IInv

\* SeqLock::new (seqlock.rs:93-102).
LEMMA InitInv == Init => IInv
<1> SUFFICES ASSUME Init PROVE IInv OBVIOUS
<1>1. OriginView \in View BY DEF OriginView, View
<1>2. Fresh(0) \in Seq(Message) BY <1>1 DEF Fresh, Message, OriginView
<1>3. mem \in Memory BY <1>2 DEF Init, Memory
<1>4. \A l \in Loc : /\ Len(mem[l]) = 1 /\ mem[l][1].view = OriginView
                     /\ mem[l][1].val = 0
  BY DEF Init, Fresh, OriginView
<1>5. \A l \in LockLoc : mem[l][1].val = 0 BY <1>4, SeqLockAssumption
<1> QED BY <1>3, <1>4, <1>5, CreatedInv DEF Init

-------------------------------------------------------------------------------
(* The writer's steps *)

\* A store by the writer leaves the readers' part of the invariant alone.
LEMMA ReadersKeep ==
  ASSUME IInv, UNCHANGED <<view, rd>>,
         Len(mem'[SeqLoc]) >= Len(mem[SeqLoc]), Len(mem'[SeqLoc]) \in Nat,
         \A i \in 1..Len(mem[SeqLoc]) : mem'[SeqLoc][i] = mem[SeqLoc][i]
  PROVE  ReaderInv'
<1> SUFFICES ASSUME NEW r \in Readers
             PROVE  /\ rd[r].pc \in {"payload", "check"} => SnapInv(r)'
                    /\ OutInv(rd[r].out)
  BY DEF ReaderInv, OutInv, Intact
<1>1. OutInv(rd[r].out) BY DEF IInv, ReaderInv
<1>2. ASSUME rd[r].pc \in {"payload", "check"} PROVE SnapInv(r)'
  <2>1. SnapInv(r) BY <1>2 DEF IInv, ReaderInv
  <2>2. Len(mem[SeqLoc]) \in Nat BY Locations DEF IInv, TypeOK, Memory
  <2>3. rd[r].i1 \in 1..Len(mem[SeqLoc]) BY <2>1 DEF SnapInv
  <2>4. rd[r].i1 \in 1..Len(mem'[SeqLoc]) BY <2>2, <2>3
  <2>5. mem'[SeqLoc][rd[r].i1] = mem[SeqLoc][rd[r].i1] BY <2>3
  <2>6. rd' = rd /\ view' = view OBVIOUS
  <2> QED BY <2>1, <2>4, <2>5, <2>6 DEF SnapInv
<1> QED BY <1>1, <1>2

\* Counter values and indices alternate in parity.
LEMMA Parity ==
  /\ \A a, b \in Int : (a + b) % 2 = 1 => (a + 1 + (b + 1)) % 2 = 1
  /\ \A a, b \in Int : (a + b) % 2 = 1 /\ a + 1 = SeqMod => (b + 1) % 2 = 1
  /\ \A a, b \in Int : (a + b) % 2 = 1 => (a % 2 = 0 <=> b % 2 = 1)
  /\ \A a \in Int : a % 2 = 1 => (a + 1) % 2 = 0
BY SeqLockAssumption

\* Two counter values k stores apart, and the next one.
LEMMA Turn ==
  ASSUME NEW a \in 0..SeqMod - 1, NEW b \in 0..SeqMod - 1, NEW k \in Nat,
         k + 1 < SeqMod, b = a + k \/ b = a + k - SeqMod
  PROVE  LET n == IF b + 1 = SeqMod THEN 0 ELSE b + 1 IN
           n = a + k + 1 \/ n = a + k + 1 - SeqMod
BY SeqLockAssumption

\* The history of the counter, extended by one value, keeps its shape.
LEMMA CounterGrows ==
  ASSUME IInv, Len(mem[SeqLoc]) \in Nat \ {0},
         Len(mem'[SeqLoc]) = Len(mem[SeqLoc]) + 1,
         \A i \in 1..Len(mem[SeqLoc]) : mem'[SeqLoc][i] = mem[SeqLoc][i],
         mem'[SeqLoc][Len(mem[SeqLoc]) + 1].val =
           IF mem[SeqLoc][Len(mem[SeqLoc])].val + 1 = SeqMod
             THEN 0 ELSE mem[SeqLoc][Len(mem[SeqLoc])].val + 1
  PROVE  CounterInv'
<1> DEFINE L == Len(mem[SeqLoc])
           c(i) == mem[SeqLoc][i].val
           d(i) == mem'[SeqLoc][i].val
<1>1. \A i \in 1..L : c(i) \in 0..SeqMod - 1 /\ (c(i) + i) % 2 = 1
  BY DEF IInv, CounterInv
<1>2. \A i, j \in 1..L : i <= j /\ j - i < SeqMod =>
        c(j) = c(i) + (j - i) \/ c(j) = c(i) + (j - i) - SeqMod
  BY DEF IInv, CounterInv
<1>3. \A i \in 1..L : d(i) = c(i) OBVIOUS
<1>4. d(L + 1) = IF c(L) + 1 = SeqMod THEN 0 ELSE c(L) + 1 OBVIOUS
<1>5. L \in Nat /\ L >= 1 OBVIOUS
<1> SUFFICES
      /\ \A i \in 1..L + 1 : d(i) \in 0..SeqMod - 1 /\ (d(i) + i) % 2 = 1
      /\ \A i, j \in 1..L + 1 : i <= j /\ j - i < SeqMod =>
           d(j) = d(i) + (j - i) \/ d(j) = d(i) + (j - i) - SeqMod
  BY DEF CounterInv
<1> HIDE DEF c, d, L
<1>6. c(L) \in 0..SeqMod - 1 /\ (c(L) + L) % 2 = 1 BY <1>1, <1>5
<1>7. d(L + 1) \in 0..SeqMod - 1 /\ (d(L + 1) + (L + 1)) % 2 = 1
  <2>1. CASE c(L) + 1 = SeqMod
    <3>0. c(L) \in Int /\ L \in Int BY <1>5, <1>6
    <3>1. (L + 1) % 2 = 1 BY <1>6, <2>1, <3>0, Parity
    <3> QED BY <1>4, <1>5, <2>1, <3>1
  <2>2. CASE c(L) + 1 # SeqMod
    <3>1. (c(L) + 1 + (L + 1)) % 2 = 1 BY <1>5, <1>6, Parity
    <3> QED BY <1>4, <1>6, <2>2, <3>1
  <2> QED BY <2>1, <2>2
<1>8. \A i \in 1..L + 1 : d(i) \in 0..SeqMod - 1 /\ (d(i) + i) % 2 = 1
  <2>1. \A i \in 1..L + 1 : i \in 1..L \/ i = L + 1 BY <1>5
  <2> QED BY <1>1, <1>3, <1>7, <2>1
<1>9. ASSUME NEW i \in 1..L + 1, NEW j \in 1..L + 1, i <= j, j - i < SeqMod
      PROVE  d(j) = d(i) + (j - i) \/ d(j) = d(i) + (j - i) - SeqMod
  <2>1. CASE i \in 1..L /\ j \in 1..L BY <1>2, <1>3, <1>9, <2>1
  <2>2. CASE i = j
    <3>1. d(i) \in Int BY <1>8
    <3> QED BY <2>2, <3>1
  <2>3. CASE i \in 1..L /\ j = L + 1
    <3>1. L \in 1..L /\ i <= L /\ L - i < SeqMod BY <1>5, <1>9, <2>3
    <3>2. c(L) = c(i) + (L - i) \/ c(L) = c(i) + (L - i) - SeqMod
      BY <1>2, <2>3, <3>1
    <3>3. c(i) \in 0..SeqMod - 1 BY <1>1, <2>3
    <3>4. d(i) = c(i) BY <1>3, <2>3
    <3>5. L \in Int /\ i \in Int BY <1>5, <2>3
    <3>6. L - i \in Nat /\ (L - i) + 1 < SeqMod BY <1>9, <2>3, <3>1, <3>5
    <3>7. d(j) = c(i) + (L - i) + 1 \/ d(j) = c(i) + (L - i) + 1 - SeqMod
      BY <1>4, <1>6, <2>3, <3>2, <3>3, <3>6, Turn
    <3>8. c(i) \in Int /\ j = L + 1 BY <2>3, <3>3
    <3> QED BY <3>4, <3>5, <3>7, <3>8
  <2>4. (i \in 1..L /\ j \in 1..L) \/ i = j \/ (i \in 1..L /\ j = L + 1)
    BY <1>5, <1>9
  <2> QED BY <2>1, <2>2, <2>3, <2>4
<1> QED BY <1>8, <1>9

\* The writer makes the counter odd before it touches a word.
LEMMA MarkOddInv == IInv /\ MarkOdd => IInv'
<1> SUFFICES ASSUME IInv, MarkOdd PROVE IInv' OBVIOUS
<1> DEFINE L == Len(mem[SeqLoc])
           s == mem[SeqLoc][L].val
<1>0. SeqLoc \in Loc BY Locations
<1>1. /\ mem \in Memory /\ fenced \in View /\ view \in [Readers -> Thread]
      /\ wr.n \in 0..MaxStores - 1 /\ wr.pc = "idle"
  BY DEF IInv, TypeOK, MarkOdd, WriterState
<1>2. L = 2 * wr.n + 1 BY <1>1 DEF IInv, WriterInv
<1>3. L \in Nat /\ L >= 1 /\ L % 2 = 1 BY <1>1, <1>2
<1>4. s \in 0..SeqMod - 1 /\ s % 2 = 0
  <2>1. s \in 0..SeqMod - 1 /\ (s + L) % 2 = 1 BY <1>3 DEF IInv, CounterInv
  <2> HIDE DEF s, L
  <2> QED BY <1>3, <2>1
<1>5. /\ mem' = StoreRelaxed(mem, SeqLoc, (s + 1) % SeqMod, fenced)
      /\ wr' = [pc |-> "payload", n |-> wr.n + 1, s |-> s, w |-> 1]
      /\ fenced' = Stored(mem')
      /\ UNCHANGED <<view, rd>>
  BY DEF MarkOdd, Latest
<1> HIDE DEF s
<1>6. (s + 1) % SeqMod = s + 1 /\ s + 1 < SeqMod BY <1>4, Wrap
<1>7. mem' = Put(mem, SeqLoc, s + 1, fenced)
  BY <1>5, <1>6 DEF StoreRelaxed
<1>8. /\ mem' \in Memory
      /\ \A k \in Loc \ {SeqLoc} : mem'[k] = mem[k]
      /\ Len(mem'[SeqLoc]) = L + 1
      /\ \A i \in 1..L : mem'[SeqLoc][i] = mem[SeqLoc][i]
      /\ mem'[SeqLoc][L + 1].val = s + 1
      /\ mem'[SeqLoc][L + 1].view = [fenced EXCEPT ![SeqLoc] = L + 1]
  <2>1. s + 1 \in Nat BY <1>4
  <2>2. mem \in Memory /\ fenced \in View BY <1>1
  <2> QED BY <1>0, <1>7, <2>1, <2>2, StoreStep
<1>9. \A l \in Loc : Len(mem'[l]) >= 1
  <2>1. s + 1 \in Nat BY <1>4
  <2>2. mem \in Memory /\ fenced \in View BY <1>1
  <2>3. \A l \in Loc : Len(mem[l]) >= 1 BY DEF IInv, WriterInv
  <2> QED BY <1>0, <1>7, <2>1, <2>2, <2>3, StoreStep
<1>10. fenced' \in View BY <1>5, <1>8, <1>9, StoredView
<1>11. TypeOK'
  <2>1. wr' \in WriterState
    BY <1>1, <1>4, <1>5 DEF WriterState
  <2> QED BY <1>5, <1>8, <1>10, <2>1 DEF IInv, TypeOK
<1>12. WriterInv'
  <2>1. fenced'[SeqLoc] = L + 1 BY <1>0, <1>5, <1>8 DEF Stored
  <2>2. \A w \in 1..W : Len(mem'[PayLoc(w)]) = wr.n + 1
    BY <1>1, <1>8, Locations DEF IInv, WriterInv
  <2>3. wr'.pc = "payload" /\ wr'.n = wr.n + 1 /\ wr'.s = s /\ wr'.w = 1
    BY <1>5
  <2>4. L + 1 = 2 * wr'.n BY <1>1, <1>2, <2>3
  <2>5. \A w \in 1..W : w >= wr'.w /\ Len(mem'[PayLoc(w)]) = wr'.n BY <2>2, <2>3
  <2>6. mem'[SeqLoc][2 * wr'.n].val = wr'.s + 1 BY <1>8, <2>3, <2>4
  <2>7. Len(mem'[SeqLoc]) = 2 * wr'.n /\ fenced'[SeqLoc] >= 2 * wr'.n
    BY <1>1, <1>8, <2>1, <2>3, <2>4
  <2> QED BY <1>1, <1>4, <1>9, <2>3, <2>5, <2>6, <2>7 DEF WriterInv
<1>13. CounterInv'
  <2>1. mem'[SeqLoc][L + 1].val = IF s + 1 = SeqMod THEN 0 ELSE s + 1
    BY <1>4, <1>6, <1>8
  <2> QED BY <1>3, <1>8, <2>1, CounterGrows DEF s
<1>14. PublishInv'
  <2>1. (L + 1) % 2 # 1
    <3> HIDE DEF L
    <3> QED BY <1>3, Parity
  <2>2. \A i \in 1..L + 1 : i \in 1..L \/ i = L + 1 BY <1>3
  <2>3. \A i \in 1..L :
          /\ mem'[SeqLoc][i].view[SeqLoc] >= i
          /\ i % 2 = 1 =>
               \A w \in 1..W : 2 * mem'[SeqLoc][i].view[PayLoc(w)] >= i + 1
    BY <1>8 DEF IInv, PublishInv
  <2>4. mem'[SeqLoc][L + 1].view[SeqLoc] >= L + 1
    BY <1>0, <1>1, <1>3, <1>8 DEF View
  <2> QED BY <1>8, <2>1, <2>2, <2>3, <2>4 DEF PublishInv
<1>15. PayloadInv'
  <2>1. \A w \in 1..W : mem'[PayLoc(w)] = mem[PayLoc(w)] BY <1>8, Locations
  <2> QED BY <2>1 DEF IInv, PayloadInv
<1>16. ReaderInv'
  BY <1>3, <1>5, <1>8, ReadersKeep
<1> QED BY <1>11, <1>12, <1>13, <1>14, <1>15, <1>16 DEF IInv

\* The writer stores a word, its Release fence's view with it.
LEMMA StoreWordInv == IInv /\ StoreWord => IInv'
<1> SUFFICES ASSUME IInv, StoreWord PROVE IInv' OBVIOUS
<1> DEFINE l == PayLoc(wr.w)
<1>1. /\ mem \in Memory /\ fenced \in View /\ wr.pc = "payload"
      /\ wr.n \in 1..MaxStores /\ wr.w \in 1..W /\ wr.s \in 0..SeqMod - 1
  BY DEF IInv, TypeOK, WriterInv, StoreWord, WriterState
<1>2. /\ mem' = Put(mem, l, wr.n, fenced)
      /\ UNCHANGED <<fenced, view, rd>>
  BY DEF StoreWord, StoreRelaxed
<1>3. /\ wr'.pc = IF wr.w = W THEN "publish" ELSE "payload"
      /\ wr'.w = IF wr.w = W THEN 1 ELSE wr.w + 1
      /\ wr'.n = wr.n /\ wr'.s = wr.s
      /\ wr' \in WriterState
  <2>1. wr \in WriterState
    BY DEF IInv, TypeOK
  <2>2. wr' = [wr EXCEPT !.pc = IF wr.w = W THEN "publish" ELSE "payload",
                         !.w = IF wr.w = W THEN 1 ELSE wr.w + 1]
    BY DEF StoreWord
  <2>3. /\ wr'.pc = IF wr.w = W THEN "publish" ELSE "payload"
        /\ wr'.w = IF wr.w = W THEN 1 ELSE wr.w + 1
        /\ wr'.n = wr.n /\ wr'.s = wr.s
    BY <2>1, <2>2 DEF WriterState
  <2>4. (IF wr.w = W THEN 1 ELSE wr.w + 1) \in 1..W BY <1>1
  <2>5. (IF wr.w = W THEN "publish" ELSE "payload") \in {"idle", "payload", "publish"}
    OBVIOUS
  <2>6. wr' \in WriterState
    BY <2>1, <2>2, <2>4, <2>5 DEF WriterState
  <2> QED BY <2>3, <2>6
<1>4. l \in Loc /\ l # SeqLoc BY <1>1, Locations
<1>5. /\ mem' \in Memory
      /\ \A k \in Loc \ {l} : mem'[k] = mem[k]
      /\ Len(mem'[l]) = Len(mem[l]) + 1
      /\ \A i \in 1..Len(mem[l]) : mem'[l][i] = mem[l][i]
      /\ mem'[l][Len(mem[l]) + 1].val = wr.n
      /\ mem'[l][Len(mem[l]) + 1].view = [fenced EXCEPT ![l] = Len(mem[l]) + 1]
      /\ \A k \in Loc : Len(mem'[k]) >= 1
  <2>1. wr.n \in Nat /\ mem \in Memory /\ fenced \in View BY <1>1
  <2>2. \A k \in Loc : Len(mem[k]) >= 1 BY DEF IInv, WriterInv
  <2> QED BY <1>2, <1>4, <2>1, <2>2, StoreStep
<1>6. mem'[SeqLoc] = mem[SeqLoc] BY <1>4, <1>5, Locations
<1>7. \A w \in 1..W \ {wr.w} : mem'[PayLoc(w)] = mem[PayLoc(w)]
  BY <1>1, <1>5, Locations
<1>8. Len(mem[l]) = wr.n /\ fenced[SeqLoc] >= 2 * wr.n
  BY <1>1 DEF IInv, WriterInv
<1>9. TypeOK' BY <1>2, <1>3, <1>5 DEF IInv, TypeOK
<1>10. WriterInv'
  <2>1. Len(mem'[SeqLoc]) = 2 * wr'.n BY <1>1, <1>3, <1>6 DEF IInv, WriterInv
  <2>2. wr.s % 2 = 0 /\ mem[SeqLoc][2 * wr.n].val = wr.s + 1
    BY <1>1 DEF IInv, WriterInv
  <2>3. ASSUME NEW w \in 1..W
        PROVE  Len(mem'[PayLoc(w)]) =
                 IF wr'.pc = "payload" /\ w >= wr'.w THEN wr'.n ELSE wr'.n + 1
    <3>1. CASE w = wr.w BY <1>1, <1>3, <1>5, <1>8, <3>1
    <3>2. CASE w # wr.w
      <4>1. Len(mem'[PayLoc(w)]) = IF w >= wr.w THEN wr.n ELSE wr.n + 1
        BY <1>1, <1>7, <3>2 DEF IInv, WriterInv
      <4> QED BY <1>1, <1>3, <3>2, <4>1
    <3> QED BY <3>1, <3>2
  <2>4. wr'.pc # "idle" /\ wr'.n >= 1 BY <1>1, <1>3
  <2>5. fenced'[SeqLoc] >= 2 * wr'.n BY <1>2, <1>3, <1>8
  <2>6. wr'.s % 2 = 0 /\ mem'[SeqLoc][2 * wr'.n].val = wr'.s + 1
    BY <1>3, <1>6, <2>2
  <2> QED BY <1>5, <2>1, <2>3, <2>4, <2>5, <2>6 DEF WriterInv
<1>11. CounterInv' BY <1>6 DEF IInv, CounterInv
<1>12. PublishInv' BY <1>6 DEF IInv, PublishInv
<1>13. PayloadInv'
  <2> SUFFICES ASSUME NEW w \in 1..W, NEW j \in 1..Len(mem'[PayLoc(w)])
               PROVE  /\ mem'[PayLoc(w)][j].val = j - 1
                      /\ mem'[PayLoc(w)][j].view[SeqLoc] >= 2 * (j - 1)
    BY DEF PayloadInv
  <2>1. CASE w # wr.w BY <1>7, <2>1 DEF IInv, PayloadInv
  <2>2. CASE w = wr.w /\ j \in 1..wr.n
    BY <1>5, <1>8, <2>2 DEF IInv, PayloadInv
  <2>3. CASE w = wr.w /\ j = wr.n + 1
    <3>1. SeqLoc \in Loc BY Locations
    <3>2. mem'[l][wr.n + 1].view[SeqLoc] = fenced[SeqLoc]
      BY <1>1, <1>4, <1>5, <1>8, <3>1 DEF View
    <3>3. mem'[l][wr.n + 1].val = wr.n BY <1>5, <1>8
    <3> QED BY <1>1, <1>8, <2>3, <3>2, <3>3
  <2>4. w = wr.w => j \in 1..wr.n \/ j = wr.n + 1 BY <1>1, <1>5, <1>8
  <2> QED BY <2>1, <2>2, <2>3, <2>4
<1>14. ReaderInv'
  <2>1. Len(mem[SeqLoc]) \in Nat BY <1>1, Locations DEF Memory
  <2> QED BY <1>2, <1>6, <2>1, ReadersKeep
<1> QED BY <1>9, <1>10, <1>11, <1>12, <1>13, <1>14 DEF IInv

\* The writer makes the counter even again with a Release store.
LEMMA PublishStepInv == IInv /\ Publish => IInv'
<1> SUFFICES ASSUME IInv, Publish PROVE IInv' OBVIOUS
<1> DEFINE L == Len(mem[SeqLoc])
<1>0. SeqLoc \in Loc BY Locations
<1>1. /\ mem \in Memory /\ wr.pc = "publish"
      /\ wr.n \in 1..MaxStores /\ wr.s \in 0..SeqMod - 1
      /\ L = 2 * wr.n /\ wr.s % 2 = 0 /\ mem[SeqLoc][L].val = wr.s + 1
  BY DEF IInv, TypeOK, WriterInv, Publish, WriterState
<1>2. /\ \A k \in Loc : Len(mem[k]) >= 1
      /\ \A w \in 1..W : Len(mem[PayLoc(w)]) = wr.n + 1
  BY <1>1 DEF IInv, WriterInv
<1> DEFINE x == IF wr.s + 1 + 1 = SeqMod THEN 0 ELSE wr.s + 1 + 1
<1>3. (wr.s + 2) % SeqMod = x /\ x \in 0..SeqMod - 1
  <2>1. wr.s + 2 <= SeqMod BY <1>1, Wrap
  <2>2. (wr.s + 2) % SeqMod = IF wr.s + 2 = SeqMod THEN 0 ELSE wr.s + 2
    BY <1>1, <2>1, Wrap
  <2> QED BY <1>1, <2>1, <2>2
<1> HIDE DEF x
<1>4. /\ mem' = Put(mem, SeqLoc, x, Stored(mem))
      /\ UNCHANGED <<fenced, view, rd>>
  BY <1>3 DEF Publish, StoreRelease
<1>5. wr'.pc = "idle" /\ wr'.n = wr.n /\ wr'.s = wr.s /\ wr'.w = wr.w
  BY DEF Publish, IInv, TypeOK, WriterState
<1>6. Stored(mem) \in View BY <1>1, <1>2, StoredView
<1>7. /\ mem' \in Memory
      /\ \A k \in Loc \ {SeqLoc} : mem'[k] = mem[k]
      /\ Len(mem'[SeqLoc]) = L + 1
      /\ \A i \in 1..L : mem'[SeqLoc][i] = mem[SeqLoc][i]
      /\ mem'[SeqLoc][L + 1].val = x
      /\ mem'[SeqLoc][L + 1].view = [Stored(mem) EXCEPT ![SeqLoc] = L + 1]
      /\ \A k \in Loc : Len(mem'[k]) >= 1
  <2>1. x \in Nat /\ mem \in Memory BY <1>1, <1>3
  <2> QED BY <1>0, <1>2, <1>4, <1>6, <2>1, StoreStep
<1>8. \A w \in 1..W : mem'[PayLoc(w)] = mem[PayLoc(w)] BY <1>7, Locations
<1>9. TypeOK'
  <2>1. wr' \in WriterState
    BY DEF Publish, IInv, TypeOK, WriterState
  <2> QED BY <1>4, <1>7, <2>1 DEF IInv, TypeOK
<1>10. WriterInv' BY <1>1, <1>2, <1>5, <1>7, <1>8 DEF WriterInv
<1>11. CounterInv'
  <2>1. L \in Nat \ {0} BY <1>1
  <2>2. mem'[SeqLoc][L + 1].val =
          IF mem[SeqLoc][L].val + 1 = SeqMod THEN 0 ELSE mem[SeqLoc][L].val + 1
    BY <1>1, <1>7 DEF x
  <2> QED BY <1>7, <2>1, <2>2, CounterGrows
<1>12. PublishInv'
  <2>0. \A i \in 1..L + 1 : mem'[SeqLoc][i].view[SeqLoc] >= i
    <3>1. \A i \in 1..L : mem'[SeqLoc][i].view[SeqLoc] >= i
      BY <1>7 DEF IInv, PublishInv
    <3>2. mem'[SeqLoc][L + 1].view[SeqLoc] = L + 1 BY <1>0, <1>6, <1>7 DEF View
    <3>3. \A i \in 1..L + 1 : i \in 1..L \/ i = L + 1 BY <1>1
    <3> QED BY <1>1, <3>1, <3>2, <3>3
  <2>a. 2 * (wr.n + 1) >= (L + 1) + 1
    <3>1. wr.n \in Nat /\ L = 2 * wr.n BY <1>1
    <3> HIDE DEF L
    <3> QED BY <3>1
  <2> SUFFICES ASSUME NEW i \in 1..L + 1, i % 2 = 1, NEW w \in 1..W
               PROVE  2 * mem'[SeqLoc][i].view[PayLoc(w)] >= i + 1
    BY <1>7, <2>0 DEF PublishInv
  <2>1. CASE i \in 1..L BY <1>7, <2>1 DEF IInv, PublishInv
  <2>2. CASE i = L + 1
    <3>1. PayLoc(w) \in Loc /\ PayLoc(w) # SeqLoc BY Locations
    <3>2. mem'[SeqLoc][i].view[PayLoc(w)] = wr.n + 1
      BY <1>2, <1>6, <1>7, <2>2, <3>1 DEF Stored, View
    <3> QED BY <2>a, <2>2, <3>2
  <2>3. i \in 1..L \/ i = L + 1 BY <1>1
  <2> QED BY <2>1, <2>2, <2>3
<1>13. PayloadInv' BY <1>8 DEF IInv, PayloadInv
<1>14. ReaderInv'
  <2>1. L \in Nat BY <1>1
  <2> QED BY <1>4, <1>7, <2>1, ReadersKeep
<1> QED BY <1>9, <1>10, <1>11, <1>12, <1>13, <1>14 DEF IInv

-------------------------------------------------------------------------------
(* The readers' steps *)

\* A reader touches nothing but its own call and its own view.
LEMMA ReaderOnly ==
  ASSUME IInv, NEW r \in Readers, UNCHANGED <<mem, fenced, wr>>,
         NEW t \in Thread, view' = [view EXCEPT ![r] = t],
         NEW d \in ReaderState, rd' = [rd EXCEPT ![r] = d],
         d.pc \in {"payload", "check"} => SnapInv(r)', OutInv(d.out)
  PROVE  IInv'
<1>1. TypeOK' BY DEF IInv, TypeOK
<1>2. WriterInv' /\ CounterInv' /\ PublishInv' /\ PayloadInv'
  BY DEF IInv, WriterInv, CounterInv, PublishInv, PayloadInv
<1>3. ReaderInv'
  <2>1. rd \in [Readers -> ReaderState] /\ view \in [Readers -> Thread]
    BY DEF IInv, TypeOK
  <2>2. rd'[r] = d BY <2>1
  <2>3. ASSUME NEW q \in Readers, q # r
        PROVE  rd'[q] = rd[q] /\ view'[q] = view[q]
    BY <2>1, <2>3
  <2>4. ASSUME NEW q \in Readers
        PROVE  rd'[q].pc \in {"payload", "check"} => SnapInv(q)'
    <3>1. CASE q = r BY <2>2, <3>1
    <3>2. CASE q # r
      <4>1. rd[q].pc \in {"payload", "check"} => SnapInv(q)
        BY DEF IInv, ReaderInv
      <4> QED BY <2>3, <3>2, <4>1 DEF SnapInv
    <3> QED BY <3>1, <3>2
  <2>5. ASSUME NEW q \in Readers PROVE OutInv(rd'[q].out)
    <3>1. CASE q = r BY <2>2, <3>1
    <3>2. CASE q # r BY <2>3, <3>2 DEF IInv, ReaderInv
    <3> QED BY <3>1, <3>2
  <2>6. ASSUME NEW q \in Readers PROVE OutInv(rd[q].out)'
    BY <2>5 DEF OutInv, Intact
  <2> QED BY <2>4, <2>6 DEF ReaderInv
<1> QED BY <1>1, <1>2, <1>3 DEF IInv

\* What the updates of a reader's call leave it with.
LEMMA ReaderUpdates ==
  ASSUME NEW x \in ReaderState
  PROVE  /\ \A n \in 0..RetryMax, k \in 0..MaxStores :
              [x EXCEPT !.pc = "seq", !.retries = n, !.since = k] \in ReaderState
         /\ \A v \in Seq(Nat), n \in 0..RetryMax :
              [x EXCEPT !.pc = "seq", !.got = v, !.retries = n] \in ReaderState
         /\ \A s \in Nat, i \in Nat \ {0}, v \in Seq(Nat) :
              [x EXCEPT !.pc = "payload", !.s1 = s, !.i1 = i, !.got = v]
                \in ReaderState
         /\ \A p \in {"payload", "check"}, v \in Seq(Nat) :
              [x EXCEPT !.pc = p, !.got = v] \in ReaderState
         /\ \A v \in Seq(Nat), o \in Snapshot :
              [x EXCEPT !.pc = "idle", !.got = v, !.out = o] \in ReaderState
BY DEF ReaderState

\* A reader calls load.
LEMMA CallInv == ASSUME NEW r \in Readers PROVE IInv /\ Call(r) => IInv'
<1> SUFFICES ASSUME IInv, Call(r) PROVE IInv' OBVIOUS
<1>1. /\ rd[r] \in ReaderState /\ view[r] \in Thread
      /\ rd \in [Readers -> ReaderState] /\ view \in [Readers -> Thread]
  BY DEF IInv, TypeOK
<1>2. Published \in 0..MaxStores
  BY DEF IInv, TypeOK, WriterInv, WriterState, Published
<1> DEFINE d == [rd[r] EXCEPT !.pc = "seq", !.retries = 0, !.since = Published]
<1>3. d \in ReaderState /\ d.pc = "seq" /\ d.out = rd[r].out
  <2>1. d.pc = "seq" /\ d.out = rd[r].out BY <1>1 DEF ReaderState
  <2>2. 0 \in 0..RetryMax OBVIOUS
  <2>3. d \in ReaderState BY <1>1, <1>2, <2>2, ReaderUpdates
  <2> QED BY <2>1, <2>3
<1>4. rd' = [rd EXCEPT ![r] = d] BY <1>1 DEF Call
<1>5. view' = [view EXCEPT ![r] = view[r]] BY <1>1 DEF Call
<1>6. UNCHANGED <<mem, fenced, wr>> BY DEF Call
<1>7. OutInv(d.out) BY <1>3 DEF IInv, ReaderInv
<1> HIDE DEF d
<1> QED BY <1>1, <1>3, <1>4, <1>5, <1>6, <1>7, ReaderOnly

\* Taking the retry path gives up whatever the reader holds.
LEMMA RetryInv ==
  ASSUME IInv, NEW r \in Readers, UNCHANGED <<mem, fenced, wr>>,
         NEW t \in Thread, view' = [view EXCEPT ![r] = t], Retry(r)
  PROVE  IInv'
<1>1. rd[r] \in ReaderState /\ rd \in [Readers -> ReaderState]
  BY DEF IInv, TypeOK
<1> DEFINE n == IF rd[r].retries < RetryMax THEN rd[r].retries + 1 ELSE rd[r].retries
           d == [rd[r] EXCEPT !.pc = "seq", !.got = <<>>, !.retries = n]
<1>2. n \in 0..RetryMax BY <1>1 DEF ReaderState
<1>3. rd' = [rd EXCEPT ![r] = d] BY <1>1 DEF Retry
<1> HIDE DEF n
<1>4. d \in ReaderState /\ d.pc = "seq" /\ d.out = rd[r].out
  <2>1. d.pc = "seq" /\ d.out = rd[r].out BY <1>1 DEF ReaderState
  <2>2. <<>> \in Seq(Nat) OBVIOUS
  <2>3. d \in ReaderState BY <1>1, <1>2, <2>2, ReaderUpdates
  <2> QED BY <2>1, <2>3
<1>5. OutInv(d.out) BY <1>4 DEF IInv, ReaderInv
<1> HIDE DEF d
<1> QED BY <1>3, <1>4, <1>5, ReaderOnly

\* A reader's first load of the counter, Acquire.
LEMMA LoadSeqInv == ASSUME NEW r \in Readers PROVE IInv /\ LoadSeq(r) => IInv'
<1> SUFFICES ASSUME IInv, LoadSeq(r) PROVE IInv' OBVIOUS
<1>1. /\ rd[r] \in ReaderState /\ view[r] \in Thread /\ mem \in Memory
      /\ rd \in [Readers -> ReaderState] /\ view \in [Readers -> Thread]
  BY DEF IInv, TypeOK
<1>2. SeqLoc \in Loc /\ \A w \in 1..W : PayLoc(w) \in Loc BY Locations
<1>3. UNCHANGED <<mem, fenced, wr>> BY DEF LoadSeq
<1>4. PICK i \in Visible(mem, view[r], SeqLoc) :
        /\ view' = [view EXCEPT ![r] = LoadAcquire(mem, @, SeqLoc, i)]
        /\ IF mem[SeqLoc][i].val % 2 = 0
             THEN rd' = [rd EXCEPT ![r].pc = "payload",
                                   ![r].s1 = mem[SeqLoc][i].val,
                                   ![r].i1 = i, ![r].got = <<>>]
             ELSE Retry(r)
  BY DEF LoadSeq
<1>5. /\ Len(mem[SeqLoc]) \in Nat /\ view[r].cur[SeqLoc] \in Nat \ {0}
      /\ i \in 1..Len(mem[SeqLoc]) /\ i >= view[r].cur[SeqLoc]
  BY <1>1, <1>2, <1>4 DEF Visible, Memory, Thread, View
<1> DEFINE t == LoadAcquire(mem, view[r], SeqLoc, i)
<1>6. /\ t \in Thread
      /\ \A k \in Loc : /\ t.acq[k] >= mem[SeqLoc][i].view[k]
                        /\ t.cur[k] >= mem[SeqLoc][i].view[k]
  BY <1>1, <1>2, <1>5, LoadMoves
<1>7. view' = [view EXCEPT ![r] = t] BY <1>1, <1>4
<1> HIDE DEF t
<1>8. CASE mem[SeqLoc][i].val % 2 = 0
  <2> DEFINE d == [rd[r] EXCEPT !.pc = "payload", !.s1 = mem[SeqLoc][i].val,
                                !.i1 = i, !.got = <<>>]
  <2>1. rd' = [rd EXCEPT ![r] = d] BY <1>1, <1>4, <1>8
  <2>2. /\ mem[SeqLoc][i].val \in 0..SeqMod - 1
        /\ (mem[SeqLoc][i].val + i) % 2 = 1
    BY <1>5 DEF IInv, CounterInv
  <2>3. i % 2 = 1
    <3>1. mem[SeqLoc][i].val \in Int /\ i \in Int BY <1>5, <2>2
    <3> QED BY <1>8, <2>2, <3>1, Parity
  <2>4. mem[SeqLoc][i].val \in Nat /\ i \in Nat \ {0} BY <1>5, <2>2
  <2>5. /\ d \in ReaderState /\ d.pc = "payload" /\ d.out = rd[r].out
        /\ d.i1 = i /\ d.s1 = mem[SeqLoc][i].val /\ d.got = <<>>
    <3>1. d.pc = "payload" /\ d.out = rd[r].out BY <1>1 DEF ReaderState
    <3>2. d.i1 = i /\ d.s1 = mem[SeqLoc][i].val /\ d.got = <<>>
      BY <1>1 DEF ReaderState
    <3>3. <<>> \in Seq(Nat) OBVIOUS
    <3>4. d \in ReaderState BY <1>1, <2>4, <3>3, ReaderUpdates
    <3> QED BY <3>1, <3>2, <3>4
  <2>6. SnapInv(r)'
    <3>1. rd'[r] = d /\ view'[r] = t BY <1>1, <1>7, <2>1
    <3>2. \A w \in 1..W : 2 * mem[SeqLoc][i].view[PayLoc(w)] >= i + 1
      BY <1>5, <2>3 DEF IInv, PublishInv
    <3>3. mem[SeqLoc][i] \in Message BY <1>1, <1>2, <1>5 DEF Memory
    <3>4. ASSUME NEW w \in 1..W PROVE 2 * t.cur[PayLoc(w)] >= i + 1
      <4>1. PayLoc(w) \in Loc BY <1>2
      <4>2. t.cur[PayLoc(w)] \in Nat /\ mem[SeqLoc][i].view[PayLoc(w)] \in Nat
        BY <1>6, <3>3, <4>1 DEF Thread, View, Message
      <4> QED BY <1>5, <1>6, <3>2, <4>1, <4>2
    <3>5. t.acq[SeqLoc] >= i
      <4>1. mem[SeqLoc][i].view[SeqLoc] >= i BY <1>5 DEF IInv, PublishInv
      <4>2. t.acq[SeqLoc] \in Nat /\ mem[SeqLoc][i].view[SeqLoc] \in Nat
        BY <1>2, <1>6, <3>3 DEF Thread, View, Message
      <4> QED BY <1>2, <1>5, <1>6, <4>1, <4>2
    <3>6. mem' = mem BY <1>3
    <3> HIDE DEF d
    <3> QED BY <1>5, <2>3, <2>5, <3>1, <3>4, <3>5, <3>6 DEF SnapInv
  <2>7. OutInv(d.out) BY <2>5 DEF IInv, ReaderInv
  <2> HIDE DEF d
  <2> QED BY <1>3, <1>6, <1>7, <2>1, <2>5, <2>6, <2>7, ReaderOnly
<1>9. CASE mem[SeqLoc][i].val % 2 # 0
  <2>1. Retry(r) BY <1>4, <1>9
  <2> QED BY <1>3, <1>6, <1>7, <2>1, RetryInv
<1> QED BY <1>8, <1>9

\* A reader loads a word, Relaxed, before its Acquire fence.
LEMMA LoadWordInv == ASSUME NEW r \in Readers PROVE IInv /\ LoadWord(r) => IInv'
<1> SUFFICES ASSUME IInv, LoadWord(r) PROVE IInv' OBVIOUS
<1>1. /\ rd[r] \in ReaderState /\ view[r] \in Thread /\ mem \in Memory
      /\ rd \in [Readers -> ReaderState] /\ view \in [Readers -> Thread]
      /\ rd[r].pc = "payload"
  BY DEF IInv, TypeOK, LoadWord
<1>2. SnapInv(r) /\ OutInv(rd[r].out) BY <1>1 DEF IInv, ReaderInv
<1>3. UNCHANGED <<mem, fenced, wr>> BY DEF LoadWord
<1> DEFINE w == Len(rd[r].got) + 1
           l == PayLoc(w)
<1>4. rd[r].got \in Seq(Nat) /\ Len(rd[r].got) \in Nat BY <1>1 DEF ReaderState
<1>5. w \in 1..W BY <1>1, <1>2, <1>4 DEF SnapInv
<1>6. l \in Loc /\ SeqLoc \in Loc /\ \A u \in 1..W : PayLoc(u) \in Loc
  BY <1>5, Locations
<1>7. PICK i \in Visible(mem, view[r], l) :
        /\ view' = [view EXCEPT ![r] = LoadRelaxed(mem, @, l, i)]
        /\ rd' = [rd EXCEPT ![r].pc = IF w = W THEN "check" ELSE "payload",
                            ![r].got = Append(@, mem[l][i].val)]
  BY DEF LoadWord
<1>8. /\ Len(mem[l]) \in Nat /\ view[r].cur[l] \in Nat \ {0}
      /\ i \in 1..Len(mem[l]) /\ i >= view[r].cur[l]
  BY <1>1, <1>6, <1>7 DEF Visible, Memory, Thread, View
<1> DEFINE t == LoadRelaxed(mem, view[r], l, i)
<1>9. /\ t \in Thread
      /\ \A k \in Loc : t.cur[k] >= view[r].cur[k] /\ t.acq[k] >= view[r].acq[k]
      /\ \A k \in Loc : t.acq[k] >= mem[l][i].view[k]
  BY <1>1, <1>6, <1>8, LoadMoves
<1>10. view' = [view EXCEPT ![r] = t] BY <1>1, <1>7
<1> HIDE DEF t
<1>11. /\ mem[l][i].val = i - 1 /\ mem[l][i].view[SeqLoc] >= 2 * (i - 1)
  BY <1>5, <1>8 DEF IInv, PayloadInv
<1> DEFINE p == IF w = W THEN "check" ELSE "payload"
           g == Append(rd[r].got, mem[l][i].val)
           d == [rd[r] EXCEPT !.pc = p, !.got = g]
<1>12. rd' = [rd EXCEPT ![r] = d] BY <1>1, <1>7
<1>13. mem[l][i].val \in Nat BY <1>8, <1>11
<1>14. /\ g \in Seq(Nat) /\ Len(g) = w /\ g[w] = mem[l][i].val
       /\ \A u \in 1..Len(rd[r].got) : g[u] = rd[r].got[u]
  <2> QED BY <1>4, <1>13, AppendWord
<1>15. p \in {"payload", "check"} OBVIOUS
<1> HIDE DEF g
<1>16. /\ d \in ReaderState /\ d.pc = p /\ d.got = g /\ d.out = rd[r].out
       /\ d.i1 = rd[r].i1 /\ d.s1 = rd[r].s1
  <2>1. d \in ReaderState
    <3> HIDE DEF p
    <3> QED BY <1>1, <1>14, <1>15, ReaderUpdates
  <2> QED BY <1>1, <2>1 DEF ReaderState
<1> HIDE DEF d
<1>17. SnapInv(r)'
  <2> DEFINE i1 == rd[r].i1
  <2>1. rd'[r] = d /\ view'[r] = t /\ mem' = mem BY <1>1, <1>3, <1>10, <1>12
  <2>2. /\ i1 \in 1..Len(mem[SeqLoc]) /\ i1 % 2 = 1
        /\ mem[SeqLoc][i1].val = rd[r].s1 /\ view[r].acq[SeqLoc] >= i1
    BY <1>2 DEF SnapInv
  <2>3. i1 \in Nat BY <1>1 DEF ReaderState
  <2>4. /\ t.acq[SeqLoc] \in Nat /\ view[r].acq[SeqLoc] \in Nat
        /\ \A u \in 1..W : t.cur[PayLoc(u)] \in Nat /\ view[r].cur[PayLoc(u)] \in Nat
    BY <1>1, <1>6, <1>9 DEF Thread, View
  <2>5. mem[l][i].view[SeqLoc] \in Nat
    <3>1. mem[l] \in Seq(Message) BY <1>1, <1>6 DEF Memory
    <3>2. mem[l][i] \in Message BY <1>8, <3>1
    <3> QED BY <1>6, <3>2 DEF Message, View
  <2>6. t.acq[SeqLoc] >= view[r].acq[SeqLoc] /\ t.acq[SeqLoc] >= 2 * (i - 1)
    BY <1>6, <1>8, <1>9, <1>11, <2>4, <2>5
  <2>7. t.acq[SeqLoc] >= i1 BY <2>2, <2>3, <2>4, <2>6
  <2>8. ASSUME NEW u \in 1..W PROVE 2 * t.cur[PayLoc(u)] >= i1 + 1
    <3>1. 2 * view[r].cur[PayLoc(u)] >= i1 + 1 BY <1>2 DEF SnapInv
    <3>2. PayLoc(u) \in Loc BY <1>6
    <3>3. t.cur[PayLoc(u)] >= view[r].cur[PayLoc(u)] BY <1>9, <3>2
    <3> DEFINE a == t.cur[PayLoc(u)]
               b == view[r].cur[PayLoc(u)]
    <3>4. a \in Nat /\ b \in Nat BY <2>4
    <3>5. 2 * b >= i1 + 1 /\ a >= b BY <3>1, <3>3
    <3> HIDE DEF a, b, i1
    <3>6. 2 * a >= i1 + 1 BY <2>3, <3>4, <3>5
    <3> QED BY <3>6 DEF a
  <2>9. 2 * i >= i1 + 1
    <3>1. 2 * view[r].cur[l] >= i1 + 1 BY <1>2, <1>5 DEF SnapInv
    <3> QED BY <1>8, <2>3, <3>1
  <2>10. ASSUME NEW u \in 1..Len(g)
         PROVE  2 * g[u] >= i1 - 1 /\ 2 * g[u] <= t.acq[SeqLoc]
    <3> DEFINE a == t.acq[SeqLoc]
               c == view[r].acq[SeqLoc]
    <3>a. a \in Nat /\ c \in Nat /\ a >= c /\ a >= 2 * (i - 1) BY <2>4, <2>6
    <3>1. CASE u = w
      <4>1. g[u] = i - 1 BY <1>11, <1>14, <3>1
      <4>2. i \in Nat /\ 2 * i >= i1 + 1 BY <1>8, <2>9
      <4> HIDE DEF a, c, i1
      <4>3. 2 * g[u] >= i1 - 1 /\ 2 * g[u] <= a
        BY <2>3, <3>a, <4>1, <4>2
      <4> QED BY <4>3 DEF a, i1
    <3>2. CASE u # w
      <4>1. u \in 1..Len(rd[r].got) BY <1>4, <1>14, <3>2
      <4>2. 2 * rd[r].got[u] >= i1 - 1 /\ 2 * rd[r].got[u] <= view[r].acq[SeqLoc]
        BY <1>2, <4>1 DEF SnapInv
      <4>3. g[u] = rd[r].got[u] /\ rd[r].got[u] \in Nat
        <5>1. g[u] = rd[r].got[u] BY <1>14, <4>1
        <5>2. rd[r].got[u] \in Nat BY <1>4, <4>1
        <5> QED BY <5>1, <5>2
      <4>4. 2 * g[u] >= i1 - 1 /\ 2 * g[u] <= c BY <4>2, <4>3
      <4>5. g[u] \in Nat BY <4>3
      <4> HIDE DEF a, c
      <4>6. 2 * g[u] <= a BY <3>a, <4>4, <4>5
      <4> QED BY <4>4, <4>6 DEF a
    <3> QED BY <3>1, <3>2
  <2>11. IF p = "check" THEN Len(g) = W ELSE Len(g) < W BY <1>5, <1>14
  <2> HIDE DEF p
  <2> QED BY <1>16, <2>1, <2>2, <2>7, <2>8, <2>10, <2>11 DEF SnapInv
<1>18. OutInv(d.out) BY <1>2, <1>16
<1> QED BY <1>3, <1>9, <1>10, <1>12, <1>16, <1>17, <1>18, ReaderOnly

\* A reader's second load of the counter, and what it makes of the two.
LEMMA RecheckInv == ASSUME NEW r \in Readers PROVE IInv /\ Recheck(r) => IInv'
<1> SUFFICES ASSUME IInv, Recheck(r) PROVE IInv' OBVIOUS
<1>1. /\ rd[r] \in ReaderState /\ view[r] \in Thread /\ mem \in Memory
      /\ rd \in [Readers -> ReaderState] /\ view \in [Readers -> Thread]
      /\ rd[r].pc = "check"
  BY DEF IInv, TypeOK, Recheck
<1>2. SnapInv(r) BY <1>1 DEF IInv, ReaderInv
<1>3. UNCHANGED <<mem, fenced, wr>> BY DEF Recheck
<1> DEFINE f == FenceAcquire(view[r])
           L == Len(mem[SeqLoc])
<1>4. f \in Thread /\ f.cur = view[r].acq BY <1>1 DEF FenceAcquire, Thread
<1>5. PICK i2 \in Visible(mem, f, SeqLoc) :
        /\ view' = [view EXCEPT ![r] = LoadRelaxed(mem, f, SeqLoc, i2)]
        /\ IF mem[SeqLoc][i2].val = rd[r].s1 THEN Return(r, i2) ELSE Retry(r)
  BY DEF Recheck
<1> HIDE DEF f
<1>6. SeqLoc \in Loc BY Locations
<1>7. /\ L \in Nat /\ f.cur[SeqLoc] \in Nat \ {0}
      /\ i2 \in 1..L /\ i2 >= f.cur[SeqLoc]
  BY <1>1, <1>4, <1>5, <1>6 DEF Visible, Memory, Thread, View
<1> DEFINE t == LoadRelaxed(mem, f, SeqLoc, i2)
<1>8. t \in Thread BY <1>1, <1>4, <1>6, <1>7, LoadMoves
<1>9. view' = [view EXCEPT ![r] = t] BY <1>5
<1> HIDE DEF t
<1>10. CASE mem[SeqLoc][i2].val # rd[r].s1
  <2>1. Retry(r) BY <1>5, <1>10
  <2> QED BY <1>3, <1>8, <1>9, <2>1, RetryInv
<1>11. CASE mem[SeqLoc][i2].val = rd[r].s1
  <2> DEFINE i1 == rd[r].i1
             o == [i1 |-> i1, i2 |-> i2, words |-> rd[r].got,
                   retries |-> rd[r].retries, since |-> rd[r].since]
             d == [rd[r] EXCEPT !.pc = "idle", !.got = <<>>, !.out = o]
  <2>1. rd' = [rd EXCEPT ![r] = d] BY <1>1, <1>5, <1>11 DEF Return
  <2>2. o \in Snapshot BY <1>1, <1>7 DEF ReaderState, Snapshot
  <2>3. /\ i1 \in 1..L /\ i1 % 2 = 1 /\ mem[SeqLoc][i1].val = rd[r].s1
        /\ i2 >= i1
        /\ \A w \in 1..W : 2 * rd[r].got[w] >= i1 - 1 /\ 2 * rd[r].got[w] <= i2
    <3>1. /\ i1 \in 1..L /\ i1 % 2 = 1 /\ mem[SeqLoc][i1].val = rd[r].s1
          /\ view[r].acq[SeqLoc] >= i1 /\ Len(rd[r].got) = W
          /\ \A w \in 1..Len(rd[r].got) :
               2 * rd[r].got[w] >= i1 - 1 /\ 2 * rd[r].got[w] <= view[r].acq[SeqLoc]
      BY <1>1, <1>2 DEF SnapInv
    <3>2. view[r].acq[SeqLoc] \in Nat /\ i2 >= view[r].acq[SeqLoc]
      BY <1>4, <1>7
    <3>3. i1 \in Nat /\ i2 \in Nat BY <1>7, <3>1
    <3>4. \A w \in 1..W : rd[r].got[w] \in Nat
      <4>1. rd[r].got \in Seq(Nat) BY <1>1 DEF ReaderState
      <4> QED BY <3>1, <4>1
    <3>5. i2 >= i1 BY <3>1, <3>2, <3>3
    <3>6. \A w \in 1..W : 2 * rd[r].got[w] <= i2 BY <3>1, <3>2, <3>3, <3>4
    <3> QED BY <3>1, <3>5, <3>6
  <2>4. i2 <= 2 * MaxStores + 1
    BY <1>7 DEF IInv, WriterInv, TypeOK, WriterState
  <2>5. i1 = i2 \/ i2 - i1 >= SeqMod
    <3> SUFFICES ASSUME i1 < i2, i2 - i1 < SeqMod PROVE FALSE
      BY <1>7, <2>3
    <3>1. \/ mem[SeqLoc][i2].val = mem[SeqLoc][i1].val + (i2 - i1)
          \/ mem[SeqLoc][i2].val = mem[SeqLoc][i1].val + (i2 - i1) - SeqMod
      BY <1>7, <2>3 DEF IInv, CounterInv
    <3>2. mem[SeqLoc][i1].val \in 0..SeqMod - 1 BY <2>3 DEF IInv, CounterInv
    <3> DEFINE v == mem[SeqLoc][i1].val
    <3>3. /\ v \in Int /\ i1 \in Int /\ i2 \in Int
          /\ v = v + (i2 - i1) \/ v = v + (i2 - i1) - SeqMod
      BY <1>7, <1>11, <2>3, <3>1, <3>2
    <3> HIDE DEF v, i1
    <3> QED BY <3>3
  <2>6. i1 = i2 => \A w \in 1..W : 2 * rd[r].got[w] = i1 - 1
    <3> SUFFICES ASSUME i1 = i2, NEW w \in 1..W PROVE 2 * rd[r].got[w] = i1 - 1
      OBVIOUS
    <3>1. rd[r].got \in Seq(Nat) /\ Len(rd[r].got) = W
      BY <1>1, <1>2 DEF ReaderState, SnapInv
    <3>2. rd[r].got[w] \in Nat BY <3>1
    <3> DEFINE x == rd[r].got[w]
    <3>3. x \in Nat /\ 2 * x >= i1 - 1 /\ 2 * x <= i1 BY <2>3, <3>2
    <3>4. i1 \in Nat /\ i1 % 2 = 1 BY <2>3
    <3> HIDE DEF x, i1
    <3>5. 2 * x = i1 - 1 BY <3>3, <3>4
    <3> QED BY <3>5 DEF x, i1
  <2>7. OutInv(o)
    <3>1. \A w \in 1..W : rd[r].got[w] \in Nat
      <4>1. rd[r].got \in Seq(Nat) /\ Len(rd[r].got) = W
        BY <1>1, <1>2 DEF ReaderState, SnapInv
      <4> QED BY <4>1
    <3> QED BY <2>3, <2>4, <2>5, <2>6, <3>1 DEF OutInv, Intact
  <2>8. d \in ReaderState /\ d.pc = "idle" /\ d.out = o
    <3>1. <<>> \in Seq(Nat) OBVIOUS
    <3> HIDE DEF o
    <3>2. d \in ReaderState BY <1>1, <2>2, <3>1, ReaderUpdates
    <3>3. d.pc = "idle" /\ d.out = o BY <1>1 DEF ReaderState
    <3> QED BY <3>2, <3>3
  <2> HIDE DEF d, o
  <2> QED BY <1>3, <1>8, <1>9, <2>1, <2>7, <2>8, ReaderOnly
<1> QED BY <1>10, <1>11

-------------------------------------------------------------------------------
(* The theorems *)

\* Every step of the writer and of the readers keeps the invariant.
LEMMA StepInv == IInv /\ [Next]_vars => IInv'
<1> SUFFICES ASSUME IInv, [Next]_vars PROVE IInv' OBVIOUS
<1>1. CASE MarkOdd BY <1>1, MarkOddInv
<1>2. CASE StoreWord BY <1>2, StoreWordInv
<1>3. CASE Publish BY <1>3, PublishStepInv
<1>4. ASSUME NEW r \in Readers, Call(r) PROVE IInv' BY <1>4, CallInv
<1>5. ASSUME NEW r \in Readers, LoadSeq(r) PROVE IInv' BY <1>5, LoadSeqInv
<1>6. ASSUME NEW r \in Readers, LoadWord(r) PROVE IInv' BY <1>6, LoadWordInv
<1>7. ASSUME NEW r \in Readers, Recheck(r) PROVE IInv' BY <1>7, RecheckInv
<1>8. CASE UNCHANGED vars
  BY <1>8 DEF vars, IInv, TypeOK, WriterInv, CounterInv, PublishInv, PayloadInv,
              ReaderInv, SnapInv, OutInv, Intact
<1> QED BY <1>1, <1>2, <1>3, <1>4, <1>5, <1>6, <1>7, <1>8 DEF Next, Store, Load

\* The lock keeps its invariant.
LEMMA Invariance == Spec => []IInv
BY InitInv, StepInv, PTL DEF Spec

\* The types hold of the lock for every value of its constants
\* (seqlock.rs:81-102, 138-170).
THEOREM TypeCorrect == Spec => []TypeOK
<1>1. IInv => TypeOK BY DEF IInv
<1> QED BY <1>1, Invariance, PTL

\* Whatever the width of the counter, a snapshot that load returns is intact
\* unless its two loads of the counter saw different stores a full turn of the
\* counter apart (seqlock.rs:48-61).
THEOREM OnlyWrapTears == Spec => []TornOnlyIfWrapped
<1>1. IInv => TornOnlyIfWrapped BY DEF IInv, ReaderInv, OutInv, TornOnlyIfWrapped
<1> QED BY <1>1, Invariance, PTL

\* As long as the writer makes fewer stores than turn the counter once round, every
\* snapshot returned is that of the store whose counter it validated, and so never torn
\* (seqlock.rs:4-7, 48-55).
THEOREM NeverTorn ==
  ASSUME 2 * MaxStores < SeqMod
  PROVE  Spec => [](AllIntact /\ NoTornSnapshot)
<1>1. IInv => AllIntact /\ NoTornSnapshot
  <2> SUFFICES ASSUME IInv, NEW r \in Readers
               PROVE  /\ Intact(rd[r].out)
                      /\ \A v, w \in 1..W : rd[r].out.words[v] = rd[r].out.words[w]
    BY DEF AllIntact, NoTornSnapshot
  <2>1. OutInv(rd[r].out) BY DEF IInv, ReaderInv
  <2>2. rd[r].out.i1 \in Nat \ {0} /\ rd[r].out.i2 \in Nat
    BY DEF IInv, TypeOK, ReaderState, Snapshot
  <2>3. Intact(rd[r].out) BY <2>1, <2>2 DEF OutInv
  <2>4. ASSUME NEW v \in 1..W, NEW w \in 1..W
        PROVE  rd[r].out.words[v] = rd[r].out.words[w]
    <3> DEFINE x == rd[r].out.words[v]
               y == rd[r].out.words[w]
    <3>1. x \in Nat /\ y \in Nat BY <2>1 DEF OutInv
    <3>2. 2 * x = rd[r].out.i1 - 1 /\ 2 * y = rd[r].out.i1 - 1 BY <2>3 DEF Intact
    <3>3. 2 * x = 2 * y BY <3>2
    <3> HIDE DEF x, y
    <3>4. x = y BY <3>1, <3>3
    <3> QED BY <3>4 DEF x, y
  <2> QED BY <2>3, <2>4
<1> QED BY <1>1, Invariance, PTL

-------------------------------------------------------------------------------
(* Beside other code in one memory *)

\* The lock's atomics are among those of the memory.
LEMMA Owned == LockLoc \in SUBSET Loc /\ {SeqLoc} \in SUBSET Loc
BY SeqLockAssumption DEF LockLoc

\* The invariant needs nothing of the atomics of other code, whatever that code
\* stores and fences, and whatever the readers load meanwhile.
LEMMA OtherStep ==
  ASSUME IInv, UNCHANGED <<wr, rd>>,
         mem' \in Memory, Grows(mem, mem'), \A l \in LockLoc : mem'[l] = mem[l],
         fenced' \in View, Forward(fenced, fenced'),
         view' \in [Readers -> Thread],
         \A r \in Readers : /\ Forward(view[r].cur, view'[r].cur)
                            /\ Forward(view[r].acq, view'[r].acq)
  PROVE  IInv'
<1>1. /\ SeqLoc \in Loc /\ \A w \in 1..W : PayLoc(w) \in Loc
      /\ mem'[SeqLoc] = mem[SeqLoc]
      /\ \A w \in 1..W : mem'[PayLoc(w)] = mem[PayLoc(w)]
  BY Locations DEF LockLoc
<1>2. TypeOK' BY DEF IInv, TypeOK
<1>3. WriterInv'
  <2>1. \A l \in Loc : Len(mem'[l]) >= 1
    <3> SUFFICES ASSUME NEW l \in Loc PROVE Len(mem'[l]) >= 1 OBVIOUS
    <3>1. Len(mem[l]) >= 1 BY DEF IInv, WriterInv
    <3> QED BY <3>1 DEF Grows
  <2>2. wr.pc # "idle" => fenced'[SeqLoc] >= 2 * wr.n
    <3>1. fenced'[SeqLoc] >= fenced[SeqLoc] BY <1>1 DEF Forward
    <3>2. fenced[SeqLoc] \in Nat /\ fenced'[SeqLoc] \in Nat /\ wr.n \in Nat
      BY <1>1 DEF IInv, TypeOK, View, WriterState
    <3>3. wr.pc # "idle" => fenced[SeqLoc] >= 2 * wr.n BY DEF IInv, WriterInv
    <3> QED BY <3>1, <3>2, <3>3
  <2> QED BY <1>1, <2>1, <2>2 DEF IInv, WriterInv
<1>4. CounterInv' BY <1>1 DEF IInv, CounterInv
<1>5. PublishInv' BY <1>1 DEF IInv, PublishInv
<1>6. PayloadInv' BY <1>1 DEF IInv, PayloadInv
<1>7. ReaderInv'
  <2> SUFFICES ASSUME NEW r \in Readers
               PROVE  /\ rd[r].pc \in {"payload", "check"} => SnapInv(r)'
                      /\ OutInv(rd[r].out)
    BY DEF ReaderInv, OutInv, Intact
  <2>1. OutInv(rd[r].out) BY DEF IInv, ReaderInv
  <2>2. ASSUME rd[r].pc \in {"payload", "check"} PROVE SnapInv(r)'
    <3>1. SnapInv(r) BY <2>2 DEF IInv, ReaderInv
    <3>2. /\ view[r] \in Thread /\ view'[r] \in Thread /\ rd[r] \in ReaderState
      BY DEF IInv, TypeOK
    <3>3. ASSUME NEW l \in Loc
          PROVE  /\ view[r].cur[l] \in Nat /\ view'[r].cur[l] \in Nat
                 /\ view'[r].cur[l] >= view[r].cur[l]
                 /\ view[r].acq[l] \in Nat /\ view'[r].acq[l] \in Nat
                 /\ view'[r].acq[l] >= view[r].acq[l]
      BY <3>2 DEF Thread, View, Forward
    <3>4. rd[r].i1 \in Nat /\ rd[r].got \in Seq(Nat) BY <3>2 DEF ReaderState
    <3>5. view'[r].acq[SeqLoc] >= rd[r].i1
      BY <1>1, <3>1, <3>3, <3>4 DEF SnapInv
    <3>6. \A w \in 1..W : 2 * view'[r].cur[PayLoc(w)] >= rd[r].i1 + 1
      <4> SUFFICES ASSUME NEW w \in 1..W
                   PROVE  2 * view'[r].cur[PayLoc(w)] >= rd[r].i1 + 1
        OBVIOUS
      <4>1. 2 * view[r].cur[PayLoc(w)] >= rd[r].i1 + 1 BY <3>1 DEF SnapInv
      <4>2. /\ view[r].cur[PayLoc(w)] \in Nat /\ view'[r].cur[PayLoc(w)] \in Nat
            /\ view'[r].cur[PayLoc(w)] >= view[r].cur[PayLoc(w)]
        BY <1>1, <3>3
      <4>3. \A a, b, i \in Nat : b >= a /\ 2 * a >= i + 1 => 2 * b >= i + 1 OBVIOUS
      <4> QED BY <3>4, <4>1, <4>2, <4>3
    <3>7. \A w \in 1..Len(rd[r].got) : 2 * rd[r].got[w] <= view'[r].acq[SeqLoc]
      <4> SUFFICES ASSUME NEW w \in 1..Len(rd[r].got)
                   PROVE  2 * rd[r].got[w] <= view'[r].acq[SeqLoc]
        OBVIOUS
      <4>1. 2 * rd[r].got[w] <= view[r].acq[SeqLoc] BY <3>1 DEF SnapInv
      <4>2. rd[r].got[w] \in Nat BY <3>4
      <4> QED BY <1>1, <3>3, <4>1, <4>2
    <3>8. rd' = rd OBVIOUS
    <3> QED BY <1>1, <3>1, <3>5, <3>6, <3>7, <3>8 DEF SnapInv
  <2> QED BY <2>1, <2>2
<1> QED BY <1>2, <1>3, <1>4, <1>5, <1>6, <1>7 DEF IInv

\* What store does to the memory: Relaxed stores to its atomics, and Release
\* stores to the counter alone.
LEMMA StoreWrites ==
  ASSUME IInv, Store
  PROVE  /\ Writes(mem, mem', fenced, fenced', LockLoc, {SeqLoc})
         /\ UNCHANGED <<view, rd>>
<1>1. /\ SeqLoc \in Loc /\ mem[SeqLoc] \in Seq(Message) /\ Len(mem[SeqLoc]) >= 1
      /\ wr \in WriterState
  BY Locations DEF IInv, TypeOK, WriterInv, Memory
<1>2. CASE MarkOdd
  <2>1. Latest(mem, SeqLoc) \in 0..SeqMod - 1
    BY <1>1 DEF IInv, CounterInv, Latest
  <2>2. (Latest(mem, SeqLoc) + 1) % SeqMod \in Nat BY <2>1, Wrap
  <2>3. /\ mem' = StoreRelaxed(mem, SeqLoc, (Latest(mem, SeqLoc) + 1) % SeqMod, fenced)
        /\ fenced' = Stored(mem') /\ UNCHANGED <<view, rd>>
    BY <1>2 DEF MarkOdd
  <2> HIDE DEF SeqLoc
  <2>4. SeqLoc \in LockLoc BY DEF LockLoc
  <2> QED BY <2>2, <2>3, <2>4 DEF Writes
<1>3. CASE StoreWord
  <2>1. /\ mem' = StoreRelaxed(mem, PayLoc(wr.w), wr.n, fenced)
        /\ UNCHANGED <<fenced, view, rd>>
    BY <1>3 DEF StoreWord
  <2>2. wr.n \in Nat /\ PayLoc(wr.w) \in LockLoc BY <1>1 DEF WriterState, LockLoc
  <2> QED BY <2>1, <2>2 DEF Writes
<1>4. CASE Publish
  <2>1. /\ mem' = StoreRelease(mem, SeqLoc, (wr.s + 2) % SeqMod)
        /\ UNCHANGED <<fenced, view, rd>>
    BY <1>4 DEF Publish
  <2>2. wr.s \in 0..SeqMod - 1 BY <1>1 DEF WriterState
  <2>3. (wr.s + 2) % SeqMod \in Nat BY <2>2, Wrap
  <2> QED BY <2>1, <2>3 DEF Writes
<1> QED BY <1>2, <1>3, <1>4 DEF Store

\* What load does to the memory: nothing; it acquires the counter alone.
LEMMA LoadReads ==
  ASSUME IInv, NEW r \in Readers, Load(r)
  PROVE  /\ UNCHANGED <<mem, fenced, wr>>
         /\ \E t : /\ view' = [view EXCEPT ![r] = t]
                   /\ Reads(mem, view[r], t, LockLoc, {SeqLoc})
<1>1. view \in [Readers -> Thread] BY DEF IInv, TypeOK
<1>2. CASE LoadSeq(r)
  <2>1. PICK i \in Visible(mem, view[r], SeqLoc) :
          view' = [view EXCEPT ![r] = LoadAcquire(mem, view[r], SeqLoc, i)]
    BY <1>1, <1>2 DEF LoadSeq
  <2>2. Reads(mem, view[r], LoadAcquire(mem, view[r], SeqLoc, i), LockLoc, {SeqLoc})
    BY DEF Reads
  <2> QED BY <1>2, <2>1, <2>2 DEF LoadSeq
<1>3. CASE LoadWord(r)
  <2> DEFINE l == PayLoc(Len(rd[r].got) + 1)
  <2>1. PICK i \in Visible(mem, view[r], l) :
          view' = [view EXCEPT ![r] = LoadRelaxed(mem, view[r], l, i)]
    BY <1>1, <1>3 DEF LoadWord
  <2>2. l \in LockLoc
    <3>1. rd[r] \in ReaderState /\ rd[r].pc = "payload" BY <1>3 DEF IInv, TypeOK, LoadWord
    <3>2. rd[r].got \in Seq(Nat) /\ Len(rd[r].got) < W
      BY <3>1 DEF IInv, ReaderInv, SnapInv, ReaderState
    <3>3. Len(rd[r].got) + 1 \in 1..W BY <3>2
    <3> QED BY <3>3 DEF LockLoc
  <2> HIDE DEF l
  <2>3. Reads(mem, view[r], LoadRelaxed(mem, view[r], l, i), LockLoc, {SeqLoc})
    BY <2>2 DEF Reads
  <2> QED BY <1>3, <2>1, <2>3 DEF LoadWord
<1>4. CASE Recheck(r)
  <2> DEFINE s == FenceAcquire(view[r])
  <2>1. PICK i \in Visible(mem, s, SeqLoc) :
          view' = [view EXCEPT ![r] = LoadRelaxed(mem, s, SeqLoc, i)]
    BY <1>4 DEF Recheck
  <2>2. SeqLoc \in LockLoc BY DEF LockLoc
  <2>3. Reads(mem, view[r], LoadRelaxed(mem, s, SeqLoc, i), LockLoc, {SeqLoc})
    BY <2>2 DEF Reads
  <2> QED BY <1>4, <2>1, <2>3 DEF Recheck
<1> QED BY <1>2, <1>3, <1>4 DEF Load

-------------------------------------------------------------------------------
(* With current reads: retries, and the atomic cell *)

\* A load in progress, under current reads: what was published at its call
\* still is, a retry it counted is of a store made since, and the counter it
\* holds is of a store no older than its call.
SinceInv(x, p, n) ==
  x.pc # "idle" =>
    /\ x.since <= p
    /\ x.retries > 0 => n > x.since
    /\ x.pc \in {"payload", "check"} => x.i1 > 2 * x.since

CurrentInv == \A r \in Readers : SinceInv(rd[r], Published, wr.n)

\* Where the counter is, and how far the stores are (seqlock.rs:90-102).
LEMMA Newest ==
  ASSUME IInv
  PROVE  /\ Published \in 0..MaxStores /\ wr.n \in 0..MaxStores /\ Published <= wr.n
         /\ Len(mem[SeqLoc]) \in Nat /\ Len(mem[SeqLoc]) > 2 * Published
         /\ mem[SeqLoc][Len(mem[SeqLoc])].val % 2 # 0 => wr.n > Published
         /\ Len(mem[SeqLoc]) > 2 * Published + 1 => wr.n > Published
         /\ \A i \in 1..Len(mem[SeqLoc]) : i % 2 = 1 => i <= 2 * Published + 1
<1> DEFINE L == Len(mem[SeqLoc])
<1>1. wr \in WriterState BY DEF IInv, TypeOK
<1>2. wr.n \in 0..MaxStores /\ wr.n \in Nat BY <1>1 DEF WriterState
<1>3. L = IF wr.pc = "idle" THEN 2 * wr.n + 1 ELSE 2 * wr.n
  BY DEF IInv, WriterInv
<1>4. wr.pc # "idle" => wr.n >= 1 BY DEF IInv, WriterInv
<1>5. L \in 1..L BY <1>2, <1>3, <1>4
<1>6. mem[SeqLoc][L].val \in 0..SeqMod - 1 /\ (mem[SeqLoc][L].val + L) % 2 = 1
  BY <1>5 DEF IInv, CounterInv
<1> DEFINE v == mem[SeqLoc][L].val
<1>7. v % 2 # 0 => L % 2 = 0
  <2>1. v \in Int /\ L \in Int /\ (v + L) % 2 = 1 BY <1>5, <1>6
  <2> HIDE DEF v, L
  <2> QED BY <2>1
<1> HIDE DEF v, L
<1>8. CASE wr.pc = "idle"
  <2>1. Published = wr.n /\ L = 2 * wr.n + 1 BY <1>3, <1>8 DEF Published
  <2>2. L % 2 = 1 BY <1>2, <2>1
  <2> QED BY <1>2, <1>7, <2>1, <2>2 DEF v, L
<1>9. CASE wr.pc # "idle"
  <2>1. Published = wr.n - 1 /\ L = 2 * wr.n /\ wr.n >= 1
    BY <1>3, <1>4, <1>9 DEF Published
  <2>2. \A i \in 1..L : i % 2 = 1 => i <= 2 * Published + 1
    <3> SUFFICES ASSUME NEW i \in 1..L, i % 2 = 1 PROVE i <= 2 * Published + 1
      OBVIOUS
    <3>1. i \in Nat /\ i <= 2 * wr.n BY <1>2, <2>1
    <3>2. i # 2 * wr.n BY <1>2
    <3> QED BY <1>2, <2>1, <3>1, <3>2
  <2> QED BY <1>2, <2>1, <2>2 DEF L
<1> QED BY <1>8, <1>9

\* A reader in a load with nothing but the words of store k, or that returned them.
Holds(x, k) == x.pc \in {"payload", "check"} => \A w \in 1..Len(x.got) : x.got[w] = k

\* A load that reads the newest stores while no store is in progress: it holds, and
\* returns, the words of the last one (seqlock.rs:138-170).
LEMMA LoadQuiet ==
  ASSUME IInv, StaleReads = FALSE, wr.pc = "idle", NEW r \in Readers, Load(r),
         Holds(rd[r], wr.n)
  PROVE  /\ Holds(rd'[r], wr.n)
         /\ rd'[r].pc = "idle" => rd'[r].out.words = [w \in 1..W |-> wr.n]
<1>1. rd \in [Readers -> ReaderState] /\ rd[r] \in ReaderState BY DEF IInv, TypeOK
<1>2. ASSUME Retry(r) PROVE rd'[r].pc = "seq"
  BY <1>1, <1>2 DEF Retry, ReaderState
<1>3. CASE LoadSeq(r)
  <2>1. PICK i : IF mem[SeqLoc][i].val % 2 = 0
                   THEN rd' = [rd EXCEPT ![r].pc = "payload", ![r].s1 = mem[SeqLoc][i].val,
                                         ![r].i1 = i, ![r].got = <<>>]
                   ELSE Retry(r)
    BY <1>3 DEF LoadSeq
  <2>2. CASE mem[SeqLoc][i].val % 2 = 0
    <3> DEFINE d == [rd[r] EXCEPT !.pc = "payload", !.s1 = mem[SeqLoc][i].val,
                                  !.i1 = i, !.got = <<>>]
    <3>1. rd' = [rd EXCEPT ![r] = d] BY <2>1, <2>2
    <3>2. d.pc = "payload" /\ d.got = <<>> BY <1>1 DEF ReaderState
    <3> HIDE DEF d
    <3>3. rd'[r].pc = "payload" /\ rd'[r].got = <<>> BY <1>1, <3>1, <3>2
    <3> QED BY <3>3 DEF Holds
  <2>3. CASE mem[SeqLoc][i].val % 2 # 0 BY <1>2, <2>1, <2>3 DEF Holds
  <2> QED BY <2>2, <2>3
<1>4. CASE LoadWord(r)
  <2> DEFINE u == Len(rd[r].got) + 1
             l == PayLoc(u)
  <2>1. PICK i \in Visible(mem, view[r], l) :
          rd' = [rd EXCEPT ![r].pc = IF u = W THEN "check" ELSE "payload",
                           ![r].got = Append(@, mem[l][i].val)]
    BY <1>4 DEF LoadWord
  <2>2. rd[r].got \in Seq(Nat) /\ Len(rd[r].got) \in Nat /\ rd[r].pc = "payload"
    BY <1>1, <1>4 DEF ReaderState, LoadWord
  <2>3. u \in 1..W BY <2>2 DEF IInv, ReaderInv, SnapInv
  <2>4. mem[l][i].val = wr.n /\ wr.n \in Nat
    <3>1. i = Len(mem[l]) BY <2>1, Current
    <3>2. wr.n \in Nat BY DEF IInv, TypeOK, WriterState
    <3>3. Len(mem[l]) = wr.n + 1 BY <2>3 DEF IInv, WriterInv
    <3>4. i \in 1..Len(mem[l]) BY <3>1, <3>2, <3>3
    <3>5. mem[l][i].val = i - 1 BY <2>3, <3>4 DEF IInv, PayloadInv
    <3> HIDE DEF l
    <3> QED BY <3>1, <3>2, <3>3, <3>5
  <2> DEFINE g == Append(rd[r].got, mem[l][i].val)
  <2>5. rd'[r].pc # "idle" /\ rd'[r].got = g BY <1>1, <2>1 DEF ReaderState
  <2>6. Len(g) = u /\ g[u] = wr.n /\ \A w \in 1..Len(rd[r].got) : g[w] = rd[r].got[w]
    BY <2>2, <2>4, AppendWord
  <2> HIDE DEF g
  <2>7. \A w \in 1..Len(g) : g[w] = wr.n
    <3> SUFFICES ASSUME NEW w \in 1..Len(g) PROVE g[w] = wr.n OBVIOUS
    <3>1. CASE w = u BY <2>6, <3>1
    <3>2. CASE w # u
      <4>1. w \in 1..Len(rd[r].got) BY <2>2, <2>6, <3>2
      <4> QED BY <2>2, <2>6, <4>1 DEF Holds
    <3> QED BY <3>1, <3>2
  <2> QED BY <2>5, <2>7 DEF Holds
<1>5. CASE Recheck(r)
  <2>1. PICK i : Return(r, i) \/ Retry(r) BY <1>5 DEF Recheck
  <2>2. CASE Retry(r) BY <1>2, <2>2 DEF Holds
  <2>3. CASE Return(r, i)
    <3>1. rd'[r].pc = "idle" /\ rd'[r].out.words = rd[r].got
      BY <1>1, <2>3 DEF Return, ReaderState
    <3>2. rd[r].got \in Seq(Nat) /\ Len(rd[r].got) = W /\ rd[r].pc = "check"
      BY <1>1, <1>5 DEF ReaderState, Recheck, IInv, ReaderInv, SnapInv
    <3>3. \A w \in 1..W : rd[r].got[w] = wr.n BY <3>2 DEF Holds
    <3>4. rd[r].got = [w \in 1..W |-> wr.n] BY <3>2, <3>3
    <3> QED BY <3>1, <3>4 DEF Holds
  <2> QED BY <2>1, <2>2, <2>3
<1> QED BY <1>3, <1>4, <1>5 DEF Load

\* A step of a reader keeps the others' calls as they were.
LEMMA OthersSince ==
  ASSUME IInv, CurrentInv, NEW r \in Readers, wr' = wr,
         NEW d, rd' = [rd EXCEPT ![r] = d], SinceInv(d, Published, wr.n)
  PROVE  CurrentInv'
<1>1. Published' = Published BY DEF Published
<1>2. rd \in [Readers -> ReaderState] BY DEF IInv, TypeOK
<1>3. ASSUME NEW q \in Readers PROVE SinceInv(rd'[q], Published, wr.n)
  <2>1. CASE q = r BY <1>2, <2>1
  <2>2. CASE q # r
    <3>1. rd'[q] = rd[q] BY <1>2, <2>2
    <3> QED BY <3>1 DEF CurrentInv
  <2> QED BY <2>1, <2>2
<1> QED BY <1>1, <1>3 DEF CurrentInv

\* A step of the writer only adds to what is published and begun.
LEMMA StoreSince ==
  ASSUME IInv, CurrentInv, rd' = rd, Published' \in Nat, wr'.n \in Nat,
         Published' >= Published, wr'.n >= wr.n
  PROVE  CurrentInv'
<1>1. \A r \in Readers : SinceInv(rd[r], Published, wr.n) BY DEF CurrentInv
<1>2. Published \in Nat /\ wr.n \in Nat BY Newest
<1>3. ASSUME NEW r \in Readers PROVE SinceInv(rd[r], Published', wr'.n)
  <2>1. rd[r].since \in Nat BY DEF IInv, TypeOK, ReaderState
  <2> QED BY <1>1, <1>2, <2>1 DEF SinceInv
<1> QED BY <1>3 DEF CurrentInv

\* What is published and begun after each step of store (seqlock.rs:90-102).
LEMMA StoreCounts ==
  ASSUME IInv
  PROVE  /\ MarkOdd => Published' = Published /\ wr'.n = wr.n + 1
         /\ StoreWord => Published' = Published /\ wr'.n = wr.n
         /\ Publish => Published' = Published + 1 /\ wr'.n = wr.n
<1>1. wr \in WriterState BY DEF IInv, TypeOK
<1>2. wr.n \in Nat BY <1>1 DEF WriterState
<1>3. MarkOdd => Published' = Published /\ wr'.n = wr.n + 1
  BY <1>2 DEF MarkOdd, Published
<1>4. StoreWord => Published' = Published /\ wr'.n = wr.n
  BY <1>1, <1>2 DEF StoreWord, Published, WriterState
<1>5. Publish => Published' = Published + 1 /\ wr'.n = wr.n
  BY <1>1, <1>2 DEF Publish, Published, WriterState
<1> QED BY <1>3, <1>4, <1>5

\* A retry is of a load that overlaps a store (seqlock.rs:138-170).
LEMMA RetrySince ==
  ASSUME IInv, CurrentInv, NEW r \in Readers, rd[r].pc # "idle", wr' = wr,
         Retry(r), wr.n > rd[r].since
  PROVE  CurrentInv'
<1>1. rd[r] \in ReaderState BY DEF IInv, TypeOK
<1> DEFINE n == IF rd[r].retries < RetryMax THEN rd[r].retries + 1 ELSE rd[r].retries
           d == [rd[r] EXCEPT !.pc = "seq", !.got = <<>>, !.retries = n]
<1>2. rd \in [Readers -> ReaderState] BY DEF IInv, TypeOK
<1>3. rd' = [rd EXCEPT ![r] = d] BY <1>2 DEF Retry
<1>4. d.pc = "seq" /\ d.since = rd[r].since BY <1>1 DEF ReaderState
<1>5. rd[r].since <= Published BY DEF CurrentInv, SinceInv
<1> HIDE DEF d
<1>6. SinceInv(d, Published, wr.n) BY <1>4, <1>5 DEF SinceInv
<1> QED BY <1>3, <1>6, OthersSince

\* Every step keeps what the loads in progress know (seqlock.rs:138-170).
LEMMA CurrentStep ==
  ASSUME StaleReads = FALSE, IInv, CurrentInv, [Next]_vars
  PROVE  CurrentInv'
<1>1. /\ Published \in 0..MaxStores /\ wr.n \in 0..MaxStores /\ Published <= wr.n
      /\ Len(mem[SeqLoc]) \in Nat /\ Len(mem[SeqLoc]) > 2 * Published
      /\ mem[SeqLoc][Len(mem[SeqLoc])].val % 2 # 0 => wr.n > Published
      /\ Len(mem[SeqLoc]) > 2 * Published + 1 => wr.n > Published
  BY Newest
<1>2. rd \in [Readers -> ReaderState] BY DEF IInv, TypeOK
<1>3. CASE Store
  <2>1. rd' = rd BY <1>3 DEF Store, MarkOdd, StoreWord, Publish
  <2>2. Published' \in Nat /\ wr'.n \in Nat /\ Published' >= Published /\ wr'.n >= wr.n
    BY <1>1, <1>3, StoreCounts DEF Store
  <2> QED BY <2>1, <2>2, StoreSince
<1>4. ASSUME NEW r \in Readers, Call(r) PROVE CurrentInv'
  <2> DEFINE d == [rd[r] EXCEPT !.pc = "seq", !.retries = 0, !.since = Published]
  <2>1. rd' = [rd EXCEPT ![r] = d] /\ wr' = wr BY <1>2, <1>4 DEF Call
  <2>2. d.pc = "seq" /\ d.retries = 0 /\ d.since = Published
    BY <1>2 DEF ReaderState
  <2> HIDE DEF d
  <2>3. SinceInv(d, Published, wr.n) BY <1>1, <2>2 DEF SinceInv
  <2> QED BY <2>1, <2>3, OthersSince
<1>5. ASSUME NEW r \in Readers, LoadSeq(r) PROVE CurrentInv'
  <2>1. PICK i \in Visible(mem, view[r], SeqLoc) :
          IF mem[SeqLoc][i].val % 2 = 0
            THEN rd' = [rd EXCEPT ![r].pc = "payload",
                                  ![r].s1 = mem[SeqLoc][i].val,
                                  ![r].i1 = i, ![r].got = <<>>]
            ELSE Retry(r)
    BY <1>5 DEF LoadSeq
  <2>2. i = Len(mem[SeqLoc]) BY Current
  <2>3. rd[r].pc = "seq" /\ wr' = wr BY <1>5 DEF LoadSeq
  <2>4. rd[r] \in ReaderState BY <1>2
  <2>5. /\ rd[r].since <= Published
        /\ rd[r].retries > 0 => wr.n > rd[r].since
        /\ rd[r].since \in Nat
    BY <2>3, <2>4 DEF CurrentInv, SinceInv, ReaderState
  <2>6. CASE mem[SeqLoc][i].val % 2 = 0
    <3> DEFINE d == [rd[r] EXCEPT !.pc = "payload", !.s1 = mem[SeqLoc][i].val,
                                  !.i1 = i, !.got = <<>>]
    <3>1. rd' = [rd EXCEPT ![r] = d] BY <1>2, <2>1, <2>6
    <3>2. /\ d.pc = "payload" /\ d.i1 = i /\ d.since = rd[r].since
          /\ d.retries = rd[r].retries
      BY <2>4 DEF ReaderState
    <3> HIDE DEF d
    <3>3. SinceInv(d, Published, wr.n) BY <1>1, <2>2, <2>5, <3>2 DEF SinceInv
    <3> QED BY <2>3, <3>1, <3>3, OthersSince
  <2>7. CASE mem[SeqLoc][i].val % 2 # 0
    <3>1. wr.n > rd[r].since BY <1>1, <2>2, <2>5, <2>7
    <3> QED BY <2>1, <2>3, <2>7, <3>1, RetrySince
  <2> QED BY <2>6, <2>7
<1>6. ASSUME NEW r \in Readers, LoadWord(r) PROVE CurrentInv'
  <2>1. PICK p, g : /\ rd' = [rd EXCEPT ![r].pc = p, ![r].got = g]
                    /\ p \in {"payload", "check"}
    BY <1>2, <1>6 DEF LoadWord
  <2> DEFINE d == [rd[r] EXCEPT !.pc = p, !.got = g]
  <2>2. rd' = [rd EXCEPT ![r] = d] BY <1>2, <2>1
  <2>3. rd[r].pc = "payload" /\ wr' = wr BY <1>6 DEF LoadWord
  <2>4. /\ d.pc # "idle" /\ d.since = rd[r].since /\ d.retries = rd[r].retries
        /\ d.i1 = rd[r].i1
    BY <1>2, <2>1 DEF ReaderState
  <2> HIDE DEF d
  <2>5. SinceInv(d, Published, wr.n) BY <2>3, <2>4 DEF CurrentInv, SinceInv
  <2> QED BY <2>2, <2>3, <2>5, OthersSince
<1>7. ASSUME NEW r \in Readers, Recheck(r) PROVE CurrentInv'
  <2>1. PICK i \in Visible(mem, FenceAcquire(view[r]), SeqLoc) :
          IF mem[SeqLoc][i].val = rd[r].s1 THEN Return(r, i) ELSE Retry(r)
    BY <1>7 DEF Recheck
  <2>2. i = Len(mem[SeqLoc]) BY Current
  <2>3. rd[r].pc = "check" /\ wr' = wr BY <1>7 DEF Recheck
  <2>4. /\ rd[r].since <= Published /\ rd[r].i1 > 2 * rd[r].since
        /\ rd[r].since \in Nat /\ rd[r].i1 \in Nat
    BY <1>2, <2>3 DEF CurrentInv, SinceInv, ReaderState
  <2>5. rd[r].i1 \in 1..Len(mem[SeqLoc]) /\ mem[SeqLoc][rd[r].i1].val = rd[r].s1
    BY <2>3 DEF IInv, ReaderInv, SnapInv
  <2>6. CASE mem[SeqLoc][i].val = rd[r].s1
    <3>1. PICK g, o : rd' = [rd EXCEPT ![r].pc = "idle", ![r].got = g, ![r].out = o]
      BY <2>1, <2>6 DEF Return
    <3> DEFINE d == [rd[r] EXCEPT !.pc = "idle", !.got = g, !.out = o]
    <3>2. rd' = [rd EXCEPT ![r] = d] BY <1>2, <3>1
    <3>3. d.pc = "idle" BY <1>2 DEF ReaderState
    <3> HIDE DEF d
    <3>4. SinceInv(d, Published, wr.n) BY <3>3 DEF SinceInv
    <3> QED BY <2>3, <3>2, <3>4, OthersSince
  <2>7. CASE mem[SeqLoc][i].val # rd[r].s1
    <3>1. rd[r].i1 < Len(mem[SeqLoc]) BY <1>1, <2>2, <2>5, <2>7
    <3>2. wr.n > rd[r].since BY <1>1, <2>4, <3>1
    <3> QED BY <2>1, <2>3, <2>7, <3>2, RetrySince
  <2> QED BY <2>6, <2>7
<1>8. CASE UNCHANGED vars BY <1>8 DEF vars, CurrentInv, SinceInv, Published
<1> QED BY <1>3, <1>4, <1>5, <1>6, <1>7, <1>8 DEF Next, Load

\* With current reads what a load in progress knows is invariant.
LEMMA CurrentInvariance == ASSUME StaleReads = FALSE PROVE Spec => []CurrentInv
<1>1. Init => CurrentInv BY DEF Init, ReaderInit, CurrentInv, SinceInv
<1>2. IInv /\ CurrentInv /\ [Next]_vars => CurrentInv' BY CurrentStep
<1> QED BY <1>1, <1>2, Invariance, PTL DEF Spec

\* With current reads a load counts a retry only when a store was begun after
\* it was called (seqlock.rs:131-136).
THEOREM RetryUnderWrite ==
  ASSUME StaleReads = FALSE
  PROVE  Spec => []RetryOnlyUnderWrite
<1>1. CurrentInv => RetryOnlyUnderWrite
  BY DEF CurrentInv, SinceInv, RetryOnlyUnderWrite
<1> QED BY <1>1, CurrentInvariance, PTL

\* The cell as the lock shows it: per reader, what was published at its call,
\* and the version it returned last.
Floors   == [r \in Readers |-> IF rd[r].pc = "idle" THEN -1 ELSE rd[r].since]
Versions == [r \in Readers |-> Version(rd[r].out)]

\* The steps of the cell under the refinement mapping.
LEMMA CellSteps ==
  /\ Cell!Init <=> /\ Published = 0 /\ Floors = [r \in Readers |-> -1]
                   /\ Versions = [r \in Readers |-> 0]
  /\ Cell!Publish <=> /\ Published' = Published + 1
                      /\ Floors' = Floors /\ Versions' = Versions
  /\ \A r : Cell!Call(r) <=>
       /\ Floors[r] = -1
       /\ Floors' = [Floors EXCEPT ![r] = Published]
       /\ Published' = Published /\ Versions' = Versions
  /\ \A r : Cell!Return(r) <=>
       /\ Floors[r] # -1
       /\ \E v \in Floors[r] .. Published : Versions' = [Versions EXCEPT ![r] = v]
       /\ Floors' = [Floors EXCEPT ![r] = -1]
       /\ Published' = Published
  /\ UNCHANGED Cell!cellVars <=>
       Published' = Published /\ Floors' = Floors /\ Versions' = Versions
BY DEF Cell!Init, Cell!Publish, Cell!Call, Cell!Return, Cell!cellVars, Floors, Versions

\* A step of reader r moves only its own part of the cell.
LEMMA CellReader ==
  ASSUME NEW r \in Readers, rd \in [Readers -> ReaderState],
         NEW d, rd' = [rd EXCEPT ![r] = d]
  PROVE  /\ Floors[r] = IF rd[r].pc = "idle" THEN -1 ELSE rd[r].since
         /\ Floors' = [Floors EXCEPT ![r] = IF d.pc = "idle" THEN -1 ELSE d.since]
         /\ Versions' = [Versions EXCEPT ![r] = Version(d.out)]
         /\ d.out = rd[r].out => Versions' = Versions
         /\ d.since = rd[r].since /\ (d.pc = "idle" <=> rd[r].pc = "idle") =>
              Floors' = Floors
BY DEF Floors, Versions

\* A retry is within a call: the cell does not see it.
LEMMA CellRetry ==
  ASSUME IInv, NEW r \in Readers, Retry(r), rd[r].pc # "idle"
  PROVE  Floors' = Floors /\ Versions' = Versions
<1>1. rd \in [Readers -> ReaderState] BY DEF IInv, TypeOK
<1> DEFINE n == IF rd[r].retries < RetryMax THEN rd[r].retries + 1 ELSE rd[r].retries
           d == [rd[r] EXCEPT !.pc = "seq", !.got = <<>>, !.retries = n]
<1>2. rd' = [rd EXCEPT ![r] = d] BY <1>1 DEF Retry
<1>3. d.pc = "seq" /\ d.since = rd[r].since /\ d.out = rd[r].out
  BY <1>1 DEF ReaderState
<1> HIDE DEF d
<1> QED BY <1>1, <1>2, <1>3, CellReader

\* A snapshot that comes back holds a version published between the call and
\* the return (seqlock.rs:48-61, 125).
LEMMA Returned ==
  ASSUME IInv, IInv', 2 * MaxStores < SeqMod, NEW r \in Readers,
         NEW o, rd'[r].out = o, o.i1 \in 1..Len(mem[SeqLoc]), NEW s \in Nat,
         o.i1 > 2 * s, \A w \in 1..W : o.words[w] \in Nat
  PROVE  Version(o) \in s .. Published
<1>1. rd'[r].out \in Snapshot BY DEF IInv, TypeOK, ReaderState
<1>2. OutInv(o)
  <2>1. OutInv(rd[r].out)' BY DEF IInv, ReaderInv
  <2> QED BY <2>1 DEF OutInv, Intact
<1>3. /\ o.i1 \in Nat \ {0} /\ o.i2 \in Nat /\ o.words \in Seq(Nat)
  BY <1>1 DEF Snapshot
<1>4. o.i1 = o.i2 /\ Intact(o) BY <1>2, <1>3 DEF OutInv
<1>5. o.i1 % 2 = 1 BY <1>2 DEF OutInv
<1>6. /\ Published \in 0..MaxStores
      /\ \A i \in 1..Len(mem[SeqLoc]) : i % 2 = 1 => i <= 2 * Published + 1
  BY Newest
<1>7. o.i1 <= 2 * Published + 1 BY <1>5, <1>6
<1> DEFINE k == (o.i1 - 1) \div 2
<1>8. k \in Nat /\ o.i1 = 2 * k + 1
  <2> DEFINE i == o.i1
  <2>1. i \in Nat \ {0} /\ i % 2 = 1 BY <1>3, <1>5
  <2> HIDE DEF i
  <2>2. (i - 1) \div 2 \in Nat /\ i = 2 * ((i - 1) \div 2) + 1 BY <2>1
  <2> QED BY <2>2 DEF i
<1> HIDE DEF k
<1>9. k \in s .. Published BY <1>6, <1>7, <1>8
<1>10. \A w \in 1..W : o.words[w] = k
  <2> SUFFICES ASSUME NEW w \in 1..W PROVE o.words[w] = k OBVIOUS
  <2>1. 2 * o.words[w] = 2 * k BY <1>4, <1>8 DEF Intact
  <2> DEFINE x == o.words[w]
  <2>2. k \in Int /\ x \in Int /\ 2 * x = 2 * k BY <1>8, <2>1
  <2> HIDE DEF x
  <2>3. x = k BY <2>2
  <2> QED BY <2>3 DEF x
<1>11. 1 \in 1..W OBVIOUS
<1>12. Version(o) = k BY <1>10, <1>11 DEF Version
<1> QED BY <1>9, <1>12

\* Every step of the lock is a step of the cell, or none (seqlock.rs:88-170).
LEMMA CellStep ==
  ASSUME StaleReads = FALSE, 2 * MaxStores < SeqMod,
         IInv, IInv', CurrentInv, [Next]_vars
  PROVE  Cell!Next \/ UNCHANGED Cell!cellVars
<1>1. rd \in [Readers -> ReaderState] BY DEF IInv, TypeOK
<1>2. CASE Store
  <2>1. rd' = rd BY <1>2 DEF Store, MarkOdd, StoreWord, Publish
  <2>2. Floors' = Floors /\ Versions' = Versions BY <2>1 DEF Floors, Versions
  <2>3. Published' = Published + 1 \/ Published' = Published
    BY <1>2, StoreCounts DEF Store
  <2> QED BY <2>2, <2>3, CellSteps DEF Cell!Next
<1>3. ASSUME NEW r \in Readers, Call(r) PROVE Cell!Next
  <2> DEFINE d == [rd[r] EXCEPT !.pc = "seq", !.retries = 0, !.since = Published]
  <2>1. rd' = [rd EXCEPT ![r] = d] /\ wr' = wr /\ rd[r].pc = "idle"
    BY <1>1, <1>3 DEF Call
  <2>2. d.pc = "seq" /\ d.since = Published /\ d.out = rd[r].out
    BY <1>1 DEF ReaderState
  <2> HIDE DEF d
  <2>3. Published' = Published BY <2>1 DEF Published
  <2>4. /\ Floors[r] = -1 /\ Floors' = [Floors EXCEPT ![r] = Published]
        /\ Versions' = Versions
    BY <1>1, <2>1, <2>2, CellReader
  <2> QED BY <2>3, <2>4, CellSteps DEF Cell!Next
<1>4. ASSUME NEW r \in Readers, LoadSeq(r) PROVE UNCHANGED Cell!cellVars
  <2>1. PICK i : \/ rd' = [rd EXCEPT ![r].pc = "payload",
                                     ![r].s1 = mem[SeqLoc][i].val,
                                     ![r].i1 = i, ![r].got = <<>>]
                 \/ Retry(r)
    BY <1>4 DEF LoadSeq
  <2>2. rd[r].pc = "seq" /\ Published' = Published BY <1>4 DEF LoadSeq, Published
  <2>3. Floors' = Floors /\ Versions' = Versions
    <3>1. CASE Retry(r) BY <2>2, <3>1, CellRetry
    <3>2. CASE rd' = [rd EXCEPT ![r].pc = "payload", ![r].s1 = mem[SeqLoc][i].val,
                                ![r].i1 = i, ![r].got = <<>>]
      <4> DEFINE d == [rd[r] EXCEPT !.pc = "payload", !.s1 = mem[SeqLoc][i].val,
                                    !.i1 = i, !.got = <<>>]
      <4>1. rd' = [rd EXCEPT ![r] = d] BY <1>1, <3>2
      <4>2. d.pc = "payload" /\ d.since = rd[r].since /\ d.out = rd[r].out
        BY <1>1 DEF ReaderState
      <4> HIDE DEF d
      <4> QED BY <1>1, <2>2, <4>1, <4>2, CellReader
    <3> QED BY <2>1, <3>1, <3>2
  <2> QED BY <2>2, <2>3, CellSteps
<1>5. ASSUME NEW r \in Readers, LoadWord(r) PROVE UNCHANGED Cell!cellVars
  <2>1. PICK p, g : /\ rd' = [rd EXCEPT ![r].pc = p, ![r].got = g]
                    /\ p \in {"payload", "check"}
    BY <1>1, <1>5 DEF LoadWord
  <2> DEFINE d == [rd[r] EXCEPT !.pc = p, !.got = g]
  <2>2. rd' = [rd EXCEPT ![r] = d] BY <1>1, <2>1
  <2>3. rd[r].pc = "payload" /\ Published' = Published
    BY <1>5 DEF LoadWord, Published
  <2>4. d.pc # "idle" /\ d.since = rd[r].since /\ d.out = rd[r].out
    BY <1>1, <2>1 DEF ReaderState
  <2> HIDE DEF d
  <2>5. Floors' = Floors /\ Versions' = Versions
    BY <1>1, <2>2, <2>3, <2>4, CellReader
  <2> QED BY <2>3, <2>5, CellSteps
<1>6. ASSUME NEW r \in Readers, Recheck(r)
      PROVE  Cell!Next \/ UNCHANGED Cell!cellVars
  <2>1. PICK i : Return(r, i) \/ Retry(r) BY <1>6 DEF Recheck
  <2>2. rd[r].pc = "check" /\ Published' = Published BY <1>6 DEF Recheck, Published
  <2>3. CASE Retry(r) BY <2>2, <2>3, CellRetry, CellSteps
  <2>4. CASE Return(r, i)
    <3> DEFINE o == [i1 |-> rd[r].i1, i2 |-> i, words |-> rd[r].got,
                     retries |-> rd[r].retries, since |-> rd[r].since]
               d == [rd[r] EXCEPT !.pc = "idle", !.got = <<>>, !.out = o]
    <3>1. rd' = [rd EXCEPT ![r] = d] BY <1>1, <2>4 DEF Return
    <3>2. d.pc = "idle" /\ d.out = o BY <1>1 DEF ReaderState
    <3>3. /\ rd[r].i1 \in 1..Len(mem[SeqLoc]) /\ rd[r].i1 > 2 * rd[r].since
      BY <2>2 DEF IInv, ReaderInv, SnapInv, CurrentInv, SinceInv
    <3>4. rd[r].since \in Nat BY <1>1 DEF ReaderState
    <3>5. o.i1 = rd[r].i1 /\ o.words = rd[r].got OBVIOUS
    <3> HIDE DEF d, o
    <3>6. rd'[r].out = o BY <1>1, <3>1, <3>2
    <3>7. Version(o) \in rd[r].since .. Published
      <4>1. rd[r].got \in Seq(Nat) /\ Len(rd[r].got) = W
        BY <1>1, <2>2 DEF IInv, ReaderInv, SnapInv, ReaderState
      <4>2. \A w \in 1..W : o.words[w] \in Nat BY <3>5, <4>1
      <4> QED BY <3>3, <3>4, <3>5, <3>6, <4>2, Returned
    <3>8. /\ Floors[r] = rd[r].since
          /\ Floors' = [Floors EXCEPT ![r] = -1]
          /\ Versions' = [Versions EXCEPT ![r] = Version(o)]
      BY <1>1, <2>2, <3>1, <3>2, CellReader
    <3>9. Floors[r] # -1 BY <3>4, <3>8
    <3>10. Version(o) \in Floors[r] .. Published BY <3>7, <3>8
    <3>11. Cell!Return(r) BY <2>2, <3>8, <3>9, <3>10, CellSteps
    <3> QED BY <3>11 DEF Cell!Next
  <2> QED BY <2>1, <2>3, <2>4
<1>7. CASE UNCHANGED vars
  <2>1. Published' = Published /\ Floors' = Floors /\ Versions' = Versions
    BY <1>7 DEF vars, Published, Floors, Versions
  <2> QED BY <2>1, CellSteps
<1> QED BY <1>2, <1>3, <1>4, <1>5, <1>6, <1>7 DEF Next, Load

\* With current reads, and a counter no load can see turn once round, the lock
\* is an atomic cell: each load returns, whole, one version that was current at
\* some moment of the call (seqlock.rs:4-7, 48-61, 125).
THEOREM Linearizable ==
  ASSUME StaleReads = FALSE, 2 * MaxStores < SeqMod
  PROVE  Spec => AtomicCell
<1>1. Init => Cell!Init
  <2> SUFFICES ASSUME Init PROVE Cell!Init OBVIOUS
  <2>1. Published = 0 BY DEF Init, WriterInit, Published
  <2>2. \A r \in Readers : rd[r].pc = "idle" /\ rd[r].out = InitialSnapshot
    BY DEF Init, ReaderInit
  <2>3. Version(InitialSnapshot) = 0
    <3>1. \A w \in 1..W : InitialSnapshot.words[w] = 0 BY DEF InitialSnapshot
    <3>2. 1 \in 1..W OBVIOUS
    <3> QED BY <3>1, <3>2 DEF Version
  <2>4. Floors = [r \in Readers |-> -1] /\ Versions = [r \in Readers |-> 0]
    BY <2>2, <2>3 DEF Floors, Versions
  <2> QED BY <2>1, <2>4, CellSteps
<1>2. IInv /\ IInv' /\ CurrentInv /\ [Next]_vars => [Cell!Next]_(Cell!cellVars)
  BY CellStep
<1> QED BY <1>1, <1>2, Invariance, CurrentInvariance, PTL
        DEF Spec, AtomicCell, Cell!Spec
===============================================================================
