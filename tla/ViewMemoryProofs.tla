---------------------------- MODULE ViewMemoryProofs ----------------------------
(***************************************************************************)
(* What the operators of ViewMemory do, for every set of locations: the    *)
(* lemmas the proofs about the lock and the ring share.                    *)
(***************************************************************************)
EXTENDS ViewMemory, TLAPS

\* A store appends one message to its location and touches no other.
LEMMA PutMessage ==
  ASSUME NEW m \in Memory, NEW l \in Loc, NEW v \in Nat, NEW f \in View
  PROVE  /\ Put(m, l, v, f) \in Memory
         /\ \A k \in Loc \ {l} : Put(m, l, v, f)[k] = m[k]
         /\ Len(m[l]) \in Nat
         /\ Len(Put(m, l, v, f)[l]) = Len(m[l]) + 1
         /\ \A i \in 1..Len(m[l]) : Put(m, l, v, f)[l][i] = m[l][i]
         /\ Put(m, l, v, f)[l][Len(m[l]) + 1].val = v
         /\ Put(m, l, v, f)[l][Len(m[l]) + 1].view =
              [f EXCEPT ![l] = Len(m[l]) + 1]
<1> DEFINE msg == [val |-> v, view |-> [f EXCEPT ![l] = Len(m[l]) + 1]]
<1>1. m[l] \in Seq(Message) BY DEF Memory
<1>2. Len(m[l]) \in Nat BY <1>1
<1>3. [f EXCEPT ![l] = Len(m[l]) + 1] \in View BY <1>2 DEF View
<1>4. msg \in Message BY <1>3 DEF Message
<1>5. /\ Append(m[l], msg) \in Seq(Message)
      /\ Len(Append(m[l], msg)) = Len(m[l]) + 1
      /\ \A i \in 1..Len(m[l]) : Append(m[l], msg)[i] = m[l][i]
      /\ Append(m[l], msg)[Len(m[l]) + 1] = msg
  <2> HIDE DEF msg
  <2> QED BY <1>1, <1>4
<1>6. Put(m, l, v, f) = [m EXCEPT ![l] = Append(m[l], msg)]
  BY DEF Put
<1> HIDE DEF msg
<1>7. Put(m, l, v, f)[l] = Append(m[l], msg) BY <1>6 DEF Memory
<1>8. \A k \in Loc \ {l} : Put(m, l, v, f)[k] = m[k] BY <1>6 DEF Memory
<1>9. Put(m, l, v, f) \in Memory BY <1>5, <1>6 DEF Memory
<1> QED BY <1>2, <1>5, <1>7, <1>8, <1>9 DEF msg

\* What the writer has stored is a view, once every atomic has been created.
LEMMA StoredView ==
  ASSUME NEW m \in Memory, \A l \in Loc : Len(m[l]) >= 1
  PROVE  Stored(m) \in View
<1>1. ASSUME NEW l \in Loc PROVE Len(m[l]) \in Nat \ {0}
  <2>1. m[l] \in Seq(Message) BY DEF Memory
  <2>2. Len(m[l]) \in Nat BY <2>1
  <2> QED BY <2>2
<1> QED BY <1>1 DEF Stored, View

\* Loads and acquire fences only move a thread's views forward.
LEMMA LoadMoves ==
  ASSUME NEW m \in Memory, NEW t \in Thread, NEW l \in Loc,
         NEW i \in 1..Len(m[l]), i >= t.cur[l]
  PROVE  /\ LET u == LoadRelaxed(m, t, l, i) IN
              /\ u \in Thread
              /\ \A k \in Loc : u.cur[k] >= t.cur[k] /\ u.acq[k] >= t.acq[k]
              /\ \A k \in Loc : u.acq[k] >= m[l][i].view[k]
         /\ LET u == LoadAcquire(m, t, l, i) IN
              /\ u \in Thread
              /\ \A k \in Loc : u.cur[k] >= t.cur[k] /\ u.acq[k] >= t.acq[k]
              /\ \A k \in Loc : /\ u.acq[k] >= m[l][i].view[k]
                                /\ u.cur[k] >= m[l][i].view[k]
<1>1. m[l][i] \in Message BY DEF Memory
<1>2. m[l][i].view \in View BY <1>1 DEF Message
<1>3. t.cur \in View /\ t.acq \in View BY DEF Thread
<1>4. ASSUME NEW v \in View, NEW u \in View
      PROVE  /\ JoinViews(v, u) \in View
             /\ \A k \in Loc : JoinViews(v, u)[k] >= v[k] /\ JoinViews(v, u)[k] >= u[k]
  BY DEF JoinViews, View
<1>5. i \in Nat \ {0} BY DEF Memory
<1>6. /\ [t.cur EXCEPT ![l] = i] \in View
      /\ \A k \in Loc : [t.cur EXCEPT ![l] = i][k] >= t.cur[k]
  BY <1>3, <1>5 DEF View
<1>7. /\ JoinViews(t.acq, m[l][i].view) \in View
      /\ \A k \in Loc : /\ JoinViews(t.acq, m[l][i].view)[k] >= t.acq[k]
                        /\ JoinViews(t.acq, m[l][i].view)[k] >= m[l][i].view[k]
  BY <1>2, <1>3, <1>4
<1>8. /\ JoinViews(t.cur, m[l][i].view) \in View
      /\ \A k \in Loc : /\ JoinViews(t.cur, m[l][i].view)[k] >= t.cur[k]
                        /\ JoinViews(t.cur, m[l][i].view)[k] >= m[l][i].view[k]
  BY <1>2, <1>3, <1>4
<1> QED BY <1>6, <1>7, <1>8 DEF LoadRelaxed, LoadAcquire, Thread

-------------------------------------------------------------------------------
(* What a view has seen *)

\* View v bounds the next load of l from below by a message whose value is x,
\* or by a later one.
Seen(m, v, l, x) == \E k \in 1..Len(m[l]) : k <= v[l] /\ m[l][k].val = x

\* Memory n has all the messages of m, at the same places.
Grows(m, n) ==
  \A l \in Loc :
    /\ Len(m[l]) \in Nat /\ Len(n[l]) \in Nat /\ Len(m[l]) <= Len(n[l])
    /\ \A i \in 1..Len(m[l]) : n[l][i] = m[l][i]

\* Every store only makes the memory grow.
LEMMA PutGrows ==
  ASSUME NEW m \in Memory, NEW l \in Loc, NEW v \in Nat, NEW f \in View
  PROVE  Grows(m, Put(m, l, v, f))
<1> DEFINE n == Put(m, l, v, f)
<1>1. /\ n \in Memory
      /\ \A k \in Loc \ {l} : n[k] = m[k]
      /\ Len(m[l]) \in Nat
      /\ Len(n[l]) = Len(m[l]) + 1
      /\ \A i \in 1..Len(m[l]) : n[l][i] = m[l][i]
      /\ n[l][Len(m[l]) + 1].val = v
      /\ n[l][Len(m[l]) + 1].view = [f EXCEPT ![l] = Len(m[l]) + 1]
  BY PutMessage
<1>3. ASSUME NEW k \in Loc PROVE Len(m[k]) \in Nat
  <2>1. m[k] \in Seq(Message) BY DEF Memory
  <2> QED BY <2>1
<1> HIDE DEF n
<1> SUFFICES ASSUME NEW k \in Loc
             PROVE  /\ Len(m[k]) \in Nat /\ Len(n[k]) \in Nat /\ Len(m[k]) <= Len(n[k])
                    /\ \A i \in 1..Len(m[k]) : n[k][i] = m[k][i]
  BY DEF Grows, n
<1>4. CASE k = l BY <1>1, <1>3, <1>4
<1>5. CASE k # l BY <1>1, <1>3, <1>5
<1> QED BY <1>4, <1>5

\* What was seen stays seen while the memory grows and the view moves forward.
LEMMA SeenStays ==
  ASSUME NEW m, NEW n, NEW l \in Loc, NEW x, NEW v \in View, NEW u \in View,
         Grows(m, n), u[l] >= v[l], Seen(m, v, l, x)
  PROVE  Seen(n, u, l, x)
<1>1. PICK k \in 1..Len(m[l]) : k <= v[l] /\ m[l][k].val = x BY DEF Seen
<1>2. Len(m[l]) \in Nat /\ Len(n[l]) \in Nat /\ Len(m[l]) <= Len(n[l]) BY DEF Grows
<1>3. n[l][k] = m[l][k] BY DEF Grows
<1>4. k \in 1..Len(n[l]) BY <1>2
<1>5. v[l] \in Nat /\ u[l] \in Nat BY DEF View
<1>6. k <= u[l] BY <1>1, <1>2, <1>5
<1> QED BY <1>1, <1>3, <1>4, <1>6 DEF Seen

\* The storing thread has seen whatever any view has.
LEMMA SeenStored ==
  ASSUME NEW m \in Memory, NEW l \in Loc, NEW x, NEW v, Seen(m, v, l, x)
  PROVE  Seen(m, Stored(m), l, x)
<1>1. PICK k \in 1..Len(m[l]) : k <= v[l] /\ m[l][k].val = x BY DEF Seen
<1>2. m[l] \in Seq(Message) BY DEF Memory
<1>3. Len(m[l]) \in Nat BY <1>2
<1>4. k <= Stored(m)[l] BY <1>3 DEF Stored
<1> QED BY <1>1, <1>4 DEF Seen

\* What a store does: n is m with one message more at l, of value x and view v.
Appended(m, n, l, x, v) ==
  /\ n \in Memory /\ Grows(m, n)
  /\ \A k \in Loc \ {l} : n[k] = m[k]
  /\ Len(n[l]) = Len(m[l]) + 1
  /\ n[l][Len(m[l]) + 1].val = x
  /\ n[l][Len(m[l]) + 1].view = v /\ v \in View

\* A Relaxed store appends a message that carries what was fenced.
LEMMA PutAppends ==
  ASSUME NEW m \in Memory, NEW l \in Loc, NEW x \in Nat, NEW f \in View
  PROVE  Appended(m, Put(m, l, x, f), l, x, [f EXCEPT ![l] = Len(m[l]) + 1])
<1> DEFINE n == Put(m, l, x, f)
           v == [f EXCEPT ![l] = Len(m[l]) + 1]
<1>1. /\ n \in Memory
      /\ \A k \in Loc \ {l} : n[k] = m[k]
      /\ Len(m[l]) \in Nat
      /\ Len(n[l]) = Len(m[l]) + 1
      /\ \A i \in 1..Len(m[l]) : n[l][i] = m[l][i]
      /\ n[l][Len(m[l]) + 1].val = x
      /\ n[l][Len(m[l]) + 1].view = v
  BY PutMessage
<1>2. Grows(m, n) BY PutGrows
<1>3. v \in View
  <2>1. Len(m[l]) + 1 \in Nat \ {0} BY <1>1
  <2> QED BY <2>1 DEF View
<1> HIDE DEF n, v
<1> SUFFICES Appended(m, n, l, x, v) BY DEF n, v
<1> QED BY <1>1, <1>2, <1>3 DEF Appended

\* Two views, the second nowhere behind the first.
Forward(v, u) == \A l \in Loc : u[l] >= v[l]

\* The view of an appended message is nowhere behind what its store released.
LEMMA PutForward ==
  ASSUME NEW m \in Memory, NEW l \in Loc, NEW f \in View, f[l] <= Len(m[l])
  PROVE  Forward(f, [f EXCEPT ![l] = Len(m[l]) + 1])
<1>1. m[l] \in Seq(Message) BY DEF Memory
<1>2. Len(m[l]) \in Nat BY <1>1
<1>3. \A k \in Loc : f[k] \in Nat BY DEF View
<1> QED BY <1>2, <1>3 DEF Forward, View

\* What a load of a visible message teaches: its thread goes forward, and has
\* the message's view, now after an Acquire load, at its next fence after any.
LEMMA Loaded ==
  ASSUME NEW m \in Memory, NEW t \in Thread, NEW l \in Loc, NEW i \in Visible(m, t, l)
  PROVE  /\ i \in 1..Len(m[l]) /\ i >= t.cur[l]
         /\ m[l][i].val \in Nat /\ m[l][i].view \in View
         /\ LET u == LoadRelaxed(m, t, l, i) IN
              /\ u \in Thread /\ Forward(t.cur, u.cur) /\ Forward(t.acq, u.acq)
              /\ Forward(m[l][i].view, u.acq)
         /\ LET u == LoadAcquire(m, t, l, i) IN
              /\ u \in Thread /\ Forward(t.cur, u.cur) /\ Forward(t.acq, u.acq)
              /\ Forward(m[l][i].view, u.acq) /\ Forward(m[l][i].view, u.cur)
<1>1. m[l] \in Seq(Message) BY DEF Memory
<1>2. t.cur[l] \in Nat \ {0} BY DEF Thread, View
<1>3. i \in t.cur[l]..Len(m[l]) BY DEF Visible
<1>4. Len(m[l]) \in Nat BY <1>1
<1>5. i \in 1..Len(m[l]) /\ i >= t.cur[l] BY <1>2, <1>3, <1>4
<1>6. m[l][i] \in Message BY <1>1, <1>5
<1>7. m[l][i].val \in Nat /\ m[l][i].view \in View BY <1>6 DEF Message
<1> QED BY <1>5, <1>7, LoadMoves DEF Forward

\* A load of l made with view v is of what v has seen of it, or of later.
LEMMA SeenBefore ==
  ASSUME NEW m \in Memory, NEW l \in Loc, NEW v \in View, NEW x, Seen(m, v, l, x),
         NEW i \in 1..Len(m[l]), i >= v[l]
  PROVE  \E k \in 1..i : m[l][k].val = x
<1>1. PICK k \in 1..Len(m[l]) : k <= v[l] /\ m[l][k].val = x BY DEF Seen
<1>2. m[l] \in Seq(Message) BY DEF Memory
<1>3. Len(m[l]) \in Nat /\ v[l] \in Nat BY <1>2 DEF View
<1>4. k \in 1..i BY <1>1, <1>3
<1> QED BY <1>1, <1>4

\* After an acquire fence a thread may rely on all it could have acquired.
LEMMA Fenced ==
  ASSUME NEW t \in Thread
  PROVE  /\ FenceAcquire(t) \in Thread
         /\ FenceAcquire(t).cur = t.acq /\ FenceAcquire(t).acq = t.acq
BY DEF FenceAcquire, Thread

\* Without stale reads every load is of the newest store.
LEMMA Current ==
  ASSUME StaleReads = FALSE, NEW m, NEW t, NEW l, NEW i \in Visible(m, t, l)
  PROVE  i = Len(m[l])
BY DEF Visible

-------------------------------------------------------------------------------
(* Any step of the storing thread, and any step of a loading thread *)

\* The storing thread goes from memory m and fence f to n and g by a Relaxed
\* store to one of L or a Release store to one of R, fenced or not.
Writes(m, n, f, g, L, R) ==
  /\ \/ \E l \in L, x \in Nat : n = StoreRelaxed(m, l, x, f)
     \/ \E l \in R, x \in Nat : n = StoreRelease(m, l, x)
  /\ g = f \/ g = Stored(n)

\* A loading thread goes from t to u, after a fence or none, by a Relaxed load
\* of one of L or an Acquire load of one of R.
Reads(m, t, u, L, R) ==
  \E s \in {t, FenceAcquire(t)} :
    \/ \E l \in L : \E i \in Visible(m, s, l) : u = LoadRelaxed(m, s, l, i)
    \/ \E l \in R : \E i \in Visible(m, s, l) : u = LoadAcquire(m, s, l, i)

\* A memory with a first message everywhere, of which f is not ahead.
Writable(m, f) ==
  /\ m \in Memory /\ f \in View
  /\ \A l \in Loc : Len(m[l]) >= 1 /\ f[l] <= Len(m[l])

\* Memory n is m with one message more, at l: its view is f's, or all of m.
AppendsOne(m, n, f, L, R) ==
  \E l \in L \cup R, x \in Nat, v \in View :
    /\ Appended(m, n, l, x, v)
    /\ v[l] = Len(m[l]) + 1
    /\ \/ l \in L /\ \A k \in Loc \ {l} : v[k] = f[k]
       \/ l \in R /\ \A k \in Loc \ {l} : v[k] = Len(m[k])

\* A store of the storing thread appends one message.
LEMMA WritesAppend ==
  ASSUME NEW m, NEW n, NEW f, NEW g, NEW L \in SUBSET Loc, NEW R \in SUBSET Loc,
         Writable(m, f), Writes(m, n, f, g, L, R)
  PROVE  AppendsOne(m, n, f, L, R)
<1>1. m \in Memory /\ f \in View /\ Stored(m) \in View
  BY StoredView DEF Writable
<1>2. ASSUME NEW l \in Loc, NEW x \in Nat, NEW r \in View, n = Put(m, l, x, r)
      PROVE  \E v \in View : /\ Appended(m, n, l, x, v)
                             /\ v[l] = Len(m[l]) + 1
                             /\ \A k \in Loc \ {l} : v[k] = r[k]
  <2> DEFINE v == [r EXCEPT ![l] = Len(m[l]) + 1]
  <2>1. Appended(m, n, l, x, v) BY <1>1, <1>2, PutAppends
  <2>2. v[l] = Len(m[l]) + 1 /\ \A k \in Loc \ {l} : v[k] = r[k] BY DEF View
  <2>3. v \in View BY <2>1 DEF Appended
  <2> HIDE DEF v
  <2> QED BY <2>1, <2>2, <2>3
<1>3. CASE \E l \in L, x \in Nat : n = StoreRelaxed(m, l, x, f)
  <2>1. PICK l \in L, x \in Nat : n = Put(m, l, x, f) BY <1>3 DEF StoreRelaxed
  <2>2. l \in Loc OBVIOUS
  <2>3. PICK v \in View : /\ Appended(m, n, l, x, v)
                          /\ v[l] = Len(m[l]) + 1
                          /\ \A k \in Loc \ {l} : v[k] = f[k]
    BY <1>1, <1>2, <2>1, <2>2
  <2> QED BY <2>3 DEF AppendsOne
<1>4. CASE \E l \in R, x \in Nat : n = StoreRelease(m, l, x)
  <2>1. PICK l \in R, x \in Nat : n = Put(m, l, x, Stored(m)) BY <1>4 DEF StoreRelease
  <2>2. l \in Loc OBVIOUS
  <2>3. PICK v \in View : /\ Appended(m, n, l, x, v)
                          /\ v[l] = Len(m[l]) + 1
                          /\ \A k \in Loc \ {l} : v[k] = Stored(m)[k]
    BY <1>1, <1>2, <2>1, <2>2
  <2>4. \A k \in Loc \ {l} : v[k] = Len(m[k]) BY <2>3 DEF Stored
  <2> QED BY <2>3, <2>4 DEF AppendsOne
<1> QED BY <1>3, <1>4 DEF Writes

\* So the memory only grows, and the other locations stay as they were.
LEMMA WritesGrow ==
  ASSUME NEW m, NEW n, NEW f, NEW g, NEW L \in SUBSET Loc, NEW R \in SUBSET Loc,
         Writable(m, f), Writes(m, n, f, g, L, R)
  PROVE  /\ Writable(n, g) /\ Grows(m, n) /\ Forward(f, g)
         /\ \A k \in Loc \ (L \cup R) : n[k] = m[k]
<1>0. AppendsOne(m, n, f, L, R) BY WritesAppend
<1>1. PICK l \in L \cup R, x \in Nat, v \in View : Appended(m, n, l, x, v)
  BY <1>0 DEF AppendsOne
<1>2. /\ n \in Memory /\ Grows(m, n) /\ \A k \in Loc \ {l} : n[k] = m[k]
  BY <1>1 DEF Appended
<1>3. ASSUME NEW k \in Loc
      PROVE  /\ Len(n[k]) \in Nat /\ Len(n[k]) >= 1
             /\ f[k] \in Nat /\ f[k] <= Len(n[k])
  <2>1. /\ Len(m[k]) \in Nat /\ Len(n[k]) \in Nat /\ Len(m[k]) <= Len(n[k])
    BY <1>2 DEF Grows
  <2>2. Len(m[k]) >= 1 /\ f[k] <= Len(m[k]) /\ f[k] \in Nat
    BY DEF Writable, View
  <2> QED BY <2>1, <2>2
<1>4. Stored(n) \in View /\ \A k \in Loc : Stored(n)[k] = Len(n[k])
  BY <1>2, <1>3, StoredView DEF Stored
<1>5. g = f \/ g = Stored(n) BY DEF Writes
<1>6. f \in View BY DEF Writable
<1>7. CASE g = f BY <1>2, <1>3, <1>6, <1>7 DEF Writable, Forward
<1>8. CASE g = Stored(n) BY <1>2, <1>3, <1>4, <1>8 DEF Writable, Forward
<1> QED BY <1>2, <1>5, <1>7, <1>8

\* A thread's next fence teaches it all that it knows, and more.
Ordered(t) == Forward(t.cur, t.acq)

\* Who reads a message knows of that message.
OwnViews(m) == \A l \in Loc : \A i \in 1..Len(m[l]) : m[l][i].view[l] >= i

\* A store keeps it so.
LEMMA WritesOwn ==
  ASSUME NEW m, NEW n, NEW f, NEW g, NEW L \in SUBSET Loc, NEW R \in SUBSET Loc,
         Writable(m, f), Writes(m, n, f, g, L, R), OwnViews(m)
  PROVE  OwnViews(n)
<1>0. AppendsOne(m, n, f, L, R) BY WritesAppend
<1>1. PICK l \in L \cup R, x \in Nat, v \in View :
        Appended(m, n, l, x, v) /\ v[l] = Len(m[l]) + 1
  BY <1>0 DEF AppendsOne
<1>2. /\ Grows(m, n) /\ \A k \in Loc \ {l} : n[k] = m[k]
      /\ Len(n[l]) = Len(m[l]) + 1 /\ n[l][Len(m[l]) + 1].view = v
  BY <1>1 DEF Appended
<1> SUFFICES ASSUME NEW k \in Loc, NEW i \in 1..Len(n[k]) PROVE n[k][i].view[k] >= i
  BY DEF OwnViews
<1>3. /\ Len(m[k]) \in Nat /\ \A j \in 1..Len(m[k]) : n[k][j] = m[k][j]
  BY <1>2 DEF Grows
<1>4. CASE i \in 1..Len(m[k]) BY <1>3, <1>4 DEF OwnViews
<1>5. CASE i \notin 1..Len(m[k])
  <2>1. k = l BY <1>2, <1>5
  <2>2. i = Len(m[l]) + 1 BY <1>2, <1>3, <1>5, <2>1
  <2> QED BY <1>1, <1>2, <1>3, <2>1, <2>2
<1> QED BY <1>4, <1>5

\* A load only moves its thread forward, and keeps its order.
LEMMA ReadsMove ==
  ASSUME NEW m \in Memory, NEW t \in Thread, NEW u,
         NEW L \in SUBSET Loc, NEW R \in SUBSET Loc,
         OwnViews(m), Ordered(t), Reads(m, t, u, L, R)
  PROVE  /\ u \in Thread /\ Ordered(u)
         /\ Forward(t.cur, u.cur) /\ Forward(t.acq, u.acq)
<1>1. PICK s \in {t, FenceAcquire(t)} :
        \/ \E l \in L : \E i \in Visible(m, s, l) : u = LoadRelaxed(m, s, l, i)
        \/ \E l \in R : \E i \in Visible(m, s, l) : u = LoadAcquire(m, s, l, i)
  BY DEF Reads
<1>2. /\ s \in Thread /\ Ordered(s)
      /\ Forward(t.cur, s.cur) /\ Forward(t.acq, s.acq)
  <2>1. t.cur \in View /\ t.acq \in View BY DEF Thread
  <2>2. Forward(t.cur, t.cur) /\ Forward(t.acq, t.acq) BY <2>1 DEF View, Forward
  <2>3. CASE s = t BY <2>2, <2>3
  <2>4. CASE s = FenceAcquire(t) BY <2>2, <2>4, Fenced DEF Ordered
  <2> QED BY <2>3, <2>4
<1>3. ASSUME NEW l \in Loc, NEW i \in Visible(m, s, l)
      PROVE  /\ LoadRelaxed(m, s, l, i) \in Thread /\ Ordered(LoadRelaxed(m, s, l, i))
             /\ Forward(s.cur, LoadRelaxed(m, s, l, i).cur)
             /\ Forward(s.acq, LoadRelaxed(m, s, l, i).acq)
             /\ LoadAcquire(m, s, l, i) \in Thread /\ Ordered(LoadAcquire(m, s, l, i))
             /\ Forward(s.cur, LoadAcquire(m, s, l, i).cur)
             /\ Forward(s.acq, LoadAcquire(m, s, l, i).acq)
  <2>1. /\ i \in 1..Len(m[l]) /\ i >= s.cur[l] /\ m[l][i].view \in View
        /\ LET r == LoadRelaxed(m, s, l, i) IN
             /\ r \in Thread /\ Forward(s.cur, r.cur) /\ Forward(s.acq, r.acq)
             /\ Forward(m[l][i].view, r.acq)
        /\ LET r == LoadAcquire(m, s, l, i) IN
             /\ r \in Thread /\ Forward(s.cur, r.cur) /\ Forward(s.acq, r.acq)
             /\ Forward(m[l][i].view, r.acq) /\ Forward(m[l][i].view, r.cur)
    BY <1>2, Loaded
  <2>2. s.cur \in View /\ s.acq \in View BY <1>2 DEF Thread
  <2>3. m[l][i].view[l] >= i BY <2>1 DEF OwnViews
  <2>4. Ordered(LoadRelaxed(m, s, l, i))
    <3> DEFINE a == JoinViews(s.acq, m[l][i].view)
    <3>1. \A k \in Loc : a[k] >= s.acq[k] /\ a[k] >= m[l][i].view[k]
      BY <2>1, <2>2 DEF JoinViews, View
    <3>2. a \in View BY <2>1, <2>2 DEF JoinViews, View
    <3>3. LoadRelaxed(m, s, l, i) = [cur |-> [s.cur EXCEPT ![l] = i], acq |-> a]
      BY DEF LoadRelaxed
    <3> HIDE DEF a
    <3> SUFFICES ASSUME NEW k \in Loc PROVE a[k] >= [s.cur EXCEPT ![l] = i][k]
      BY <3>3 DEF Ordered, Forward
    <3>4. s.acq[k] >= s.cur[k] BY <1>2 DEF Ordered, Forward
    <3>5. /\ s.acq[k] \in Nat /\ s.cur[k] \in Nat /\ a[k] \in Nat
          /\ m[l][i].view[k] \in Nat /\ i \in Nat
      BY <2>1, <2>2, <3>2 DEF View
    <3>6. CASE k = l BY <2>2, <2>3, <3>1, <3>5, <3>6 DEF View
    <3>7. CASE k # l BY <2>2, <3>1, <3>4, <3>5, <3>7 DEF View
    <3> QED BY <3>6, <3>7
  <2>5. Ordered(LoadAcquire(m, s, l, i))
    <3> SUFFICES ASSUME NEW k \in Loc
                 PROVE  JoinViews(s.acq, m[l][i].view)[k] >= JoinViews(s.cur, m[l][i].view)[k]
      BY DEF Ordered, Forward, LoadAcquire
    <3>1. s.acq[k] >= s.cur[k] BY <1>2 DEF Ordered, Forward
    <3>2. s.acq[k] \in Nat /\ s.cur[k] \in Nat /\ m[l][i].view[k] \in Nat
      BY <2>1, <2>2 DEF View
    <3> QED BY <3>1, <3>2 DEF JoinViews
  <2> QED BY <2>1, <2>4, <2>5
<1>4. ASSUME NEW v \in View, NEW w \in View, NEW y \in View, Forward(v, w), Forward(w, y)
      PROVE  Forward(v, y)
  <2> SUFFICES ASSUME NEW k \in Loc PROVE y[k] >= v[k] BY DEF Forward
  <2>1. w[k] >= v[k] /\ y[k] >= w[k] BY <1>4 DEF Forward
  <2>2. v[k] \in Nat /\ w[k] \in Nat /\ y[k] \in Nat BY DEF View
  <2> QED BY <2>1, <2>2
<1>5. /\ u \in Thread /\ Ordered(u)
      /\ Forward(s.cur, u.cur) /\ Forward(s.acq, u.acq)
  BY <1>1, <1>3
<1>6. /\ t.cur \in View /\ s.cur \in View /\ u.cur \in View
      /\ t.acq \in View /\ s.acq \in View /\ u.acq \in View
  BY <1>2, <1>5 DEF Thread
<1>7. Forward(t.cur, u.cur) BY <1>2, <1>4, <1>5, <1>6
<1>8. Forward(t.acq, u.acq) BY <1>2, <1>4, <1>5, <1>6
<1> QED BY <1>5, <1>7, <1>8
===============================================================================
