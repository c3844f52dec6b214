-------------------------------- MODULE SeqLock --------------------------------
(***************************************************************************)
(* sync/src/seqlock.rs: the single-writer, many-reader sequence lock.      *)
(*                                                                         *)
(* Every atomic access and fence of `store' and `load_counted' is made in  *)
(* source order against ViewMemory.  The payload is abstracted to the      *)
(* number of the store that wrote it: store k writes k in each of the W    *)
(* payload atomics, and SeqLock::new writes 0, so a snapshot is torn       *)
(* exactly when its words are not all equal.  The u32 version counter      *)
(* wraps at SeqMod.                                                        *)
(***************************************************************************)
EXTENDS ViewMemory, Integers

CONSTANTS Readers,     \* the reading threads
          W,           \* payload atomics (5 in the code)
          SeqMod,      \* 2^32 in the code: the range of the version counter
          MaxStores,   \* bound: stores the writer makes
          RetryMax     \* u32::MAX in the code: where `retries' saturates

SeqLoc     == <<"seq", 0, 0>>
PayLoc(w)  == <<"payload", 0, w>>
LockLoc    == {SeqLoc} \cup {PayLoc(w) : w \in 1..W}

ASSUME SeqLockAssumption ==
  /\ W \in Nat \ {0}
  /\ SeqMod \in Nat /\ SeqMod >= 4 /\ SeqMod % 2 = 0
  /\ MaxStores \in Nat
  /\ RetryMax \in Nat \ {0}
  /\ LockLoc \subseteq Loc
  /\ StaleReads \in BOOLEAN

VARIABLES mem,     \* modification order of every atomic
          fenced,  \* what the writer had stored at its last release fence
          view,    \* per reader, its [cur, acq] of the memory
          wr,      \* the writer: [pc, n, s, w]
          rd       \* per reader: the call of load_counted it is in

lockVars == <<wr, rd>>
vars     == <<mem, fenced, view, wr, rd>>

\* Stores the writer has finished.
Published == IF wr.pc = "idle" THEN wr.n ELSE wr.n - 1

\* A returned snapshot: the modification-order indices of the two loads of
\* `seq', its words, the retries, and what was published at the call.
InitialSnapshot ==
  [i1 |-> 1, i2 |-> 1, words |-> [w \in 1..W |-> 0], retries |-> 0, since |-> 0]

WriterInit == [pc |-> "idle", n |-> 0, s |-> 0, w |-> 1]

ReaderInit ==
  [pc |-> "idle", s1 |-> 0, i1 |-> 1, got |-> <<>>, retries |-> 0,
   since |-> 0, out |-> InitialSnapshot]

Init ==
  /\ mem = [l \in Loc |-> Fresh(0)]
  /\ fenced = OriginView
  /\ view = [r \in Readers |-> OriginThread]
  /\ wr = WriterInit
  /\ rd = [r \in Readers |-> ReaderInit]

-------------------------------------------------------------------------------
(* store *)

\* As store with the release fence W1 left out.
MarkOddUnfenced ==
  /\ wr.pc = "idle" /\ wr.n < MaxStores
  /\ LET s == Latest(mem, SeqLoc) IN
       /\ mem' = StoreRelaxed(mem, SeqLoc, (s + 1) % SeqMod, fenced)
       /\ wr' = [pc |-> "payload", n |-> wr.n + 1, s |-> s, w |-> 1]
  /\ UNCHANGED <<fenced, view, rd>>

\* As store with the odd marker left out.
MarkNothing ==
  /\ wr.pc = "idle" /\ wr.n < MaxStores
  /\ wr' = [pc |-> "payload", n |-> wr.n + 1, s |-> Latest(mem, SeqLoc), w |-> 1]
  /\ UNCHANGED <<mem, fenced, view, rd>>

\* Read the counter, mark it odd (Relaxed), then the release fence W1.
MarkOdd ==
  /\ wr.pc = "idle" /\ wr.n < MaxStores
  /\ LET s == Latest(mem, SeqLoc) IN
       /\ mem' = StoreRelaxed(mem, SeqLoc, (s + 1) % SeqMod, fenced)
       /\ wr' = [pc |-> "payload", n |-> wr.n + 1, s |-> s, w |-> 1]
  /\ fenced' = Stored(mem')
  /\ UNCHANGED <<view, rd>>

\* The Relaxed payload stores, one at a time in field order.
StoreWord ==
  /\ wr.pc = "payload"
  /\ mem' = StoreRelaxed(mem, PayLoc(wr.w), wr.n, fenced)
  /\ wr' = [wr EXCEPT !.pc = IF wr.w = W THEN "publish" ELSE "payload",
                      !.w = IF wr.w = W THEN 1 ELSE wr.w + 1]
  /\ UNCHANGED <<fenced, view, rd>>

\* As store with W2 one short, so the counter stays odd.
PublishOdd ==
  /\ wr.pc = "publish"
  /\ mem' = StoreRelease(mem, SeqLoc, (wr.s + 1) % SeqMod)
  /\ wr' = [wr EXCEPT !.pc = "idle"]
  /\ UNCHANGED <<fenced, view, rd>>

\* W2: back to even, Release.
Publish ==
  /\ wr.pc = "publish"
  /\ mem' = StoreRelease(mem, SeqLoc, (wr.s + 2) % SeqMod)
  /\ wr' = [wr EXCEPT !.pc = "idle"]
  /\ UNCHANGED <<fenced, view, rd>>

Store == MarkOdd \/ StoreWord \/ Publish

-------------------------------------------------------------------------------
(* load_counted *)

\* A reader calls load.
Call(r) ==
  /\ rd[r].pc = "idle"
  /\ rd' = [rd EXCEPT ![r].pc = "seq", ![r].retries = 0, ![r].since = Published]
  /\ UNCHANGED <<mem, fenced, view, wr>>

\* As the retry path with a plain increment.
RetryUnsaturated(r) ==
  rd' = [rd EXCEPT ![r].pc = "seq", ![r].got = <<>>, ![r].retries = @ + 1]

\* The single retry path: count (saturating), spin, load `seq' again.
Retry(r) ==
  rd' = [rd EXCEPT ![r].pc = "seq", ![r].got = <<>>,
           ![r].retries = IF @ < RetryMax THEN @ + 1 ELSE @]

\* As load_counted with R1 Relaxed.
LoadSeqRelaxed(r) ==
  /\ rd[r].pc = "seq"
  /\ \E i \in Visible(mem, view[r], SeqLoc) :
       /\ view' = [view EXCEPT ![r] = LoadRelaxed(mem, @, SeqLoc, i)]
       /\ LET s1 == mem[SeqLoc][i].val IN
            IF s1 % 2 = 0
              THEN rd' = [rd EXCEPT ![r].pc = "payload", ![r].s1 = s1,
                                    ![r].i1 = i, ![r].got = <<>>]
              ELSE Retry(r)
  /\ UNCHANGED <<mem, fenced, wr>>

\* R1: Acquire load of the counter; an odd value means a store in progress.
LoadSeq(r) ==
  /\ rd[r].pc = "seq"
  /\ \E i \in Visible(mem, view[r], SeqLoc) :
       /\ view' = [view EXCEPT ![r] = LoadAcquire(mem, @, SeqLoc, i)]
       /\ LET s1 == mem[SeqLoc][i].val IN
            IF s1 % 2 = 0
              THEN rd' = [rd EXCEPT ![r].pc = "payload", ![r].s1 = s1,
                                    ![r].i1 = i, ![r].got = <<>>]
              ELSE Retry(r)
  /\ UNCHANGED <<mem, fenced, wr>>

\* The Relaxed payload loads, one at a time in field order.
LoadWord(r) ==
  /\ rd[r].pc = "payload"
  /\ LET w == Len(rd[r].got) + 1 IN
       \E i \in Visible(mem, view[r], PayLoc(w)) :
         /\ view' = [view EXCEPT ![r] = LoadRelaxed(mem, @, PayLoc(w), i)]
         /\ rd' = [rd EXCEPT ![r].pc = IF w = W THEN "check" ELSE "payload",
                             ![r].got = Append(@, mem[PayLoc(w)][i].val)]
  /\ UNCHANGED <<mem, fenced, wr>>

Return(r, i2) ==
  rd' = [rd EXCEPT ![r].pc = "idle", ![r].got = <<>>,
           ![r].out = [i1 |-> rd[r].i1, i2 |-> i2, words |-> rd[r].got,
                       retries |-> rd[r].retries, since |-> rd[r].since]]

\* As load_counted with the snapshot returned whatever s2 is.
RecheckIgnored(r) ==
  /\ rd[r].pc = "check"
  /\ LET t == FenceAcquire(view[r]) IN
       \E i2 \in Visible(mem, t, SeqLoc) :
         /\ view' = [view EXCEPT ![r] = LoadRelaxed(mem, t, SeqLoc, i2)]
         /\ Return(r, i2)
  /\ UNCHANGED <<mem, fenced, wr>>

\* As load_counted with the acquire fence R2 left out.
RecheckUnfenced(r) ==
  /\ rd[r].pc = "check"
  /\ \E i2 \in Visible(mem, view[r], SeqLoc) :
       /\ view' = [view EXCEPT ![r] = LoadRelaxed(mem, @, SeqLoc, i2)]
       /\ IF mem[SeqLoc][i2].val = rd[r].s1 THEN Return(r, i2) ELSE Retry(r)
  /\ UNCHANGED <<mem, fenced, wr>>

\* R2: acquire fence, then the Relaxed load s2; equal means no store straddled.
Recheck(r) ==
  /\ rd[r].pc = "check"
  /\ LET t == FenceAcquire(view[r]) IN
       \E i2 \in Visible(mem, t, SeqLoc) :
         /\ view' = [view EXCEPT ![r] = LoadRelaxed(mem, t, SeqLoc, i2)]
         /\ IF mem[SeqLoc][i2].val = rd[r].s1 THEN Return(r, i2) ELSE Retry(r)
  /\ UNCHANGED <<mem, fenced, wr>>

Load(r) == LoadSeq(r) \/ LoadWord(r) \/ Recheck(r)

Next == Store \/ \E r \in Readers : Call(r) \/ Load(r)

Spec == Init /\ [][Next]_vars

\* `store' is wait-free and its thread keeps running; a thread inside `load'
\* keeps running.  Nobody is obliged to call either.
Fairness ==
  /\ WF_vars(StoreWord \/ Publish)
  /\ \A r \in Readers : WF_vars(Load(r))

FairSpec == Spec /\ Fairness

-------------------------------------------------------------------------------
(* Correctness *)

WriterState ==
  [pc : {"idle", "payload", "publish"}, n : 0..MaxStores, s : 0..SeqMod - 1,
   w : 1..W]

Snapshot ==
  [i1 : Nat \ {0}, i2 : Nat \ {0}, words : Seq(Nat), retries : 0..RetryMax,
   since : 0..MaxStores]

ReaderState ==
  [pc : {"idle", "seq", "payload", "check"}, s1 : Nat, i1 : Nat \ {0},
   got : Seq(Nat), retries : 0..RetryMax, since : 0..MaxStores, out : Snapshot]

\* Every variable has its type: `retries' saturates and the writer's steps stay
\* within one store (seqlock.rs:81-102, 138-170).
TypeOK ==
  /\ mem \in Memory
  /\ fenced \in View
  /\ view \in [Readers -> Thread]
  /\ wr \in WriterState
  /\ rd \in [Readers -> ReaderState]

\* Snapshot o is, word for word, what the store that made the counter read at
\* index o.i1 of its modification order wrote.
Intact(o) == \A w \in 1..W : 2 * o.words[w] = o.i1 - 1

\* All the words `load' returns come from the one store whose even counter it validated
\* (seqlock.rs:52-54).
AllIntact == \A r \in Readers : Intact(rd[r].out)

\* No torn snapshot is ever returned (seqlock.rs:4-7, 48, 156): the words `load' returns
\* are not those of different stores.
NoTornSnapshot == \A r \in Readers : \A v, w \in 1..W : rd[r].out.words[v] = rd[r].out.words[w]

\* The ordering argument of seqlock.rs:57-61 alone, whatever the width of the
\* counter: a returned snapshot is intact unless s1 and s2 are two different
\* stores of the counter with one value, a full turn of it apart.
TornOnlyIfWrapped ==
  \A r \in Readers : LET o == rd[r].out IN
    \/ o.i1 = o.i2 /\ Intact(o)
    \/ o.i2 - o.i1 >= SeqMod

\* `retries' is zero in the uncontended case (seqlock.rs:131-136): a load that
\* counts a retry overlaps a store in progress.
RetryOnlyUnderWrite ==
  \A r \in Readers :
    rd[r].pc # "idle" /\ rd[r].retries > 0 => wr.n > rd[r].since

\* A load that is called returns, once the writer pauses: a reader can only be
\* starved by a writer that keeps storing (seqlock.rs:63-68).
LoadReturns == \A r \in Readers : rd[r].pc # "idle" ~> rd[r].pc = "idle"

\* The version a snapshot holds; -1 for a torn one.
Version(o) ==
  IF \A w \in 1..W : o.words[w] = o.words[1] THEN o.words[1] ELSE -1

Cell == INSTANCE SnapshotCell WITH
  published <- Published,
  floor     <- [r \in Readers |-> IF rd[r].pc = "idle" THEN -1 ELSE rd[r].since],
  got       <- [r \in Readers |-> Version(rd[r].out)]

\* The lock implements an atomic cell: every load returns, whole, a version
\* that was current at some moment of the call (seqlock.rs:125).
AtomicCell == Cell!Spec
===============================================================================
