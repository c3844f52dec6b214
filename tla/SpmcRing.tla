-------------------------------- MODULE SpmcRing --------------------------------
(***************************************************************************)
(* sync/src/ring.rs: the single-producer, many-consumer broadcast ring.    *)
(*                                                                         *)
(* Every atomic access and fence of push, try_recv and resync is made in   *)
(* source order against ViewMemory.  The record pushed at position p is    *)
(* abstracted to p + 1 in each of its W words (a word starts at 0), so a   *)
(* delivered record is the right one, and whole, exactly when each word    *)
(* tells the position it was read at.  Stamps are u64 values with the top  *)
(* bit scaled down to WRITING.                                             *)
(***************************************************************************)
EXTENDS ViewMemory, Integers

CONSTANTS Consumers,   \* the consuming threads
          Cap,         \* slots
          W,           \* words in a record (5 in the engine)
          WRITING,     \* 2^63 in the code: the stamp's busy bit
          MaxPush      \* bound: records pushed

WriteLoc       == <<"write", 0, 0>>
StampLoc(s)    == <<"stamp", s, 0>>
WordLoc(s, w)  == <<"word", s, w>>
RingLoc ==
  {WriteLoc} \cup {StampLoc(s) : s \in 0..Cap - 1}
    \cup {WordLoc(s, w) : s \in 0..Cap - 1, w \in 1..W}

\* with_capacity asserts a power of two; no position reaches the busy bit.
ASSUME SpmcRingAssumption ==
  /\ Cap \in Nat \ {0} /\ \E k \in 0..Cap : Cap = 2^k
  /\ W \in Nat \ {0}
  /\ WRITING \in Nat /\ MaxPush \in Nat /\ MaxPush < WRITING - 1
  /\ RingLoc \subseteq Loc
  /\ StaleReads \in BOOLEAN

VARIABLES mem,     \* modification order of every atomic
          fenced,  \* what the producer had stored at its last release fence
          view,    \* per consumer, its [cur, acq] of the memory
          pr,      \* the producer: [pc, p, w]
          co       \* per consumer: its cursor and the try_recv it is in

ringVars == <<pr, co>>
vars     == <<mem, fenced, view, pr, co>>

EMPTY == 2 * WRITING - 1      \* u64::MAX

SlotOf(p) == p % Cap

Record(p) == p + 1            \* what stands for a word of the record at p

\* As saturating_sub with a plain subtraction.
MinusCap(p) == p - Cap

MonusCap(p) == IF p > Cap THEN p - Cap ELSE 0      \* saturating_sub(capacity)

\* Positions published, and positions whose overwrite has begun.
Written == Latest(mem, WriteLoc)
Begun   == IF pr.pc = "idle" THEN Written ELSE pr.p + 1

ProducerInit == [pc |-> "idle", p |-> 0, w |-> 1]

NoOutcome == [kind |-> "none", pos |-> 0, words |-> <<>>, skipped |-> 0]

\* start, taken, missed and out are history: where the consumer joined, the
\* positions delivered to it, those reported skipped, its last outcome.
ConsumerInit ==
  [pc |-> "absent", cursor |-> 0, got |-> <<>>,
   start |-> 0, taken |-> {}, missed |-> {}, out |-> NoOutcome]

InitVal(l) == IF l \in {StampLoc(s) : s \in 0..Cap - 1} THEN EMPTY ELSE 0

Init ==
  /\ mem = [l \in Loc |-> Fresh(InitVal(l))]
  /\ fenced = OriginView
  /\ view = [c \in Consumers |-> OriginThread]
  /\ pr = ProducerInit
  /\ co = [c \in Consumers |-> ConsumerInit]

-------------------------------------------------------------------------------
(* push *)

\* As push with the release fence after P1 left out.
MarkWritingUnfenced ==
  /\ pr.pc = "idle" /\ Written < MaxPush
  /\ pr' = [pc |-> "word", p |-> Written, w |-> 1]
  /\ mem' = StoreRelaxed(mem, StampLoc(SlotOf(Written)), Written + WRITING, fenced)
  /\ UNCHANGED <<fenced, view, co>>

\* P1: the slot is busy at p, Relaxed; then the release fence.
MarkWriting ==
  /\ pr.pc = "idle" /\ Written < MaxPush
  /\ pr' = [pc |-> "word", p |-> Written, w |-> 1]
  /\ mem' = StoreRelaxed(mem, StampLoc(SlotOf(Written)), Written + WRITING, fenced)
  /\ fenced' = Stored(mem')
  /\ UNCHANGED <<view, co>>

\* P2: the words, Relaxed.
StoreWord ==
  /\ pr.pc = "word"
  /\ mem' = StoreRelaxed(mem, WordLoc(SlotOf(pr.p), pr.w), Record(pr.p), fenced)
  /\ pr' = [pr EXCEPT !.pc = IF pr.w = W THEN "ready" ELSE "word",
                      !.w = IF pr.w = W THEN 1 ELSE pr.w + 1]
  /\ UNCHANGED <<fenced, view, co>>

\* P3: the slot holds record p, Release.
MarkReady ==
  /\ pr.pc = "ready"
  /\ mem' = StoreRelease(mem, StampLoc(SlotOf(pr.p)), pr.p)
  /\ pr' = [pr EXCEPT !.pc = "advance"]
  /\ UNCHANGED <<fenced, view, co>>

\* As push with P4 Relaxed.
AdvanceRelaxed ==
  /\ pr.pc = "advance"
  /\ mem' = StoreRelaxed(mem, WriteLoc, (pr.p + 1) % (2 * WRITING), fenced)
  /\ pr' = [pr EXCEPT !.pc = "idle"]
  /\ UNCHANGED <<fenced, view, co>>

\* P4: position p is published, Release.
Advance ==
  /\ pr.pc = "advance"
  /\ mem' = StoreRelease(mem, WriteLoc, (pr.p + 1) % (2 * WRITING))
  /\ pr' = [pr EXCEPT !.pc = "idle"]
  /\ UNCHANGED <<fenced, view, co>>

Push == MarkWriting \/ StoreWord \/ MarkReady \/ Advance

-------------------------------------------------------------------------------
(* consumer, consumer_from_oldest *)

Join(c) ==
  /\ co[c].pc = "absent"
  /\ \E i \in Visible(mem, view[c], WriteLoc) :
       /\ view' = [view EXCEPT ![c] = LoadAcquire(mem, @, WriteLoc, i)]
       /\ LET w == mem[WriteLoc][i].val IN
            \E cursor \in {w, MonusCap(w)} :
              co' = [co EXCEPT ![c].pc = "idle", ![c].cursor = cursor,
                               ![c].start = cursor]
  /\ UNCHANGED <<mem, fenced, pr>>

-------------------------------------------------------------------------------
(* try_recv *)

\* R0: how far the producer has advanced; nothing new ends the call.
LoadWrite(c) ==
  /\ co[c].pc = "idle"
  /\ \E i \in Visible(mem, view[c], WriteLoc) :
       /\ view' = [view EXCEPT ![c] = LoadAcquire(mem, @, WriteLoc, i)]
       /\ IF co[c].cursor >= mem[WriteLoc][i].val
            THEN co' = [co EXCEPT ![c].out = [NoOutcome EXCEPT !.kind = "empty"]]
            ELSE co' = [co EXCEPT ![c].pc = "stamp"]
  /\ UNCHANGED <<mem, fenced, pr>>

\* R1: Acquire load of the slot's stamp; any other value than the cursor is a lap.
LoadStamp(c) ==
  /\ co[c].pc = "stamp"
  /\ LET l == StampLoc(SlotOf(co[c].cursor)) IN
       \E i \in Visible(mem, view[c], l) :
         /\ view' = [view EXCEPT ![c] = LoadAcquire(mem, @, l, i)]
         /\ co' = [co EXCEPT ![c].got = <<>>, ![c].pc =
                     IF mem[l][i].val = co[c].cursor THEN "word" ELSE "resync"]
  /\ UNCHANGED <<mem, fenced, pr>>

\* R2: the words, Relaxed.
LoadWord(c) ==
  /\ co[c].pc = "word"
  /\ LET w == Len(co[c].got) + 1
         l == WordLoc(SlotOf(co[c].cursor), w) IN
       \E i \in Visible(mem, view[c], l) :
         /\ view' = [view EXCEPT ![c] = LoadRelaxed(mem, @, l, i)]
         /\ co' = [co EXCEPT ![c].pc = IF w = W THEN "check" ELSE "word",
                             ![c].got = Append(@, mem[l][i].val)]
  /\ UNCHANGED <<mem, fenced, pr>>

\* As try_recv with the cursor left where it was.
DeliverInPlace(c) ==
  co' = [co EXCEPT ![c].pc = "idle", ![c].got = <<>>,
           ![c].taken = @ \cup {co[c].cursor},
           ![c].out = [kind |-> "item", pos |-> co[c].cursor,
                       words |-> co[c].got, skipped |-> 0]]

Deliver(c) ==
  co' = [co EXCEPT ![c].pc = "idle", ![c].got = <<>>, ![c].cursor = @ + 1,
           ![c].taken = @ \cup {co[c].cursor},
           ![c].out = [kind |-> "item", pos |-> co[c].cursor,
                       words |-> co[c].got, skipped |-> 0]]

\* As try_recv with the acquire fence R3 left out.
RecheckUnfenced(c) ==
  /\ co[c].pc = "check"
  /\ LET l == StampLoc(SlotOf(co[c].cursor)) IN
       \E i \in Visible(mem, view[c], l) :
         /\ view' = [view EXCEPT ![c] = LoadRelaxed(mem, @, l, i)]
         /\ IF mem[l][i].val = co[c].cursor
              THEN Deliver(c)
              ELSE co' = [co EXCEPT ![c].pc = "resync", ![c].got = <<>>]
  /\ UNCHANGED <<mem, fenced, pr>>

\* R3: acquire fence, then the Relaxed load s2; unchanged means a clean record.
Recheck(c) ==
  /\ co[c].pc = "check"
  /\ LET l == StampLoc(SlotOf(co[c].cursor))
         t == FenceAcquire(view[c]) IN
       \E i \in Visible(mem, t, l) :
         /\ view' = [view EXCEPT ![c] = LoadRelaxed(mem, t, l, i)]
         /\ IF mem[l][i].val = co[c].cursor
              THEN Deliver(c)
              ELSE co' = [co EXCEPT ![c].pc = "resync", ![c].got = <<>>]
  /\ UNCHANGED <<mem, fenced, pr>>

\* As resync to the newest position, reporting only up to the oldest.
ResyncToHead(c) ==
  /\ co[c].pc = "resync"
  /\ \E i \in Visible(mem, view[c], WriteLoc) :
       /\ view' = [view EXCEPT ![c] = LoadAcquire(mem, @, WriteLoc, i)]
       /\ LET head == mem[WriteLoc][i].val
              oldest == MonusCap(head)
              skipped == IF oldest > co[c].cursor THEN oldest - co[c].cursor ELSE 0 IN
            co' = [co EXCEPT ![c].pc = "idle", ![c].cursor = head,
                     ![c].missed = @ \cup (co[c].cursor .. co[c].cursor + skipped - 1),
                     ![c].out = [kind |-> "overrun", pos |-> co[c].cursor,
                                 words |-> <<>>, skipped |-> skipped]]
  /\ UNCHANGED <<mem, fenced, pr>>

\* As resync with the cursor left where it was.
ResyncInPlace(c) ==
  /\ co[c].pc = "resync"
  /\ \E i \in Visible(mem, view[c], WriteLoc) :
       /\ view' = [view EXCEPT ![c] = LoadAcquire(mem, @, WriteLoc, i)]
       /\ LET oldest == MonusCap(mem[WriteLoc][i].val)
              skipped == IF oldest > co[c].cursor THEN oldest - co[c].cursor ELSE 0 IN
            co' = [co EXCEPT ![c].pc = "idle",
                     ![c].out = [kind |-> "overrun", pos |-> co[c].cursor,
                                 words |-> <<>>, skipped |-> skipped]]
  /\ UNCHANGED <<mem, fenced, pr>>

\* resync: load the write position again, jump to the oldest resident record.
Resync(c) ==
  /\ co[c].pc = "resync"
  /\ \E i \in Visible(mem, view[c], WriteLoc) :
       /\ view' = [view EXCEPT ![c] = LoadAcquire(mem, @, WriteLoc, i)]
       /\ LET oldest == MonusCap(mem[WriteLoc][i].val)
              skipped == IF oldest > co[c].cursor THEN oldest - co[c].cursor ELSE 0 IN
            co' = [co EXCEPT ![c].pc = "idle", ![c].cursor = oldest,
                     ![c].missed = @ \cup (co[c].cursor .. co[c].cursor + skipped - 1),
                     ![c].out = [kind |-> "overrun", pos |-> co[c].cursor,
                                 words |-> <<>>, skipped |-> skipped]]
  /\ UNCHANGED <<mem, fenced, pr>>

InCall(c) == LoadStamp(c) \/ LoadWord(c) \/ Recheck(c) \/ Resync(c)

TryRecv(c) == LoadWrite(c) \/ InCall(c)

Next == Push \/ \E c \in Consumers : Join(c) \/ TryRecv(c)

Spec == Init /\ [][Next]_vars

\* push is wait-free and its thread runs on; a consumer keeps polling.
Fairness ==
  /\ WF_vars(StoreWord \/ MarkReady \/ Advance)
  /\ \A c \in Consumers : WF_vars(TryRecv(c))

FairSpec == Spec /\ Fairness

-------------------------------------------------------------------------------
(* Correctness *)

Outcome == [kind : {"none", "item", "empty", "overrun"}, pos : 0..MaxPush,
            words : Seq(0..MaxPush + 1), skipped : 0..MaxPush]

\* Every variable has its type: a cursor never passes the last position and a
\* record has one value per word (ring.rs:83-119, 260-264).
TypeOK ==
  /\ mem \in Memory
  /\ fenced \in View
  /\ view \in [Consumers -> Thread]
  /\ pr \in [pc : {"idle", "word", "ready", "advance"}, p : 0..MaxPush, w : 1..W]
  /\ co \in [Consumers ->
       [pc : {"absent", "idle", "stamp", "word", "check", "resync"},
        cursor : 0..MaxPush, got : Seq(0..MaxPush + 1), start : 0..MaxPush,
        taken : SUBSET (0..MaxPush), missed : SUBSET (0..MaxPush), out : Outcome]]

Whole(o) == \A w \in 1..W : o.words[w] = Record(o.pos)

\* A delivered record is whole and is the one pushed at the cursor
\* (ring.rs:267-270, 310): each word is exactly generation `cursor'.
NoTornRecord ==
  \A c \in Consumers : LET o == co[c].out IN
    o.kind = "item" => Whole(o)

\* try_recv gives up a position only when the producer has begun to overwrite
\* it (ring.rs:280-284): published stamps are never seen late.
ResyncOnlyWhenLapped ==
  \A c \in Consumers : co[c].pc = "resync" => Begun > co[c].cursor + Cap

\* No position is delivered to a consumer twice or out of order, even when
\* resync moves its cursor back (ring.rs:320-324).
DeliveredInOrder ==
  [][\A c \in Consumers :
       co[c].pc = "check" /\ co'[c].pc = "idle" =>
         \A p \in co[c].taken : p < co'[c].out.pos]_vars

\* Nothing is lost silently: every position a consumer has passed was delivered
\* to it or is among those an overrun reported to it (ring.rs:249-254).
NoSilentLoss ==
  \A c \in Consumers :
    co[c].start .. co[c].cursor - 1 \subseteq co[c].taken \cup co[c].missed

\* The cursor is monotonic (ring.rs:323-326).
CursorMonotonic ==
  [][\A c \in Consumers : co'[c].cursor >= co[c].cursor]_vars

\* After an overrun the cursor is on a record that is still resident
\* (ring.rs:251-253): the slot is not being overwritten.
ResyncFindsResident ==
  [][\A c \in Consumers :
       co[c].pc = "resync" /\ co'[c].pc = "idle" =>
         Begun <= co'[c].cursor + Cap]_vars

\* A consumer that keeps polling catches up when the producer pauses: an
\* overrun costs it records, never its progress (ring.rs:244-255).
CatchesUp ==
  \A c \in Consumers :
    co[c].pc # "absent" ~> co[c].pc = "idle" /\ co[c].cursor = Written

Log == INSTANCE BroadcastLog WITH
  published <- Written,
  cursor  <- [c \in Consumers |->
                IF co[c].pc = "absent" THEN -1 ELSE co[c].cursor],
  outcome <- [c \in Consumers |-> LET o == co[c].out IN
                CASE o.kind = "item" -> <<"item", IF Whole(o) THEN o.pos ELSE -1>>
                  [] o.kind = "overrun" -> <<"overrun", o.skipped>>
                  [] OTHER -> <<o.kind, 0>>]

\* With current reads the ring implements the broadcast log: each try_recv is
\* atomic, the cursor only advances, and `skipped' is exact (ring.rs:313-328).
BroadcastsLog == Log!Spec
===============================================================================
