--------------------------------- MODULE Engine ---------------------------------
(***************************************************************************)
(* engine/src/lib.rs: the pipeline.  One producer thread applies an event  *)
(* to the book, stores the new top of book in the seqlock under the next   *)
(* stamp, and pushes the event onto the ring; each consumer drains the     *)
(* ring and reloads the seqlock when it is overrun.  The lock and the ring *)
(* are SeqLock and SpmcRing over ONE memory: the producer is the single    *)
(* writer of both, and what a consumer learns through one it also knows of *)
(* the other.  Event k of the input is k at ring position k, and the top   *)
(* of book after it is the version, and the stamp, k + 1.                  *)
(***************************************************************************)
EXTENDS Integers, Sequences

CONSTANTS Consumers, Cap, WRITING, StaleReads, Loc,
          TopWords,    \* payload atomics of the seqlock (5 in the code)
          RecWords,    \* words of a ring record (pack::W = 5)
          SeqMod, RetryMax,
          MaxEvents,   \* bound: events processed
          MaxResyncs   \* bound: where the count of resyncs stops

VARIABLES mem, fenced, view,
          wr, rd,      \* the seqlock's writer and its readers
          pr, co,      \* the ring's producer and its consumers
          ep,          \* EngineProducer: [pc, stamp]
          ec           \* per consumer, EngineConsumer: [pc, seen, resyncs]

Lock == INSTANCE SeqLock WITH
  Readers <- Consumers, W <- TopWords, MaxStores <- MaxEvents

Ring == INSTANCE SpmcRing WITH
  W <- RecWords, MaxPush <- MaxEvents

ASSUME EngineAssumption ==
  Lock!SeqLockAssumption /\ Ring!SpmcRingAssumption /\ MaxResyncs \in Nat

vars == <<mem, fenced, view, wr, rd, pr, co, ep, ec>>

\* Engine::new: the lock, the ring, and the producer.
Created ==
  /\ mem = [l \in Loc |-> Ring!Fresh(Ring!InitVal(l))]
  /\ fenced = Ring!OriginView
  /\ view = [c \in Consumers |-> Ring!OriginThread]
  /\ wr = Lock!WriterInit
  /\ rd = [c \in Consumers |-> Lock!ReaderInit]
  /\ pr = Ring!ProducerInit
  /\ ep = [pc |-> "idle", stamp |-> 0]
  /\ ec = [c \in Consumers |-> [pc |-> "poll", seen |-> 0, resyncs |-> 0]]

\* Every EngineHandle::consumer is still to be minted.
Init == Created /\ co = [c \in Consumers |-> Ring!ConsumerInit]

-------------------------------------------------------------------------------
(* EngineProducer::process *)

\* As process with the ring push ahead of the seqlock store.
StageAfterPushFirst(pc) ==
  CASE pc = "idle" -> "push" [] pc = "push" -> "store" [] pc = "store" -> "idle"

\* The order of process: apply, store the top of book, push the event.
StageAfter(pc) ==
  CASE pc = "idle" -> "store" [] pc = "store" -> "push" [] pc = "push" -> "idle"

\* book.apply(ev), the best levels, stamp += 1: all local to the producer.
Apply ==
  /\ ep.pc = "idle" /\ ep.stamp < MaxEvents
  /\ ep' = [pc |-> StageAfter("idle"), stamp |-> ep.stamp + 1]
  /\ UNCHANGED <<mem, fenced, view, wr, rd, pr, co, ec>>

\* top.store(..), step by step.
StoreTop ==
  /\ ep.pc = "store"
  /\ Lock!Store
  /\ ep' = [ep EXCEPT !.pc = IF wr'.pc = "idle" THEN StageAfter(@) ELSE @]
  /\ UNCHANGED <<pr, co, ec>>

\* out.push(pack(ev)), step by step.
PushEvent ==
  /\ ep.pc = "push"
  /\ Ring!Push
  /\ ep' = [ep EXCEPT !.pc = IF pr'.pc = "idle" THEN StageAfter(@) ELSE @]
  /\ UNCHANGED <<wr, rd, ec>>

Process == Apply \/ StoreTop \/ PushEvent

-------------------------------------------------------------------------------
(* EngineConsumer *)

\* EngineHandle::consumer joins live.
Mint(c) ==
  /\ Ring!Join(c)
  /\ co'[c].cursor = mem'[Ring!WriteLoc][view'[c].cur[Ring!WriteLoc]].val
  /\ UNCHANGED <<wr, rd, ep, ec>>

\* poll: a step of try_recv, and what its return leads to.
Poll(c) ==
  /\ ec[c].pc = "poll"
  /\ Ring!TryRecv(c)
  /\ LET returned == co'[c].pc = "idle"
         kind == co'[c].out.kind IN
       ec' = [ec EXCEPT
         ![c].pc = IF returned /\ kind = "overrun" THEN "rebase" ELSE "poll",
         ![c].seen = IF returned /\ kind = "item" THEN @ + 1 ELSE @]
  /\ UNCHANGED <<wr, rd, ep>>

\* The overrun branch of poll calls top.load().
Rebase(c) ==
  /\ ec[c].pc = "rebase"
  /\ Lock!Call(c)
  /\ ec' = [ec EXCEPT ![c].pc = "load",
                      ![c].resyncs = IF @ < MaxResyncs THEN @ + 1 ELSE @]
  /\ UNCHANGED <<pr, co, ep>>

\* EngineConsumer::snapshot, between two polls.
Snapshot(c) ==
  /\ ec[c].pc = "poll" /\ co[c].pc = "idle"
  /\ Lock!Call(c)
  /\ ec' = [ec EXCEPT ![c].pc = "load"]
  /\ UNCHANGED <<pr, co, ep>>

\* A step of top.load(); it returns to the polling loop.
LoadTop(c) ==
  /\ ec[c].pc = "load"
  /\ Lock!Load(c)
  /\ ec' = [ec EXCEPT ![c].pc = IF rd'[c].pc = "idle" THEN "poll" ELSE "load"]
  /\ UNCHANGED <<pr, co, ep>>

Consume(c) == Mint(c) \/ Poll(c) \/ Rebase(c) \/ Snapshot(c) \/ LoadTop(c)

Next == Process \/ \E c \in Consumers : Consume(c)

Spec == Init /\ [][Next]_vars

-------------------------------------------------------------------------------
(* Correctness *)

\* Every variable has its type, the lock's and the ring's included
\* (engine/src/lib.rs:60-65, 123-132).
TypeOK ==
  /\ Lock!TypeOK /\ Ring!TypeOK
  /\ ep \in [pc : {"idle", "store", "push"}, stamp : 0..MaxEvents]
  /\ ec \in [Consumers -> [pc : {"poll", "rebase", "load"}, seen : 0..MaxEvents,
                           resyncs : 0..MaxResyncs]]

\* The events the ring has let consumer c know of.
Known(c) == mem[Ring!WriteLoc][view[c].cur[Ring!WriteLoc]].val

LoadReturned(c) == rd[c].pc # "idle" /\ rd'[c].pc = "idle"

\* The snapshot a consumer resyncs from is whole and covers every event the
\* ring has told it of, so every one it skipped (engine/src/lib.rs:151-156):
\* the snapshot's stamp is at least the write position the resync jumped from.
SnapshotCoversSkipped ==
  [][\A c \in Consumers : LoadReturned(c) =>
       /\ \A w \in 1..TopWords : rd'[c].out.words[w] = rd'[c].out.words[1]
       /\ rd'[c].out.words[1] >= Known(c)]_vars
===============================================================================
