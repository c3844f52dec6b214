-------------------------------- MODULE EndToEnd --------------------------------
(***************************************************************************)
(* bench/src/benches/e2e.rs: one cell of the end-to-end benchmark.  The    *)
(* main thread mints the consumers and spawns them and the producer; the   *)
(* consumers warm up on the empty ring and report ready; the producer      *)
(* publishes the clock base, processes the whole corpus and sets done;     *)
(* each consumer drains until done is set and it has reached the end; the  *)
(* main thread joins them and adds up.  The threads run the Engine's own   *)
(* steps, and the flags of the Handshake are atomics of the same memory.   *)
(* The times of the schedule only say when the next event is processed,    *)
(* which here is any time, or never.                                       *)
(***************************************************************************)
EXTENDS Engine, FiniteSets

CONSTANTS WarmupPolls,   \* 50_000 in the code
          Cells          \* the cells run: [K |-> their consumers, n |-> their events]

BaseLoc    == <<"base_raw", 0, 0>>
StartedLoc == <<"started", 0, 0>>
DoneLoc    == <<"done", 0, 0>>

ASSUME EndToEndAssumption ==
  /\ WarmupPolls \in Nat \ {0}
  /\ Cells \subseteq [K : SUBSET Consumers, n : 0 .. MaxEvents]
  /\ {BaseLoc, StartedLoc, DoneLoc} \subseteq Loc
  /\ IsFiniteSet(Consumers)

\* The raw clock does not read 0, which base_raw starts as.
ClockBase == 1

VARIABLES args,    \* run_cell's consumers and events: a member of Cells
          ready,   \* Handshake::ready: only consumers add to it, and store nothing else
          drv,     \* where drive_producer is
          cs,      \* per consumer, run_consumer: [pc, warm, base] and its tally
          cell     \* the main thread: the consumers joined, and the totals

cellVars == <<args, ready, drv, cs, cell>>
e2eVars == <<vars, cellVars>>

K == args.K
n == args.n

NoTally == [deliveries |-> 0, overruns |-> 0, skipped |-> 0]

\* No cell: a state in which none of its threads runs.
NoCell == [K |-> {}, n |-> 0]

\* run_cell up to the spawns: every consumer is minted on the empty ring.
CellStart(a) ==
  /\ args = a
  /\ Created
  /\ co = [c \in Consumers |-> IF c \in K THEN [Ring!ConsumerInit EXCEPT !.pc = "idle"]
                               ELSE Ring!ConsumerInit]
  /\ ready = 0
  /\ drv = IF a = NoCell THEN "exited" ELSE "wait"
  /\ cs = [c \in K |->
             [pc |-> "warmup", warm |-> 0, base |-> 0, tally |-> NoTally]]
  /\ cell = [joined |-> {}, tally |-> NoTally]

-------------------------------------------------------------------------------
(* drive_producer *)

\* A Release store by the producer's thread.
Raise(l, value) ==
  /\ mem' = Ring!StoreRelease(mem, l, value)
  /\ UNCHANGED <<fenced, view, wr, rd, pr, co, ep, ec, args, ready, cs, cell>>

\* As the barrier left out.
WaitNobody ==
  /\ drv = "wait"
  /\ drv' = "base"
  /\ UNCHANGED <<vars, args, ready, cs, cell>>

\* The barrier: spin until every consumer is past its warm-up.
WaitReady ==
  /\ drv = "wait" /\ ready >= Cardinality(K)
  /\ drv' = "base"
  /\ UNCHANGED <<vars, args, ready, cs, cell>>

\* As the two stores the other way round.
StartFirst ==
  \/ drv = "base" /\ drv' = "started" /\ Raise(StartedLoc, 1)
  \/ drv = "started" /\ drv' = "run" /\ Raise(BaseLoc, ClockBase)

\* base_raw, then started, both Release.
Start ==
  \/ drv = "base" /\ drv' = "started" /\ Raise(BaseLoc, ClockBase)
  \/ drv = "started" /\ drv' = "run" /\ Raise(StartedLoc, 1)

\* The paced loop: a step of process on the next event.
Produce ==
  /\ drv = "run"
  /\ (ep.stamp < n /\ Apply) \/ StoreTop \/ PushEvent
  /\ UNCHANGED cellVars

\* After the last event, done.
Finish ==
  /\ drv = "run" /\ ep = [pc |-> "idle", stamp |-> n]
  /\ drv' = "exited"
  /\ Raise(DoneLoc, 1)

-------------------------------------------------------------------------------
(* run_consumer *)

\* A step of poll, and whether it is its last.
PollStep(c) == Poll(c) \/ Rebase(c) \/ LoadTop(c)
Returned(c) == ec'[c].pc = "poll" /\ co'[c].pc = "idle"

Warmup(c) ==
  /\ cs[c].pc = "warmup"
  /\ PollStep(c)
  /\ LET warm == cs[c].warm + (IF Returned(c) THEN 1 ELSE 0) IN
       cs' = [cs EXCEPT ![c].warm = warm,
                        ![c].pc = IF warm = WarmupPolls THEN "announce" ELSE @]
  /\ UNCHANGED <<args, ready, drv, cell>>

Announce(c) ==
  /\ cs[c].pc = "announce"
  /\ ready' = ready + 1
  /\ cs' = [cs EXCEPT ![c].pc = "wait"]
  /\ UNCHANGED <<vars, args, drv, cell>>

\* An Acquire load of a flag by consumer c.
Acquired(c, l, i) ==
  /\ i \in Ring!Visible(mem, view[c], l)
  /\ view' = [view EXCEPT ![c] = Ring!LoadAcquire(mem, @, l, i)]
  /\ UNCHANGED <<mem, fenced, wr, rd, pr, co, ep, ec, args, ready, drv, cell>>

\* Spin until started.
AwaitStart(c) ==
  /\ cs[c].pc = "wait"
  /\ \E i \in DOMAIN mem[StartedLoc] :
       /\ Acquired(c, StartedLoc, i)
       /\ cs' = [cs EXCEPT ![c].pc = IF mem[StartedLoc][i].val = 1 THEN "base" ELSE @]

LoadBase(c) ==
  /\ cs[c].pc = "base"
  /\ \E i \in DOMAIN mem[BaseLoc] :
       /\ Acquired(c, BaseLoc, i)
       /\ cs' = [cs EXCEPT ![c].pc = "drain", ![c].base = mem[BaseLoc][i].val]

\* What the loop adds to its tally when poll returns outcome o; overruns are
\* counted up to MaxResyncs, as the engine's.
Tallied(tally, o) ==
  CASE o.kind = "item" -> [tally EXCEPT !.deliveries = @ + 1]
    [] o.kind = "overrun" ->
         [tally EXCEPT !.overruns = IF @ < MaxResyncs THEN @ + 1 ELSE @,
                       !.skipped = @ + o.skipped]
    [] o.kind = "empty" -> tally

Drain(c) ==
  /\ cs[c].pc = "drain"
  /\ PollStep(c)
  /\ cs' = IF ~Returned(c) THEN cs
           ELSE [cs EXCEPT ![c].tally = Tallied(@, co'[c].out),
                           ![c].pc = IF co'[c].out.kind = "empty" THEN "idle" ELSE @]
  /\ UNCHANGED <<args, ready, drv, cell>>

\* As a loop that ends on done alone.
OverOnDone(done, c) == done = 1

\* As a loop that ends beyond the last position.
OverBeyond(done, c) == done = 1 /\ co[c].cursor > n

Over(done, c) == done = 1 /\ co[c].cursor >= n

\* Idle: stop only when the producer is done and the cursor has reached n.
CheckDone(c) ==
  /\ cs[c].pc = "idle"
  /\ \E i \in DOMAIN mem[DoneLoc] :
       /\ Acquired(c, DoneLoc, i)
       /\ cs' = [cs EXCEPT ![c].pc =
                   IF Over(mem[DoneLoc][i].val, c) THEN "exited" ELSE "drain"]

Consuming(c) ==
  Warmup(c) \/ Announce(c) \/ AwaitStart(c) \/ LoadBase(c) \/ Drain(c) \/ CheckDone(c)

-------------------------------------------------------------------------------
(* run_cell, after the spawns *)

\* The producer is joined first, then the consumers in the order of their spawning,
\* which here is any order: the totals do not tell.
Join ==
  /\ drv = "exited"
  /\ \E c \in K \ cell.joined :
       /\ cs[c].pc = "exited"
       /\ cell' = [joined |-> cell.joined \cup {c},
                   tally |-> [k \in DOMAIN NoTally |-> cell.tally[k] + cs[c].tally[k]]]
  /\ UNCHANGED <<vars, args, ready, drv, cs>>

Joined == cell.joined = K

Report == Joined /\ UNCHANGED e2eVars

Producing == WaitReady \/ Start \/ Produce \/ Finish

CellNext == Producing \/ (\E c \in K : Consuming(c)) \/ Join \/ Report

\* Every thread runs on, except that the next event may never be due.
CellFairness ==
  /\ WF_e2eVars(Producing /\ ~(drv = "run" /\ ep.pc = "idle" /\ ep.stamp < n))
  /\ \A c \in Consumers : WF_e2eVars(c \in K /\ Consuming(c))
  /\ WF_e2eVars(Join)

-------------------------------------------------------------------------------
(* Correctness *)

\* Every variable has its type, the engine's included: no consumer counts more than
\* the corpus holds (e2e.rs:148-180, 224).
CellTypeOK ==
  /\ TypeOK
  /\ ready \in 0 .. Cardinality(K)
  /\ drv \in {"wait", "base", "started", "run", "exited"}
  /\ args \in Cells \cup {NoCell}
  /\ cs \in [K ->
       [pc : {"warmup", "announce", "wait", "base", "drain", "idle", "exited"},
        warm : 0 .. WarmupPolls, base : {0, ClockBase},
        tally : [deliveries : 0 .. n, overruns : 0 .. MaxResyncs, skipped : 0 .. n]]]
  /\ cell.joined \subseteq K

\* Whatever a consumer's polls met, when it stops each of the n events was delivered
\* to it or counted as skipped, and the totals are those of all (e2e.rs:235-253).
EveryEventAccounted ==
  /\ \A c \in K : cs[c].pc = "exited" =>
       cs[c].tally.deliveries + cs[c].tally.skipped = n
  /\ Joined => cell.tally.deliveries + cell.tally.skipped = n * Cardinality(K)

\* Nothing is pushed while a consumer still warms up, so the warm-up takes no event
\* from the distribution and every event delivered is measured (e2e.rs:277-287).
WarmupTakesNothing ==
  \A c \in K :
    /\ cs[c].pc = "warmup" => Ring!Begun = 0
    /\ cs[c].tally.deliveries = ec[c].seen

\* All consumers measure from the base the producer published (e2e.rs:143-147, 224-228).
SharedBase ==
  \A c \in K : cs[c].pc \in {"drain", "idle", "exited"} => cs[c].base = ClockBase

\* The barrier opens, and once the producer is done every consumer stops and is
\* joined, however it was overrun on the way (e2e.rs:225-227, 244-249).
Terminates == (drv = "wait" ~> drv = "run") /\ (drv = "exited" ~> Joined)

\* The barrier starts all threads together (e2e.rs:143-147, 277-287).
StartsTogether == WarmupTakesNothing /\ SharedBase
===============================================================================
