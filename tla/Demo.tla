---------------------------------- MODULE Demo ----------------------------------
(***************************************************************************)
(* engine/src/main.rs: the demo, one thread that calls the pipeline's two  *)
(* sides in turn.  In its first scene the consumer polls after each event, *)
(* in its second only once the producer is done with all of them.  A       *)
(* behaviour is a scene of the demo or a cell of the end-to-end benchmark. *)
(***************************************************************************)
EXTENDS EndToEnd

CONSTANT Scenes   \* [consumer, scene, n]: the scenes run, and their events

ASSUME DemoAssumption ==
  /\ Scenes \subseteq [consumer : Consumers, scene : {"keeping_up", "lapped"}, n : 1 .. MaxEvents]
  /\ \A s \in Scenes : s.scene = "lapped" => s.n > Cap
  /\ Scenes # {} =>
       /\ ~StaleReads       \* a thread reads what it has written
       /\ MaxResyncs >= 1   \* the bound lets a resync be counted

VARIABLES show,   \* the scene, or <<>> in a cell
          demo    \* where it is, and the events it has counted

demoVars == <<show, demo>>
pipelineVars == <<e2eVars, demoVars>>

me == show[1].consumer
scene == show[1].scene
events == show[1].n

PipelineInit ==
  /\ \/ \E a \in Cells : CellStart(a) /\ show = <<>>
     \/ CellStart(NoCell) /\ show \in {<<s>> : s \in Scenes}
  /\ demo = [pc |-> "new", delivered |-> 0]

-------------------------------------------------------------------------------

\* Engine::new is Created; then the only consumer is minted.
MintFirst ==
  /\ demo.pc = "new"
  /\ Mint(me)
  /\ demo' = [demo EXCEPT !.pc = "process"]

\* producer.process of the next event, step by step.
ProcessNext ==
  /\ demo.pc = "process"
  /\ (ep.stamp < events /\ Apply) \/ StoreTop \/ PushEvent
  /\ demo' = [demo EXCEPT !.pc =
       IF ep'.pc # "idle" THEN "process"
       ELSE IF scene = "keeping_up" THEN "poll"
       ELSE IF ep'.stamp < events THEN "process" ELSE "drain"]

\* The events counted once the poll that ends now has returned.
Counted == demo.delivered + (IF co'[me].out.kind = "item" THEN 1 ELSE 0)

\* The poll after an event, which is counted if it returns one.
PollNext ==
  /\ demo.pc = "poll"
  /\ PollStep(me)
  /\ demo' = IF ~Returned(me) THEN demo
             ELSE [pc |-> IF ep.stamp < events THEN "process" ELSE "drain",
                   delivered |-> Counted]

\* The first scene flushes until a poll returns no event, the second until one is idle.
DrainRest ==
  /\ demo.pc = "drain"
  /\ PollStep(me)
  /\ LET kind == co'[me].out.kind IN
       demo' = IF ~Returned(me) THEN demo
               ELSE [pc |-> IF kind = "item" \/ (scene = "lapped" /\ kind = "overrun")
                            THEN "drain" ELSE "done",
                     delivered |-> Counted]

Perform ==
  /\ show # <<>>
  /\ MintFirst \/ ProcessNext \/ PollNext \/ DrainRest
  /\ UNCHANGED <<cellVars, show>>

PipelineNext ==
  \/ show = <<>> /\ CellNext /\ UNCHANGED demoVars
  \/ Perform
  \/ demo.pc = "done" /\ UNCHANGED pipelineVars

\* The demo's one thread runs on, and in a cell each of its threads.
PipelineSpec ==
  PipelineInit /\ [][PipelineNext]_pipelineVars /\ CellFairness /\ WF_pipelineVars(Perform)

-------------------------------------------------------------------------------
(* Correctness *)

\* The consumer that keeps up is given every event and never overrun; the one that was
\* lapped is overrun, reloads the last top of book, and is still given the whole ring
\* (engine/src/main.rs:41, 48, 66-70).
DemoAsserts ==
  demo.pc = "done" =>
    IF scene = "keeping_up" THEN demo.delivered = events /\ ec[me].resyncs = 0
    ELSE /\ ec[me].resyncs > 0 /\ ec[me].seen = Cap
         /\ rd[me].out.words = [w \in 1 .. TopWords |-> events]
===============================================================================
