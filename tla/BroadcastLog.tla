------------------------------ MODULE BroadcastLog ------------------------------
(***************************************************************************)
(* What an SpmcRing promises when every read is current: a broadcast log   *)
(* that keeps its last Cap records.  Each try_recv is one atomic step that *)
(* delivers the record at the consumer's cursor, finds nothing new, or     *)
(* moves the cursor on to the oldest record kept and says how many it      *)
(* passed over.                                                            *)
(***************************************************************************)
EXTENDS Integers

CONSTANTS Consumers, Cap

VARIABLES published,   \* records published: their positions are 0..published-1
          cursor,      \* per consumer: the position it wants next, -1 before it joins
          outcome      \* per consumer: what its last try_recv returned

logVars == <<published, cursor, outcome>>

Oldest == IF published > Cap THEN published - Cap ELSE 0

Init ==
  /\ published = 0
  /\ cursor = [c \in Consumers |-> -1]
  /\ outcome = [c \in Consumers |-> <<"none", 0>>]

Publish ==
  /\ published' = published + 1
  /\ UNCHANGED <<cursor, outcome>>

Join(c) ==
  /\ cursor[c] = -1
  /\ \E p \in {published, Oldest} : cursor' = [cursor EXCEPT ![c] = p]
  /\ UNCHANGED <<published, outcome>>

\* The record delivered is the one published at the cursor, and still kept.
Item(c) ==
  /\ cursor[c] \in Oldest .. published - 1
  /\ outcome' = [outcome EXCEPT ![c] = <<"item", cursor[c]>>]
  /\ cursor' = [cursor EXCEPT ![c] = @ + 1]
  /\ UNCHANGED published

Empty(c) ==
  /\ cursor[c] = published
  /\ outcome' = [outcome EXCEPT ![c] = <<"empty", 0>>]
  /\ UNCHANGED <<published, cursor>>

\* Only a consumer a full lap behind is overrun, and the count is exact.
Overrun(c) ==
  /\ cursor[c] # -1 /\ cursor[c] + Cap <= published
  /\ outcome' = [outcome EXCEPT ![c] = <<"overrun", Oldest - cursor[c]>>]
  /\ cursor' = [cursor EXCEPT ![c] = Oldest]
  /\ UNCHANGED published

Next == Publish \/ \E c \in Consumers : Join(c) \/ Item(c) \/ Empty(c) \/ Overrun(c)

Spec == Init /\ [][Next]_logVars
===============================================================================
