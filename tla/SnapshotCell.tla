------------------------------ MODULE SnapshotCell ------------------------------
(***************************************************************************)
(* What a SeqLock promises: an atomic cell.  The one writer publishes      *)
(* version after version, and a load returns, whole, some version that was *)
(* the published one at a moment between its call and its return.          *)
(***************************************************************************)
EXTENDS Integers

CONSTANT Readers

VARIABLES published,   \* the number of the latest published version
          floor,       \* per reader: -1, or what was published at its call
          got          \* per reader: the version its last load returned

cellVars == <<published, floor, got>>

Init ==
  /\ published = 0
  /\ floor = [r \in Readers |-> -1]
  /\ got = [r \in Readers |-> 0]

Publish ==
  /\ published' = published + 1
  /\ UNCHANGED <<floor, got>>

Call(r) ==
  /\ floor[r] = -1
  /\ floor' = [floor EXCEPT ![r] = published]
  /\ UNCHANGED <<published, got>>

Return(r) ==
  /\ floor[r] # -1
  /\ \E v \in floor[r] .. published : got' = [got EXCEPT ![r] = v]
  /\ floor' = [floor EXCEPT ![r] = -1]
  /\ UNCHANGED published

Next == Publish \/ \E r \in Readers : Call(r) \/ Return(r)

Spec == Init /\ [][Next]_cellVars
===============================================================================
