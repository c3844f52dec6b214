------------------------------- MODULE MCEndToEnd -------------------------------
(* Cells of the end-to-end benchmark, one consumer that is lapped and two, and both
   scenes of the demo. *)
EXTENDS Demo

CONSTANTS c1, c2

MCLoc ==
  {<<"seq", 0, 0>>} \cup {<<"payload", 0, w>> : w \in 1..TopWords}
    \cup {<<"write", 0, 0>>} \cup {<<"stamp", s, 0>> : s \in 0..Cap - 1}
    \cup {<<"word", s, w>> : s \in 0..Cap - 1, w \in 1..RecWords}
    \cup {BaseLoc, StartedLoc, DoneLoc}

MCCells == {[K |-> {c1}, n |-> 4], [K |-> {c1, c2}, n |-> 3]}

MCScenes ==
  {[consumer |-> c1, scene |-> s, n |-> 4] : s \in {"keeping_up", "lapped"}}
===============================================================================
