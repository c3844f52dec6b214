------------------------------- MODULE MCSpmcRing -------------------------------
(* SpmcRing on its own: its locations are all the shared atomics there are. *)
EXTENDS SpmcRing, TLC

MCLoc ==
  {<<"write", 0, 0>>} \cup {<<"stamp", s, 0>> : s \in 0..Cap - 1}
    \cup {<<"word", s, w>> : s \in 0..Cap - 1, w \in 1..W}

Symmetry == Permutations(Consumers)
===============================================================================
