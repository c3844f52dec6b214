-------------------------------- MODULE MCEngine --------------------------------
(* The engine with one memory for its seqlock and its ring. *)
EXTENDS Engine, TLC

MCLoc ==
  {<<"seq", 0, 0>>} \cup {<<"payload", 0, w>> : w \in 1..TopWords}
    \cup {<<"write", 0, 0>>} \cup {<<"stamp", s, 0>> : s \in 0..Cap - 1}
    \cup {<<"word", s, w>> : s \in 0..Cap - 1, w \in 1..RecWords}
===============================================================================
