------------------------------- MODULE MCSeqLock -------------------------------
(* SeqLock on its own: its locations are all the shared atomics there are. *)
EXTENDS SeqLock, TLC

MCLoc == {<<"seq", 0, 0>>} \cup {<<"payload", 0, w>> : w \in 1..W}

Symmetry == Permutations(Readers)
===============================================================================
