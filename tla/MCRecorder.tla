------------------------------- MODULE MCRecorder -------------------------------
(* Recorder with two bids, of which a snapshot lists one. *)
EXTENDS Recorder

MCPrices == {1, 2}
MCLots == {0, 1}
MCKeys == {<<"Bid", 1>>, <<"Bid", 2>>}
MCFirstBook == [key \in MCKeys |-> 1]
===============================================================================
