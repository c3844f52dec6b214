------------------------------- MODULE BookOracle -------------------------------
(***************************************************************************)
(* book/tests/oracle.rs: the four books behind one trait, driven through   *)
(* the same events in lockstep.  FlatBook is the module extended; the      *)
(* others keep their state in the variables below.                         *)
(***************************************************************************)
EXTENDS FlatBook

VARIABLES tree, treeTrade,      \* BTreeBook
          sorted, sortedTrade,  \* SortedVecBook
          rev, revTrade         \* RevVecBook

others == <<tree, treeTrade, sorted, sortedTrade, rev, revTrade>>
oracleVars == <<vars, others>>

BTree == INSTANCE BTreeBook WITH book <- tree, trade <- treeTrade
Sorted == INSTANCE SortedVecBook WITH vec <- sorted, trade <- sortedTrade
Rev == INSTANCE RevVecBook WITH vec <- rev, trade <- revTrade

OracleInit == Init /\ BTree!Init /\ Sorted!Init /\ Rev!Init

\* drive_and_check: all four apply the event.
Drive(ev) ==
  /\ ~panicked
  /\ ApplyLevel(ev) \/ ApplyTrade(ev) \/ ApplyClear(ev)
  /\ BTree!Apply(ev) /\ Sorted!Apply(ev) /\ Rev!Apply(ev)

\* FlatBook refuses the event, which ends the drive.
Refuse(ev) == ~panicked /\ ApplyPanics(ev) /\ UNCHANGED others

OracleNext == \E ev \in Event : Drive(ev) \/ Refuse(ev)

OracleSpec == OracleInit /\ [][OracleNext]_oracleVars

-------------------------------------------------------------------------------

\* Both vectors of both vector books are in their strict order, so hold no price
\* twice (sorted_vec.rs:10-11, rev_vec.rs:12-13): what their searches rely on.
VectorsOrdered == Sorted!StrictlyAscending /\ Rev!StrictlyBestFirst

\* The last trade, the best levels and the depths are the same in the four books.
TopSame ==
  /\ trade = treeTrade /\ sortedTrade = treeTrade /\ revTrade = treeTrade
  /\ \A side \in Side :
       /\ {Best(side), Sorted!Best(side), Rev!Best(side)} = {BTree!Best(side)}
       /\ {Depth(side), Sorted!Depth(side), Rev!Depth(side)} = {BTree!Depth(side)}

\* After every event the four books answer every query alike, top_n with a
\* buffer shorter and longer than the side included (tests/oracle.rs:3-8, 43-60).
ObservedSame ==
  /\ TopSame
  /\ \A side \in Side : \A n \in 0 .. BTree!Depth(side) + 1 :
       {TopN(side, n), Sorted!TopN(side, n), Rev!TopN(side, n)} = {BTree!TopN(side, n)}

\* Each representation, read as a map from price to quantity, steps as the
\* BTreeBook does on the same event (tests/oracle.rs:3-8).
AllAreBTreeBooks == IsBTreeBook /\ Sorted!IsBTreeBook /\ Rev!IsBTreeBook

\* What each representation relies on: caches that say what the array holds, vectors
\* in their order (flat.rs:113-127, sorted_vec.rs:10-11, rev_vec.rs:12-13).
RepresentationsSound == CachesAgree /\ VectorsOrdered
===============================================================================
