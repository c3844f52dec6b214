------------------------------- MODULE BTreeBook -------------------------------
(***************************************************************************)
(* book/src/btree.rs: the book over two ordered maps, the anchor that      *)
(* tests/oracle.rs holds the other three books to.  A BTreeMap is the      *)
(* function it stands for; its order shows in the best level and in top_n. *)
(* This is also the meaning of the OrderBook trait (book/src/book.rs).     *)
(***************************************************************************)
EXTENDS PriceLevels, FiniteSets

VARIABLES book,    \* per side, the map from price to quantity (bids, asks)
          trade,   \* last_trade
          last     \* history: the event last applied

bookVars == <<book, trade, last>>

Init ==
  /\ book = NoLevels
  /\ trade = None
  /\ last = ClearEvent

ApplyLevel(ev) ==
  /\ ev.kind = "Level"
  /\ book' = [book EXCEPT ![ev.side] = Update(@, ev.px, ev.qty)]
  /\ UNCHANGED trade

ApplyTrade(ev) ==
  /\ ev.kind = "Trade"
  /\ trade' = <<ev.px, ev.qty, ev.side>>
  /\ UNCHANGED book

\* As Clear with the last trade kept.
ClearLevelsOnly(ev) ==
  /\ ev.kind = "Clear"
  /\ book' = NoLevels
  /\ UNCHANGED trade

ApplyClear(ev) ==
  /\ ev.kind = "Clear"
  /\ book' = NoLevels
  /\ trade' = None

Apply(ev) ==
  /\ ApplyLevel(ev) \/ ApplyTrade(ev) \/ ApplyClear(ev)
  /\ last' = ev

Next == \E ev \in Event : Apply(ev)

Spec == Init /\ [][Next]_bookVars

-------------------------------------------------------------------------------
(* The queries *)

Depth(side) == Cardinality(DOMAIN book[side])

\* The i-th price of a side from the best, reverse iteration for bids: as many prices
\* are better as come before it.
Nth(side, i) ==
  CHOOSE p \in DOMAIN book[side] :
    Cardinality({q \in DOMAIN book[side] : Better(side, q, p)}) = i - 1

\* best_bid and best_ask.
Best(side) ==
  IF DOMAIN book[side] = {} THEN None
  ELSE LET p == CHOOSE p \in DOMAIN book[side] :
                  \A q \in DOMAIN book[side] \ {p} : Better(side, p, q)
       IN <<p, book[side][p]>>

\* top_n into a buffer of n levels.
TopN(side, n) ==
  [i \in 1 .. (IF n < Depth(side) THEN n ELSE Depth(side)) |->
     <<Nth(side, i), book[side][Nth(side, i)]>>]

\* Every variable has its type: no level has quantity zero (btree.rs:18-24).
TypeOK ==
  /\ DOMAIN book = Side
  /\ \A side \in Side :
       /\ DOMAIN book[side] \subseteq Prices
       /\ \A p \in DOMAIN book[side] : book[side][p] \in Lots \ {0}
  /\ trade \in LastTrade
  /\ last \in Event
===============================================================================
