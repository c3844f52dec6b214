------------------------------- MODULE BookEvents -------------------------------
(***************************************************************************)
(* book/src/event.rs, book/src/price.rs: the events every book applies.    *)
(* Prices and quantities are integers; `seq' and `ts' are for the corpus   *)
(* and no book reads them.                                                 *)
(***************************************************************************)
EXTENDS Integers

CONSTANTS Prices,   \* ticks of the events enumerated
          Lots      \* their quantities, 0 among them

ASSUME BookEventsAssumption ==
  /\ Prices \subseteq Int
  /\ Lots \subseteq Int /\ 0 \in Lots

Side == {"Bid", "Ask"}

Opposite(side) == IF side = "Bid" THEN "Ask" ELSE "Bid"

LevelEvent(side, px, qty) == [kind |-> "Level", side |-> side, px |-> px, qty |-> qty]
TradeEvent(side, px, qty) == [kind |-> "Trade", side |-> side, px |-> px, qty |-> qty]
ClearEvent == [kind |-> "Clear", side |-> "Bid", px |-> 0, qty |-> 0]

Levels == {LevelEvent(side, px, qty) : side \in Side, px \in Prices, qty \in Lots}
Trades == {TradeEvent(side, px, qty) : side \in Side, px \in Prices, qty \in Lots \ {0}}

Event == Levels \cup Trades \cup {ClearEvent}

\* A level as (price, quantity); None is Rust's, of best_bid, best_ask and
\* last_trade.
None == <<>>

LastTrade == {None} \cup {<<px, qty, side>> : px \in Prices, qty \in Lots \ {0}, side \in Side}

\* Price p is better than price q on the side: higher for bids, lower for asks.
Better(side, p, q) == IF side = "Bid" THEN p > q ELSE p < q
===============================================================================
