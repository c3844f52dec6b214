------------------------------ MODULE PriceLevels ------------------------------
(***************************************************************************)
(* book/src/btree.rs: a side of a book as the map from price to quantity   *)
(* that a BTreeMap stands for, and the book that a stream of events builds *)
(* in whoever applies it.                                                  *)
(***************************************************************************)
EXTENDS BookEvents, Sequences

Empty == [px \in {} |-> 0]

Without(m, px)     == [p \in DOMAIN m \ {px} |-> m[p]]
With(m, px, qty) == [p \in DOMAIN m \cup {px} |-> IF p = px THEN qty ELSE m[p]]

\* As a level update that keeps a level of quantity zero.
KeepZero(m, px, qty) == With(m, px, qty)

\* A Level event on its side's map: absolute, zero removes.
Update(m, px, qty) == IF qty = 0 THEN Without(m, px) ELSE With(m, px, qty)

\* A book without levels.
NoLevels == [side \in Side |-> Empty]

-------------------------------------------------------------------------------
(* The book a consumer has after an event, and after a stream *)

Play(b, ev) ==
  CASE ev.kind = "Level" -> [b EXCEPT ![ev.side] = Update(@, ev.px, ev.qty)]
    [] ev.kind = "Trade" -> b
    [] ev.kind = "Clear" -> NoLevels

Replay(events) ==
  LET after[i \in 0 .. Len(events)] ==
        IF i = 0 THEN NoLevels ELSE Play(after[i - 1], events[i])
  IN after[Len(events)]
===============================================================================
