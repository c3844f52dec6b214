----------------------------- MODULE SortedVecBook -----------------------------
(***************************************************************************)
(* book/src/sorted_vec.rs: both sides are vectors in ascending order of    *)
(* price, searched by binary search.                                       *)
(***************************************************************************)
EXTENDS BookEvents, Sequences, FiniteSets, SequencesExt

VARIABLES vec,     \* per side, the levels <<price, quantity>> (bids, asks)
          trade,   \* last_trade
          last     \* history: the event last applied

vars == <<vec, trade, last>>

Init ==
  /\ vec = [side \in Side |-> <<>>]
  /\ trade = None
  /\ last = ClearEvent

\* As the search with the end of the run of px for its start.
SearchPast(v, px) == Cardinality({i \in DOMAIN v : v[i][1] <= px}) + 1

\* binary_search_by_key: the index of px, or where it belongs.
Search(v, px)     == Cardinality({i \in DOMAIN v : v[i][1] < px}) + 1

Holds(v, i, px) == i <= Len(v) /\ v[i][1] = px

\* As the update with no check for zero on an absent price.
UpdateKeepingZero(v, px, qty) ==
  LET i == Search(v, px) IN
    CASE Holds(v, i, px) /\ qty = 0 -> RemoveAt(v, i)
      [] Holds(v, i, px) /\ qty # 0 -> ReplaceAt(v, i, <<px, qty>>)
      [] ~Holds(v, i, px)           -> InsertAt(v, i, <<px, qty>>)

UpdateAscending(v, px, qty) ==
  LET i == Search(v, px) IN
    CASE Holds(v, i, px)  /\ qty = 0 -> RemoveAt(v, i)
      [] Holds(v, i, px)  /\ qty # 0 -> ReplaceAt(v, i, <<px, qty>>)
      [] ~Holds(v, i, px) /\ qty = 0 -> v
      [] ~Holds(v, i, px) /\ qty # 0 -> InsertAt(v, i, <<px, qty>>)

ApplyLevel(ev) ==
  /\ ev.kind = "Level"
  /\ vec' = [vec EXCEPT ![ev.side] = UpdateAscending(@, ev.px, ev.qty)]
  /\ UNCHANGED trade

ApplyTrade(ev) ==
  /\ ev.kind = "Trade"
  /\ trade' = <<ev.px, ev.qty, ev.side>>
  /\ UNCHANGED vec

ApplyClear(ev) ==
  /\ ev.kind = "Clear"
  /\ vec' = [side \in Side |-> <<>>]
  /\ trade' = None

Apply(ev) ==
  /\ ApplyLevel(ev) \/ ApplyTrade(ev) \/ ApplyClear(ev)
  /\ last' = ev

Next == \E ev \in Event : Apply(ev)

Spec == Init /\ [][Next]_vars

-------------------------------------------------------------------------------
(* The queries *)

\* best_bid is last(), best_ask is first().
Best(side) ==
  IF vec[side] = <<>> THEN None
  ELSE vec[side][IF side = "Bid" THEN Len(vec[side]) ELSE 1]

\* As top_n with the bids in the order they are stored.
TopNForward(side, n) ==
  SubSeq(vec[side], 1, IF n < Len(vec[side]) THEN n ELSE Len(vec[side]))

\* top_n zips a buffer of n levels with the best-first iterator.
TopN(side, n) ==
  LET levels == IF side = "Bid" THEN Reverse(vec[side]) ELSE vec[side] IN
    SubSeq(levels, 1, IF n < Len(levels) THEN n ELSE Len(levels))

Depth(side) == Len(vec[side])

-------------------------------------------------------------------------------
(* Correctness *)

\* Strictly ascending, so no duplicate prices, after every apply, on both
\* sides (sorted_vec.rs:10-11): what the binary search relies on.
StrictlyAscending ==
  \A side \in Side : \A i \in 1 .. Len(vec[side]) - 1 :
    vec[side][i][1] < vec[side][i + 1][1]

\* The map a side stands for.
Map(side) ==
  [p \in {vec[side][i][1] : i \in DOMAIN vec[side]} |->
     vec[side][CHOOSE i \in DOMAIN vec[side] : vec[side][i][1] = p][2]]

Book == INSTANCE BTreeBook WITH book <- [side \in Side |-> Map(side)]

\* Every apply is the BTreeBook's of the same event (tests/oracle.rs:3-8).
IsBTreeBook == Book!Spec
===============================================================================
