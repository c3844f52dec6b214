------------------------------- MODULE RevVecBook -------------------------------
(***************************************************************************)
(* book/src/rev_vec.rs: both sides are vectors stored best first (bids     *)
(* descending, asks ascending), searched by a scan from the best level.    *)
(***************************************************************************)
EXTENDS BookEvents, Sequences, FiniteSets, SequencesExt

VARIABLES vec,     \* per side, the levels <<price, quantity>> (bids, asks)
          trade,   \* last_trade
          last     \* history: the event last applied

vars == <<vec, trade, last>>

Init ==
  /\ vec = [side \in Side |-> <<>>]
  /\ trade = None
  /\ last = ClearEvent

\* As the scan with a strict comparison for bids.
ScanStrict(v, px, ascending) ==
  SelectInSeq(v, LAMBDA level :
    IF ascending THEN level[1] >= px ELSE level[1] < px)

\* The first slot, from the best end, where px belongs; 0 for None.
Scan(v, px, ascending) ==
  SelectInSeq(v, LAMBDA level :
    IF ascending THEN level[1] >= px ELSE level[1] <= px)

\* As the update with the removal of a level left out.
UpdateNeverRemoving(v, px, qty, ascending) ==
  LET at == Scan(v, px, ascending)
      found == at # 0 /\ v[at][1] = px
  IN
    CASE qty = 0           -> v
      [] found /\ qty # 0  -> ReplaceAt(v, at, <<px, qty>>)
      [] ~found /\ qty # 0 -> IF at # 0 THEN InsertAt(v, at, <<px, qty>>)
                              ELSE Append(v, <<px, qty>>)

UpdateBestFirst(v, px, qty, ascending) ==
  LET at == Scan(v, px, ascending)
      found == at # 0 /\ v[at][1] = px
  IN
    CASE found  /\ qty = 0 -> RemoveAt(v, at)
      [] found  /\ qty # 0 -> ReplaceAt(v, at, <<px, qty>>)
      [] ~found /\ qty = 0 -> v
      [] ~found /\ qty # 0 -> IF at # 0 THEN InsertAt(v, at, <<px, qty>>)
                              ELSE Append(v, <<px, qty>>)

ApplyLevel(ev) ==
  /\ ev.kind = "Level"
  /\ vec' = [vec EXCEPT ![ev.side] =
               UpdateBestFirst(@, ev.px, ev.qty, ev.side = "Ask")]
  /\ UNCHANGED trade

ApplyTrade(ev) ==
  /\ ev.kind = "Trade"
  /\ trade' = <<ev.px, ev.qty, ev.side>>
  /\ UNCHANGED vec

ApplyClear(ev) ==
  /\ ev.kind = "Clear"
  /\ vec' = [side \in Side |-> <<>>]
  /\ trade' = None

Apply(ev) ==
  /\ ApplyLevel(ev) \/ ApplyTrade(ev) \/ ApplyClear(ev)
  /\ last' = ev

Next == \E ev \in Event : Apply(ev)

Spec == Init /\ [][Next]_vars

-------------------------------------------------------------------------------
(* The queries *)

\* As the best queries of a book stored in ascending order.
BestLast(side) ==
  IF vec[side] = <<>> THEN None
  ELSE vec[side][IF side = "Bid" THEN Len(vec[side]) ELSE 1]

Best(side) == IF vec[side] = <<>> THEN None ELSE vec[side][1]

TopN(side, n) ==
  SubSeq(vec[side], 1, IF n < Len(vec[side]) THEN n ELSE Len(vec[side]))

Depth(side) == Len(vec[side])

-------------------------------------------------------------------------------
(* Correctness *)

\* Strictly best first, so no duplicate prices, after every apply
\* (rev_vec.rs:12-13): what the scan relies on.
StrictlyBestFirst ==
  \A side \in Side : \A i \in 1 .. Len(vec[side]) - 1 :
    Better(side, vec[side][i][1], vec[side][i + 1][1])

\* The map a side stands for.
Map(side) ==
  [p \in {vec[side][i][1] : i \in DOMAIN vec[side]} |->
     vec[side][CHOOSE i \in DOMAIN vec[side] : vec[side][i][1] = p][2]]

Book == INSTANCE BTreeBook WITH book <- [side \in Side |-> Map(side)]

\* Every apply is the BTreeBook's of the same event (tests/oracle.rs:3-8).
IsBTreeBook == Book!Spec
===============================================================================
