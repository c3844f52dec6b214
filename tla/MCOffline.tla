------------------------------- MODULE MCOffline -------------------------------
EXTENDS Offline, BookOracle

Gen(profile, events, band, max_qty) ==
  [profile |-> profile, events |-> events, mid |-> 0, band |-> band, max_qty |-> max_qty]

\* Bands narrower and wider than STEADY_DEPTH and than a recovery, targets that fall into
\* every loop.
MCConfigs ==
  {Gen("Steady", 6, 1, 2), Gen("Steady", 4, 3, 5), Gen("Steady", 3, 0, 1),
   Gen("Burst", 8, 2, 1), Gen("FlashCrash", 14, 2, 1), Gen("FlashCrash", 9, 1, 1),
   Gen("FlashCrash", 33, 8, 1)}

MCValues ==
  {Text(neg, int, f[1], f[2]) : neg \in BOOLEAN, int \in {NoDigits, 0, 1, 12, 40, 250, 40000},
                                f \in {<<0, 0>>, <<5, 1>>, <<50, 2>>, <<25, 2>>, <<0, 2>>}}
  \cup {[Text(FALSE, 7, 0, 0) EXCEPT !.junk = TRUE]}

MCTicks ==
  {Text(FALSE, i, f[1], f[2]) : i \in {0, 1, 3}, f \in {<<0, 0>>, <<0, 2>>, <<1, 1>>, <<5, 2>>}}

MCStep == Text(FALSE, 0, 25, 3)

Xs(n) == [i \in 1 .. n |-> "x"]
MCHexDigit == [d \in {"0", "1", "2", "a"} |-> CASE d = "0" -> 0 [] d = "1" -> 1
                                                [] d = "2" -> 2 [] d = "a" -> 10]
CRLF == <<"CR", "LF">>
Chunk(size, data) == size \o CRLF \o data \o CRLF

\* A chunk of 17, one with an extension, data that holds a CRLF, a body without chunks.
MCChunkings ==
  {<<Chunk(<<"1", "1">>, Xs(17)) \o Chunk(<<"0">>, <<>>), Xs(17)>>,
   <<Chunk(<<"2", ";", "x">>, CRLF) \o Chunk(<<"a">>, Xs(10)) \o Chunk(<<"0">>, <<>>),
     CRLF \o Xs(10)>>,
   <<Chunk(<<"1">>, <<"0">>) \o Chunk(<<"2">>, <<"1", "CR">>) \o <<"0">> \o CRLF,
     <<"0", "1", "CR">>>>,
   <<Chunk(<<"0">>, <<>>), <<>>>>}

\* The 400 years of a cycle of the calendar, a year or so at a time.
MCSpans == {366 * n .. 366 * n + 365 : n \in 0 .. 399}

MCOriginals ==
  {<<>>, <<TradeEvent("Ask", 7, 2)>>,
   <<ClearEvent, LevelEvent("Bid", -3, 4), LevelEvent("Ask", 5, 0), TradeEvent("Bid", 5, 1)>>}

\* Three prices, the outer two too far apart for MAX_SPAN.
MCPrices == {-3, 2, 4}
MCLots == {0, 1, 2}

-------------------------------------------------------------------------------
(* The differential oracle beside them: it runs alone as well. *)

VARIABLE oracle    \* it is what runs

mcVars == <<oracle, offlineVars, oracleVars>>

\* What does not run is as it was created.
MCInit ==
  /\ oracle \in BOOLEAN
  /\ OfflineInit /\ OracleInit
  /\ oracle => program = "service" /\ cellDepth = (CHOOSE d \in Depths : TRUE) /\ op = "update"

MCNext ==
  /\ \/ oracle /\ OracleNext /\ UNCHANGED offlineVars
     \/ ~oracle /\ OfflineNext /\ UNCHANGED oracleVars
  /\ UNCHANGED oracle

MCSpec == MCInit /\ [][MCNext]_mcVars /\ WF_writeVars(program = "gen" /\ Generate)
===============================================================================
