----------------------------- MODULE RecorderProofs -----------------------------
(***************************************************************************)
(* Proofs about Recorder, for every book, every limit of the snapshots and *)
(* of the events, and every number of versions, losses and old snapshots.  *)
(***************************************************************************)
EXTENDS Recorder, StreamProofs

-------------------------------------------------------------------------------
(* Sets put in order *)

\* What a function makes of a finite set is finite.
LEMMA ImageFinite ==
  ASSUME NEW S, IsFiniteSet(S), NEW f, DOMAIN f = S
  PROVE  IsFiniteSet({f[x] : x \in S})
<1> DEFINE T == {f[x] : x \in S}
           g == [x \in S |-> f[x]]
<1>1. g \in Surjection(S, T) BY DEF Surjection
<1> QED BY <1>1, FS_Surjection

\* SetToSeq lists every element of a finite set, once each.
LEMMA Listing ==
  ASSUME NEW S, IsFiniteSet(S)
  PROVE  /\ SetToSeq(S) \in Seq(S)
         /\ \A x \in S : \E i \in 1 .. Len(SetToSeq(S)) : SetToSeq(S)[i] = x
         /\ \A i, j \in 1 .. Len(SetToSeq(S)) : SetToSeq(S)[i] = SetToSeq(S)[j] => i = j
<1> DEFINE n == Cardinality(S)
           s == SetToSeq(S)
<1>1. n \in Nat /\ ExistsBijection(1 .. n, S) BY FS_CardinalityType
<1>2. \E f \in [1 .. n -> S] : IsInjective(f)
  BY <1>1 DEF ExistsBijection, Bijection, Injection
<1>3. s \in [1 .. n -> S] /\ IsInjective(s) BY <1>2 DEF SetToSeq
<1> HIDE DEF s, n
<1>4. s \in Injection(1 .. n, S) BY <1>3 DEF Injection
<1>5. IsFiniteSet(1 .. n) /\ Cardinality(1 .. n) = n
  <2>1. n = 0 \/ ~(1 > n) BY <1>1
  <2> QED BY <1>1, <2>1, FS_Interval
<1>6. s \in Surjection(1 .. n, S) BY <1>4, <1>5, FS_Injection DEF n
<1>7. s \in Seq(S) /\ Len(s) = n BY <1>1, <1>3
<1>8. \A x \in S : \E i \in 1 .. n : s[i] = x BY <1>6 DEF Surjection
<1>9. \A i, j \in 1 .. n : s[i] = s[j] => i = j BY <1>3 DEF IsInjective
<1> QED BY <1>7, <1>8, <1>9 DEF s

-------------------------------------------------------------------------------
(* The events of a snapshot and of a diff *)

\* The levels as Emitter::level has them.
Entry == Prices \X Lots

\* What Emitter::level is called with are the books' events (recorder.rs:158-176).
LEMMA Emitted ==
  ASSUME NEW side \in Side, NEW T \in SUBSET Entry, IsFiniteSet(T)
  PROVE  EmitLevels(side, SetToSeq(T)) \in Seq(Levels)
<1> DEFINE s == SetToSeq(T)
<1>1. s \in Seq(T) BY Listing
<1> HIDE DEF s
<1>2. \A i \in 1 .. Len(s) : s[i] \in Entry BY <1>1, ElementOfSeq
<1>3. \A i \in 1 .. Len(s) : LevelEvent(side, s[i][1], s[i][2]) \in Levels
  BY <1>2 DEF Entry, Levels
<1>4. DOMAIN s = 1 .. Len(s) /\ Len(s) \in Nat BY <1>1
<1>5. EmitLevels(side, s) = [i \in 1 .. Len(s) |-> LevelEvent(side, s[i][1], s[i][2])]
  BY <1>4 DEF EmitLevels
<1> QED BY <1>3, <1>4, <1>5 DEF s

-------------------------------------------------------------------------------
(* Types *)

Book == [Keys -> Lots]

Messages(v) ==
  [e : {"depthUpdate", "trade"}, U : Nat, u : 0 .. v, levels : SUBSET Keys]

\* What the sidecar is, at each point of run().
Sidecar ==
  meta = IF phase = "done" THEN <<Len(events)>>
         ELSE IF phase = "describing" THEN <<>> ELSE OldMeta

\* The inductive invariant of the types: the exchange has a book of every version, and
\* the sidecar is of the phase.
TypeInv ==
  /\ exch \in Seq(Book) /\ exch # <<>>
  /\ TypeOK
  /\ Sidecar

\* The versions there are, and their books.
LEMMA Versions ==
  ASSUME TypeInv
  PROVE  /\ Len(exch) \in Nat /\ Version \in Nat /\ Len(exch) = Version + 1
         /\ \A v \in 0 .. Version : exch[v + 1] \in Book
         /\ \A v \in 0 .. Version : \A key \in Keys : Qty(v, key) \in Lots
<1>1. exch \in Seq(Book) /\ exch # <<>> BY DEF TypeInv
<1>2. Len(exch) \in Nat /\ Len(exch) # 0 BY <1>1
<1>3. Version \in Nat /\ Len(exch) = Version + 1 BY <1>2 DEF Version
<1>4. \A v \in 0 .. Version : v + 1 \in 1 .. Len(exch) BY <1>2, <1>3
<1>5. \A v \in 0 .. Version : exch[v + 1] \in Book BY <1>1, <1>4, ElementOfSeq
<1> QED BY <1>2, <1>3, <1>5 DEF Qty, Book

\* The levels of keys, with quantities, are finitely many.
LEMMA KeyParts ==
  /\ IsFiniteSet(Keys)
  /\ \A key \in Keys : key = <<key[1], key[2]>> /\ key[1] \in Side /\ key[2] \in Prices
BY RecorderAssumption

\* A snapshot lists levels of the exchange's book (recorder.rs:248-297).
LEMMA ListedParts ==
  ASSUME TypeInv, NEW v \in 0 .. Version, NEW side \in Side
  PROVE  /\ \A p \in Listed(v, side) : <<side, p>> \in Keys /\ Qty(v, <<side, p>>) # 0
         /\ IsFiniteSet(Listed(v, side))
         /\ IsFiniteSet({<<p, Qty(v, <<side, p>>)>> : p \in Listed(v, side)})
         /\ {<<p, Qty(v, <<side, p>>)>> : p \in Listed(v, side)} \in SUBSET Entry
<1> DEFINE K == {k \in Keys : k[1] = side /\ Qty(v, k) # 0}
           f == [key \in K |-> key[2]]
           all == {key[2] : key \in K}
           L == Listed(v, side)
           g == [p \in L |-> <<p, Qty(v, <<side, p>>)>>]
<1>1. IsFiniteSet(K) BY KeyParts, FS_Subset
<1>2. IsFiniteSet({f[key] : key \in K}) BY <1>1, ImageFinite
<1>3. IsFiniteSet(all)
  <2>1. all = {f[key] : key \in K} OBVIOUS
  <2> HIDE DEF f, all
  <2> QED BY <1>2, <2>1
<1>4. L \subseteq all BY DEF Listed
<1>5. IsFiniteSet(L) BY <1>3, <1>4, FS_Subset
<1>6. \A p \in L : <<side, p>> \in Keys /\ Qty(v, <<side, p>>) # 0
  <2> TAKE p \in L
  <2>1. PICK key \in K : p = key[2] BY <1>4
  <2>2. key = <<side, p>> BY <2>1, KeyParts
  <2> QED BY <2>1, <2>2
<1>7. {<<p, Qty(v, <<side, p>>)>> : p \in L} = {g[p] : p \in L} OBVIOUS
<1>8. IsFiniteSet({g[p] : p \in L}) BY <1>5, ImageFinite
<1>9. \A p \in L : p \in Prices /\ Qty(v, <<side, p>>) \in Lots
  <2> TAKE p \in L
  <2>1. <<side, p>> \in Keys BY <1>6
  <2>2. <<side, p>>[2] \in Prices BY <2>1, KeyParts
  <2> QED BY <2>1, <2>2, Versions
<1> HIDE DEF L, g
<1>10. \A p \in L : <<p, Qty(v, <<side, p>>)>> \in Entry BY <1>9 DEF Entry
<1> QED BY <1>5, <1>6, <1>7, <1>8, <1>10 DEF L

\* What a snapshot is recorded as is a Clear and events of the books
\* (recorder.rs:352-366).
LEMMA SeedTypes ==
  ASSUME TypeInv, NEW v \in 0 .. Version
  PROVE  /\ Seed(FetchSnapshot(v)) \in Seq(Event)
         /\ EmitLevels("Bid", LevelsOf(v, "Bid")) \in Seq(Levels)
         /\ EmitLevels("Ask", LevelsOf(v, "Ask")) \in Seq(Levels)
         /\ Len(Seed(FetchSnapshot(v))) \in Nat \ {0}
<1> DEFINE a == EmitLevels("Bid", LevelsOf(v, "Bid"))
           b == EmitLevels("Ask", LevelsOf(v, "Ask"))
<1>1. a \in Seq(Levels) /\ b \in Seq(Levels)
  <2>1. "Bid" \in Side /\ "Ask" \in Side BY DEF Side
  <2> QED BY <2>1, ListedParts, Emitted DEF LevelsOf
<1>2. Seed(FetchSnapshot(v)) = <<ClearEvent>> \o a \o b BY DEF Seed, FetchSnapshot
<1> HIDE DEF a, b
<1>3. Levels \subseteq Event /\ ClearEvent \in Event BY DEF Event
<1>4. a \in Seq(Event) /\ b \in Seq(Event) /\ <<ClearEvent>> \in Seq(Event)
  BY <1>1, <1>3, SeqMonotonic
<1>5. (<<ClearEvent>> \o a) \in Seq(Event) /\ Len(<<ClearEvent>> \o a) = 1 + Len(a)
  BY <1>4
<1>6. /\ <<ClearEvent>> \o a \o b \in Seq(Event)
      /\ Len(<<ClearEvent>> \o a \o b) = 1 + Len(a) + Len(b)
  BY <1>4, <1>5
<1>7. Len(a) \in Nat /\ Len(b) \in Nat BY <1>4
<1> QED BY <1>1, <1>2, <1>6, <1>7 DEF a, b

\* The levels of a side of a diff, as it lists them.
KeyEntries(K, v, side) == {<<key[2], Qty(v, key)>> : key \in {k \in K : k[1] = side}}

Entries(msg, side) == KeyEntries(msg.levels, msg.u, side)

\* They are finitely many.
LEMMA EntriesParts ==
  ASSUME TypeInv, NEW msg \in Messages(Version), NEW side \in Side
  PROVE  IsFiniteSet(Entries(msg, side)) /\ Entries(msg, side) \in SUBSET Entry
<1> DEFINE K == {k \in msg.levels : k[1] = side}
           f == [key \in K |-> <<key[2], Qty(msg.u, key)>>]
<1>1. msg.levels \subseteq Keys /\ msg.u \in 0 .. Version BY DEF Messages
<1>2. IsFiniteSet(K) BY <1>1, KeyParts, FS_Subset
<1>3. IsFiniteSet({f[key] : key \in K}) BY <1>2, ImageFinite
<1>4. Entries(msg, side) = {f[key] : key \in K} BY DEF Entries, KeyEntries
<1>5. \A key \in K : key[2] \in Prices /\ Qty(msg.u, key) \in Lots
  BY <1>1, KeyParts, Versions
<1>6. \A key \in K : f[key] \in Entry BY <1>5 DEF Entry
<1> HIDE DEF f
<1> QED BY <1>3, <1>4, <1>6

\* What a diff is recorded as is events of the books (recorder.rs:368-390).
LEMMA DiffTypes ==
  ASSUME TypeInv, NEW msg \in Messages(Version)
  PROVE  /\ DiffEvents(msg) \in Seq(Event)
         /\ DiffEvents(msg) = EmitLevels("Bid", SetToSeq(Entries(msg, "Bid")))
                                \o EmitLevels("Ask", SetToSeq(Entries(msg, "Ask")))
         /\ EmitLevels("Bid", SetToSeq(Entries(msg, "Bid"))) \in Seq(Levels)
         /\ EmitLevels("Ask", SetToSeq(Entries(msg, "Ask"))) \in Seq(Levels)
<1> DEFINE a == EmitLevels("Bid", SetToSeq(Entries(msg, "Bid")))
           b == EmitLevels("Ask", SetToSeq(Entries(msg, "Ask")))
<1>1. a \in Seq(Levels) /\ b \in Seq(Levels)
  <2>1. "Bid" \in Side /\ "Ask" \in Side BY DEF Side
  <2> QED BY <2>1, EntriesParts, Emitted
<1>2. DiffEvents(msg) = a \o b BY DEF DiffEvents, Entries, KeyEntries
<1> HIDE DEF a, b
<1>3. Levels \subseteq Event BY DEF Event
<1>4. a \in Seq(Event) /\ b \in Seq(Event) BY <1>1, <1>3, SeqMonotonic
<1>5. a \o b \in Seq(Event) BY <1>4
<1> QED BY <1>1, <1>2, <1>5 DEF a, b

\* What type the actions keep: the versions, the messages and the events in it.
Kept ==
  /\ exch' \in Seq(Book) /\ exch' # <<>>
  /\ max_events' \in MaxEvents
  /\ sent' \in 0 .. Version' /\ trades' \in 0 .. MaxTrades /\ open' \in BOOLEAN
  /\ chan' \in Seq(Messages(Version'))
  /\ synced' \in BOOLEAN
  /\ prev_u' \in 0 .. Version' /\ last_update_id' \in 0 .. Version'
  /\ events' \in Seq(Event) /\ seed' \in Seq(Event)
  /\ resnapshots' \in Nat /\ seen' \in 0 .. Version'
  /\ lost' \in 0 .. MaxLost /\ stale' \in 0 .. MaxStale
  /\ unseen' \subseteq Keys

Phases == {"connecting", "first_fetch", "refetch", "loop", "saving", "writing",
           "describe", "describing", "done", "failed"}

\* The types are kept when each variable's is, and the sidecar.
LEMMA KeptTypes ==
  ASSUME TypeInv, Kept, phase' \in Phases, Sidecar'
  PROVE  TypeInv'
<1>1. Len(exch') \in Nat BY DEF Kept
<1>2. \A v \in 0 .. Version' : exch'[v + 1] \in Book
  <2>1. \A v \in 0 .. Version' : v + 1 \in 1 .. Len(exch') BY <1>1 DEF Version
  <2> QED BY <2>1, ElementOfSeq DEF Kept
<1>3. meta' \in {OldMeta, <<>>, <<Len(events')>>}
  BY DEF Sidecar
<1> QED BY <1>2, <1>3 DEF TypeInv, TypeOK, Kept, Phases, Messages, Book

\* What the types are of, one by one.
LEMMA Parts ==
  ASSUME TypeInv
  PROVE  /\ exch \in Seq(Book) /\ exch # <<>>
         /\ max_events \in MaxEvents
         /\ sent \in 0 .. Version /\ trades \in 0 .. MaxTrades /\ open \in BOOLEAN
         /\ phase \in Phases
         /\ synced \in BOOLEAN
         /\ prev_u \in 0 .. Version /\ last_update_id \in 0 .. Version
         /\ events \in Seq(Event) /\ seed \in Seq(Event)
         /\ resnapshots \in Nat /\ seen \in 0 .. Version
         /\ lost \in 0 .. MaxLost /\ stale \in 0 .. MaxStale
         /\ unseen \subseteq Keys
BY DEF TypeInv, TypeOK, Phases

\* The channel's types are of the versions there are.
LEMMA Chan ==
  ASSUME TypeInv
  PROVE  /\ chan \in Seq(Messages(Version))
         /\ \A i \in 1 .. Len(chan) : chan[i] \in Messages(Version)
         /\ chan # <<>> => /\ Head(chan) \in Messages(Version)
                           /\ Tail(chan) \in Seq(Messages(Version))
<1>1. chan \in Seq(Messages(Version)) BY DEF TypeInv, TypeOK, Messages
<1> QED BY <1>1, ElementOfSeq, HeadTailProperties

\* The exchange's steps keep the types.
LEMMA ExchangeTypes ==
  ASSUME TypeInv, UNCHANGED <<max_events, meta>>,
         Change \/ Send \/ SendTrade \/ Lose \/ Disconnect
  PROVE  TypeInv'
<1> USE Chan, Versions
<1>1. phase' \in Phases /\ Sidecar'
  BY Parts
  DEF TypeInv, Sidecar, Phases, Change, Send, SendTrade, Lose, Disconnect, recorder,
      history
<1>2. CASE Change
  <2>1. PICK key \in Keys, qty \in Lots :
          exch' = Append(exch, [exch[Version + 1] EXCEPT ![key] = qty])
    BY <1>2 DEF Change
  <2> DEFINE b == [exch[Version + 1] EXCEPT ![key] = qty]
  <2>2. b \in Book BY DEF Book
  <2> HIDE DEF b
  <2>3. exch \in Seq(Book) /\ exch # <<>> BY DEF TypeInv
  <2>4. exch' \in Seq(Book) /\ exch' # <<>> /\ Len(exch') = Len(exch) + 1
    BY <2>1, <2>2, <2>3, AppendProperties DEF b
  <2>5. Version' = Version + 1 BY <2>4 DEF Version
  <2>6. Messages(Version) \subseteq Messages(Version + 1) BY DEF Messages
  <2>7. chan \in Seq(Messages(Version + 1)) BY <2>6, SeqMonotonic
  <2>8. Kept
    <3>1. 0 .. Version \subseteq 0 .. Version' BY <2>5
    <3> HIDE Versions, Chan
    <3> QED BY <1>2, <2>4, <2>5, <2>7, <3>1, Parts DEF Kept, Change, recorder, history
  <2> QED BY <1>1, <2>8, KeptTypes
<1>3. CASE Send \/ SendTrade \/ Lose \/ Disconnect
  <2>1. exch' = exch /\ Version' = Version
    BY <1>3 DEF Send, SendTrade, Lose, Disconnect, Version
  <2>2. sent \in 0 .. Version BY DEF TypeInv, TypeOK
  <2>3. sent' \in 0 .. Version
    BY <1>3, <2>2 DEF Send, SendTrade, Lose, Disconnect
  <2>4. lost' \in 0 .. MaxLost /\ trades' \in 0 .. MaxTrades
    <3>1. MaxLost \in Nat /\ MaxTrades \in Nat BY RecorderAssumption
    <3>2. lost \in 0 .. MaxLost /\ trades \in 0 .. MaxTrades BY Parts
    <3> HIDE Versions, Chan
    <3> QED BY <1>3, <3>1, <3>2 DEF Send, SendTrade, Lose, Disconnect, history
  <2>5. chan' \in Seq(Messages(Version))
    <3>1. CASE Send
      <4>1. PICK u \in sent + 1 .. Version : chan' = Append(chan, DiffMsg(sent + 1, u))
        BY <3>1 DEF Send
      <4>2. DiffMsg(sent + 1, u) \in Messages(Version) BY <2>2 DEF DiffMsg, Messages
      <4> QED BY <4>1, <4>2
    <3>2. CASE SendTrade
      <4>1. TradeMsg \in Messages(Version) BY DEF TradeMsg, Messages
      <4> QED BY <3>2, <4>1 DEF SendTrade
    <3>3. CASE Lose \/ Disconnect BY <3>3 DEF Lose, Disconnect
    <3> QED BY <1>3, <3>1, <3>2, <3>3
  <2>6. Kept
    <3> HIDE Versions, Chan
    <3> QED
      BY <1>3, <2>1, <2>3, <2>4, <2>5, Parts
      DEF Kept, Send, SendTrade, Lose, Disconnect, recorder, history
  <2> QED BY <1>1, <2>6, KeptTypes
<1> QED BY <1>2, <1>3

\* LoopOrStop is a point of run() before the sidecar's.
LEMMA LoopOrStopPhase ==
  ASSUME NEW evs
  PROVE  LoopOrStop(evs) \in {"loop", "saving"}
BY DEF LoopOrStop

\* The alternatives of a diff, what they do to the version reached and to the events.
LEMMA RecvDiff ==
  ASSUME Recv, Head(chan).e = "depthUpdate"
  PROVE  LET msg == Head(chan) IN
           /\ chan # <<>> /\ phase = "loop"
           /\ chan' = Tail(chan) /\ seen' = msg.u
           /\ UNCHANGED <<exch, sent, open, trades, file, lost, stale, seed>>
           /\ \/ /\ Follow(msg) \/ Straddle(msg)
                 /\ ApplyDiff(msg) /\ synced' = TRUE
              \/ SkipStale(msg)
              \/ (Gap(msg) \/ MissedSeam(msg)) /\ Resnapshot
BY DEF Recv, Follow, Straddle, Gap, MissedSeam, exchange

\* A trade is recorded as it comes.
LEMMA RecvTrade ==
  ASSUME Recv, Head(chan).e # "depthUpdate"
  PROVE  /\ chan # <<>> /\ phase = "loop" /\ Head(chan).e = "trade"
         /\ chan' = Tail(chan) /\ RecordTrade
         /\ UNCHANGED <<exch, sent, open, trades, file, lost, stale, seed, seen>>
BY DEF Recv, exchange

\* A trade is an event of the books.
LEMMA PrintType == TradePrint \in Event
BY RecorderAssumption DEF TradePrint, Event

\* The loop's steps keep the types.
LEMMA RecvTypes ==
  ASSUME TypeInv, UNCHANGED <<max_events, meta>>, Recv
  PROVE  TypeInv'
<1> DEFINE msg == Head(chan)
<1>1. /\ exch' = exch /\ Version' = Version /\ chan # <<>> /\ phase = "loop"
      /\ chan' = Tail(chan)
      /\ UNCHANGED <<max_events, sent, trades, open, seed, lost, stale>>
  BY DEF Recv, exchange, Version
<1>2. msg \in Messages(Version) /\ Tail(chan) \in Seq(Messages(Version)) BY <1>1, Chan
<1>3. msg.u \in 0 .. Version /\ msg.levels \subseteq Keys /\ msg.e \in {"depthUpdate", "trade"}
  BY <1>2 DEF Messages
<1>4. meta = OldMeta BY <1>1 DEF TypeInv, Sidecar
<1>5. SUFFICES /\ phase' \in {"loop", "saving", "refetch"}
               /\ synced' \in BOOLEAN
               /\ prev_u' \in 0 .. Version /\ last_update_id' \in 0 .. Version
               /\ events' \in Seq(Event) /\ resnapshots' \in Nat
               /\ seen' \in 0 .. Version /\ unseen' \subseteq Keys
  <2>1. Kept BY <1>1, <1>2, <1>5, Parts DEF Kept
  <2>2. phase' \in Phases /\ Sidecar' BY <1>1, <1>4, <1>5 DEF Phases, Sidecar, OldMeta
  <2> QED BY <2>1, <2>2, KeptTypes
<1>6. CASE msg.e # "depthUpdate"
  <2>1. RecordTrade /\ seen' = seen BY <1>6, RecvTrade
  <2>2. events' \in Seq(Event) /\ events' = Append(events, TradePrint)
    BY <2>1, PrintType, Parts DEF RecordTrade
  <2> QED BY <2>1, <2>2, Parts, LoopOrStopPhase DEF RecordTrade
<1>7. CASE msg.e = "depthUpdate"
  <2>0. /\ seen' = msg.u
        /\ \/ ApplyDiff(msg) /\ synced' = TRUE
           \/ SkipStale(msg)
           \/ Resnapshot
    BY <1>7, RecvDiff
  <2> HIDE DEF msg
  <2>1. CASE ApplyDiff(msg) /\ synced' = TRUE
    <3>1. events' = events \o DiffEvents(msg) BY <2>1 DEF ApplyDiff
    <3>2. events' \in Seq(Event) BY <3>1, <1>2, DiffTypes, Parts
    <3>3. /\ prev_u' = msg.u /\ unseen' = unseen \ msg.levels
          /\ phase' = LoopOrStop(events')
          /\ UNCHANGED <<last_update_id, resnapshots>>
      BY <2>1 DEF ApplyDiff
    <3> QED BY <2>0, <2>1, <3>2, <3>3, <1>3, Parts, LoopOrStopPhase
  <2>2. CASE SkipStale(msg)
    BY <2>0, <2>2, <1>1, <1>3, Parts DEF SkipStale, recorder
  <2>3. CASE Resnapshot
    BY <2>0, <2>3, <1>3, Parts DEF Resnapshot
  <2> QED BY <2>0, <2>1, <2>2, <2>3
<1> QED BY <1>6, <1>7

\* The snapshots and the saving keep the types.
LEMMA RunTypes ==
  ASSUME TypeInv, UNCHANGED max_events,
         \/ /\ Subscribe \/ Answer \/ Break \/ Create \/ Write \/ Fail
            /\ UNCHANGED meta
         \/ Describe
  PROVE  TypeInv'
<1>0. Version \in Nat BY Versions
<1>1. CASE Answer /\ UNCHANGED meta
  <2>1. PICK v \in 0 .. Version :
          /\ v < seen => stale < MaxStale
          /\ stale' = IF v < seen THEN stale + 1 ELSE stale
          /\ events' = events \o Seed(FetchSnapshot(v))
          /\ last_update_id' = FetchSnapshot(v).last_update_id
          /\ unseen' = Beyond(v)
    BY <1>1 DEF Answer
  <2>2. events' \in Seq(Event) BY <2>1, SeedTypes, Parts
  <2>3. last_update_id' \in 0 .. Version BY <2>1 DEF FetchSnapshot
  <2>4. unseen' \subseteq Keys BY <2>1 DEF Beyond
  <2>5. stale' \in 0 .. MaxStale
    <3>1. MaxStale \in Nat /\ stale \in 0 .. MaxStale /\ seen \in 0 .. Version
      BY RecorderAssumption, Parts
    <3> QED BY <2>1, <3>1, <1>0
  <2>6. /\ exch' = exch /\ Version' = Version /\ phase \in {"first_fetch", "refetch"}
        /\ synced' = FALSE /\ seed' \in {events', seed}
        /\ phase' \in {"loop", "saving"}
        /\ UNCHANGED <<chan, sent, trades, open, prev_u, resnapshots, seen, lost>>
    BY <1>1, LoopOrStopPhase DEF Answer, exchange, Version
  <2>7. Kept
    BY <1>1, <2>2, <2>3, <2>4, <2>5, <2>6, Parts, Chan DEF Kept
  <2>8. phase' \in Phases /\ Sidecar'
    BY <1>1, <2>6 DEF Phases, Sidecar, TypeInv
  <2> QED BY <2>7, <2>8, KeptTypes
<1>2. CASE Subscribe /\ UNCHANGED meta
  <2>1. exch' = exch /\ Version' = Version BY <1>2 DEF Subscribe, Version
  <2>2. Kept BY <1>0, <1>2, <2>1, Parts, Chan DEF Kept, Subscribe
  <2>3. phase' \in Phases /\ Sidecar' BY <1>2 DEF Subscribe, Phases, Sidecar, TypeInv
  <2> QED BY <2>2, <2>3, KeptTypes
<1>3. CASE Break \/ Create \/ Write \/ Fail \/ Describe
  <2>1. exch' = exch /\ Version' = Version
    BY <1>3 DEF Break, Create, Write, Fail, Describe, exchange, Version
  <2>2. UNCHANGED <<max_events, sent, trades, open, chan, synced, prev_u, last_update_id,
                    events, seed, resnapshots, seen, lost, stale, unseen>>
    BY <1>3 DEF Break, Create, Write, Fail, Describe, exchange, history
  <2>3. Kept BY <2>1, <2>2, Parts, Chan DEF Kept
  <2>4. phase' \in Phases /\ Sidecar'
    <3>1. CASE Describe
      BY <2>2, <3>1 DEF Describe, Phases, Sidecar
    <3>2. CASE (Break \/ Create \/ Write \/ Fail) /\ UNCHANGED meta
      BY <2>2, <3>2
      DEF Break, Create, Write, Fail, Phases, Sidecar, TypeInv, Recording
    <3> QED BY <1>3, <3>1, <3>2 DEF Describe, Break, Create, Write, Fail, Recording
  <2> QED BY <2>3, <2>4, KeptTypes
<1> QED BY <1>1, <1>2, <1>3

\* An empty recording has its types.
LEMMA InitTypes == Init => TypeInv
<1> SUFFICES ASSUME Init PROVE TypeInv OBVIOUS
<1>1. FirstBook \in Book /\ exch = <<FirstBook>> BY RecorderAssumption DEF Book, Init
<1>2. exch \in Seq(Book) /\ exch # <<>> /\ Len(exch) = 1 BY <1>1
<1>3. Version = 0 BY <1>2 DEF Version
<1>4. \A v \in 0 .. Version : exch[v + 1] \in [Keys -> Lots]
  BY <1>1, <1>3 DEF Book
<1>5. MaxTrades \in Nat /\ MaxLost \in Nat /\ MaxStale \in Nat BY RecorderAssumption
<1>6. <<>> \in Seq(Messages(Version)) /\ <<>> \in Seq(Event) OBVIOUS
<1>7. chan \in Seq([e : {"depthUpdate", "trade"}, U : Nat, u : 0 .. Version,
                   levels : SUBSET Keys])
  BY <1>6 DEF Messages, Init
<1>8. /\ sent \in 0 .. Version /\ prev_u \in 0 .. Version /\ seen \in 0 .. Version
      /\ last_update_id \in 0 .. Version
  BY <1>3 DEF Init
<1>9. lost \in 0 .. MaxLost /\ stale \in 0 .. MaxStale /\ trades \in 0 .. MaxTrades
  BY <1>5 DEF Init
<1>10. TypeOK
  <2> HIDE <1>5
  <2> QED BY <1>4, <1>6, <1>7, <1>8, <1>9 DEF Init, TypeOK
<1> QED BY <1>2, <1>10 DEF TypeInv, Sidecar, Init

\* A step keeps the types.
LEMMA TypeStep == TypeInv /\ [Next]_vars => TypeInv'
<1> SUFFICES ASSUME TypeInv, [Next]_vars PROVE TypeInv' OBVIOUS
<1>1. CASE UNCHANGED vars
  BY <1>1
  DEF TypeInv, TypeOK, Sidecar, Version, vars, exchange, recorder, history
<1>2. CASE Next BY <1>2, ExchangeTypes, RecvTypes, RunTypes DEF Next
<1> QED BY <1>1, <1>2

\* TypeOK: every event recorded is one the books take, and no update id is beyond the
\* exchange's version (recorder.rs:352-390, 496-517).
THEOREM RecorderTypes == Spec => []TypeOK
<1>1. Spec => []TypeInv BY InitTypes, TypeStep, PTL DEF Spec
<1>2. TypeInv => TypeOK BY DEF TypeInv
<1> QED BY <1>1, <1>2, PTL

-------------------------------------------------------------------------------
(* --max-events *)

\* The recording goes on only below the limit, or with the first snapshot alone.
StopInv ==
  /\ phase \in {"connecting", "first_fetch"} => events = <<>> /\ seed = <<>>
  /\ phase \in {"loop", "refetch"} => Len(events) < max_events \/ events = seed

\* The events there are can be compared with the limit.
LEMMA Lengths ==
  ASSUME TypeInv
  PROVE  Len(events) \in Nat /\ max_events \in Nat
BY RecorderAssumption DEF TypeInv, TypeOK

\* The loop is left at the limit.
LEMMA LoopBelow ==
  ASSUME TypeInv', UNCHANGED max_events, phase' = LoopOrStop(events')
  PROVE  /\ phase' \in {"loop", "saving"}
         /\ phase' = "loop" => Len(events') < max_events'
<1>1. Len(events') \in Nat /\ max_events' \in Nat
  BY RecorderAssumption DEF TypeInv, TypeOK
<1> QED BY <1>1 DEF LoopOrStop

\* A step leaves the events alone, or appends to those the limit lets it.
LEMMA StopStep ==
  ASSUME TypeInv, TypeInv', StopInv, [Next]_vars
  PROVE  /\ StopInv'
         /\ events' # events => Len(events) < max_events \/ events = seed
<1>1. CASE UNCHANGED vars
  BY <1>1 DEF vars, recorder, history, StopInv
<1>2. CASE Next
  <2>0. max_events' = max_events BY <1>2 DEF Next
  <2>1. CASE Change \/ Send \/ SendTrade \/ Lose \/ Disconnect
    BY <2>0, <2>1
    DEF Change, Send, SendTrade, Lose, Disconnect, recorder, history, StopInv
  <2>2. CASE Subscribe BY <2>0, <2>2 DEF Subscribe, StopInv
  <2>3. CASE Answer
    <3>1. CASE phase = "first_fetch"
      <4>1. seed' = events' /\ phase' = "loop" BY <2>3, <3>1 DEF Answer
      <4> QED BY <3>1, <4>1 DEF StopInv
    <3>2. CASE phase # "first_fetch"
      <4>1. phase = "refetch" /\ phase' = LoopOrStop(events') BY <2>3, <3>2 DEF Answer
      <4> QED BY <4>1, <2>0, LoopBelow DEF StopInv
    <3> QED BY <3>1, <3>2
  <2>4. CASE Recv
    <3>1. phase = "loop" /\ seed' = seed BY <2>4 DEF Recv
    <3>2. \/ phase' = LoopOrStop(events')
          \/ UNCHANGED <<events, phase>>
          \/ events' = events /\ phase' = "refetch"
      <4>1. CASE Head(chan).e # "depthUpdate"
        BY <2>4, <4>1, RecvTrade DEF RecordTrade
      <4>2. CASE Head(chan).e = "depthUpdate"
        BY <2>4, <4>2, RecvDiff DEF ApplyDiff, SkipStale, Resnapshot, recorder
      <4> QED BY <4>1, <4>2
    <3> QED BY <3>1, <3>2, <2>0, LoopBelow DEF StopInv
  <2>5. CASE Break \/ Create \/ Write \/ Fail \/ Describe
    BY <2>5 DEF Break, Create, Write, Fail, Describe, Recording, StopInv
  <2> QED BY <1>2, <2>1, <2>2, <2>3, <2>4, <2>5 DEF Next
<1> QED BY <1>1, <1>2

\* StopsAtMax: once --max-events is reached nothing more is recorded, unless the first
\* snapshot alone reached it (recorder.rs:466, 533-538).
THEOREM MaxEventsStops == Spec => StopsAtMax
<1> DEFINE Inv == TypeInv /\ StopInv
<1>1. Init => Inv BY InitTypes DEF Init, StopInv
<1>2. Inv /\ [Next]_vars => Inv' BY TypeStep, StopStep
<1>3. Inv /\ [Next]_vars
        => [events' # events => Len(events) < max_events \/ events = seed]_vars
  BY TypeStep, StopStep
<1> QED BY <1>1, <1>2, <1>3, PTL DEF Spec, StopsAtMax

-------------------------------------------------------------------------------
(* New snapshots *)

\* A diff of the channel starts at version x, or ends there.
HasStart(ch, x) == \E i \in 1 .. Len(ch) : ch[i].e = "depthUpdate" /\ ch[i].U = x
HasEnd(ch, x) == \E i \in 1 .. Len(ch) : ch[i].e = "depthUpdate" /\ ch[i].u = x

\* The versions, from z to y, that follow on none of what is received up to z or sent
\* up to y: a diff starts there, or the next one will, and the one before it is lost.
Holes(ch, z, y) ==
  {x \in 1 .. y + 1 : /\ HasStart(ch, x) \/ x = y + 1
                      /\ ~(x - 1 = z \/ HasEnd(ch, x - 1))}

\* The diffs of the channel are in order, after those received and up to those sent.
Ordered(ch, z, y) ==
  /\ z <= y
  /\ \A i \in 1 .. Len(ch) :
       ch[i].e = "depthUpdate" => z < ch[i].U /\ ch[i].U <= ch[i].u /\ ch[i].u <= y
  /\ \A i, j \in 1 .. Len(ch) :
       i < j /\ ch[i].e = "depthUpdate" /\ ch[j].e = "depthUpdate" => ch[i].u < ch[j].U

\* The snapshot taken is older than what was received.
Late == phase = "loop" /\ ~synced /\ last_update_id < seen

Fetches == resnapshots + Cardinality(Holes(chan, seen, sent)) + (IF Late THEN 1 ELSE 0)

\* Every snapshot asked for again, and every one that will have to be, is owed to a
\* loss or to a snapshot older than the stream.
OwedInv ==
  /\ Ordered(chan, seen, sent)
  /\ phase = "connecting" => chan = <<>> /\ seen = 0 /\ sent = 0 /\ ~open
  /\ phase = "loop" /\ synced => prev_u = seen
  /\ Fetches <= lost + stale

\* The holes are finitely many.
LEMMA HolesFinite ==
  ASSUME NEW ch, NEW z \in Nat, NEW y \in Nat
  PROVE  IsFiniteSet(Holes(ch, z, y)) /\ Cardinality(Holes(ch, z, y)) \in Nat
<1>1. IsFiniteSet(1 .. y + 1) BY FS_Interval
<1>2. Holes(ch, z, y) \subseteq 1 .. y + 1 BY DEF Holes
<1> QED BY <1>1, <1>2, FS_Subset, FS_CardinalityType

\* The diffs of the channel start and end at versions sent.
LEMMA WithinSent ==
  ASSUME NEW v \in Nat, NEW ch \in Seq(Messages(v)), NEW z \in Nat, NEW y \in Nat,
         Ordered(ch, z, y), NEW x
  PROVE  /\ HasStart(ch, x) => x \in Nat /\ z < x /\ x <= y
         /\ HasEnd(ch, x) => x \in Nat /\ z < x /\ x <= y
<1>1. \A i \in 1 .. Len(ch) : ch[i] \in Messages(v) BY ElementOfSeq
<1>2. \A i \in 1 .. Len(ch) : ch[i].U \in Nat /\ ch[i].u \in Nat BY <1>1 DEF Messages
<1>3. \A i \in 1 .. Len(ch) :
        ch[i].e = "depthUpdate" => z < ch[i].U /\ ch[i].U <= ch[i].u /\ ch[i].u <= y
  BY DEF Ordered
<1> QED BY <1>2, <1>3 DEF HasStart, HasEnd

\* Sending a diff that starts after the last version sent makes no hole, nor fills one.
LEMMA DiffSent ==
  ASSUME NEW v \in Nat, NEW ch \in Seq(Messages(v)), NEW z \in Nat, NEW y \in Nat,
         Ordered(ch, z, y), NEW m \in Messages(v),
         m.e = "depthUpdate", m.U = y + 1, y + 1 <= m.u
  PROVE  /\ Ordered(Append(ch, m), z, m.u)
         /\ Holes(Append(ch, m), z, m.u) = Holes(ch, z, y)
<1> DEFINE c == Append(ch, m)
           n == Len(ch)
<1>1. /\ n \in Nat /\ Len(c) = n + 1 /\ c[n + 1] = m
      /\ \A i \in 1 .. n : c[i] = ch[i]
      /\ \A i \in 1 .. n + 1 : i = n + 1 \/ i \in 1 .. n
      /\ n + 1 \in 1 .. n + 1 /\ \A i \in 1 .. n : i \in 1 .. n + 1
  OBVIOUS
<1>2. \A i \in 1 .. n : ch[i].U \in Nat /\ ch[i].u \in Nat
  <2>1. \A i \in 1 .. n : ch[i] \in Messages(v) BY ElementOfSeq
  <2> QED BY <2>1 DEF Messages
<1>3. m.u \in Nat BY DEF Messages
<1> HIDE DEF c, n
<1>4. \A x : /\ HasStart(c, x) <=> HasStart(ch, x) \/ x = y + 1
             /\ HasEnd(c, x) <=> HasEnd(ch, x) \/ x = m.u
  <2> TAKE x
  <2>1. HasStart(c, x) <=> HasStart(ch, x) \/ x = y + 1 BY <1>1 DEF HasStart, n
  <2>2. HasEnd(c, x) <=> HasEnd(ch, x) \/ x = m.u BY <1>1 DEF HasEnd, n
  <2> QED BY <2>1, <2>2
<1>5. Ordered(c, z, m.u)
  <2>1. \A i \in 1 .. n :
          ch[i].e = "depthUpdate" => z < ch[i].U /\ ch[i].U <= ch[i].u /\ ch[i].u <= y
    BY DEF Ordered, n
  <2>2. \A i, j \in 1 .. n :
          i < j /\ ch[i].e = "depthUpdate" /\ ch[j].e = "depthUpdate" => ch[i].u < ch[j].U
    BY DEF Ordered, n
  <2>3. z <= y BY DEF Ordered
  <2>4. \A i \in 1 .. n + 1 :
          c[i].e = "depthUpdate" => z < c[i].U /\ c[i].U <= c[i].u /\ c[i].u <= m.u
    BY <1>1, <1>2, <1>3, <2>1, <2>3
  <2>5. \A i, j \in 1 .. n + 1 :
          i < j /\ c[i].e = "depthUpdate" /\ c[j].e = "depthUpdate" => c[i].u < c[j].U
    <3> TAKE i, j \in 1 .. n + 1
    <3>1. CASE j \in 1 .. n /\ i \in 1 .. n BY <1>1, <2>2, <3>1
    <3>2. CASE j = n + 1 /\ i \in 1 .. n BY <1>1, <1>2, <2>1, <3>2
    <3>3. CASE i = n + 1 BY <1>1, <3>3
    <3> QED BY <1>1, <3>1, <3>2, <3>3
  <2> QED BY <1>1, <1>3, <2>3, <2>4, <2>5 DEF Ordered
<1>6. ASSUME NEW x \in Nat
      PROVE  x \in Holes(c, z, m.u) <=> x \in Holes(ch, z, y)
  <2>1. HasStart(ch, x) => x <= y BY WithinSent
  <2>2. HasEnd(c, x - 1) <=> HasEnd(ch, x - 1) \/ x - 1 = m.u BY <1>4
  <2>3. HasStart(c, x) <=> HasStart(ch, x) \/ x = y + 1 BY <1>4
  <2>4. x = m.u + 1 => HasEnd(c, x - 1) BY <2>2, <1>3
  <2>5. x <= y + 1 => x - 1 # m.u BY <1>3
  <2>6. x \in Holes(c, z, m.u) <=> /\ x \in 1 .. m.u + 1
                                   /\ HasStart(c, x) \/ x = m.u + 1
                                   /\ ~(x - 1 = z \/ HasEnd(c, x - 1))
    BY DEF Holes
  <2>7. x \in Holes(ch, z, y) <=> /\ x \in 1 .. y + 1
                                  /\ HasStart(ch, x) \/ x = y + 1
                                  /\ ~(x - 1 = z \/ HasEnd(ch, x - 1))
    BY DEF Holes
  <2> QED BY <1>3, <2>1, <2>2, <2>3, <2>4, <2>5, <2>6, <2>7
<1>7. Holes(c, z, m.u) \subseteq Nat /\ Holes(ch, z, y) \subseteq Nat BY DEF Holes
<1> QED BY <1>5, <1>6, <1>7 DEF c

\* A trade in the channel is nothing to the diffs.
LEMMA TradeSent ==
  ASSUME NEW v \in Nat, NEW ch \in Seq(Messages(v)), NEW z \in Nat, NEW y \in Nat,
         Ordered(ch, z, y), NEW m \in Messages(v), m.e # "depthUpdate"
  PROVE  /\ Ordered(Append(ch, m), z, y)
         /\ Holes(Append(ch, m), z, y) = Holes(ch, z, y)
<1> DEFINE c == Append(ch, m)
           n == Len(ch)
<1>1. /\ n \in Nat /\ Len(c) = n + 1 /\ c[n + 1] = m
      /\ \A i \in 1 .. n : c[i] = ch[i]
      /\ \A i \in 1 .. n + 1 : i = n + 1 \/ i \in 1 .. n
      /\ n + 1 \in 1 .. n + 1 /\ \A i \in 1 .. n : i \in 1 .. n + 1
  OBVIOUS
<1> HIDE DEF c, n
<1>2. \A i \in 1 .. n + 1 : c[i].e = "depthUpdate" => i \in 1 .. n /\ c[i] = ch[i]
  BY <1>1
<1>3. \A x : (HasStart(c, x) <=> HasStart(ch, x)) /\ (HasEnd(c, x) <=> HasEnd(ch, x))
  BY <1>1, <1>2 DEF HasStart, HasEnd, n
<1>4. Ordered(c, z, y) BY <1>1, <1>2 DEF Ordered, n
<1> QED BY <1>3, <1>4 DEF Holes, c

\* Losing what follows the last version sent makes one hole at most.
LEMMA DiffsLost ==
  ASSUME NEW v \in Nat, NEW ch \in Seq(Messages(v)), NEW z \in Nat, NEW y \in Nat,
         Ordered(ch, z, y), NEW w \in Nat, y < w
  PROVE  /\ Ordered(ch, z, w)
         /\ Cardinality(Holes(ch, z, w)) <= Cardinality(Holes(ch, z, y)) + 1
<1>1. \A i \in 1 .. Len(ch) : ch[i].U \in Nat /\ ch[i].u \in Nat
  <2>1. \A i \in 1 .. Len(ch) : ch[i] \in Messages(v) BY ElementOfSeq
  <2> QED BY <2>1 DEF Messages
<1>2. Ordered(ch, z, w) BY <1>1 DEF Ordered
<1> DEFINE H == Holes(ch, z, y)
<1>3. Holes(ch, z, w) \subseteq H \cup {w + 1}
  <2> SUFFICES ASSUME NEW x \in Holes(ch, z, w), x # w + 1 PROVE x \in H OBVIOUS
  <2>1. x \in Nat /\ x >= 1 /\ HasStart(ch, x) /\ ~(x - 1 = z \/ HasEnd(ch, x - 1))
    BY DEF Holes
  <2>2. x <= y BY <2>1, WithinSent
  <2> QED BY <2>1, <2>2 DEF Holes
<1>4. IsFiniteSet(H) /\ Cardinality(H) \in Nat BY HolesFinite
<1>5. /\ IsFiniteSet(H \cup {w + 1})
      /\ Cardinality(H \cup {w + 1}) \in {Cardinality(H), Cardinality(H) + 1}
  BY <1>4, FS_AddElement
<1>6. Cardinality(Holes(ch, z, w)) <= Cardinality(H \cup {w + 1})
  BY <1>3, <1>5, FS_Subset
<1>7. Cardinality(Holes(ch, z, w)) \in Nat BY HolesFinite
<1> HIDE DEF H
<1>8. Cardinality(Holes(ch, z, w)) <= Cardinality(H) + 1
  BY <1>4, <1>5, <1>6, <1>7
<1> QED BY <1>2, <1>8 DEF H

\* Receiving a diff takes away the hole before it, if there is one.
LEMMA DiffReceived ==
  ASSUME NEW v \in Nat, NEW ch \in Seq(Messages(v)), NEW z \in Nat, NEW y \in Nat,
         Ordered(ch, z, y), ch # <<>>, Head(ch).e = "depthUpdate"
  PROVE  LET m == Head(ch) IN
           /\ z < m.U /\ m.U <= m.u /\ m.u <= y
           /\ Ordered(Tail(ch), m.u, y)
           /\ Holes(Tail(ch), m.u, y) = Holes(ch, z, y) \ {m.U}
           /\ m.U \in Holes(ch, z, y) <=> m.U # z + 1
<1> DEFINE m == Head(ch)
           t == Tail(ch)
           n == Len(ch)
<1>1. /\ n \in Nat /\ n >= 1 /\ Len(t) = n - 1 /\ ch[1] = m
      /\ \A i \in 1 .. n - 1 : t[i] = ch[i + 1]
  BY HeadTailProperties
<1>2. \A i \in 1 .. n : ch[i].U \in Nat /\ ch[i].u \in Nat
  <2>1. \A i \in 1 .. n : ch[i] \in Messages(v) BY ElementOfSeq
  <2> QED BY <2>1 DEF Messages
<1> HIDE DEF m, t, n
<1>3. \A i \in 1 .. n :
        ch[i].e = "depthUpdate" => z < ch[i].U /\ ch[i].U <= ch[i].u /\ ch[i].u <= y
  BY DEF Ordered, n
<1>4. \A i, j \in 1 .. n :
        i < j /\ ch[i].e = "depthUpdate" /\ ch[j].e = "depthUpdate" => ch[i].u < ch[j].U
  BY DEF Ordered, n
<1>5. 1 \in 1 .. n /\ m.e = "depthUpdate" BY <1>1 DEF m
<1>6. m.U \in Nat /\ m.u \in Nat /\ z < m.U /\ m.U <= m.u /\ m.u <= y
  <2>1. ch[1].e = "depthUpdate" BY <1>1, <1>5
  <2> QED BY <1>1, <1>2, <1>3, <1>5, <2>1
<1>7. \A i \in 2 .. n : ch[i].e = "depthUpdate" => m.u < ch[i].U
  <2> TAKE i \in 2 .. n
  <2>1. i \in 1 .. n /\ 1 < i BY <1>1
  <2> QED BY <1>1, <1>4, <1>5, <2>1
<1>8. \A i \in 1 .. n - 1 : i + 1 \in 2 .. n /\ i + 1 \in 1 .. n /\ t[i] = ch[i + 1]
  BY <1>1
<1>9. \A i \in 1 .. n : i = 1 \/ (i - 1 \in 1 .. n - 1 /\ t[i - 1] = ch[i])
  <2> TAKE i \in 1 .. n
  <2>1. i = 1 \/ (i - 1 \in 1 .. n - 1 /\ (i - 1) + 1 = i) BY <1>1
  <2> QED BY <1>8, <2>1
<1>10. Ordered(t, m.u, y)
  <2>1. \A i \in 1 .. n - 1 :
          t[i].e = "depthUpdate" => m.u < t[i].U /\ t[i].U <= t[i].u /\ t[i].u <= y
    BY <1>3, <1>7, <1>8
  <2>2. \A i, j \in 1 .. n - 1 :
          i < j /\ t[i].e = "depthUpdate" /\ t[j].e = "depthUpdate" => t[i].u < t[j].U
    <3> TAKE i, j \in 1 .. n - 1
    <3>1. i < j => i + 1 < j + 1 BY <1>1
    <3> QED BY <1>4, <1>8, <3>1
  <2> QED BY <1>1, <1>6, <2>1, <2>2 DEF Ordered
<1>11. \A x : /\ HasStart(ch, x) <=> HasStart(t, x) \/ x = m.U
              /\ HasEnd(ch, x) <=> HasEnd(t, x) \/ x = m.u
  <2> TAKE x
  <2>1. HasStart(t, x) => HasStart(ch, x) BY <1>1, <1>8 DEF HasStart, n
  <2>2. HasEnd(t, x) => HasEnd(ch, x) BY <1>1, <1>8 DEF HasEnd, n
  <2>3. HasStart(ch, x) => HasStart(t, x) \/ x = m.U BY <1>1, <1>9 DEF HasStart, n
  <2>4. HasEnd(ch, x) => HasEnd(t, x) \/ x = m.u BY <1>1, <1>9 DEF HasEnd, n
  <2>5. HasStart(ch, m.U) /\ HasEnd(ch, m.u) BY <1>1, <1>5 DEF HasStart, HasEnd, n
  <2> QED BY <2>1, <2>2, <2>3, <2>4, <2>5
<1>12. t \in Seq(Messages(v)) BY HeadTailProperties DEF t
<1>13. ASSUME NEW x \in Nat
       PROVE  x \in Holes(t, m.u, y) <=> x \in Holes(ch, z, y) /\ x # m.U
  <2>1. HasStart(t, x) => m.u < x BY <1>6, <1>10, <1>12, WithinSent
  <2>2. HasEnd(ch, x - 1) <=> HasEnd(t, x - 1) \/ x - 1 = m.u BY <1>11
  <2>3. HasStart(ch, x) <=> HasStart(t, x) \/ x = m.U BY <1>11
  <2>4. x \in Holes(t, m.u, y) <=> /\ x \in 1 .. y + 1
                                   /\ HasStart(t, x) \/ x = y + 1
                                   /\ ~(x - 1 = m.u \/ HasEnd(t, x - 1))
    BY DEF Holes
  <2>5. x \in Holes(ch, z, y) <=> /\ x \in 1 .. y + 1
                                  /\ HasStart(ch, x) \/ x = y + 1
                                  /\ ~(x - 1 = z \/ HasEnd(ch, x - 1))
    BY DEF Holes
  <2> QED BY <1>6, <2>1, <2>2, <2>3, <2>4, <2>5
<1>14. Holes(t, m.u, y) = Holes(ch, z, y) \ {m.U}
  <2>1. Holes(t, m.u, y) \subseteq Nat /\ Holes(ch, z, y) \subseteq Nat BY DEF Holes
  <2> QED BY <1>13, <2>1
<1>15. m.U \in Holes(ch, z, y) <=> m.U # z + 1
  <2>1. HasStart(ch, m.U) BY <1>11
  <2>2. ~HasEnd(t, m.U - 1) BY <1>6, <1>10, <1>12, WithinSent
  <2>3. ~HasEnd(ch, m.U - 1) BY <1>6, <1>11, <2>2
  <2> QED BY <1>6, <2>1, <2>3 DEF Holes
<1> QED BY <1>6, <1>10, <1>14, <1>15 DEF m, t

\* Receiving a trade is nothing to the diffs.
LEMMA TradeReceived ==
  ASSUME NEW v \in Nat, NEW ch \in Seq(Messages(v)), NEW z \in Nat, NEW y \in Nat,
         Ordered(ch, z, y), ch # <<>>, Head(ch).e # "depthUpdate"
  PROVE  /\ Ordered(Tail(ch), z, y)
         /\ Holes(Tail(ch), z, y) = Holes(ch, z, y)
<1> DEFINE t == Tail(ch)
           n == Len(ch)
<1>1. /\ n \in Nat /\ n >= 1 /\ Len(t) = n - 1 /\ ch[1] = Head(ch)
      /\ \A i \in 1 .. n - 1 : t[i] = ch[i + 1]
  BY HeadTailProperties
<1> HIDE DEF t, n
<1>2. \A i \in 1 .. n - 1 : i + 1 \in 1 .. n /\ t[i] = ch[i + 1] BY <1>1
<1>3. \A i \in 1 .. n :
        ch[i].e = "depthUpdate" => i - 1 \in 1 .. n - 1 /\ t[i - 1] = ch[i]
  <2> TAKE i \in 1 .. n
  <2>1. i = 1 \/ (i - 1 \in 1 .. n - 1 /\ (i - 1) + 1 = i) BY <1>1
  <2> QED BY <1>1, <1>2, <2>1
<1>4. \A x : (HasStart(t, x) <=> HasStart(ch, x)) /\ (HasEnd(t, x) <=> HasEnd(ch, x))
  <2> TAKE x
  <2>1. HasStart(t, x) => HasStart(ch, x) BY <1>1, <1>2 DEF HasStart, n
  <2>2. HasEnd(t, x) => HasEnd(ch, x) BY <1>1, <1>2 DEF HasEnd, n
  <2>3. HasStart(ch, x) => HasStart(t, x) BY <1>1, <1>3 DEF HasStart, n
  <2>4. HasEnd(ch, x) => HasEnd(t, x) BY <1>1, <1>3 DEF HasEnd, n
  <2> QED BY <2>1, <2>2, <2>3, <2>4
<1>5. Ordered(t, z, y)
  <2>1. \A i \in 1 .. n :
          ch[i].e = "depthUpdate" => z < ch[i].U /\ ch[i].U <= ch[i].u /\ ch[i].u <= y
    BY DEF Ordered, n
  <2>2. \A i, j \in 1 .. n :
          i < j /\ ch[i].e = "depthUpdate" /\ ch[j].e = "depthUpdate" => ch[i].u < ch[j].U
    BY DEF Ordered, n
  <2>3. \A i \in 1 .. n - 1 :
          t[i].e = "depthUpdate" => z < t[i].U /\ t[i].U <= t[i].u /\ t[i].u <= y
    BY <1>2, <2>1
  <2>4. \A i, j \in 1 .. n - 1 :
          i < j /\ t[i].e = "depthUpdate" /\ t[j].e = "depthUpdate" => t[i].u < t[j].U
    <3> TAKE i, j \in 1 .. n - 1
    <3>1. i < j => i + 1 < j + 1 BY <1>1
    <3> QED BY <1>2, <2>2, <3>1
  <2>5. z <= y BY DEF Ordered
  <2> QED BY <1>1, <2>3, <2>4, <2>5 DEF Ordered
<1> QED BY <1>4, <1>5 DEF Holes, t

\* What OwedInv needs of the types.
LEMMA OwedTypes ==
  ASSUME TypeInv
  PROVE  /\ Version \in Nat /\ sent \in Nat /\ seen \in Nat /\ last_update_id \in Nat
         /\ prev_u \in Nat /\ resnapshots \in Nat /\ lost \in Nat /\ stale \in Nat
         /\ synced \in BOOLEAN
         /\ chan \in Seq(Messages(Version))
         /\ Cardinality(Holes(chan, seen, sent)) \in Nat
         /\ Fetches \in Nat
<1>1. /\ Version \in Nat /\ sent \in Nat /\ seen \in Nat /\ last_update_id \in Nat
      /\ prev_u \in Nat /\ synced \in BOOLEAN
  <2>1. Version \in Nat BY Versions
  <2>2. /\ sent \in 0 .. Version /\ seen \in 0 .. Version
        /\ last_update_id \in 0 .. Version /\ prev_u \in 0 .. Version
        /\ synced \in BOOLEAN
    BY Parts
  <2> QED BY <2>1, <2>2
<1>2. resnapshots \in Nat /\ lost \in Nat /\ stale \in Nat
  <2>1. MaxLost \in Nat /\ MaxStale \in Nat BY RecorderAssumption
  <2>2. resnapshots \in Nat /\ lost \in 0 .. MaxLost /\ stale \in 0 .. MaxStale BY Parts
  <2> QED BY <2>1, <2>2
<1>3. Cardinality(Holes(chan, seen, sent)) \in Nat BY <1>1, HolesFinite
<1>4. Fetches \in Nat BY <1>2, <1>3 DEF Fetches
<1> QED BY <1>1, <1>2, <1>3, <1>4, Chan

\* The exchange's steps: only a loss can make a hole, and it is counted.
LEMMA ExchangeOwed ==
  ASSUME TypeInv, OwedInv, Change \/ Send \/ SendTrade \/ Lose \/ Disconnect
  PROVE  OwedInv'
<1> DEFINE H == Cardinality(Holes(chan, seen, sent))
<1>1. /\ Ordered(chan, seen, sent)
      /\ phase = "connecting" => chan = <<>> /\ seen = 0 /\ sent = 0 /\ ~open
      /\ phase = "loop" /\ synced => prev_u = seen
      /\ resnapshots + H + (IF Late THEN 1 ELSE 0) <= lost + stale
  BY DEF OwedInv, Fetches
<1>2. UNCHANGED <<phase, synced, prev_u, last_update_id, resnapshots, seen, stale>>
  BY DEF Change, Send, SendTrade, Lose, Disconnect, recorder, history
<1>3. Late' = Late BY <1>2 DEF Late
<1>4. open' \in {open, FALSE} /\ phase = "connecting" => ~open'
  BY <1>1, <1>2 DEF Change, Send, SendTrade, Lose, Disconnect
<1>5. phase' = "connecting" => chan' = <<>> /\ seen' = 0 /\ sent' = 0 /\ ~open'
  <2>1. CASE Change \/ Disconnect
    BY <1>1, <1>2, <1>4, <2>1 DEF Change, Disconnect
  <2>2. CASE Send \/ SendTrade \/ Lose
    BY <1>1, <1>2, <2>2 DEF Send, SendTrade, Lose
  <2> QED BY <2>1, <2>2
<1>6. SUFFICES /\ Ordered(chan', seen, sent')
               /\ Cardinality(Holes(chan', seen, sent')) \in Nat
               /\ lost' \in Nat
               /\ Cardinality(Holes(chan', seen, sent')) + lost <= H + lost'
  <2> DEFINE h == Cardinality(Holes(chan', seen, sent'))
             l == IF Late THEN 1 ELSE 0
  <2>1. Fetches' = resnapshots + h + l BY <1>2, <1>3 DEF Fetches
  <2>2. /\ l \in Nat /\ h \in Nat /\ H \in Nat /\ lost' \in Nat /\ lost \in Nat
        /\ stale \in Nat /\ resnapshots \in Nat
        /\ h + lost <= H + lost' /\ resnapshots + H + l <= lost + stale
    BY <1>1, <1>6, OwedTypes
  <2>3. ASSUME NEW r \in Nat, NEW x \in Nat, NEW y \in Nat, NEW z \in Nat,
               NEW a \in Nat, NEW b \in Nat, NEW d \in Nat,
               x + a <= y + b, r + y + z <= a + d
        PROVE  r + x + z <= b + d
    BY <2>3
  <2> HIDE DEF h, H, l
  <2>4. resnapshots + h + l <= lost' + stale BY <2>2, <2>3
  <2> QED BY <1>1, <1>2, <1>5, <1>6, <2>1, <2>4 DEF OwedInv
<1>7. CASE Send
  <2>1. PICK u \in sent + 1 .. Version :
          chan' = Append(chan, DiffMsg(sent + 1, u)) /\ sent' = u
    BY <1>7 DEF Send
  <2> DEFINE m == DiffMsg(sent + 1, u)
  <2>2. m \in Messages(Version) /\ m.e = "depthUpdate" /\ m.U = sent + 1 /\ m.u = u
    BY OwedTypes DEF DiffMsg, Messages
  <2> HIDE DEF m
  <2>3. sent + 1 <= m.u BY <2>1, <2>2, OwedTypes
  <2>4. /\ Ordered(Append(chan, m), seen, m.u)
        /\ Holes(Append(chan, m), seen, m.u) = Holes(chan, seen, sent)
    <3>1. /\ Version \in Nat /\ chan \in Seq(Messages(Version))
          /\ seen \in Nat /\ sent \in Nat
      BY OwedTypes
    <3> QED BY <1>1, <2>2, <2>3, <3>1, DiffSent
  <2>5. chan' = Append(chan, m) /\ sent' = m.u BY <2>1, <2>2 DEF m
  <2>6. lost' = lost BY <1>7 DEF Send, history
  <2> QED BY <2>4, <2>5, <2>6, OwedTypes
<1>8. CASE SendTrade
  <2>1. /\ chan' = Append(chan, TradeMsg) /\ sent' = sent /\ lost' = lost
        /\ TradeMsg \in Messages(Version) /\ TradeMsg.e # "depthUpdate"
    BY <1>8, OwedTypes DEF SendTrade, history, TradeMsg, Messages
  <2>2. /\ Ordered(Append(chan, TradeMsg), seen, sent)
        /\ Holes(Append(chan, TradeMsg), seen, sent) = Holes(chan, seen, sent)
    BY <1>1, <2>1, OwedTypes, TradeSent
  <2> QED BY <2>1, <2>2, OwedTypes
<1>9. CASE Lose
  <2>1. PICK u \in sent + 1 .. Version : sent' = u BY <1>9 DEF Lose
  <2>2. u \in Nat /\ sent < u /\ lost' = lost + 1 /\ chan' = chan
    BY <1>9, <2>1, OwedTypes DEF Lose
  <2>3. /\ Ordered(chan, seen, u)
        /\ Cardinality(Holes(chan, seen, u)) <= H + 1
    BY <1>1, <2>2, OwedTypes, DiffsLost
  <2>4. Cardinality(Holes(chan, seen, u)) \in Nat BY <2>2, OwedTypes, HolesFinite
  <2>5. H \in Nat /\ lost \in Nat BY OwedTypes
  <2> HIDE DEF H
  <2> QED BY <2>1, <2>2, <2>3, <2>4, <2>5
<1>10. CASE Change \/ Disconnect
  <2>1. chan' = chan /\ sent' = sent /\ lost' = lost
    BY <1>10 DEF Change, Disconnect, history
  <2> QED BY <1>1, <2>1, OwedTypes
<1> QED BY <1>7, <1>8, <1>9, <1>10

\* A diff that is not the next one is behind a hole, or behind a late snapshot.
LEMMA RecvOwed ==
  ASSUME TypeInv, OwedInv, Recv
  PROVE  OwedInv'
<1> DEFINE msg == Head(chan)
           h == Holes(chan, seen, sent)
           hh == Holes(chan', seen', sent)
<1>1. /\ phase = "loop" /\ chan # <<>> /\ chan' = Tail(chan)
      /\ UNCHANGED <<sent, open, lost, stale>>
  BY DEF Recv, exchange
<1>2. Ordered(chan, seen, sent) BY DEF OwedInv
<1>3. synced => prev_u = seen BY <1>1 DEF OwedInv
<1>4. resnapshots + Cardinality(h) + (IF Late THEN 1 ELSE 0) <= lost + stale
  BY DEF OwedInv, Fetches
<1>5. /\ Cardinality(h) \in Nat /\ resnapshots \in Nat
      /\ lost \in Nat /\ stale \in Nat /\ seen \in Nat
  BY OwedTypes
<1>6. CASE msg.e # "depthUpdate"
  <2>1. RecordTrade /\ seen' = seen BY <1>6, RecvTrade
  <2>2. Ordered(chan', seen, sent) /\ hh = h
    BY <1>1, <1>2, <1>6, <2>1, OwedTypes, TradeReceived
  <2>3. /\ UNCHANGED <<synced, prev_u, last_update_id, resnapshots>>
        /\ phase' \in {"loop", "saving"}
    BY <2>1, LoopOrStopPhase DEF RecordTrade
  <2>4. Late' => Late BY <1>1, <2>1, <2>3 DEF Late
  <2>5. Fetches' <= Fetches
    <3>1. Fetches' = resnapshots + Cardinality(h) + (IF Late' THEN 1 ELSE 0)
      BY <1>1, <2>2, <2>3 DEF Fetches
    <3>2. Fetches = resnapshots + Cardinality(h) + (IF Late THEN 1 ELSE 0) BY DEF Fetches
    <3> HIDE DEF h
    <3> QED BY <1>5, <2>4, <3>1, <3>2, OwedTypes
  <2>6. Fetches' <= lost + stale
    <3>1. Fetches \in Nat /\ Fetches' \in Nat /\ Fetches <= lost + stale
      <4>1. Fetches' = resnapshots + Cardinality(h) + (IF Late' THEN 1 ELSE 0)
        BY <1>1, <2>2, <2>3 DEF Fetches
      <4> QED BY <1>5, <4>1, OwedTypes DEF OwedInv
    <3> QED BY <2>5, <3>1, OwedTypes
  <2> QED BY <1>1, <1>3, <2>1, <2>2, <2>3, <2>6 DEF OwedInv
<1>7. CASE msg.e = "depthUpdate"
  <2>1. /\ seen' = msg.u
        /\ \/ /\ Follow(msg) \/ Straddle(msg)
              /\ ApplyDiff(msg) /\ synced' = TRUE
           \/ SkipStale(msg)
           \/ (Gap(msg) \/ MissedSeam(msg)) /\ Resnapshot
    BY <1>7, RecvDiff
  <2>2. /\ seen < msg.U /\ msg.U <= msg.u /\ msg.u <= sent
        /\ Ordered(chan', msg.u, sent)
        /\ hh = h \ {msg.U}
        /\ msg.U \in h <=> msg.U # seen + 1
    BY <1>1, <1>2, <1>7, <2>1, OwedTypes, DiffReceived
  <2>3. msg.U \in Nat /\ msg.u \in Nat
    <3>1. msg \in Messages(Version) BY <1>1, Chan
    <3> QED BY <3>1 DEF Messages
  <2>4. /\ Cardinality(hh) \in Nat
        /\ Cardinality(hh) = IF msg.U # seen + 1 THEN Cardinality(h) - 1 ELSE Cardinality(h)
    <3>1. IsFiniteSet(h) BY OwedTypes, HolesFinite
    <3>2. Cardinality(h \ {msg.U}) = IF msg.U \in h THEN Cardinality(h) - 1
                                     ELSE Cardinality(h)
      BY <3>1, FS_RemoveElement
    <3>3. IsFiniteSet(h \ {msg.U}) BY <3>1, FS_RemoveElement
    <3>4. Cardinality(hh) \in Nat BY <2>2, <3>3, FS_CardinalityType
    <3> HIDE DEF h, hh
    <3> QED BY <2>2, <3>2, <3>4
  <2> DEFINE c == Cardinality(h)
             cc == Cardinality(hh)
  <2>5. SUFFICES /\ phase' = "loop" /\ synced' => prev_u' = seen'
                 /\ phase' # "connecting"
                 /\ resnapshots' \in Nat
                 /\ resnapshots' + cc + (IF Late' THEN 1 ELSE 0) <= lost + stale
    <3>1. Fetches' <= lost' + stale' BY <1>1, <2>1, <2>5 DEF Fetches
    <3> QED BY <1>1, <2>1, <2>2, <2>5, <3>1 DEF OwedInv
  <2>6. CASE ApplyDiff(msg) /\ synced' = TRUE
    <3>1. ~Late' BY <2>6 DEF Late
    <3>2. /\ resnapshots' = resnapshots /\ prev_u' = msg.u
          /\ phase' \in {"loop", "saving"}
      BY <2>6, LoopOrStopPhase DEF ApplyDiff
    <3>3. resnapshots + cc <= lost + stale
      <4> HIDE DEF h, hh
      <4> QED BY <1>4, <1>5, <2>3, <2>4
    <3> HIDE DEF cc
    <3>4. cc \in Nat BY <2>4 DEF cc
    <3> QED BY <2>1, <3>1, <3>2, <3>3, <3>4, OwedTypes
  <2>7. CASE SkipStale(msg)
    <3>1. /\ resnapshots' = resnapshots /\ last_update_id' = last_update_id
          /\ ~synced' /\ phase' = phase /\ msg.u <= last_update_id
      BY <2>7 DEF SkipStale, recorder
    <3>2. ~Late' BY <2>1, <2>3, <3>1, OwedTypes DEF Late
    <3>3. resnapshots + cc <= lost + stale
      <4> HIDE DEF h, hh
      <4> QED BY <1>4, <1>5, <2>3, <2>4
    <3> HIDE DEF cc
    <3>4. cc \in Nat BY <2>4 DEF cc
    <3> QED BY <1>1, <3>1, <3>2, <3>3, <3>4, OwedTypes
  <2>8. CASE (Gap(msg) \/ MissedSeam(msg)) /\ Resnapshot
    <3>1. resnapshots' = resnapshots + 1 /\ phase' = "refetch" BY <2>8 DEF Resnapshot
    <3>2. ~Late' BY <3>1 DEF Late
    <3>3. msg.U # seen + 1 \/ Late
      <4>1. CASE Gap(msg) BY <1>3, <4>1 DEF Gap
      <4>2. CASE MissedSeam(msg)
        <5>1. ~synced /\ msg.U > last_update_id + 1 BY <4>2 DEF MissedSeam
        <5>2. msg.U = seen + 1 => last_update_id < seen BY <2>3, <5>1, OwedTypes
        <5> QED BY <1>1, <5>1, <5>2 DEF Late
      <4> QED BY <2>8, <4>1, <4>2
    <3>4. (resnapshots + 1) + cc <= lost + stale
      <4> HIDE DEF h, hh
      <4> QED BY <1>4, <1>5, <2>3, <2>4, <3>3
    <3> HIDE DEF cc
    <3>5. cc \in Nat BY <2>4 DEF cc
    <3> QED BY <3>1, <3>2, <3>4, <3>5, OwedTypes
  <2> QED BY <2>1, <2>6, <2>7, <2>8
<1> QED BY <1>6, <1>7

\* A snapshot older than what was received is late, and it is counted.
LEMMA RunOwed ==
  ASSUME TypeInv, OwedInv,
         Subscribe \/ Answer \/ Break \/ Create \/ Write \/ Fail \/ Describe
  PROVE  OwedInv'
<1>1. /\ Ordered(chan, seen, sent)
      /\ phase = "connecting" => chan = <<>> /\ seen = 0 /\ sent = 0 /\ ~open
      /\ phase = "loop" /\ synced => prev_u = seen
      /\ Fetches <= lost + stale
  BY DEF OwedInv
<1>2. CASE Subscribe
  <2>1. /\ chan' = <<>> /\ seen' = Version /\ sent' = Version /\ phase' = "first_fetch"
        /\ UNCHANGED <<resnapshots, lost, stale>>
    BY <1>1, <1>2 DEF Subscribe
  <2>2. Ordered(<<>>, Version, Version) BY OwedTypes DEF Ordered
  <2>3. Holes(<<>>, Version, Version) = {} BY OwedTypes DEF Holes, HasStart
  <2>4. Cardinality(Holes(chan', seen', sent')) = 0 BY <2>1, <2>3, FS_EmptySet
  <2>5. Fetches' = resnapshots
    <3>1. ~Late' BY <2>1 DEF Late
    <3> QED BY <2>1, <2>4, <3>1, OwedTypes DEF Fetches
  <2>6. resnapshots <= Fetches BY OwedTypes DEF Fetches
  <2>7. Fetches' <= lost + stale BY <1>1, <2>5, <2>6, OwedTypes
  <2> QED BY <2>1, <2>2, <2>7 DEF OwedInv
<1>3. CASE Answer
  <2>1. PICK v \in 0 .. Version :
          /\ stale' = IF v < seen THEN stale + 1 ELSE stale
          /\ last_update_id' = v
    BY <1>3 DEF Answer, FetchSnapshot
  <2>2. /\ phase \in {"first_fetch", "refetch"} /\ phase' \in {"loop", "saving"}
        /\ synced' = FALSE
        /\ UNCHANGED <<chan, sent, open, resnapshots, seen, lost>>
    BY <1>3, LoopOrStopPhase DEF Answer, exchange
  <2>3. v \in Nat BY OwedTypes
  <2>4. Fetches' <= lost + stale'
    <3> DEFINE c == Cardinality(Holes(chan, seen, sent))
    <3>1. Fetches' = resnapshots + c + (IF Late' THEN 1 ELSE 0) BY <2>2 DEF Fetches
    <3>2. Fetches = resnapshots + c
      <4>1. ~Late BY <2>2 DEF Late
      <4> QED BY <4>1, OwedTypes DEF Fetches
    <3>3. Late' => v < seen BY <2>1, <2>2 DEF Late
    <3>4. /\ c \in Nat /\ resnapshots \in Nat /\ lost \in Nat /\ stale \in Nat
          /\ seen \in Nat
      BY OwedTypes
    <3> HIDE DEF c
    <3> QED BY <1>1, <2>1, <2>3, <3>1, <3>2, <3>3, <3>4
  <2> QED BY <1>1, <2>2, <2>4 DEF OwedInv
<1>4. CASE Break \/ Create \/ Write \/ Fail \/ Describe
  <2>1. /\ UNCHANGED <<chan, sent, open, seen, lost, stale, resnapshots, synced, prev_u,
                       last_update_id>>
        /\ phase' \notin {"loop", "connecting"}
    BY <1>4 DEF Break, Create, Write, Fail, Describe, exchange, history
  <2>2. Fetches' <= Fetches
    <3> DEFINE c == Cardinality(Holes(chan, seen, sent))
    <3>1. Fetches' = resnapshots + c
      <4>1. ~Late' BY <2>1 DEF Late
      <4> QED BY <2>1, <4>1, OwedTypes DEF Fetches
    <3>2. Fetches = resnapshots + c + (IF Late THEN 1 ELSE 0) BY DEF Fetches
    <3>3. c \in Nat BY OwedTypes
    <3> HIDE DEF c
    <3> QED BY <3>1, <3>2, <3>3, OwedTypes
  <2>3. Fetches' \in Nat
    <3>1. ~Late' BY <2>1 DEF Late
    <3> QED BY <2>1, <3>1, OwedTypes DEF Fetches
  <2>4. Fetches' <= lost + stale BY <1>1, <2>2, <2>3, OwedTypes
  <2> QED BY <1>1, <2>1, <2>4 DEF OwedInv
<1> QED BY <1>2, <1>3, <1>4

\* At first nothing is owed.
LEMMA OwedInit == Init => OwedInv
<1> SUFFICES ASSUME Init PROVE OwedInv OBVIOUS
<1>1. chan = <<>> /\ seen = 0 /\ sent = 0 /\ ~open /\ phase = "connecting" BY DEF Init
<1>2. Ordered(chan, seen, sent) BY <1>1 DEF Ordered
<1>3. Holes(<<>>, 0, 0) = {} BY DEF Holes, HasStart
<1>4. Cardinality(Holes(chan, seen, sent)) = 0 BY <1>1, <1>3, FS_EmptySet
<1>5. resnapshots = 0 /\ lost = 0 /\ stale = 0 BY DEF Init
<1>6. Fetches = 0
  <2>1. ~Late BY <1>1 DEF Late
  <2> QED BY <1>4, <1>5, <2>1 DEF Fetches
<1> QED BY <1>1, <1>2, <1>5, <1>6 DEF OwedInv

\* A step keeps the account.
LEMMA OwedStep == TypeInv /\ OwedInv /\ [Next]_vars => OwedInv'
<1> SUFFICES ASSUME TypeInv, OwedInv, [Next]_vars PROVE OwedInv' OBVIOUS
<1>1. CASE UNCHANGED vars
  BY <1>1 DEF OwedInv, Fetches, Late, vars, exchange, recorder, history
<1>2. CASE Next BY <1>2, ExchangeOwed, RecvOwed, RunOwed DEF Next
<1> QED BY <1>1, <1>2

\* ResnapshotsOwed: a snapshot is asked for again only because of a diff that was lost
\* or of a snapshot older than the stream, once for each (recorder.rs:496-517).
THEOREM SnapshotsOwed == Spec => []ResnapshotsOwed
<1> DEFINE Inv == TypeInv /\ OwedInv
<1>1. Init => Inv BY InitTypes, OwedInit
<1>2. Inv /\ [Next]_vars => Inv' BY TypeStep, OwedStep
<1>3. Inv => ResnapshotsOwed
  <2> SUFFICES ASSUME TypeInv, OwedInv PROVE ResnapshotsOwed OBVIOUS
  <2>1. resnapshots <= Fetches BY OwedTypes DEF Fetches
  <2> QED BY <2>1, OwedTypes DEF OwedInv, ResnapshotsOwed
<1> QED BY <1>1, <1>2, <1>3, PTL DEF Spec

-------------------------------------------------------------------------------
(* The files *)

\* The file, at each point of run(): the one of before, a part of the new one, all of it.
FileInv ==
  /\ phase \in {"connecting", "first_fetch", "refetch", "loop", "saving", "failed"}
       => file = OldFile
  /\ phase = "writing"
       => \E n \in Nat : n < Pieces(Encode(events)) /\ file = Prefix(Encode(events), n)
  /\ phase \in {"describe", "describing", "done"} => file = Encode(events)

\* The file is written only from its events, and they stand still by then.
LEMMA FileStep ==
  ASSUME TypeInv, FileInv, [Next]_vars
  PROVE  FileInv'
<1>1. events \in Seq(AnyEvent) /\ Len(events) \in Nat BY Parts, Lengths, StreamsAny
<1>2. CASE UNCHANGED vars BY <1>2 DEF FileInv, vars, recorder
<1>3. CASE Change \/ Send \/ SendTrade \/ Lose \/ Disconnect
  BY <1>3 DEF Change, Send, SendTrade, Lose, Disconnect, recorder, FileInv
<1>4. CASE Subscribe \/ Break \/ Fail
  BY <1>4 DEF Subscribe, Break, Fail, Recording, FileInv
<1>5. CASE Answer
  <2>1. file' = file /\ phase \in {"first_fetch", "refetch"} /\ phase' \in {"loop", "saving"}
    BY <1>5, LoopOrStopPhase DEF Answer
  <2> QED BY <2>1 DEF FileInv
<1>6. CASE Recv
  <2>1. file' = file /\ phase = "loop" BY <1>6 DEF Recv
  <2>2. phase' \in {"loop", "saving", "refetch"}
    <3>1. CASE Head(chan).e # "depthUpdate"
      BY <1>6, <3>1, RecvTrade, LoopOrStopPhase DEF RecordTrade
    <3>2. CASE Head(chan).e = "depthUpdate"
      BY <1>6, <2>1, <3>2, RecvDiff, LoopOrStopPhase
      DEF ApplyDiff, SkipStale, Resnapshot, recorder
    <3> QED BY <3>1, <3>2
  <2> QED BY <2>1, <2>2 DEF FileInv
<1>7. CASE Create
  <2>1. file' = NoBytes /\ phase' = "writing" /\ events' = events BY <1>7 DEF Create
  <2>2. NoBytes = Prefix(Encode(events), 0) BY DEF Prefix
  <2>3. 0 < Pieces(Encode(events))
    <3>1. Pieces(Encode(events)) = 1 + 2 * Len(events) BY <1>1, EncodedParts
    <3> QED BY <1>1, <3>1
  <2> QED BY <2>1, <2>2, <2>3 DEF FileInv
<1>8. CASE Write
  <2> DEFINE full == Encode(events)
  <2>1. PICK n \in Pieces(file) + file.rest + 1 .. Pieces(full) :
          /\ file' = Prefix(full, n)
          /\ phase' = IF n = Pieces(full) THEN "describe" ELSE phase
    BY <1>8 DEF Write
  <2>2. phase = "writing" /\ events' = events BY <1>8 DEF Write
  <2>3. Pieces(full) = 1 + 2 * Len(events) BY <1>1, EncodedParts
  <2>4. n \in Nat /\ n <= Pieces(full)
    <3>1. PICK m \in Nat : m < Pieces(full) /\ file = Prefix(full, m)
      BY <2>2 DEF FileInv
    <3>2. Pieces(file) + file.rest = m
      <4>1. CASE m = 0
        <5>1. file.header = <<>> /\ file.records = <<>> /\ file.rest = 0
          BY <3>1, <4>1 DEF Prefix, NoBytes
        <5>2. Pieces(file) = 0 BY <5>1 DEF Pieces
        <5> QED BY <4>1, <5>1, <5>2
      <4>2. CASE m # 0
        <5>1. m <= Pieces(full) BY <1>1, <2>3, <3>1
        <5> DEFINE k == (m - 1) \div 2
        <5>2. /\ k \in Nat /\ file.rest \in {0, 1} /\ m - 1 = 2 * k + file.rest
              /\ file.header = <<Header(Len(events) % CountMod)>> /\ Len(file.records) = k
          BY <1>1, <3>1, <4>2, <5>1, PartParts
        <5> HIDE DEF k, full
        <5>3. Pieces(file) = 1 + 2 * k BY <5>2 DEF Pieces
        <5> QED BY <5>2, <5>3
      <4> QED BY <4>1, <4>2
    <3> HIDE DEF full
    <3> QED BY <1>1, <2>1, <2>3, <3>2
  <2>5. Prefix(full, Pieces(full)) = full BY <1>1, AllPieces
  <2> HIDE DEF full
  <2>6. CASE n = Pieces(full)
    <3>1. phase' = "describe" /\ file' = full BY <2>1, <2>5, <2>6
    <3> QED BY <2>2, <3>1 DEF FileInv, full
  <2>7. CASE n # Pieces(full)
    <3>1. phase' = "writing" /\ n < Pieces(full) BY <1>1, <2>1, <2>2, <2>3, <2>4, <2>7
    <3> QED BY <2>1, <2>2, <2>4, <3>1 DEF FileInv, full
  <2> QED BY <2>6, <2>7
<1>9. CASE Describe
  BY <1>9 DEF Describe, FileInv
<1> QED BY <1>2, <1>3, <1>4, <1>5, <1>6, <1>7, <1>8, <1>9 DEF Next

\* The file of before loads as itself, and the sidecar tells of none but the new one.
LEMMA SavedNow ==
  ASSUME TypeInv, FileInv, Fits(events)
  PROVE  SavedWhole
<1>1. events \in Seq(AnyEvent) /\ phase \in Phases BY Parts, StreamsAny
<1>2. Sidecar BY DEF TypeInv
<1>3. LoadsWhole
  <2>1. CASE phase \in {"connecting", "first_fetch", "refetch", "loop", "saving", "failed"}
    BY <2>1 DEF FileInv, LoadsWhole
  <2>2. CASE phase = "writing"
    <3>1. PICK n \in Nat : n < Pieces(Encode(events)) /\ file = Prefix(Encode(events), n)
      BY <2>2 DEF FileInv
    <3>2. FromBytes(file).ok = FALSE BY <1>1, <3>1, PartRefused
    <3> QED BY <3>2 DEF LoadsWhole
  <2>3. CASE phase \in {"describe", "describing", "done"}
    <3>1. FromBytes(file).events = events BY <1>1, <2>3, WholeLoads DEF FileInv
    <3> QED BY <2>3, <3>1 DEF LoadsWhole
  <2> QED BY <1>1, <2>1, <2>2, <2>3 DEF Phases
<1>4. SidecarTold
  <2>1. CASE phase = "done"
    <3>1. file = Encode(events) BY <2>1 DEF FileInv
    <3>2. FromBytes(file).ok /\ FromBytes(file).events = events
      BY <1>1, <3>1, WholeLoads
    <3>3. meta = <<Len(events)>> BY <1>2, <2>1 DEF Sidecar
    <3>4. Len(FromBytes(file).events) = meta[1] BY <3>2, <3>3
    <3> QED BY <3>2, <3>4 DEF SidecarTold
  <2>2. CASE phase # "done"
    <3>1. meta \in {OldMeta, <<>>} BY <1>2, <2>2 DEF Sidecar
    <3> QED BY <3>1 DEF SidecarTold
  <2> QED BY <2>1, <2>2
<1> QED BY <1>3, <1>4 DEF SavedWhole

\* SavedWhole: wherever the save was cut off, what the files say of this recording is
\* so, if it is not longer than the header can say (corpus.rs:128-141, 163-169,
\* recorder.rs:541-548).
THEOREM SaveIsAtomic == Spec => [](Fits(events) => SavedWhole)
<1> DEFINE Inv == TypeInv /\ FileInv
<1>1. Init => Inv BY InitTypes DEF Init, FileInv
<1>2. Inv /\ [Next]_vars => Inv' BY TypeStep, FileStep
<1>3. Inv => (Fits(events) => SavedWhole) BY SavedNow
<1> QED BY <1>1, <1>2, <1>3, PTL DEF Spec

-------------------------------------------------------------------------------
(* Replaying events *)

\* The levels of a set of keys, listed for bids and then for asks, set those keys.
LEMMA EntriesSet ==
  ASSUME NEW K \in SUBSET Keys, NEW v, \A key \in K : Qty(v, key) \in Lots
  PROVE  Sets(EmitLevels("Bid", SetToSeq(KeyEntries(K, v, "Bid")))
                \o EmitLevels("Ask", SetToSeq(KeyEntries(K, v, "Ask"))),
              K, exch[v + 1], Prices)
<1> DEFINE L(side) == EmitLevels(side, SetToSeq(KeyEntries(K, v, side)))
<1>1. ASSUME NEW side \in Side
      PROVE  /\ L(side) \in Seq(Levels)
             /\ \A i \in 1 .. Len(L(side)) :
                  /\ L(side)[i].side = side
                  /\ <<side, L(side)[i].px>> \in K
                  /\ L(side)[i].qty = Qty(v, <<side, L(side)[i].px>>)
             /\ \A px : <<side, px>> \in K =>
                  \E i \in 1 .. Len(L(side)) : L(side)[i].px = px
  <2> DEFINE KS == {k \in K : k[1] = side}
             f == [key \in KS |-> <<key[2], Qty(v, key)>>]
             T == KeyEntries(K, v, side)
             s == SetToSeq(T)
  <2>1. \A key \in K : key = <<key[1], key[2]>> /\ key[2] \in Prices BY KeyParts
  <2>2. IsFiniteSet(T)
    <3>1. IsFiniteSet(KS) BY KeyParts, FS_Subset
    <3>2. IsFiniteSet({f[key] : key \in KS}) BY <3>1, ImageFinite
    <3>3. T = {f[key] : key \in KS} BY DEF KeyEntries
    <3> HIDE DEF T, f, KS
    <3> QED BY <3>2, <3>3
  <2>3. \A t \in T : /\ t \in Entry /\ <<side, t[1]>> \in K
                     /\ t[2] = Qty(v, <<side, t[1]>>)
    <3> TAKE t \in T
    <3>1. PICK key \in KS : t = <<key[2], Qty(v, key)>> BY DEF KeyEntries
    <3>2. key = <<side, key[2]>> /\ key \in K BY <2>1, <3>1
    <3>3. t[1] = key[2] /\ t[2] = Qty(v, key) BY <3>1
    <3>4. t \in Entry BY <2>1, <3>1, <3>2 DEF Entry
    <3> QED BY <3>2, <3>3, <3>4
  <2>4. T \in SUBSET Entry BY <2>3
  <2>5. L(side) \in Seq(Levels) BY <2>2, <2>4, Emitted
  <2>6. /\ s \in Seq(T)
        /\ \A t \in T : \E i \in 1 .. Len(s) : s[i] = t
    BY <2>2, Listing
  <2> DEFINE M == L(side)
  <2> HIDE DEF s, T, KS, f
  <2>7. M = [i \in 1 .. Len(s) |-> LevelEvent(side, s[i][1], s[i][2])]
    BY <2>6 DEF EmitLevels, s, T
  <2>8. Len(s) \in Nat BY <2>6
  <2>9. Len(M) = Len(s)
    <3>1. M \in Seq(Levels) BY <2>5
    <3>2. DOMAIN M = 1 .. Len(s) BY <2>7
    <3> HIDE DEF M
    <3> QED BY <2>8, <3>1, <3>2
  <2> HIDE DEF M
  <2>10. \A i \in 1 .. Len(s) : s[i] \in T BY <2>6, ElementOfSeq
  <2>11. \A i \in 1 .. Len(s) : M[i] = LevelEvent(side, s[i][1], s[i][2]) BY <2>7
  <2>12. \A i \in 1 .. Len(s) :
           M[i].side = side /\ M[i].px = s[i][1] /\ M[i].qty = s[i][2]
    <3>1. \A x, y : /\ LevelEvent(side, x, y).side = side
                    /\ LevelEvent(side, x, y).px = x /\ LevelEvent(side, x, y).qty = y
      BY DEF LevelEvent
    <3> QED BY <2>11, <3>1
  <2>13. \A i \in 1 .. Len(M) :
           /\ M[i].side = side
           /\ <<side, M[i].px>> \in K
           /\ M[i].qty = Qty(v, <<side, M[i].px>>)
    BY <2>3, <2>9, <2>10, <2>12
  <2>14. ASSUME NEW px, <<side, px>> \in K
         PROVE  \E i \in 1 .. Len(M) : M[i].px = px
    <3>1. <<px, Qty(v, <<side, px>>)>> \in T
      <4>1. <<side, px>> \in {k \in K : k[1] = side} BY <2>14
      <4> QED BY <4>1 DEF T, KeyEntries
    <3>2. PICK i \in 1 .. Len(s) : s[i] = <<px, Qty(v, <<side, px>>)>> BY <2>6, <3>1
    <3>3. M[i].px = px BY <2>12, <3>2
    <3> QED BY <2>9, <3>3
  <2> QED BY <2>5, <2>13, <2>14 DEF M
<1> DEFINE a == L("Bid")
           b == L("Ask")
<1>2. "Bid" \in Side /\ "Ask" \in Side BY DEF Side
<1>3. /\ a \in Seq(Levels)
      /\ \A i \in 1 .. Len(a) : /\ a[i].side = "Bid" /\ <<"Bid", a[i].px>> \in K
                                /\ a[i].qty = Qty(v, <<"Bid", a[i].px>>)
      /\ \A px : <<"Bid", px>> \in K => \E i \in 1 .. Len(a) : a[i].px = px
  BY <1>1, <1>2
<1>4. /\ b \in Seq(Levels)
      /\ \A i \in 1 .. Len(b) : /\ b[i].side = "Ask" /\ <<"Ask", b[i].px>> \in K
                                /\ b[i].qty = Qty(v, <<"Ask", b[i].px>>)
      /\ \A px : <<"Ask", px>> \in K => \E i \in 1 .. Len(b) : b[i].px = px
  BY <1>1, <1>2
<1> HIDE DEF L
<1> HIDE DEF a, b
<1> DEFINE c == a \o b
<1>5. /\ c \in Seq(Levels) /\ Len(c) = Len(a) + Len(b)
      /\ Len(a) \in Nat /\ Len(b) \in Nat
      /\ \A i \in 1 .. Len(a) + Len(b) : c[i] = IF i <= Len(a) THEN a[i] ELSE b[i - Len(a)]
  BY <1>3, <1>4, ConcatProperties
<1> HIDE DEF c
<1>6. \A i \in 1 .. Len(c) : \/ i \in 1 .. Len(a) /\ c[i] = a[i]
                             \/ i - Len(a) \in 1 .. Len(b) /\ c[i] = b[i - Len(a)]
  BY <1>5
<1>7. \A i \in 1 .. Len(c) : /\ <<c[i].side, c[i].px>> \in K
                             /\ c[i].qty = Qty(v, <<c[i].side, c[i].px>>)
  <2> TAKE i \in 1 .. Len(c)
  <2>1. CASE i \in 1 .. Len(a) /\ c[i] = a[i]
    <3>1. /\ a[i].side = "Bid" /\ <<"Bid", a[i].px>> \in K
          /\ a[i].qty = Qty(v, <<"Bid", a[i].px>>)
      BY <1>3, <2>1
    <3> QED BY <2>1, <3>1
  <2>2. CASE i - Len(a) \in 1 .. Len(b) /\ c[i] = b[i - Len(a)]
    <3> DEFINE x == b[i - Len(a)]
    <3>1. /\ x.side = "Ask" /\ <<"Ask", x.px>> \in K /\ x.qty = Qty(v, <<"Ask", x.px>>)
      BY <1>4, <2>2
    <3> HIDE DEF x
    <3>2. c[i] = x BY <2>2 DEF x
    <3> QED BY <3>1, <3>2
  <2> QED BY <1>6, <2>1, <2>2
<1>8. \A i \in 1 .. Len(a) : i \in 1 .. Len(c) /\ c[i] = a[i] BY <1>5
<1>9. \A i \in 1 .. Len(b) : i + Len(a) \in 1 .. Len(c) /\ c[i + Len(a)] = b[i]
  <2> TAKE i \in 1 .. Len(b)
  <2>1. /\ i + Len(a) \in 1 .. Len(a) + Len(b) /\ ~(i + Len(a) <= Len(a))
        /\ (i + Len(a)) - Len(a) = i
    BY <1>5
  <2> QED BY <1>5, <2>1
<1>10. \A key \in K : \E i \in 1 .. Len(c) : key = <<c[i].side, c[i].px>>
  <2> TAKE key \in K
  <2>1. key = <<key[1], key[2]>> /\ key[1] \in Side BY KeyParts
  <2>2. CASE key[1] = "Bid"
    <3>1. <<"Bid", key[2]>> \in K BY <2>1, <2>2
    <3>2. PICK i \in 1 .. Len(a) : a[i].px = key[2] BY <1>3, <3>1
    <3> QED BY <1>3, <1>8, <2>1, <2>2, <3>2
  <2>3. CASE key[1] = "Ask"
    <3>1. <<"Ask", key[2]>> \in K BY <2>1, <2>3
    <3>2. PICK i \in 1 .. Len(b) : b[i].px = key[2] BY <1>4, <3>1
    <3>3. i + Len(a) \in 1 .. Len(c) /\ c[i + Len(a)] = b[i] BY <1>9
    <3>4. key = <<c[i + Len(a)].side, c[i + Len(a)].px>> BY <1>4, <2>1, <2>3, <3>2, <3>3
    <3> QED BY <3>3, <3>4
  <2> QED BY <2>1, <2>2, <2>3 DEF Side
<1>11. Sets(c, K, exch[v + 1], Prices)
  <2>1. c \in Seq(LevelsAt(Prices)) BY <1>5, LevelsThere
  <2> QED BY <1>7, <1>10, <2>1 DEF Sets, Qty
<1> QED BY <1>11 DEF c, a, b, L

-------------------------------------------------------------------------------
(* The exchange's book, rebuilt *)

\* A book shows the levels of m, but the hidden ones.
Shows(b, m, hidden) ==
  /\ IsBook(b, Prices)
  /\ \A side \in Side, px \in Prices :
       QtyIn(b, side, px) = IF <<side, px>> \in Keys \ hidden THEN m[<<side, px>>] ELSE 0

\* The levels that the versions U .. u change, of the versions in e.
Changed(e, U, u) ==
  {key \in Keys : \E v \in U .. u : e[v + 1][key] # e[(v - 1) + 1][key]}

\* The events show the version reached; each diff of the channel has what its versions
\* change.
RebuildInv ==
  /\ phase \in {"loop", "refetch"} => events # <<>>
  /\ events # <<>> => Shows(Replay(events), exch[Reached + 1], unseen)
  /\ \A i \in 1 .. Len(chan) :
       chan[i].e = "depthUpdate" => chan[i].levels = Changed(exch, chan[i].U, chan[i].u)

\* A book that shows a version is the one RebuildsExchange asks for.
LEMMA ShownRebuilds ==
  ASSUME NEW evs, NEW v, NEW hidden, Shows(Replay(evs), exch[v + 1], hidden)
  PROVE  Rebuilds(evs, v, hidden)
<1> DEFINE b == Replay(evs)
<1>1. ASSUME NEW side \in Side
      PROVE  b[side] = [px \in {key[2] : key \in {k \in Keys \ hidden :
                                                    k[1] = side /\ Qty(v, k) # 0}} |->
                          Qty(v, <<side, px>>)]
  <2> DEFINE K == {k \in Keys \ hidden : k[1] = side /\ Qty(v, k) # 0}
             D == {key[2] : key \in K}
             m == b[side]
             g == [px \in D |-> Qty(v, <<side, px>>)]
  <2>1. IsLevels(m, Prices) BY DEF Shows, IsBook
  <2>2. \A px \in Prices :
          (IF px \in DOMAIN m THEN m[px] ELSE 0) =
            IF <<side, px>> \in Keys \ hidden THEN Qty(v, <<side, px>>) ELSE 0
    BY DEF Shows, QtyIn, Qty
  <2> HIDE DEF m, b
  <2>3. ASSUME NEW px \in D
        PROVE  px \in DOMAIN m /\ m[px] = Qty(v, <<side, px>>)
    <3>1. PICK key \in K : px = key[2] OBVIOUS
    <3>2. key = <<side, px>> /\ px \in Prices BY <3>1, KeyParts
    <3>3. <<side, px>> \in Keys \ hidden /\ Qty(v, <<side, px>>) # 0 BY <3>1, <3>2
    <3> QED BY <2>2, <3>2, <3>3
  <2>4. ASSUME NEW px \in DOMAIN m
        PROVE  px \in D
    <3>1. px \in Prices /\ m[px] # 0 BY <2>1 DEF IsLevels
    <3>2. <<side, px>> \in Keys \ hidden /\ Qty(v, <<side, px>>) # 0 BY <2>2, <3>1
    <3>3. <<side, px>> \in K BY <3>2
    <3>4. <<side, px>>[2] = px OBVIOUS
    <3> HIDE DEF K
    <3> QED BY <3>3, <3>4
  <2> HIDE DEF D, K
  <2>5. DOMAIN m = D BY <2>3, <2>4
  <2>6. m = [px \in D |-> m[px]] BY <2>1, <2>5 DEF IsLevels
  <2>7. \A px \in D : m[px] = Qty(v, <<side, px>>) BY <2>3
  <2>8. m = g BY <2>6, <2>7
  <2> QED BY <2>8 DEF m, D, K
<1> QED BY <1>1 DEF Rebuilds

\* A Clear empties the book.
LEMMA ClearReplayed ==
  ASSUME NEW evs \in Seq(Event)
  PROVE  Append(evs, ClearEvent) \in Seq(Event) /\ Replay(Append(evs, ClearEvent)) = NoLevels
<1>1. ClearEvent \in Event BY DEF Event
<1>2. Replay(Append(evs, ClearEvent)) = Play(Replay(evs), ClearEvent)
  BY <1>1, ReplayAppend
<1>3. Play(Replay(evs), ClearEvent) = NoLevels
  <2>1. ClearEvent.kind = "Clear" BY DEF ClearEvent
  <2> QED BY <2>1 DEF Play, NoLevels
<1> QED BY <1>1, <1>2, <1>3

\* Whatever was recorded before, a snapshot shows its version, but what is beyond its
\* limit (recorder.rs:352-366).
LEMMA SnapshotShows ==
  ASSUME TypeInv, NEW v \in 0 .. Version
  PROVE  Shows(Replay(events \o Seed(FetchSnapshot(v))), exch[v + 1], Beyond(v))
<1> DEFINE K == {key \in Keys : key[2] \in Listed(v, key[1])}
           a == EmitLevels("Bid", LevelsOf(v, "Bid"))
           b == EmitLevels("Ask", LevelsOf(v, "Ask"))
           pre == Append(events, ClearEvent)
<1>0. events \in Seq(Event) BY Parts
<1>1. \A side \in Side :
        KeyEntries(K, v, side) = {<<p, Qty(v, <<side, p>>)>> : p \in Listed(v, side)}
  <2> TAKE side \in Side
  <2> DEFINE T == {<<p, Qty(v, <<side, p>>)>> : p \in Listed(v, side)}
             KS == {k \in K : k[1] = side}
  <2>1. ASSUME NEW t \in KeyEntries(K, v, side)
        PROVE  t \in T
    <3>1. PICK key \in KS : t = <<key[2], Qty(v, key)>> BY DEF KeyEntries
    <3>2. key = <<side, key[2]>> /\ key[2] \in Listed(v, side) BY <3>1, KeyParts
    <3> QED BY <3>1, <3>2
  <2>2. ASSUME NEW t \in T
        PROVE  t \in KeyEntries(K, v, side)
    <3>1. PICK p \in Listed(v, side) : t = <<p, Qty(v, <<side, p>>)>> OBVIOUS
    <3> DEFINE key == <<side, p>>
    <3>2. key \in Keys /\ key[1] = side /\ key[2] = p BY ListedParts
    <3>3. key \in KS BY <3>1, <3>2
    <3>4. t = <<key[2], Qty(v, key)>> BY <3>1
    <3> HIDE DEF key, KS
    <3>5. t \in {<<k[2], Qty(v, k)>> : k \in KS} BY <3>3, <3>4
    <3> QED BY <3>5 DEF KeyEntries, KS
  <2> QED BY <2>1, <2>2
<1>2. Sets(a \o b, K, exch[v + 1], Prices)
  <2>1. \A key \in K : Qty(v, key) \in Lots BY Versions
  <2>2. K \in SUBSET Keys OBVIOUS
  <2> HIDE DEF K
  <2>3. "Bid" \in Side /\ "Ask" \in Side BY DEF Side
  <2>4. /\ a = EmitLevels("Bid", SetToSeq(KeyEntries(K, v, "Bid")))
        /\ b = EmitLevels("Ask", SetToSeq(KeyEntries(K, v, "Ask")))
    BY <1>1, <2>3 DEF LevelsOf
  <2> HIDE DEF a, b
  <2> QED BY <2>1, <2>2, <2>4, EntriesSet
<1>3. events \o Seed(FetchSnapshot(v)) = pre \o (a \o b)
  <2>1. Seed(FetchSnapshot(v)) = <<ClearEvent>> \o a \o b BY DEF Seed, FetchSnapshot
  <2>2. a \in Seq(Event) /\ b \in Seq(Event)
    <3>1. Levels \subseteq Event BY DEF Event
    <3> QED BY <3>1, SeedTypes, SeqMonotonic
  <2> HIDE DEF a, b
  <2>3. <<ClearEvent>> \in Seq(Event) /\ ClearEvent \in Event BY DEF Event
  <2>4. a \o b \in Seq(Event) BY <2>2
  <2>5. <<ClearEvent>> \o a \o b = <<ClearEvent>> \o (a \o b)
    BY <2>2, <2>3, ConcatAssociative
  <2>6. events \o (<<ClearEvent>> \o (a \o b)) = (events \o <<ClearEvent>>) \o (a \o b)
    <3> DEFINE c == a \o b
               d == <<ClearEvent>>
    <3>1. c \in Seq(Event) /\ d \in Seq(Event) BY <2>3, <2>4
    <3> HIDE DEF c, d
    <3>2. (events \o d) \o c = events \o (d \o c) BY <1>0, <3>1, ConcatAssociative
    <3> QED BY <3>2 DEF c, d
  <2>7. pre = events \o <<ClearEvent>> BY <1>0, <2>3, AppendIsConcat
  <2> QED BY <2>1, <2>5, <2>6, <2>7
<1>4. pre \in Seq(Event) /\ Replay(pre) = NoLevels BY <1>0, ClearReplayed
<1> DEFINE all == pre \o (a \o b)
<1> HIDE DEF pre, a, b
<1>5. IsBook(Replay(pre), Prices) BY <1>4, EmptyBook
<1> HIDE DEF K
<1>6. /\ IsBook(Replay(all), Prices)
      /\ \A side \in Side, px \in Prices :
           QtyIn(Replay(all), side, px) =
             IF <<side, px>> \in K THEN Qty(v, <<side, px>>)
             ELSE QtyIn(Replay(pre), side, px)
  BY <1>2, <1>4, <1>5, ReplaySets DEF Qty
<1> HIDE DEF all
<1>7. ASSUME NEW side \in Side, NEW px \in Prices
      PROVE  QtyIn(Replay(all), side, px) =
               IF <<side, px>> \in Keys \ Beyond(v) THEN exch[v + 1][<<side, px>>] ELSE 0
  <2> DEFINE key == <<side, px>>
  <2>1. key[1] = side /\ key[2] = px OBVIOUS
  <2>2. QtyIn(Replay(pre), side, px) = 0 BY <1>4, EmptyBook
  <2>3. key \in K <=> key \in Keys /\ px \in Listed(v, side) BY <2>1 DEF K
  <2>4. key \in Beyond(v) <=> key \in Keys /\ Qty(v, key) # 0 /\ px \notin Listed(v, side)
    BY <2>1 DEF Beyond
  <2>5. QtyIn(Replay(all), side, px) = IF key \in K THEN Qty(v, key) ELSE 0
    BY <1>6, <2>2
  <2>6. Qty(v, key) = exch[v + 1][key] BY DEF Qty
  <2> HIDE DEF key
  <2>7. QtyIn(Replay(all), side, px) =
          IF key \in Keys \ Beyond(v) THEN exch[v + 1][key] ELSE 0
    BY <2>3, <2>4, <2>5, <2>6
  <2> QED BY <2>7 DEF key
<1>8. Shows(Replay(all), exch[v + 1], Beyond(v)) BY <1>6, <1>7 DEF Shows
<1> QED BY <1>3, <1>8 DEF all

\* A level that no version of U .. u changes is as it was at any version from U - 1 on.
LEMMA StillThere ==
  ASSUME NEW e, NEW U \in Nat, NEW u \in Nat, 1 <= U,
         NEW r \in Nat, U <= r + 1, r <= u,
         NEW key \in Keys, key \notin Changed(e, U, u)
  PROVE  e[r + 1][key] = e[u + 1][key]
<1> DEFINE S == {d \in 0 .. u - r : e[(u - d) + 1][key] # e[u + 1][key]}
<1>1. S = {}
  <2> SUFFICES ASSUME S # {} PROVE FALSE OBVIOUS
  <2>1. PICK d \in S : \A k \in S : d <= k
    <3>1. S \subseteq Nat OBVIOUS
    <3> HIDE DEF S
    <3> QED BY <3>1, LeastOf
  <2>2. d \in 0 .. u - r /\ e[(u - d) + 1][key] # e[u + 1][key] BY <2>1
  <2>3. d # 0
    <3>1. d = 0 => (u - d) + 1 = u + 1 OBVIOUS
    <3> QED BY <2>2, <3>1
  <2>4. d - 1 \in 0 .. u - r /\ ~(d <= d - 1) BY <2>2, <2>3
  <2>5. e[(u - (d - 1)) + 1][key] = e[u + 1][key]
    <3>1. d - 1 \notin S BY <2>1, <2>4
    <3> QED BY <2>4, <3>1
  <2> DEFINE v == u - (d - 1)
  <2>6. v \in U .. u /\ (v - 1) + 1 = (u - d) + 1 BY <2>2, <2>3
  <2> HIDE DEF v, S
  <2>7. e[v + 1][key] = e[(v - 1) + 1][key] BY <2>6 DEF Changed
  <2>8. e[v + 1][key] = e[u + 1][key] BY <2>5 DEF v
  <2> QED BY <2>2, <2>6, <2>7, <2>8
<1>2. u - r \in 0 .. u - r /\ (u - (u - r)) + 1 = r + 1 OBVIOUS
<1>3. e[(u - (u - r)) + 1][key] = e[u + 1][key] BY <1>1, <1>2
<1> QED BY <1>2, <1>3

\* A diff that leaves no hole takes the book from the version it shows to the diff's
\* last one, and the levels it has are hidden no more (recorder.rs:368-390).
LEMMA DiffShows ==
  ASSUME TypeInv, NEW msg \in Messages(Version), 1 <= msg.U,
         NEW r \in 0 .. Version, msg.U <= r + 1, r <= msg.u,
         msg.levels = Changed(exch, msg.U, msg.u),
         Shows(Replay(events), exch[r + 1], unseen)
  PROVE  Shows(Replay(events \o DiffEvents(msg)), exch[msg.u + 1], unseen \ msg.levels)
<1> DEFINE K == msg.levels
           v == msg.u
           more == DiffEvents(msg)
           all == events \o more
<1>0. events \in Seq(Event) BY Parts
<1>1. Version \in Nat /\ msg.U \in Nat /\ v \in 0 .. Version /\ K \in SUBSET Keys
  BY Versions DEF Messages
<1>2. Sets(more, K, exch[v + 1], Prices)
  <2>1. \A key \in K : Qty(v, key) \in Lots BY <1>1, Versions
  <2>2. more = EmitLevels("Bid", SetToSeq(KeyEntries(K, v, "Bid")))
                 \o EmitLevels("Ask", SetToSeq(KeyEntries(K, v, "Ask")))
    BY DiffTypes DEF Entries
  <2> HIDE DEF K, v, more
  <2> QED BY <1>1, <2>1, <2>2, EntriesSet
<1>3. IsBook(Replay(events), Prices) BY DEF Shows
<1> HIDE DEF more
<1>4. /\ IsBook(Replay(all), Prices)
      /\ \A side \in Side, px \in Prices :
           QtyIn(Replay(all), side, px) =
             IF <<side, px>> \in K THEN Qty(v, <<side, px>>)
             ELSE QtyIn(Replay(events), side, px)
  BY <1>0, <1>2, <1>3, ReplaySets DEF Qty
<1> HIDE DEF all
<1>5. \A key \in Keys : key \notin K => exch[r + 1][key] = exch[v + 1][key]
  BY <1>1, StillThere
<1>6. ASSUME NEW side \in Side, NEW px \in Prices
      PROVE  QtyIn(Replay(all), side, px) =
               IF <<side, px>> \in Keys \ (unseen \ K) THEN exch[v + 1][<<side, px>>] ELSE 0
  <2> DEFINE key == <<side, px>>
             q == QtyIn(Replay(events), side, px)
  <2>1. q = IF key \in Keys \ unseen THEN exch[r + 1][key] ELSE 0 BY DEF Shows
  <2>2. QtyIn(Replay(all), side, px) = IF key \in K THEN Qty(v, key) ELSE q BY <1>4
  <2>3. Qty(v, key) = exch[v + 1][key] BY DEF Qty
  <2> HIDE DEF key, q, K, v
  <2>4. CASE key \in K BY <1>1, <2>2, <2>3, <2>4 DEF key
  <2>5. CASE key \notin K
    <3>1. QtyIn(Replay(all), side, px) = q BY <2>2, <2>5
    <3>2. key \in Keys => exch[r + 1][key] = exch[v + 1][key] BY <1>5, <2>5
    <3>3. key \in Keys \ (unseen \ K) <=> key \in Keys \ unseen BY <2>5
    <3>4. q = IF key \in Keys \ (unseen \ K) THEN exch[v + 1][key] ELSE 0
      BY <2>1, <3>2, <3>3
    <3> QED BY <3>1, <3>4 DEF key
  <2> QED BY <2>4, <2>5
<1>7. Shows(Replay(all), exch[v + 1], unseen \ K) BY <1>4, <1>6 DEF Shows
<1> QED BY <1>7 DEF all, more

\* The diffs of the channel have what their versions change.
ChanInv ==
  \A i \in 1 .. Len(chan) :
    chan[i].e = "depthUpdate" => chan[i].levels = Changed(exch, chan[i].U, chan[i].u)

\* The exchange's steps leave what was recorded and the versions there were.
LEMMA ExchangeRebuilt ==
  ASSUME TypeInv, OwedInv, RebuildInv, Change \/ Send \/ SendTrade \/ Lose \/ Disconnect
  PROVE  RebuildInv'
<1>1. UNCHANGED <<phase, events, synced, prev_u, last_update_id, unseen>>
  BY DEF Change, Send, SendTrade, Lose, Disconnect, recorder, history
<1>2. Reached' = Reached BY <1>1 DEF Reached
<1>3. Reached \in 0 .. Version /\ Version \in Nat BY Parts, Versions DEF Reached
<1>4. /\ phase \in {"loop", "refetch"} => events # <<>>
      /\ events # <<>> => Shows(Replay(events), exch[Reached + 1], unseen)
      /\ ChanInv
  BY DEF RebuildInv, ChanInv
<1>5. SUFFICES exch'[Reached + 1] = exch[Reached + 1] /\ ChanInv'
  BY <1>1, <1>2, <1>4, <1>5 DEF RebuildInv, ChanInv
<1>6. CASE Change
  <2>1. PICK b : exch' = Append(exch, b) BY <1>6 DEF Change
  <2>2. /\ exch \in Seq(Book) /\ Len(exch) = Version + 1 /\ chan' = chan
    BY <1>6, Parts, Versions DEF Change
  <2>3. \A v \in 0 .. Version : exch'[v + 1] = exch[v + 1]
    <3>1. \A v \in 0 .. Version : v + 1 \in 1 .. Len(exch) BY <1>3, <2>2
    <3>2. \A i \in 1 .. Len(exch) : Append(exch, b)[i] = exch[i] BY <2>2
    <3> QED BY <2>1, <3>1, <3>2
  <2>4. ASSUME NEW i \in 1 .. Len(chan), chan[i].e = "depthUpdate"
        PROVE  Changed(exch', chan[i].U, chan[i].u) = Changed(exch, chan[i].U, chan[i].u)
    <3>1. chan[i].U \in Nat /\ 1 <= chan[i].U /\ chan[i].u \in 0 .. Version
      <4>1. chan[i] \in Messages(Version) BY Chan
      <4>2. seen < chan[i].U /\ seen \in Nat BY <2>4, OwedTypes DEF OwedInv, Ordered
      <4>3. chan[i].U \in Nat /\ chan[i].u \in 0 .. Version BY <4>1 DEF Messages
      <4> QED BY <4>2, <4>3
    <3>2. \A v \in chan[i].U .. chan[i].u :
            exch'[v + 1] = exch[v + 1] /\ exch'[(v - 1) + 1] = exch[(v - 1) + 1]
      <4>1. \A v \in chan[i].U .. chan[i].u : v \in 0 .. Version /\ v - 1 \in 0 .. Version
        BY <1>3, <3>1
      <4> QED BY <2>3, <4>1
    <3> QED BY <3>2 DEF Changed
  <2>5. ChanInv' BY <1>4, <2>2, <2>4 DEF ChanInv
  <2> QED BY <1>3, <2>3, <2>5
<1>7. CASE Send \/ SendTrade
  <2>1. exch' = exch BY <1>7 DEF Send, SendTrade
  <2>2. PICK m \in Messages(Version) :
          /\ chan' = Append(chan, m)
          /\ m.e = "depthUpdate" => m.levels = Changed(exch, m.U, m.u)
    <3>1. CASE Send
      <4>1. PICK u \in sent + 1 .. Version : chan' = Append(chan, DiffMsg(sent + 1, u))
        BY <3>1 DEF Send
      <4>2. DiffMsg(sent + 1, u) \in Messages(Version)
        BY OwedTypes DEF DiffMsg, Messages
      <4>3. DiffMsg(sent + 1, u).levels = Changed(exch, sent + 1, u)
        BY DEF DiffMsg, Changed, Qty
      <4>4. DiffMsg(sent + 1, u).U = sent + 1 /\ DiffMsg(sent + 1, u).u = u BY DEF DiffMsg
      <4> QED BY <4>1, <4>2, <4>3, <4>4
    <3>2. CASE SendTrade
      <4>1. TradeMsg \in Messages(Version) /\ TradeMsg.e # "depthUpdate"
        BY OwedTypes DEF TradeMsg, Messages
      <4> QED BY <3>2, <4>1 DEF SendTrade
    <3> QED BY <1>7, <3>1, <3>2
  <2>3. chan \in Seq(Messages(Version)) BY Chan
  <2>4. /\ Len(Append(chan, m)) = Len(chan) + 1 /\ Len(chan) \in Nat
        /\ Append(chan, m)[Len(chan) + 1] = m
        /\ \A i \in 1 .. Len(chan) : Append(chan, m)[i] = chan[i]
    BY <2>3
  <2>5. \A i \in 1 .. Len(chan) + 1 : i \in 1 .. Len(chan) \/ i = Len(chan) + 1
    BY <2>4
  <2>6. ChanInv' BY <1>4, <2>1, <2>2, <2>4, <2>5 DEF ChanInv
  <2> QED BY <2>1, <2>6
<1>8. CASE Lose \/ Disconnect
  <2>1. exch' = exch /\ chan' = chan BY <1>8 DEF Lose, Disconnect
  <2> QED BY <1>4, <2>1 DEF ChanInv
<1> QED BY <1>6, <1>7, <1>8

\* What is received is recorded only where it follows.
LEMMA RecvRebuilt ==
  ASSUME TypeInv, OwedInv, RebuildInv, Recv
  PROVE  RebuildInv'
<1> DEFINE msg == Head(chan)
           r == Reached
<1>1. /\ exch' = exch /\ chan # <<>> /\ chan' = Tail(chan) /\ phase = "loop"
  BY DEF Recv, exchange
<1>2. /\ events # <<>> /\ Shows(Replay(events), exch[r + 1], unseen) /\ ChanInv
  BY <1>1 DEF RebuildInv, ChanInv
<1>3. events \in Seq(Event) /\ chan \in Seq(Messages(Version)) /\ Version \in Nat
  BY Parts, Chan, Versions
<1>4. /\ Len(Tail(chan)) = Len(chan) - 1 /\ Len(chan) \in Nat /\ Len(chan) >= 1
      /\ msg = chan[1]
      /\ \A i \in 1 .. Len(Tail(chan)) : Tail(chan)[i] = chan[i + 1]
  BY <1>1, <1>3, HeadTailProperties
<1>5. ChanInv'
  <2>1. \A i \in 1 .. Len(chan) - 1 : i + 1 \in 1 .. Len(chan) BY <1>4
  <2> QED BY <1>1, <1>2, <1>4, <2>1 DEF ChanInv
<1>6. SUFFICES events' # <<>> /\ Shows(Replay(events'), exch[Reached' + 1], unseen')
  BY <1>1, <1>5, <1>6 DEF RebuildInv, ChanInv
<1>7. CASE msg.e # "depthUpdate"
  <2>1. RecordTrade BY <1>7, RecvTrade
  <2>2. /\ events' = Append(events, TradePrint) /\ unseen' = unseen /\ Reached' = r
    BY <2>1 DEF RecordTrade, Reached
  <2>3. Replay(Append(events, TradePrint)) = Play(Replay(events), TradePrint)
    BY <1>3, PrintType, ReplayAppend
  <2>4. TradePrint.kind = "Trade"
    <3>1. TradePrint \in Trades BY RecorderAssumption DEF TradePrint
    <3> QED BY <3>1 DEF Trades, TradeEvent
  <2>5. Play(Replay(events), TradePrint) = Replay(events) BY <2>4 DEF Play
  <2>6. events' # <<>> BY <1>3, <2>2, PrintType, AppendProperties
  <2> QED BY <1>2, <2>2, <2>3, <2>5, <2>6
<1>8. CASE msg.e = "depthUpdate"
  <2>1. \/ /\ Follow(msg) \/ Straddle(msg)
           /\ ApplyDiff(msg) /\ synced' = TRUE
        \/ SkipStale(msg)
        \/ Resnapshot
    BY <1>8, RecvDiff
  <2>2. CASE (Follow(msg) \/ Straddle(msg)) /\ ApplyDiff(msg) /\ synced' = TRUE
    <3>1. msg \in Messages(Version) BY <1>1, Chan
    <3>2. msg.U \in Nat /\ msg.u \in 0 .. Version BY <3>1 DEF Messages
    <3>3. 1 <= msg.U /\ msg.U <= msg.u
      <4>1. 1 \in 1 .. Len(chan) /\ chan[1].e = "depthUpdate" BY <1>4, <1>8
      <4>2. seen < chan[1].U /\ chan[1].U <= chan[1].u BY <4>1 DEF OwedInv, Ordered
      <4> QED BY <1>4, <3>2, <4>2, OwedTypes
    <3>4. msg.levels = Changed(exch, msg.U, msg.u)
      <4>1. 1 \in 1 .. Len(chan) /\ chan[1].e = "depthUpdate" BY <1>4, <1>8
      <4> QED BY <1>2, <1>4, <4>1 DEF ChanInv
    <3>5. r \in 0 .. Version BY Parts DEF Reached
    <3>6. msg.U <= r + 1 /\ r <= msg.u
      <4>1. CASE Follow(msg)
        <5>1. r = prev_u /\ msg.U = prev_u + 1 BY <4>1 DEF Follow, Reached
        <5> HIDE DEF r, msg
        <5> QED BY <1>3, <3>2, <3>3, <3>5, <5>1
      <4>2. CASE Straddle(msg)
        <5>1. r = last_update_id /\ msg.u > last_update_id /\ msg.U <= last_update_id + 1
          BY <4>2 DEF Straddle, Reached
        <5> HIDE DEF r, msg
        <5> QED BY <1>3, <3>2, <3>5, <5>1
      <4> QED BY <2>2, <4>1, <4>2
    <3>7. Shows(Replay(events \o DiffEvents(msg)), exch[msg.u + 1], unseen \ msg.levels)
      <4> HIDE DEF r, msg
      <4> QED BY <1>2, <3>1, <3>3, <3>4, <3>5, <3>6, DiffShows
    <3>8. /\ events' = events \o DiffEvents(msg) /\ unseen' = unseen \ msg.levels
          /\ Reached' = msg.u
      BY <2>2 DEF ApplyDiff, Reached
    <3>9. events \o DiffEvents(msg) # <<>>
      <4>1. DiffEvents(msg) \in Seq(Event) BY <3>1, DiffTypes
      <4> QED BY <1>2, <1>3, <4>1, ConcatEqualIffEmpty
    <3> QED BY <3>7, <3>8, <3>9
  <2>3. CASE SkipStale(msg) \/ Resnapshot
    <3>1. events' = events /\ unseen' = unseen /\ Reached' = r
      BY <2>3 DEF SkipStale, Resnapshot, recorder, Reached
    <3> QED BY <1>2, <3>1
  <2> QED BY <2>1, <2>2, <2>3
<1> QED BY <1>7, <1>8

\* A snapshot shows its version, and nothing else is recorded.
LEMMA RunRebuilt ==
  ASSUME TypeInv, RebuildInv,
         Subscribe \/ Answer \/ Break \/ Create \/ Write \/ Fail \/ Describe
  PROVE  RebuildInv'
<1>1. exch' = exch /\ chan' = chan
  BY DEF Subscribe, Answer, Break, Create, Write, Fail, Describe, exchange
<1>2. CASE Answer
  <2>1. PICK v \in 0 .. Version :
          /\ events' = events \o Seed(FetchSnapshot(v))
          /\ last_update_id' = v /\ unseen' = Beyond(v)
    BY <1>2 DEF Answer, FetchSnapshot
  <2>2. Reached' = v BY <1>2, <2>1 DEF Answer, Reached
  <2>3. Shows(Replay(events'), exch'[Reached' + 1], unseen')
    BY <1>1, <2>1, <2>2, SnapshotShows
  <2>4. events' # <<>>
    <3>1. /\ events \in Seq(Event) /\ Seed(FetchSnapshot(v)) \in Seq(Event)
          /\ Len(Seed(FetchSnapshot(v))) # 0
      BY Parts, SeedTypes
    <3>2. Seed(FetchSnapshot(v)) # <<>> BY <3>1
    <3> QED BY <2>1, <3>1, <3>2, ConcatEqualIffEmpty
  <2> QED BY <1>1, <2>3, <2>4 DEF RebuildInv
<1>3. CASE Subscribe \/ Break \/ Create \/ Write \/ Fail \/ Describe
  <2>1. /\ UNCHANGED <<events, synced, prev_u, last_update_id, unseen>>
        /\ phase' \notin {"loop", "refetch"}
    BY <1>3
    DEF Subscribe, Break, Create, Write, Fail, Describe, history
  <2>2. Reached' = Reached BY <2>1 DEF Reached
  <2> QED BY <1>1, <2>1, <2>2 DEF RebuildInv
<1> QED BY <1>2, <1>3

\* RebuildsExchange: the events recorded always rebuild the exchange's book at the
\* version they have reached, whatever was lost, late or old, except for levels beyond
\* the limit of the last snapshot and untouched since (recorder.rs:494-518).
THEOREM BookRebuilt == Spec => []RebuildsExchange
<1> DEFINE Inv == TypeInv /\ OwedInv /\ RebuildInv
<1>1. Init => Inv
  <2> SUFFICES ASSUME Init PROVE RebuildInv BY InitTypes, OwedInit
  <2> QED BY DEF Init, RebuildInv
<1>2. Inv /\ [Next]_vars => Inv'
  <2> SUFFICES ASSUME TypeInv, OwedInv, RebuildInv, [Next]_vars PROVE Inv' OBVIOUS
  <2>1. TypeInv' /\ OwedInv' BY TypeStep, OwedStep
  <2>2. CASE UNCHANGED vars
    BY <2>1, <2>2 DEF RebuildInv, Reached, vars, exchange, recorder, history
  <2>3. CASE Next BY <2>1, <2>3, ExchangeRebuilt, RecvRebuilt, RunRebuilt DEF Next
  <2> QED BY <2>2, <2>3
<1>3. Inv => RebuildsExchange BY ShownRebuilds DEF RebuildInv, RebuildsExchange
<1> QED BY <1>1, <1>2, <1>3, PTL DEF Spec
===============================================================================
