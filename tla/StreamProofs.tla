------------------------------ MODULE StreamProofs ------------------------------
(***************************************************************************)
(* Proofs about streams of events, whoever emits them: the file that       *)
(* Corpus makes of one, and the book that PriceLevels builds from one, for *)
(* every size of a record and every range of its counts.                   *)
(***************************************************************************)
EXTENDS Corpus, PriceLevels, FiniteSetTheorems, SequenceTheorems, TLAPS

\* The events there are, of any price and quantity (event.rs:12-76).
AnyLevel == {LevelEvent(side, px, qty) : side \in Side, px \in Int, qty \in Int}
AnyTrade == {TradeEvent(side, px, qty) : side \in Side, px \in Int, qty \in Int}
AnyEvent == AnyLevel \cup AnyTrade \cup {ClearEvent}

\* The events of a model's prices and quantities are among them.
LEMMA EventsAny == Levels \subseteq AnyLevel /\ Event \subseteq AnyEvent
BY BookEventsAssumption DEF Levels, Trades, Event, AnyLevel, AnyTrade, AnyEvent

\* So is a stream of them.
LEMMA StreamsAny == ASSUME NEW evs \in Seq(Event) PROVE evs \in Seq(AnyEvent)
BY EventsAny, SeqMonotonic

-------------------------------------------------------------------------------
(* The file *)

\* The codes of the variants, and back (corpus.rs:89-104).
LEMMA Codes ==
  /\ \A side \in Side : /\ Code(Sides, side) \in {0, 1}
                        /\ Decodes(Sides, Code(Sides, side))
                        /\ Decoded(Sides, Code(Sides, side)) = side
  /\ \A kind \in {"Level", "Trade", "Clear"} :
       /\ Code(Kinds, kind) \in {0, 1, 2}
       /\ Decodes(Kinds, Code(Kinds, kind))
       /\ Decoded(Kinds, Code(Kinds, kind)) = kind
<1>1. DOMAIN Sides = {1, 2} /\ Sides[1] = "Bid" /\ Sides[2] = "Ask" BY DEF Sides
<1>2. /\ DOMAIN Kinds = {1, 2, 3}
      /\ Kinds[1] = "Level" /\ Kinds[2] = "Trade" /\ Kinds[3] = "Clear"
  BY DEF Kinds
<1>3. ASSUME NEW side \in Side
      PROVE  /\ Code(Sides, side) \in {0, 1}
             /\ Decodes(Sides, Code(Sides, side))
             /\ Decoded(Sides, Code(Sides, side)) = side
  <2> DEFINE at == CHOOSE i \in DOMAIN Sides : Sides[i] = side
  <2>1. \E i \in DOMAIN Sides : Sides[i] = side BY <1>1 DEF Side
  <2>2. at \in {1, 2} /\ Sides[at] = side BY <1>1, <2>1
  <2>3. Code(Sides, side) = at - 1 BY DEF Code
  <2> HIDE DEF at
  <2>4. (at - 1) + 1 = at /\ at - 1 \in {0, 1} BY <2>2
  <2> QED BY <1>1, <2>2, <2>3, <2>4 DEF Decodes, Decoded
<1>4. ASSUME NEW kind \in {"Level", "Trade", "Clear"}
      PROVE  /\ Code(Kinds, kind) \in {0, 1, 2}
             /\ Decodes(Kinds, Code(Kinds, kind))
             /\ Decoded(Kinds, Code(Kinds, kind)) = kind
  <2> DEFINE at == CHOOSE i \in DOMAIN Kinds : Kinds[i] = kind
  <2>1. \E i \in DOMAIN Kinds : Kinds[i] = kind BY <1>2
  <2>2. at \in {1, 2, 3} /\ Kinds[at] = kind BY <1>2, <2>1
  <2>3. Code(Kinds, kind) = at - 1 BY DEF Code
  <2> HIDE DEF at
  <2>4. (at - 1) + 1 = at /\ at - 1 \in {0, 1, 2} BY <2>2
  <2> QED BY <1>2, <2>2, <2>3, <2>4 DEF Decodes, Decoded
<1> QED BY <1>3, <1>4

\* A record decodes to the event it encodes (corpus.rs:106-126).
LEMMA RecordDecodes ==
  ASSUME NEW ev \in AnyEvent
  PROVE  /\ ~BadRecord(EncodeRecord(ev))
         /\ EventFromParts(EncodeRecord(ev)) = ev
<1> DEFINE rec == EncodeRecord(ev)
<1>1. /\ rec.px = ev.px /\ rec.qty = ev.qty
      /\ rec.side = Code(Sides, ev.side) /\ rec.kind = Code(Kinds, ev.kind)
  BY DEF EncodeRecord
<1>2. ev.side \in Side /\ ev.kind \in {"Level", "Trade", "Clear"}
  BY DEF AnyEvent, AnyLevel, AnyTrade, LevelEvent, TradeEvent, ClearEvent, Side
<1>3. /\ Decodes(Sides, rec.side) /\ Decoded(Sides, rec.side) = ev.side
      /\ Decodes(Kinds, rec.kind) /\ Decoded(Kinds, rec.kind) = ev.kind
  BY <1>1, <1>2, Codes
<1> HIDE DEF rec
<1>4. ~BadRecord(rec) BY <1>3 DEF BadRecord
<1>5. CASE ev.kind = "Level"
  <2>1. EventFromParts(rec) = LevelEvent(ev.side, ev.px, ev.qty)
    BY <1>1, <1>3, <1>5 DEF EventFromParts
  <2>2. ev \in AnyLevel BY <1>5 DEF AnyEvent, AnyLevel, AnyTrade, TradeEvent, ClearEvent
  <2> QED BY <1>4, <2>1, <2>2 DEF AnyLevel, LevelEvent, rec
<1>6. CASE ev.kind = "Trade"
  <2>1. EventFromParts(rec) = TradeEvent(ev.side, ev.px, ev.qty)
    BY <1>1, <1>3, <1>6 DEF EventFromParts
  <2>2. ev \in AnyTrade BY <1>6 DEF AnyEvent, AnyLevel, AnyTrade, LevelEvent, ClearEvent
  <2> QED BY <1>4, <2>1, <2>2 DEF AnyTrade, TradeEvent, rec
<1>7. CASE ev.kind = "Clear"
  <2>1. EventFromParts(rec) = ClearEvent BY <1>1, <1>3, <1>7 DEF EventFromParts
  <2>2. ev = ClearEvent BY <1>7 DEF AnyEvent, AnyLevel, AnyTrade, LevelEvent, TradeEvent
  <2> QED BY <1>4, <2>1, <2>2 DEF rec
<1> QED BY <1>2, <1>5, <1>6, <1>7

\* Fewer records are fewer bytes, by a whole record.
LEMMA Shorter ==
  ASSUME NEW a \in Nat, NEW b \in Nat, NEW c \in Nat, a < b
  PROVE  a * c + c <= b * c
<1>1. PICK d \in Nat : b = a + 1 + d
  <2>1. b - a - 1 \in Nat /\ b = a + 1 + (b - a - 1) OBVIOUS
  <2> QED BY <2>1
<1>2. b * c = a * c + c + d * c BY <1>1
<1>3. d * c \in Nat /\ a * c \in Nat OBVIOUS
<1> QED BY <1>2, <1>3

\* The corpus of events, and the file of it.
LEMMA EncodedParts ==
  ASSUME NEW evs \in Seq(AnyEvent)
  PROVE  LET full == Encode(evs) IN
           /\ full.header = <<Header(Len(evs) % CountMod)>>
           /\ full.records \in Seq({EncodeRecord(ev) : ev \in AnyEvent})
           /\ Len(full.records) = Len(evs) /\ DOMAIN full.records = 1 .. Len(evs)
           /\ \A i \in 1 .. Len(evs) : full.records[i] = EncodeRecord(evs[i])
           /\ full.rest = 0
           /\ Pieces(full) = 1 + 2 * Len(evs)
           /\ full = [header |-> full.header, records |-> full.records, rest |-> 0]
<1> DEFINE recs == [i \in DOMAIN evs |-> EncodeRecord(evs[i])]
           R == {EncodeRecord(ev) : ev \in AnyEvent}
           head == <<Header(Len(evs) % CountMod)>>
<1>1. DOMAIN evs = 1 .. Len(evs) /\ Len(evs) \in Nat /\ \A i \in 1 .. Len(evs) : evs[i] \in AnyEvent
  BY ElementOfSeq
<1>2. \A i \in 1 .. Len(evs) : EncodeRecord(evs[i]) \in R BY <1>1
<1>3. recs = [i \in 1 .. Len(evs) |-> EncodeRecord(evs[i])] BY <1>1
<1> HIDE DEF R
<1>4. recs \in Seq(R) /\ Len(recs) = Len(evs) /\ DOMAIN recs = 1 .. Len(evs)
  BY <1>1, <1>2, <1>3
<1>5. \A i \in 1 .. Len(evs) : recs[i] = EncodeRecord(evs[i]) BY <1>1
<1>6. Len(head) = 1 OBVIOUS
<1>7. Encode(evs) = [header |-> head, records |-> recs, rest |-> 0] BY DEF Encode
<1> HIDE DEF recs, head
<1>8. Encode(evs).header = head /\ Encode(evs).records = recs /\ Encode(evs).rest = 0
  BY <1>7
<1>9. Pieces(Encode(evs)) = 1 + 2 * Len(evs)
  <2>1. Pieces(Encode(evs)) = Len(head) + 2 * Len(recs) BY <1>8 DEF Pieces
  <2> QED BY <1>4, <1>6, <2>1 DEF head
<1> QED BY <1>4, <1>5, <1>7, <1>8, <1>9 DEF R, head

\* The count in the header is the number of records of a corpus that fits in it.
Fits(evs) == Len(evs) * RECORD_SIZE < CountMod

\* The header of a corpus that fits says how many bytes follow.
LEMMA FitsCount ==
  ASSUME NEW evs \in Seq(AnyEvent), Fits(evs)
  PROVE  /\ Len(evs) % CountMod = Len(evs)
         /\ Len(evs) * RECORD_SIZE \in Nat
         /\ RECORD_SIZE \in Nat /\ RECORD_SIZE >= 2
<1>1. RECORD_SIZE \in Nat /\ RECORD_SIZE >= 2 /\ CountMod \in Nat /\ CountMod # 0
  BY CorpusAssumption
<1>2. Len(evs) \in Nat OBVIOUS
<1>3. Len(evs) * RECORD_SIZE \in Nat BY <1>1, <1>2
<1>4. Len(evs) <= Len(evs) * RECORD_SIZE
  <2>1. CASE Len(evs) = 0 BY <1>3, <2>1
  <2>2. CASE Len(evs) # 0
    <3>1. 1 < RECORD_SIZE BY <1>1
    <3>2. 1 * Len(evs) + Len(evs) <= RECORD_SIZE * Len(evs) BY <1>1, <1>2, <3>1, Shorter
    <3>3. RECORD_SIZE * Len(evs) = Len(evs) * RECORD_SIZE BY <1>1, <1>2
    <3> QED BY <1>2, <1>3, <3>2, <3>3
  <2> QED BY <2>1, <2>2
<1>5. Len(evs) < CountMod BY <1>1, <1>2, <1>3, <1>4 DEF Fits
<1>6. Len(evs) % CountMod = Len(evs) BY <1>1, <1>2, <1>5
<1> QED BY <1>1, <1>3, <1>6

\* The whole file of a corpus that fits loads as its events (corpus.rs:128-141).
LEMMA WholeLoads ==
  ASSUME NEW evs \in Seq(AnyEvent), Fits(evs)
  PROVE  FromBytes(Encode(evs)).ok /\ FromBytes(Encode(evs)).events = evs
<1> DEFINE full == Encode(evs)
           h == Header(Len(evs) % CountMod)
<1>1. /\ full.header = <<h>> /\ Len(full.records) = Len(evs) /\ full.rest = 0
      /\ DOMAIN full.records = 1 .. Len(evs)
      /\ \A i \in 1 .. Len(evs) : full.records[i] = EncodeRecord(evs[i])
  BY EncodedParts
<1>2. /\ h.magic = MAGIC /\ h.version = VERSION /\ h.record_size = RECORD_SIZE
      /\ h.count = Len(evs)
  BY FitsCount DEF Header
<1> HIDE DEF full, h
<1>3. full.header # <<>> /\ full.header[1] = h BY <1>1
<1>4. ~BadLength(full)
  <2>1. full.header[1].count * RECORD_SIZE = Len(evs) * RECORD_SIZE BY <1>2, <1>3
  <2>2. Len(full.records) * RECORD_SIZE + full.rest = Len(evs) * RECORD_SIZE
    BY <1>1, FitsCount
  <2>3. ~(Len(evs) * RECORD_SIZE >= CountMod)
    <3>1. CountMod \in Nat BY CorpusAssumption
    <3> QED BY <3>1, FitsCount DEF Fits
  <2> QED BY <2>1, <2>2, <2>3 DEF BadLength
<1>5. \A i \in 1 .. Len(evs) : evs[i] \in AnyEvent BY ElementOfSeq
<1>6. ~(\E i \in DOMAIN full.records : BadRecord(full.records[i]))
  BY <1>1, <1>5, RecordDecodes
<1>7. FromBytes(full) =
        [ok |-> TRUE, error |-> "",
         events |-> [i \in DOMAIN full.records |-> EventFromParts(full.records[i])]]
  BY <1>2, <1>3, <1>4, <1>6 DEF FromBytes
<1>8. [i \in DOMAIN full.records |-> EventFromParts(full.records[i])] = evs
  <2>1. \A i \in 1 .. Len(evs) : EventFromParts(full.records[i]) = evs[i]
    BY <1>1, <1>5, RecordDecodes
  <2>2. evs = [i \in 1 .. Len(evs) |-> evs[i]] OBVIOUS
  <2>3. [i \in DOMAIN full.records |-> EventFromParts(full.records[i])]
          = [i \in 1 .. Len(evs) |-> evs[i]]
    BY <1>1, <2>1
  <2> QED BY <2>2, <2>3
<1> DEFINE loaded == [i \in DOMAIN full.records |-> EventFromParts(full.records[i])]
           none == ""
<1>9. loaded = evs BY <1>8
<1> HIDE DEF loaded, none
<1>10. FromBytes(full) = [ok |-> TRUE, error |-> none, events |-> loaded]
  BY <1>7 DEF loaded, none
<1>11. FromBytes(full).ok = TRUE BY <1>10
<1>12. FromBytes(full).events = evs BY <1>9, <1>10
<1>13. FromBytes(full).ok BY <1>11, Zenon
<1> QED BY <1>12, <1>13 DEF full

\* What is refused is not a corpus that loads.
LEMMA RefusedNotOk == \A error : Refused(error).ok = FALSE
BY DEF Refused

\* What a part of the file is: its header, and whole records up to the piece.
LEMMA PartParts ==
  ASSUME NEW evs \in Seq(AnyEvent), NEW n \in Nat, n # 0, n <= Pieces(Encode(evs))
  PROVE  LET part == Prefix(Encode(evs), n)
             k == (n - 1) \div 2
         IN /\ k \in Nat /\ part.rest \in {0, 1} /\ n - 1 = 2 * k + part.rest
            /\ part.header = <<Header(Len(evs) % CountMod)>>
            /\ Len(part.records) = k
<1> DEFINE full == Encode(evs)
           part == Prefix(full, n)
           k == (n - 1) \div 2
           r == (n - 1) % 2
           h == <<Header(Len(evs) % CountMod)>>
           R == {EncodeRecord(ev) : ev \in AnyEvent}
           f == full.records
<1>1. /\ full.header = h /\ Len(f) = Len(evs) /\ f \in Seq(R)
      /\ full = [header |-> h, records |-> f, rest |-> 0]
      /\ n <= 1 + 2 * Len(evs)
  BY EncodedParts
<1>2. k \in Nat /\ r \in {0, 1} /\ n - 1 = 2 * k + r OBVIOUS
<1>3. part = [full EXCEPT !.records = SubSeq(@, 1, k), !.rest = r] BY DEF Prefix
<1> HIDE DEF full, part, k, r, h, R
<1>4. Len(evs) \in Nat OBVIOUS
<1>5. k <= Len(evs) BY <1>1, <1>2, <1>4
<1>6. part = [header |-> h, records |-> SubSeq(f, 1, k), rest |-> r] BY <1>1, <1>3
<1> HIDE DEF f
<1>7. \A i \in 1 .. k : f[i] \in R
  <2>1. \A i \in 1 .. k : i \in 1 .. Len(f) BY <1>1, <1>2, <1>4, <1>5
  <2> QED BY <1>1, <2>1, ElementOfSeq
<1>8. Len(SubSeq(f, 1, k)) = k
  <2>1. 1 \in Int /\ k \in Int BY <1>2
  <2>2. Len(SubSeq(f, 1, k)) = IF 1 <= k THEN k - 1 + 1 ELSE 0
    BY <1>7, <2>1, SubSeqProperties
  <2> QED BY <1>2, <2>2
<1>9. part.header = h /\ part.records = SubSeq(f, 1, k) /\ part.rest = r BY <1>6
<1>10. Len(part.records) = k BY <1>8, <1>9
<1>11. /\ k \in Nat /\ part.rest \in {0, 1} /\ n - 1 = 2 * k + part.rest
       /\ part.header = h /\ Len(part.records) = k
  BY <1>2, <1>9, <1>10
<1> QED BY <1>11 DEF full, part, k, h

\* Before the last piece is written the file of a corpus that fits does not load: its
\* length is not the one its header tells (corpus.rs:128-141).
LEMMA PartRefused ==
  ASSUME NEW evs \in Seq(AnyEvent), Fits(evs),
         NEW n \in Nat, n < Pieces(Encode(evs))
  PROVE  FromBytes(Prefix(Encode(evs), n)).ok = FALSE
<1> DEFINE part == Prefix(Encode(evs), n)
           h == Header(Len(evs) % CountMod)
           k == (n - 1) \div 2
<1>0. Pieces(Encode(evs)) = 1 + 2 * Len(evs) /\ Len(evs) \in Nat
  <2>1. Pieces(Encode(evs)) = 1 + 2 * Len(evs) BY EncodedParts
  <2> QED BY <2>1
<1>1. CASE n = 0
  <2>1. part.header = <<>> BY <1>1 DEF Prefix, NoBytes
  <2> HIDE DEF part
  <2>2. FromBytes(part) = Refused("Truncated") BY <2>1 DEF FromBytes
  <2> QED BY <2>2, RefusedNotOk DEF part
<1>2. CASE n # 0
  <2>1. /\ k \in Nat /\ part.rest \in {0, 1} /\ n - 1 = 2 * k + part.rest
        /\ part.header = <<h>> /\ Len(part.records) = k
    <3>1. n <= Pieces(Encode(evs)) BY <1>0
    <3> QED BY <1>2, <3>1, PartParts
  <2>2. h.count = Len(evs) BY FitsCount DEF Header
  <2> HIDE DEF part, h, k
  <2>3. k < Len(evs) BY <1>0, <2>1
  <2>4. part.header # <<>> /\ part.header[1] = h BY <2>1
  <2>5. BadLength(part)
    <3>1. k * RECORD_SIZE + RECORD_SIZE <= Len(evs) * RECORD_SIZE
      BY <1>0, <2>1, <2>3, FitsCount, Shorter
    <3>2. k * RECORD_SIZE \in Nat /\ Len(evs) * RECORD_SIZE \in Nat
      BY <1>0, <2>1, FitsCount
    <3>3. k * RECORD_SIZE + part.rest # Len(evs) * RECORD_SIZE
      BY <2>1, <3>1, <3>2, FitsCount
    <3> QED BY <2>1, <2>2, <2>4, <3>3 DEF BadLength
  <2>6. FromBytes(part) \in {Refused("Truncated"), Refused("BadMagic"),
                             Refused("UnsupportedVersion"), Refused("BadRecordSize")}
    BY <2>4, <2>5 DEF FromBytes
  <2> QED BY <2>6, RefusedNotOk DEF part
<1> QED BY <1>1, <1>2

\* All the pieces are the file.
LEMMA AllPieces ==
  ASSUME NEW evs \in Seq(AnyEvent)
  PROVE  Prefix(Encode(evs), Pieces(Encode(evs))) = Encode(evs)
<1> DEFINE full == Encode(evs)
           n == Pieces(full)
<1>1. /\ Len(full.records) = Len(evs)
      /\ full.records \in Seq({EncodeRecord(ev) : ev \in AnyEvent})
      /\ full = [header |-> full.header, records |-> full.records, rest |-> 0]
      /\ n = 1 + 2 * Len(evs)
  BY EncodedParts
<1>2. Len(evs) \in Nat OBVIOUS
<1> HIDE DEF full, n
<1>3. n # 0 /\ (n - 1) \div 2 = Len(evs) /\ (n - 1) % 2 = 0 BY <1>1, <1>2
<1>4. Prefix(full, n) = [full EXCEPT !.records = SubSeq(@, 1, Len(evs)), !.rest = 0]
  BY <1>3 DEF Prefix
<1>5. SubSeq(full.records, 1, Len(full.records)) = full.records
  <2> DEFINE R == {EncodeRecord(ev) : ev \in AnyEvent}
  <2>1. full.records \in Seq(R) BY <1>1
  <2> HIDE DEF R
  <2> QED BY <2>1, SubSeqFull
<1>6. Prefix(full, n) = [header |-> full.header, records |-> full.records, rest |-> 0]
  BY <1>1, <1>4, <1>5
<1> QED BY <1>1, <1>6 DEF full, n
-------------------------------------------------------------------------------
(* Replaying events *)

\* A set of naturals that is not empty has a least element: induction over the events
\* and over the versions is by least counterexample.
LEMMA LeastOf ==
  ASSUME NEW S, S \subseteq Nat, S # {}
  PROVE  \E x \in S : \A y \in S : x <= y
<1> DEFINE R == OpToRel(<, Nat)
<1>1. IsWellFoundedOn(R, Nat) BY NatLessThanWellFounded
<1> HIDE DEF R
<1>2. PICK x \in S : \A y \in S : ~(<<y, x>> \in R) BY <1>1, WFMin
<1>3. \A y \in S : y < x => <<y, x>> \in R BY DEF R, OpToRel
<1>4. \A y \in S : ~(y < x) BY <1>2, <1>3
<1>5. \A y \in S : x \in Nat /\ y \in Nat OBVIOUS
<1> QED BY <1>4, <1>5

\* f is the book after each of the first n events.
Runs(f, evs, n) ==
  /\ f[0] = NoLevels
  /\ \A i \in 1 .. n : f[i] = Play(f[i - 1], evs[i])

\* As the definition of Replay has it, for the first n events.
IsAfter(f, evs, n) ==
  f = [i \in 0 .. n |-> IF i = 0 THEN NoLevels ELSE Play(f[i - 1], evs[i])]

\* What is so of a function so defined, at each point.
LEMMA AfterRuns ==
  ASSUME NEW f, NEW evs, NEW n \in Nat, IsAfter(f, evs, n)
  PROVE  Runs(f, evs, n)
<1> DEFINE g == [i \in 0 .. n |-> IF i = 0 THEN NoLevels ELSE Play(f[i - 1], evs[i])]
<1>1. f = g BY DEF IsAfter
<1>2. g[0] = NoLevels OBVIOUS
<1>3. \A i \in 1 .. n : g[i] = Play(f[i - 1], evs[i]) OBVIOUS
<1> HIDE DEF g
<1> QED BY <1>1, <1>2, <1>3 DEF Runs

\* There is such a function.
LEMMA AfterExists ==
  ASSUME NEW evs, NEW n \in Nat
  PROVE  \E f : IsAfter(f, evs, n)
<1> DEFINE S == {m \in Nat : ~(\E f : IsAfter(f, evs, m))}
<1>1. SUFFICES ASSUME S # {} PROVE FALSE OBVIOUS
<1>2. PICK m \in S : \A k \in S : m <= k
  <2>1. S \subseteq Nat OBVIOUS
  <2> HIDE DEF S
  <2> QED BY <1>1, <2>1, LeastOf
<1>3. CASE m = 0
  <2> DEFINE g == [i \in 0 .. 0 |-> NoLevels]
  <2>1. g = [i \in 0 .. 0 |-> IF i = 0 THEN NoLevels ELSE Play(g[i - 1], evs[i])]
    <3> HIDE DEF g
    <3>1. \A i \in 0 .. 0 : i = 0 OBVIOUS
    <3> QED BY <3>1 DEF g
  <2>2. IsAfter(g, evs, m) BY <1>3, <2>1 DEF IsAfter
  <2> QED BY <1>2, <2>2
<1>4. CASE m # 0
  <2>1. m \in Nat /\ m - 1 \in Nat /\ ~(m <= m - 1) BY <1>4
  <2>2. m - 1 \notin S BY <1>2, <2>1
  <2>3. PICK f : IsAfter(f, evs, m - 1) BY <2>1, <2>2
  <2>4. Runs(f, evs, m - 1) BY <2>1, <2>3, AfterRuns
  <2> DEFINE g == [i \in 0 .. m |-> IF i < m THEN f[i] ELSE Play(f[m - 1], evs[m])]
             h == [i \in 0 .. m |-> IF i = 0 THEN NoLevels ELSE Play(g[i - 1], evs[i])]
  <2>5. \A i \in 0 .. m : g[i] = h[i]
    <3> TAKE i \in 0 .. m
    <3>1. CASE i = 0 BY <2>1, <2>4, <3>1 DEF Runs
    <3>2. CASE i \in 1 .. m - 1
      <4>1. g[i - 1] = f[i - 1] /\ g[i] = f[i] BY <2>1, <3>2
      <4>2. f[i] = Play(f[i - 1], evs[i]) BY <2>4, <3>2 DEF Runs
      <4>3. h[i] = Play(g[i - 1], evs[i]) BY <2>1, <3>2
      <4> HIDE DEF g, h
      <4> QED BY <4>1, <4>2, <4>3
    <3>3. CASE i = m
      <4>1. g[m - 1] = f[m - 1] /\ g[m] = Play(f[m - 1], evs[m]) BY <2>1
      <4>2. h[m] = Play(g[m - 1], evs[m]) BY <1>4, <2>1
      <4> HIDE DEF g, h
      <4> QED BY <3>3, <4>1, <4>2
    <3> QED BY <2>1, <3>1, <3>2, <3>3
  <2>6. g = h
    <3>1. g = [i \in 0 .. m |-> g[i]] /\ h = [i \in 0 .. m |-> h[i]] OBVIOUS
    <3> HIDE DEF g, h
    <3>2. [i \in 0 .. m |-> g[i]] = [i \in 0 .. m |-> h[i]] BY <2>5
    <3> QED BY <3>1, <3>2
  <2>7. IsAfter(g, evs, m)
    <3>1. IsAfter(g, evs, m) <=> g = h BY DEF IsAfter
    <3> QED BY <2>6, <3>1
  <2> HIDE DEF g, h
  <2> QED BY <1>2, <2>7
<1> QED BY <1>3, <1>4

\* Replay is the last book of a run over the events.
LEMMA ReplayRuns ==
  ASSUME NEW S, NEW evs \in Seq(S)
  PROVE  \E f : Runs(f, evs, Len(evs)) /\ Replay(evs) = f[Len(evs)]
<1> DEFINE n == Len(evs)
           after == CHOOSE f : IsAfter(f, evs, n)
<1>1. n \in Nat OBVIOUS
<1>2. IsAfter(after, evs, n) BY <1>1, AfterExists
<1>3. Replay(evs) = after[n] BY DEF Replay, IsAfter, NoLevels
<1> HIDE DEF after
<1>4. Runs(after, evs, n) BY <1>1, <1>2, AfterRuns
<1> QED BY <1>3, <1>4

\* Two runs over the same events are the same.
LEMMA RunsOnce ==
  ASSUME NEW f, NEW g, NEW s, NEW t, NEW n \in Nat,
         Runs(f, s, n), Runs(g, t, n), \A i \in 1 .. n : s[i] = t[i]
  PROVE  \A i \in 0 .. n : f[i] = g[i]
<1> DEFINE S == {i \in 0 .. n : f[i] # g[i]}
<1>1. SUFFICES ASSUME S # {} PROVE FALSE OBVIOUS
<1>2. PICK m \in S : \A k \in S : m <= k
  <2>1. S \subseteq Nat OBVIOUS
  <2> HIDE DEF S
  <2> QED BY <1>1, <2>1, LeastOf
<1>3. m # 0 BY <1>2 DEF Runs
<1>4. m \in 1 .. n /\ m - 1 \in 0 .. n /\ ~(m <= m - 1) BY <1>2, <1>3
<1>5. m - 1 \notin S BY <1>2, <1>4
<1>6. f[m - 1] = g[m - 1] BY <1>4, <1>5
<1>7. f[m] = Play(f[m - 1], s[m]) /\ g[m] = Play(g[m - 1], t[m]) BY <1>4 DEF Runs
<1>8. s[m] = t[m] BY <1>4
<1>9. f[m] = g[m] BY <1>6, <1>7, <1>8
<1> QED BY <1>2, <1>9

\* A run over events passes through the replay of those before.
LEMMA RunsThrough ==
  ASSUME NEW S, NEW evs \in Seq(S), NEW more \in Seq(S), NEW f,
         Runs(f, evs \o more, Len(evs \o more))
  PROVE  f[Len(evs)] = Replay(evs)
<1> DEFINE all == evs \o more
           n == Len(evs)
<1>1. n \in Nat /\ Len(all) \in Nat /\ n <= Len(all) /\ \A i \in 1 .. n : all[i] = evs[i]
  <2>1. /\ Len(all) = n + Len(more) /\ Len(more) \in Nat /\ n \in Nat
        /\ \A i \in 1 .. Len(evs) + Len(more) :
             all[i] = IF i <= n THEN evs[i] ELSE more[i - n]
    BY ConcatProperties
  <2> HIDE DEF all, n
  <2>2. \A i \in 1 .. n : i \in 1 .. n + Len(more) /\ i <= n BY <2>1
  <2> QED BY <2>1, <2>2 DEF n
<1> HIDE DEF all, n
<1>2. Runs(f, all, n)
  <2>1. \A i \in 1 .. n : i \in 1 .. Len(all) BY <1>1
  <2> QED BY <2>1 DEF Runs, all
<1>3. PICK g : Runs(g, evs, n) /\ Replay(evs) = g[n] BY ReplayRuns DEF n
<1>4. \A i \in 0 .. n : f[i] = g[i] BY <1>1, <1>2, <1>3, RunsOnce
<1>5. n \in 0 .. n BY <1>1
<1> QED BY <1>3, <1>4, <1>5 DEF n

\* The quantity of a level of a book, zero for none.
QtyIn(b, side, px) == IF px \in DOMAIN b[side] THEN b[side][px] ELSE 0

\* A map from prices of P to quantities, none of them zero.
IsLevels(m, P) ==
  /\ m = [p \in DOMAIN m |-> m[p]]
  /\ DOMAIN m \subseteq P
  /\ \A p \in DOMAIN m : m[p] # 0

IsBook(b, P) ==
  b = [side \in Side |-> b[side]] /\ \A side \in Side : IsLevels(b[side], P)

\* The Level events at these prices.
LevelsAt(P) == {ev \in AnyLevel : ev.px \in P}

\* The Level events of a model's stream are at the model's prices.
LEMMA LevelsThere == ASSUME NEW s \in Seq(Levels) PROVE s \in Seq(LevelsAt(Prices))
<1>1. Levels \subseteq LevelsAt(Prices)
  BY BookEventsAssumption DEF Levels, LevelsAt, AnyLevel, LevelEvent
<1> QED BY <1>1, SeqMonotonic

\* A Level event sets its level and no other (btree.rs:45-60).
LEMMA PlayLevel ==
  ASSUME NEW P, NEW b, IsBook(b, P), NEW ev \in LevelsAt(P)
  PROVE  /\ IsBook(Play(b, ev), P)
         /\ \A side \in Side, px \in P :
              QtyIn(Play(b, ev), side, px) =
                IF side = ev.side /\ px = ev.px THEN ev.qty ELSE QtyIn(b, side, px)
<1> DEFINE at == ev.side
           m == b[at]
           u == Update(m, ev.px, ev.qty)
           bb == [b EXCEPT ![at] = u]
<1>1. ev.kind = "Level" /\ at \in Side /\ ev.px \in P
  BY DEF LevelsAt, AnyLevel, LevelEvent
<1>2. Play(b, ev) = bb BY <1>1 DEF Play
<1>3. IsLevels(m, P) BY <1>1 DEF IsBook
<1>4. /\ IsLevels(u, P)
      /\ \A px \in P :
           (IF px \in DOMAIN u THEN u[px] ELSE 0) =
             IF px = ev.px THEN ev.qty ELSE IF px \in DOMAIN m THEN m[px] ELSE 0
  <2>1. CASE ev.qty = 0
    <3>1. u = [p \in DOMAIN m \ {ev.px} |-> m[p]] BY <2>1 DEF Update, Without
    <3> HIDE DEF u, m
    <3>2. DOMAIN u = DOMAIN m \ {ev.px} /\ \A p \in DOMAIN u : u[p] = m[p] BY <3>1
    <3>3. u = [p \in DOMAIN u |-> u[p]] BY <3>1
    <3>4. IsLevels(u, P) BY <1>3, <3>2, <3>3 DEF IsLevels
    <3> QED BY <2>1, <3>2, <3>4
  <2>2. CASE ev.qty # 0
    <3>1. u = [p \in DOMAIN m \cup {ev.px} |-> IF p = ev.px THEN ev.qty ELSE m[p]]
      BY <2>2 DEF Update, With
    <3> HIDE DEF u, m
    <3>2. /\ DOMAIN u = DOMAIN m \cup {ev.px}
          /\ \A p \in DOMAIN u : u[p] = IF p = ev.px THEN ev.qty ELSE m[p]
      BY <3>1
    <3>3. u = [p \in DOMAIN u |-> u[p]] BY <3>1
    <3>4. IsLevels(u, P) BY <1>1, <1>3, <2>2, <3>2, <3>3 DEF IsLevels
    <3> QED BY <3>2, <3>4
  <2> HIDE DEF u, m
  <2> QED BY <2>1, <2>2
<1> HIDE DEF u
<1>5. b = [side \in Side |-> b[side]] /\ \A side \in Side : IsLevels(b[side], P)
  BY DEF IsBook
<1>6. /\ bb = [side \in Side |-> IF side = at THEN u ELSE b[side]]
  BY <1>1, <1>5
<1>7. \A side \in Side : bb[side] = IF side = at THEN u ELSE b[side] BY <1>6
<1>8. bb = [side \in Side |-> bb[side]] BY <1>6
<1> HIDE DEF bb
<1>9. IsBook(bb, P) BY <1>4, <1>5, <1>7, <1>8 DEF IsBook
<1>10. ASSUME NEW side \in Side, NEW px \in P
       PROVE  QtyIn(bb, side, px) =
                IF side = at /\ px = ev.px THEN ev.qty ELSE QtyIn(b, side, px)
  <2>1. CASE side = at
    <3>1. bb[side] = u /\ b[side] = m BY <1>7, <2>1
    <3>2. QtyIn(bb, side, px) = IF px \in DOMAIN u THEN u[px] ELSE 0 BY <3>1 DEF QtyIn
    <3>3. QtyIn(b, side, px) = IF px \in DOMAIN m THEN m[px] ELSE 0 BY <3>1 DEF QtyIn
    <3> HIDE DEF m
    <3> QED BY <1>4, <2>1, <3>2, <3>3
  <2>2. CASE side # at
    <3>1. bb[side] = b[side] BY <1>7, <2>2
    <3> QED BY <2>2, <3>1 DEF QtyIn
  <2> QED BY <2>1, <2>2
<1> QED BY <1>2, <1>9, <1>10

\* Nothing is in no book.
LEMMA EmptyBook ==
  ASSUME NEW P
  PROVE  IsBook(NoLevels, P) /\ \A side \in Side, px \in P : QtyIn(NoLevels, side, px) = 0
<1>1. Empty = [px \in {} |-> 0] BY DEF Empty
<1> DEFINE e == Empty
<1>2. DOMAIN e = {} /\ e = [p \in DOMAIN e |-> e[p]]
  <2>1. DOMAIN [px \in {} |-> 0] = {} OBVIOUS
  <2>2. DOMAIN e = {} BY <1>1, <2>1
  <2>3. [p \in {} |-> e[p]] = [px \in {} |-> 0] OBVIOUS
  <2> QED BY <1>1, <2>2, <2>3
<1>3. IsLevels(e, P) BY <1>2 DEF IsLevels
<1> HIDE DEF e
<1>4. NoLevels = [side \in Side |-> e] BY DEF NoLevels, e
<1>5. \A side \in Side : NoLevels[side] = e BY <1>4
<1>6. NoLevels = [side \in Side |-> NoLevels[side]] BY <1>4, <1>5
<1>7. IsBook(NoLevels, P) BY <1>3, <1>5, <1>6 DEF IsBook
<1>8. \A side \in Side, px \in P : QtyIn(NoLevels, side, px) = 0
  BY <1>2, <1>5 DEF QtyIn
<1> QED BY <1>7, <1>8

\* The levels that a run of events sets: those of K, each with its quantity.
Sets(more, K, qty, P) ==
  /\ more \in Seq(LevelsAt(P))
  /\ \A i \in 1 .. Len(more) :
       /\ <<more[i].side, more[i].px>> \in K
       /\ more[i].qty = qty[<<more[i].side, more[i].px>>]
  /\ \A key \in K : \E i \in 1 .. Len(more) : key = <<more[i].side, more[i].px>>

\* The book after the first j events of those that set K.
SetSoFar(b, c, more, qty, P, j) ==
  /\ IsBook(c, P)
  /\ \A side \in Side, px \in P :
       QtyIn(c, side, px) =
         IF \E i \in 1 .. j : more[i].side = side /\ more[i].px = px
         THEN qty[<<side, px>>] ELSE QtyIn(b, side, px)

\* One more of them.
LEMMA SetOneMore ==
  ASSUME NEW P, NEW b, NEW c, NEW K, NEW qty, NEW more, Sets(more, K, qty, P),
         NEW j \in Nat, j < Len(more), SetSoFar(b, c, more, qty, P, j)
  PROVE  SetSoFar(b, Play(c, more[j + 1]), more, qty, P, j + 1)
<1> DEFINE ev == more[j + 1]
           n == Len(more)
<1>1. n \in Nat /\ more \in Seq(LevelsAt(P)) BY DEF Sets
<1> HIDE DEF n
<1>2. j + 1 \in 1 .. n /\ ev \in LevelsAt(P)
  <2>1. j + 1 \in 1 .. n BY <1>1 DEF n
  <2> QED BY <1>1, <2>1, ElementOfSeq DEF n
<1>3. ev.qty = qty[<<ev.side, ev.px>>] BY <1>2 DEF Sets, n
<1>4. IsBook(c, P) BY DEF SetSoFar
<1> DEFINE d == Play(c, ev)
<1> HIDE DEF ev
<1>5. /\ IsBook(d, P)
      /\ \A side \in Side, px \in P :
           QtyIn(d, side, px) =
             IF side = ev.side /\ px = ev.px THEN ev.qty ELSE QtyIn(c, side, px)
  BY <1>2, <1>4, PlayLevel
<1> HIDE DEF d
<1>6. ASSUME NEW side \in Side, NEW px \in P
      PROVE  QtyIn(d, side, px) =
               IF \E i \in 1 .. j + 1 : more[i].side = side /\ more[i].px = px
               THEN qty[<<side, px>>] ELSE QtyIn(b, side, px)
  <2>1. QtyIn(d, side, px) =
          IF side = ev.side /\ px = ev.px THEN ev.qty ELSE QtyIn(c, side, px)
    BY <1>5
  <2>2. QtyIn(c, side, px) =
          IF \E i \in 1 .. j : more[i].side = side /\ more[i].px = px
          THEN qty[<<side, px>>] ELSE QtyIn(b, side, px)
    BY DEF SetSoFar
  <2>3. (\E i \in 1 .. j + 1 : more[i].side = side /\ more[i].px = px)
          <=> \/ \E i \in 1 .. j : more[i].side = side /\ more[i].px = px
              \/ ev.side = side /\ ev.px = px
    <3>1. /\ \A i \in 1 .. j + 1 : i \in 1 .. j \/ i = j + 1
          /\ \A i \in 1 .. j : i \in 1 .. j + 1
          /\ j + 1 \in 1 .. j + 1
      OBVIOUS
    <3> QED BY <3>1 DEF ev
  <2>4. side = ev.side /\ px = ev.px => ev.qty = qty[<<side, px>>] BY <1>3
  <2> QED BY <2>1, <2>2, <2>3, <2>4
<1> QED BY <1>5, <1>6 DEF SetSoFar, d, ev

\* After the events that set K a book has the levels of K as of the version, and its
\* own besides.
LEMMA ReplaySets ==
  ASSUME NEW S, NEW evs \in Seq(S), NEW P, IsBook(Replay(evs), P),
         NEW K, NEW qty, NEW more, Sets(more, K, qty, P)
  PROVE  /\ IsBook(Replay(evs \o more), P)
         /\ \A side \in Side, px \in P :
              QtyIn(Replay(evs \o more), side, px) =
                IF <<side, px>> \in K THEN qty[<<side, px>>]
                ELSE QtyIn(Replay(evs), side, px)
<1> DEFINE all == evs \o more
           n == Len(evs)
           l == Len(more)
           b == Replay(evs)
           T == S \cup LevelsAt(P)
<1>1. more \in Seq(T) /\ evs \in Seq(T)
  <2>1. S \subseteq T /\ LevelsAt(P) \subseteq T OBVIOUS
  <2> QED BY <2>1, SeqMonotonic DEF Sets
<1> HIDE DEF T
<1>2. /\ n \in Nat /\ l \in Nat /\ all \in Seq(T) /\ Len(all) = n + l
      /\ \A i \in 1 .. Len(evs) + Len(more) :
           all[i] = IF i <= n THEN evs[i] ELSE more[i - n]
  BY <1>1, ConcatProperties
<1>3. PICK f : Runs(f, all, Len(all)) /\ Replay(all) = f[Len(all)] BY <1>2, ReplayRuns
<1>4. f[n] = b BY <1>1, <1>3, RunsThrough
<1> HIDE DEF all, b
<1>5. \A j \in 0 .. l - 1 : f[n + (j + 1)] = Play(f[n + j], more[j + 1])
  <2> TAKE j \in 0 .. l - 1
  <2> HIDE DEF n, l
  <2>1. /\ n + (j + 1) \in 1 .. Len(all) /\ (n + (j + 1)) - 1 = n + j
        /\ n + (j + 1) \in 1 .. n + l /\ ~(n + (j + 1) <= n) /\ (n + (j + 1)) - n = j + 1
    BY <1>2
  <2>2. all[n + (j + 1)] = more[j + 1] BY <1>2, <2>1 DEF n, l
  <2> QED BY <1>3, <2>1, <2>2 DEF Runs
<1>6. \A j \in 0 .. l : SetSoFar(b, f[n + j], more, qty, P, j)
  <2> DEFINE R == {j \in 0 .. l : ~SetSoFar(b, f[n + j], more, qty, P, j)}
  <2> HIDE DEF n, l
  <2>1. SUFFICES ASSUME R # {} PROVE FALSE OBVIOUS
  <2>2. PICK m \in R : \A k \in R : m <= k
    <3>1. R \subseteq Nat BY <1>2
    <3> HIDE DEF R
    <3> QED BY <2>1, <3>1, LeastOf
  <2>3. m \in 0 .. l /\ m \in Nat BY <1>2, <2>2
  <2>4. m # 0
    <3>1. f[n + 0] = b BY <1>2, <1>4
    <3>2. SetSoFar(b, b, more, qty, P, 0) BY DEF SetSoFar, b
    <3>3. m = 0 => SetSoFar(b, f[n + m], more, qty, P, m) BY <3>1, <3>2
    <3> QED BY <2>2, <3>3
  <2>5. m - 1 \in 0 .. l - 1 /\ m - 1 \in 0 .. l /\ ~(m <= m - 1) /\ (m - 1) + 1 = m
    BY <1>2, <2>3, <2>4
  <2>6. m - 1 \notin R BY <2>2, <2>5
  <2>7. SetSoFar(b, f[n + (m - 1)], more, qty, P, m - 1) BY <2>5, <2>6
  <2>8. m - 1 \in Nat /\ m - 1 < Len(more) BY <1>2, <2>5 DEF l
  <2>9. SetSoFar(b, Play(f[n + (m - 1)], more[(m - 1) + 1]), more, qty, P, (m - 1) + 1)
    BY <2>7, <2>8, SetOneMore
  <2>10. f[n + m] = Play(f[n + (m - 1)], more[m]) BY <1>5, <2>5
  <2>11. SetSoFar(b, f[n + m], more, qty, P, m) BY <2>5, <2>9, <2>10
  <2> QED BY <2>2, <2>11
<1>7. Replay(all) = f[n + l] /\ l \in 0 .. l BY <1>2, <1>3
<1>8. SetSoFar(b, Replay(all), more, qty, P, l) BY <1>6, <1>7
<1>9. \A side \in Side, px \in P :
        (\E i \in 1 .. l : more[i].side = side /\ more[i].px = px) <=> <<side, px>> \in K
  <2> TAKE side \in Side, px \in P
  <2>1. ASSUME NEW i \in 1 .. l, more[i].side = side, more[i].px = px
        PROVE  <<side, px>> \in K
    BY <2>1 DEF Sets
  <2>2. ASSUME <<side, px>> \in K
        PROVE  \E i \in 1 .. l : more[i].side = side /\ more[i].px = px
    <3>1. PICK i \in 1 .. l : <<side, px>> = <<more[i].side, more[i].px>> BY <2>2 DEF Sets
    <3> QED BY <3>1
  <2> QED BY <2>1, <2>2
<1> HIDE DEF l
<1> QED BY <1>8, <1>9 DEF SetSoFar, all, b

\* One event more is played on the book so far.
LEMMA ReplayAppend ==
  ASSUME NEW S, NEW evs \in Seq(S), NEW ev \in S
  PROVE  Replay(Append(evs, ev)) = Play(Replay(evs), ev)
<1> DEFINE all == evs \o <<ev>>
           n == Len(evs)
<1>1. <<ev>> \in Seq(S) /\ Append(evs, ev) = all BY AppendIsConcat
<1>2. n \in Nat /\ all \in Seq(S) /\ Len(all) = n + 1 /\ all[n + 1] = ev
  <2>1. /\ Append(evs, ev) \in Seq(S) /\ Len(Append(evs, ev)) = n + 1
        /\ Append(evs, ev)[n + 1] = ev
    BY AppendProperties
  <2> QED BY <1>1, <2>1
<1>3. PICK f : Runs(f, all, Len(all)) /\ Replay(all) = f[Len(all)] BY <1>2, ReplayRuns
<1>4. f[n] = Replay(evs) BY <1>1, <1>3, RunsThrough
<1> HIDE DEF all, n
<1>5. n + 1 \in 1 .. Len(all) /\ (n + 1) - 1 = n BY <1>2
<1>6. f[n + 1] = Play(f[(n + 1) - 1], all[n + 1]) BY <1>3, <1>5 DEF Runs
<1> QED BY <1>1, <1>2, <1>3, <1>4, <1>5, <1>6
===============================================================================
