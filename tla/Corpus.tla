--------------------------------- MODULE Corpus ---------------------------------
(***************************************************************************)
(* feed/src/corpus.rs: the corpus file and its validation.  A file is the  *)
(* fields of its header, or none of them when it is shorter than that; its *)
(* whole records; and how many bytes follow the last of those.  Of a       *)
(* record, seq, ts and the padding are left out: no check reads them.      *)
(***************************************************************************)
EXTENDS BookEvents, Sequences

CONSTANTS RECORD_SIZE,   \* bytes of a record, 40 in the code
          CountMod       \* 2^64 in the code: the range of the count field

ASSUME CorpusAssumption ==
  RECORD_SIZE \in Nat \ {0, 1} /\ CountMod \in Nat \ {0}

Byte == 0 .. 255

MAGIC == "MDFEED"
VERSION == 1

Sides == <<"Bid", "Ask">>
Kinds == <<"Level", "Trade", "Clear">>

\* `as u8' of an enum with variants vs.
Code(vs, v) == (CHOOSE i \in DOMAIN vs : vs[i] = v) - 1

\* side_from_u8 and kind_from_u8: the variant of a byte, if it is one.
Decodes(vs, byte) == byte + 1 \in DOMAIN vs
Decoded(vs, byte) == vs[byte + 1]

-------------------------------------------------------------------------------
(* write_to *)

Header(count) ==
  [magic |-> MAGIC, version |-> VERSION, record_size |-> RECORD_SIZE, count |-> count]

EncodeRecord(ev) ==
  [px |-> ev.px, qty |-> ev.qty, side |-> Code(Sides, ev.side), kind |-> Code(Kinds, ev.kind)]

Encode(events) ==
  [header |-> <<Header(Len(events) % CountMod)>>,
   records |-> [i \in DOMAIN events |-> EncodeRecord(events[i])],
   rest |-> 0]

\* A file created and not written to yet, and what is in file after n of the writes
\* that reach the disk: the header, then each record in two pieces.
NoBytes == [header |-> <<>>, records |-> <<>>, rest |-> 0]

Pieces(file) == Len(file.header) + 2 * Len(file.records)

Prefix(file, n) ==
  IF n = 0 THEN NoBytes
  ELSE [file EXCEPT !.records = SubSeq(@, 1, (n - 1) \div 2), !.rest = (n - 1) % 2]

-------------------------------------------------------------------------------
(* from_bytes *)

Refused(error) == [ok |-> FALSE, error |-> error, events |-> <<>>]

\* As BadLength with a product that wraps.
BadLengthWrapping(file) ==
  Len(file.records) * RECORD_SIZE + file.rest
    # (file.header[1].count * RECORD_SIZE) % CountMod

\* As BadLength with the count taken for an upper bound.
BadLengthUpTo(file) ==
  Len(file.records) > file.header[1].count

\* The payload is not count * RECORD_SIZE bytes, or that product overflows.
BadLength(file) ==
  LET expected == file.header[1].count * RECORD_SIZE IN
    expected >= CountMod \/ Len(file.records) * RECORD_SIZE + file.rest # expected

BadRecord(rec) == ~Decodes(Sides, rec.side) \/ ~Decodes(Kinds, rec.kind)

\* event_from_parts, through the constructors: a Clear has nothing else.
EventFromParts(rec) ==
  CASE Decoded(Kinds, rec.kind) = "Level" -> LevelEvent(Decoded(Sides, rec.side), rec.px, rec.qty)
    [] Decoded(Kinds, rec.kind) = "Trade" -> TradeEvent(Decoded(Sides, rec.side), rec.px, rec.qty)
    [] Decoded(Kinds, rec.kind) = "Clear" -> ClearEvent

\* The header field by field, the length, and the discriminants of each record.
FromBytes(file) ==
  IF file.header = <<>> THEN Refused("Truncated")
  ELSE LET h == file.header[1] IN
    IF h.magic # MAGIC THEN Refused("BadMagic")
    ELSE IF h.version # VERSION THEN Refused("UnsupportedVersion")
    ELSE IF h.record_size # RECORD_SIZE THEN Refused("BadRecordSize")
    ELSE IF BadLength(file) THEN Refused("Truncated")
    ELSE IF \E i \in DOMAIN file.records : BadRecord(file.records[i])
      THEN Refused("BadDiscriminant")
    ELSE [ok |-> TRUE, error |-> "",
          events |-> [i \in DOMAIN file.records |-> EventFromParts(file.records[i])]]
===============================================================================
