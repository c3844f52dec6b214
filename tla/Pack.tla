---------------------------------- MODULE Pack ----------------------------------
(***************************************************************************)
(* engine/src/pack.rs: an event as the five words of a ring record, and    *)
(* back.  A word is a number below WordMod (2^64 in the code); a price or  *)
(* a quantity is carried as its two's complement.                          *)
(***************************************************************************)
EXTENDS Corpus

CONSTANT WordMod

ASSUME PackAssumption == WordMod \in Nat /\ WordMod % 2 = 0 /\ WordMod >= 2^16

\* As AsInt without the sign.
AsUnsigned(w) == w

\* `as u64' of an i64, and `as i64' of a u64.
AsWord(x) == x % WordMod
AsInt(w)  == IF w < WordMod \div 2 THEN w ELSE w - WordMod

\* As pack with the tag's parts in each other's place.
PackSwapped(seq, ts, ev) ==
  <<seq, ts, AsWord(ev.px), AsWord(ev.qty), Code(Kinds, ev.kind) + 2^8 * Code(Sides, ev.side)>>

pack(seq, ts, ev) ==
  <<seq, ts, AsWord(ev.px), AsWord(ev.qty), Code(Sides, ev.side) + 2^8 * Code(Kinds, ev.kind)>>

\* The bytes of the tag; unpack looks at no other of its word.
SideByte(rec) == rec[5] % 2^8
KindByte(rec) == (rec[5] \div 2^8) % 2^8

BadUnpack(error) == [ok |-> FALSE, error |-> error]

unpack(rec) ==
  IF ~Decodes(Sides, SideByte(rec)) THEN BadUnpack("BadSide")
  ELSE IF ~Decodes(Kinds, KindByte(rec)) THEN BadUnpack("BadKind")
  ELSE [ok |-> TRUE, seq |-> rec[1], ts |-> rec[2],
        event |-> [kind |-> Decoded(Kinds, KindByte(rec)),
                   side |-> Decoded(Sides, SideByte(rec)),
                   px |-> AsInt(rec[3]), qty |-> AsInt(rec[4])]]
-------------------------------------------------------------------------------
(* Correctness *)

\* An event comes out of the ring as it went in.
Survives(seq, ts, ev) ==
  unpack(pack(seq, ts, ev)) = [ok |-> TRUE, seq |-> seq, ts |-> ts, event |-> ev]
===============================================================================
