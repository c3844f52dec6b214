---------------------------------- MODULE Http ----------------------------------
(***************************************************************************)
(* feed/src/bin/recorder.rs: what https_get makes of the bytes it read up  *)
(* to the end of the connection.  Bytes are symbols: "CR", "LF", ";", hex  *)
(* digits, and any other; blanks and signs around a chunk's size are left  *)
(* out.  A response is whether the end of its header was read, whether its *)
(* status is 200, whether it is chunked, and its body.                     *)
(***************************************************************************)
EXTENDS Naturals, Sequences

CONSTANT HexDigit   \* the value of each hex digit that is used

ASSUME HttpAssumption == \A digit \in DOMAIN HexDigit : HexDigit[digit] \in Nat

Body(bytes) == [ok |-> TRUE, bytes |-> bytes]
BadResponse == [ok |-> FALSE, bytes |-> <<>>]

\* from_str_radix of s, which is not empty and has nothing but digits.
IsHex(s) == s # <<>> /\ \A i \in DOMAIN s : s[i] \in DOMAIN HexDigit

HexValue(s) ==
  LET upTo[i \in 0 .. Len(s)] == IF i = 0 THEN 0 ELSE 16 * upTo[i - 1] + HexDigit[s[i]]
  IN upTo[Len(s)]

\* A size line up to its extensions.
SizeText(line) ==
  LET before == {n \in 0 .. Len(line) : \A i \in 1 .. n : line[i] # ";"}
  IN SubSeq(line, 1, CHOOSE n \in before : \A k \in before : k <= n)

\* Where the next CRLF at or after position p of body begins: none is past the end.
LineEnds(body, p) == {i \in p .. Len(body) - 1 : body[i] = "CR" /\ body[i + 1] = "LF"}
LineEnd(body, p) == CHOOSE i \in LineEnds(body, p) : \A j \in LineEnds(body, p) : i <= j

\* As the end of the bytes taken for the end of the body.
CutShortIsEnd == Body(<<>>)

\* The bytes end before a size line does, or before a chunk and its CRLF.
CutShort == BadResponse

\* Less is left from start on than the chunk and its CRLF.
ChunkCut(body, start, size) == Len(body) - start + 1 < size + 2

\* dechunk: the size line and the data of chunk after chunk, to the one of size zero.
Dechunk(body) ==
  LET from[p \in 1 .. Len(body) + 1] ==
        IF LineEnds(body, p) = {} THEN CutShort
        ELSE LET end == LineEnd(body, p)
                 line == SizeText(SubSeq(body, p, end - 1))
                 start == end + 2
             IN IF ~IsHex(line) THEN BadResponse
                ELSE LET size == HexValue(line) IN
                  IF size = 0 THEN Body(<<>>)
                  ELSE IF ChunkCut(body, start, size) THEN CutShort
                  ELSE LET data == SubSeq(body, start, start + size - 1)
                           others == from[start + size + 2]
                       IN IF others.ok THEN Body(data \o others.bytes) ELSE BadResponse
  IN from[1]

\* parse_http_body.
ParseHttpBody(response) ==
  IF ~response.terminated \/ ~response.status200 THEN BadResponse
  ELSE IF response.chunked THEN Dechunk(response.body)
  ELSE Body(response.body)
-------------------------------------------------------------------------------
(* Correctness *)

\* A response that carries a payload, whose bytes may stop anywhere: either it is
\* refused or nothing of the payload is missing.
WholeOrRefused(response) ==
  LET got == ParseHttpBody(response) IN got.ok => got.bytes = response.payload
===============================================================================
