--------------------------------- MODULE Offline ---------------------------------
(***************************************************************************)
(* The parts of the repository that run alone, one per behaviour: the      *)
(* corpus generator with the files it writes, a cell of the service        *)
(* benchmark, and the pure conversions at the edges of the feed, each on   *)
(* one input.  They share no state.                                        *)
(***************************************************************************)
EXTENDS GenBinary, Workload, Decimal, Http, Calendar

CONSTANTS Values, Ticks,    \* texts converted, and tick sizes they are counted in
          Step,             \* the step size beside them
          Bound,            \* counts up to which an off-grid text is told from ticks
          Chunkings,        \* <<body, payload>>: a chunked body and what it carries
          Spans,            \* runs of days whose dates are computed
          Originals,        \* streams whose corpus is damaged
          BadBytes          \* what a byte of a corpus may be changed into

ASSUME OfflineAssumption ==
  /\ Bound \in Nat
  /\ BadBytes \subseteq Byte
  /\ \A days \in Spans : days \subseteq Int

\* The payload is what the whole body carries.
ASSUME ChunkingsAssumption ==
  \A c \in Chunkings : c[1] \in Seq(STRING) /\ Dechunk(c[1]) = Body(c[2])

Program == {"gen", "service", "convert", "fetch", "date", "load"}

VARIABLES program,   \* the part that runs
          input      \* of a conversion

offlineVars == <<program, input, genVars, binVars, serviceVars>>

-------------------------------------------------------------------------------
(* Inputs *)

\* What arrives of a chunked body cut off anywhere, and of one that is not chunked.
Responses(body, payload) ==
  [payload : {payload}, terminated : BOOLEAN, status200 : BOOLEAN, chunked : {TRUE},
   body : {SubSeq(body, 1, cut) : cut \in 0 .. Len(body)}]
  \cup [payload : {payload}, terminated : BOOLEAN, status200 : BOOLEAN, chunked : {FALSE},
        body : {payload}]

\* A corpus with a field of its header changed, or its header gone; with a byte of a
\* record changed; with its end moved, or all of its records twice.
DamagedHeader(file) ==
  {[file EXCEPT !.header = <<>>], [file EXCEPT !.header[1].magic = "other"]}
  \cup {[file EXCEPT !.header[1].version = byte] : byte \in BadBytes}
  \cup {[file EXCEPT !.header[1].record_size = byte] : byte \in BadBytes}
  \cup {[file EXCEPT !.header[1].count = n] : n \in 0 .. CountMod - 1}

DamagedRecord(file) ==
  {[file EXCEPT !.records[i].side = byte] : i \in DOMAIN file.records, byte \in BadBytes}
  \cup {[file EXCEPT !.records[i].kind = byte] : i \in DOMAIN file.records, byte \in BadBytes}

CutTo(file, n, r) == [file EXCEPT !.records = SubSeq(@, 1, n), !.rest = r]

Resized(file) ==
  {CutTo(file, n, r) : n \in 0 .. Len(file.records), r \in 0 .. RECORD_SIZE - 1}
  \cup {[file EXCEPT !.records = @ \o @]}

Damaged(file) == DamagedHeader(file) \cup DamagedRecord(file) \cup Resized(file)

\* A text and the filters it is read with: the tick size before or after the step size,
\* or either of the two missing.
Quotes(t) ==
  LET tick == [filterType |-> "PRICE_FILTER", size |-> <<t>>]
      step == [filterType |-> "LOT_SIZE", size |-> <<Step>>]
  IN [value : Values, tick : {t}, filters : {<<tick, step>>, <<step, tick>>, <<step>>, <<tick>>,
                                             <<[tick EXCEPT !.size = <<>>], step>>}]

Inputs(p) ==
  CASE p = "convert" -> UNION {Quotes(t) : t \in Ticks}
    [] p = "fetch" -> UNION {Responses(c[1], c[2]) : c \in Chunkings}
    [] p = "date" -> Spans
    [] p = "load" -> UNION {Damaged(Encode(events)) : events \in Originals}
    [] OTHER -> {<<>>}

-------------------------------------------------------------------------------

\* A part that does not run is as it was created.
OfflineInit ==
  /\ program \in Program
  /\ input \in Inputs(program)
  /\ program # "gen" => cfg = CHOOSE c \in Configs : TRUE
  /\ program # "service" => cellDepth = (CHOOSE d \in Depths : TRUE) /\ op = "update"
  /\ BinInit /\ ServiceInit

OfflineNext ==
  /\ \/ program = "gen" /\ WriteCorpus /\ UNCHANGED serviceVars
     \/ program = "service" /\ ServiceNext /\ UNCHANGED writeVars
  /\ UNCHANGED <<program, input>>

\* The loops of generate are never held up; the program may be killed while it writes.
OfflineSpec ==
  OfflineInit /\ [][OfflineNext]_offlineVars /\ WF_writeVars(program = "gen" /\ Generate)

-------------------------------------------------------------------------------
(* Correctness *)

\* Every variable has its type: a counter of a loop is never below zero, and the
\* quantity of the service loops is odd and positive (service.rs:61-67).
OfflineTypeOK ==
  /\ program \in Program /\ cfg \in Configs
  /\ phase \in {"new", "seed", "flow", "calm", "burst", "sweep", "recover", "done"}
  /\ left \in Nat /\ k \in Nat
  /\ \A i \in DOMAIN sim.out :
       sim.out[i].kind \in {"Level", "Trade", "Clear"} /\ sim.out[i].qty \in Nat
  /\ stage \in {"generate", "save", "write", "describe", "describing", "written"}
  /\ meta \in {<<>>, OldMeta, <<cfg>>}
  /\ cellDepth \in Depths /\ op \in Op /\ q \in {n \in 1 .. QtyMod : n % 2 = 1}
  /\ gap # <<>> => op \in {"insert", "remove"} /\ gap[1] \in Side /\ gap[2] \in Int

\* generate comes to an end: each pass of its loops makes progress, with a side or the
\* whole book empty as well (synthetic.rs:60-69, 210-211).
Generates == program = "gen" /\ cfg.events > 0 ~> phase = "done"

\* With the filters of the exchange both there, in any order, a count of its ticks is
\* exact, and a text is refused only for what is wrong with it (recorder.rs:173-183, 294-315).
ConvertsExactly ==
  program = "convert" =>
    LET scales == ResolveScales(input.filters)
        priced == \E i \in DOMAIN input.filters : input.filters[i].size = <<input.tick>>
    IN /\ Resolved(scales) <=> priced /\ Len(input.filters) = 2
       /\ Resolved(scales) =>
            scales.tick_size = <<input.tick>> /\ ExactOn(input.value, scales.tick_size[1], Bound)

\* A chunked answer cut off anywhere is never taken for a shorter one
\* (recorder.rs:256-279).
FetchedWhole == program = "fetch" => WholeOrRefused(input)

\* The date of each day is the day after that of the day before (recorder.rs:605-624).
DatesCount == program = "date" => CountsDays(input)

\* A damaged corpus is refused unless each byte the checks read is one that write_to
\* would have written for the events it loads (corpus.rs:96-103).
FailsLoudly ==
  program = "load" /\ FromBytes(input).ok =>
    LET events == FromBytes(input).events IN
      /\ input.header = Encode(events).header
      /\ Len(events) = Len(input.records) /\ input.rest = 0
      /\ \A i \in DOMAIN events :
           LET written == EncodeRecord(events[i]) IN
             IF events[i].kind = "Clear" THEN written.kind = input.records[i].kind
             ELSE written = input.records[i]
===============================================================================
