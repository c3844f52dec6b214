-------------------------------- MODULE GenBinary --------------------------------
(***************************************************************************)
(* feed/src/bin/gen.rs: a stream is generated, saved as a corpus, and      *)
(* described by a sidecar; a benchmark later loads the corpus and the      *)
(* engine packs its events.  The files may be there from an earlier run,   *)
(* and the program may be killed at any moment: a step never taken.        *)
(***************************************************************************)
EXTENDS Synthetic, Pack

VARIABLES stage,   \* where write_corpus is
          mdf,     \* the corpus file
          meta     \* the sidecar: <<>> while empty, or the config it tells

binVars == <<stage, mdf, meta>>
writeVars == <<genVars, binVars>>

\* The files of an earlier run, of a config of one event.
OldStream == <<ClearEvent>>
OldMeta == <<[profile |-> "Steady", events |-> 1, mid |-> 0, band |-> 0, max_qty |-> 1]>>

ASSUME GenBinaryAssumption == OldMeta[1] \notin Configs

BinInit ==
  /\ GenInit
  /\ stage = "generate"
  /\ mdf = Encode(OldStream) /\ meta = OldMeta

Generate ==
  /\ stage = "generate"
  /\ GenNext
  /\ stage' = IF phase' = "done" THEN "save" ELSE stage
  /\ UNCHANGED <<mdf, meta>>

\* Corpus::save: create truncates, ...
SaveCreates ==
  /\ stage = "save"
  /\ mdf' = NoBytes
  /\ stage' = "write"
  /\ UNCHANGED <<genVars, meta>>

\* ... and the buffer is written out in pieces.
SaveWrites ==
  /\ stage = "write"
  /\ \E n \in Pieces(mdf) + mdf.rest + 1 .. Pieces(Encode(sim.out)) :
       /\ mdf' = Prefix(Encode(sim.out), n)
       /\ stage' = IF n = Pieces(Encode(sim.out)) THEN "describe" ELSE stage
  /\ UNCHANGED <<genVars, meta>>

\* As write_corpus with the sidecar written ahead of the corpus.
DescribeFirst ==
  /\ \/ stage = "save" /\ meta = OldMeta /\ meta' = <<cfg>> /\ stage' = stage
     \/ stage = "describe" /\ meta' = <<cfg>> /\ stage' = "written"
  /\ UNCHANGED <<genVars, mdf>>

\* fs::write of the sidecar: truncated, then written.
Describe ==
  /\ \/ stage = "describe" /\ meta' = <<>> /\ stage' = "describing"
     \/ stage = "describing" /\ meta' = <<cfg>> /\ stage' = "written"
  /\ UNCHANGED <<genVars, mdf>>

WriteCorpus == Generate \/ SaveCreates \/ SaveWrites \/ Describe

-------------------------------------------------------------------------------
(* Correctness *)

\* A sidecar that tells this config stands beside a corpus that loads and is exactly
\* the stream of this config, wherever the program was stopped (gen.rs:89-92).
SidecarTruthful ==
  meta = <<cfg>> =>
    /\ FromBytes(mdf).ok /\ FromBytes(mdf).events = sim.out
    /\ Len(sim.out) = cfg.events

\* A corpus that loads is the one of before or the whole new stream, and each of its
\* events comes out of a ring record as it went in (corpus.rs:128-141, pack.rs:26-73).
ReplaysWhole ==
  stage # "generate" /\ FromBytes(mdf).ok =>
    /\ FromBytes(mdf).events \in {OldStream, sim.out}
    /\ \A i \in DOMAIN FromBytes(mdf).events :
         Survives(i, WordMod - i, FromBytes(mdf).events[i])

\* Wherever the program was stopped, a sidecar of this config is beside its own corpus, and
\* a corpus that loads is whole.  The sidecar of an earlier run beside a new corpus is not
\* excluded: it is what a program stopped before it describes leaves (gen.rs:89-92).
WrittenTruthfully == SidecarTruthful /\ ReplaysWhole
===============================================================================
