-------------------------------- MODULE Recorder --------------------------------
(***************************************************************************)
(* feed/src/bin/recorder.rs: a book rebuilt from an exchange's snapshots   *)
(* and its stream of diffs, recorded as events and saved as a corpus.      *)
(*                                                                         *)
(* The exchange is what the recorder sees of it: versions of a book, diffs *)
(* that each cover a run of versions and arrive in order, some of them     *)
(* never, and snapshots of the best levels that may be old.                *)
(***************************************************************************)
EXTENDS Corpus, PriceLevels, FiniteSets, SequencesExt

CONSTANTS Keys,         \* the levels <<side, price>> the exchange has
          FirstBook,    \* its book at first: the quantity of each level, zero for none
          Limit,        \* levels per side of a snapshot, 1000 in the code
          MaxEvents,    \* the values of --max-events, a large one for none
          MaxUpdates,   \* bound: versions of the exchange's book
          MaxTrades,    \* bound: trades
          MaxLost,      \* bound: times diffs are lost
          MaxStale      \* bound: snapshots older than what was received

ASSUME RecorderAssumption ==
  /\ Keys \subseteq Side \X Prices /\ IsFiniteSet(Keys)
  /\ Trades # {}
  /\ FirstBook \in [Keys -> Lots]
  /\ MaxEvents \subseteq Nat
  /\ {Limit, MaxUpdates, MaxTrades, MaxLost, MaxStale} \subseteq Nat

VARIABLES exch,       \* exchange: its book at version v is exch[v + 1]
          sent,       \* exchange: the version its stream has reached
          open,       \* the stream is connected
          chan,       \* the channel from the reader task to the loop
          trades,     \* exchange: trades sent
          max_events, \* --max-events
          phase,      \* where run() is
          synced, prev_u, last_update_id, events, resnapshots,
          file,       \* the corpus file
          meta,       \* its sidecar: the number of records it tells, if anything
          seen,       \* history: the version the recorder has received
          lost,       \* history: times diffs were lost
          stale,      \* history: snapshots older than seen
          seed,       \* history: the events of the first snapshot
          unseen      \* history: levels beyond the snapshot's Limit, not updated since

exchange == <<exch, sent, open, trades>>
recorder == <<phase, synced, prev_u, last_update_id, events, resnapshots>>
history == <<seen, lost, stale, seed, unseen>>
vars == <<max_events, exchange, chan, recorder, file, meta, history>>

\* What the exchange does once the recording is over is of no interest.
Recording == phase \in {"connecting", "first_fetch", "refetch", "loop"}

Version == Len(exch) - 1
Qty(v, key) == exch[v + 1][key]

OldFile == Encode(<<>>)
OldMeta == <<0>>

Init ==
  /\ exch = <<FirstBook>>
  /\ sent = 0 /\ open = FALSE /\ trades = 0
  /\ chan = <<>>
  /\ max_events \in MaxEvents
  /\ phase = "connecting"
  /\ synced = FALSE /\ prev_u = 0 /\ last_update_id = 0
  /\ events = <<>> /\ resnapshots = 0
  /\ file = OldFile /\ meta = OldMeta
  /\ seen = 0 /\ lost = 0 /\ stale = 0 /\ seed = <<>> /\ unseen = {}

-------------------------------------------------------------------------------
(* The exchange *)

Change ==
  /\ Recording /\ Version < MaxUpdates
  /\ \E key \in Keys, qty \in Lots :
       /\ qty # Qty(Version, key)
       /\ exch' = Append(exch, [exch[Version + 1] EXCEPT ![key] = qty])
  /\ UNCHANGED <<sent, open, trades, chan, recorder, file, history>>

\* A depthUpdate covers the versions U .. u with the final quantity of each level.
DiffMsg(U, u) ==
  [e |-> "depthUpdate", U |-> U, u |-> u,
   levels |-> {key \in Keys : \E v \in U .. u : Qty(v, key) # Qty(v - 1, key)}]

TradeMsg == [e |-> "trade", U |-> 0, u |-> 0, levels |-> {}]

Send ==
  /\ Recording /\ open
  /\ \E u \in sent + 1 .. Version :
       chan' = Append(chan, DiffMsg(sent + 1, u)) /\ sent' = u
  /\ UNCHANGED <<exch, open, trades, recorder, file, history>>

SendTrade ==
  /\ Recording /\ open /\ trades < MaxTrades
  /\ trades' = trades + 1
  /\ chan' = Append(chan, TradeMsg)
  /\ UNCHANGED <<exch, sent, open, recorder, file, history>>

Lose ==
  /\ Recording /\ open /\ lost < MaxLost
  /\ \E u \in sent + 1 .. Version : sent' = u
  /\ lost' = lost + 1
  /\ UNCHANGED <<exch, open, trades, chan, recorder, file, seen, stale, seed, unseen>>

Disconnect ==
  /\ Recording /\ open
  /\ open' = FALSE
  /\ UNCHANGED <<exch, sent, trades, chan, recorder, file, history>>

-------------------------------------------------------------------------------
(* Snapshots *)

\* The stream starts at the version of the subscription.
Subscribe ==
  /\ phase = "connecting"
  /\ open' = TRUE /\ sent' = Version /\ seen' = Version
  /\ phase' = "first_fetch"
  /\ UNCHANGED <<exch, trades, chan, synced, prev_u, last_update_id, events,
                 resnapshots, file, lost, stale, seed, unseen>>

\* The prices of a side that a snapshot of version v lists: the Limit best.
Listed(v, side) ==
  LET all == {key[2] : key \in {k \in Keys : k[1] = side /\ Qty(v, k) # 0}}
  IN {p \in all : Cardinality({q \in all : Better(side, q, p)}) < Limit}

\* levels_of: what it lists of a side, as <<price, quantity>>; the order does not tell.
LevelsOf(v, side) == SetToSeq({<<p, Qty(v, <<side, p>>)>> : p \in Listed(v, side)})

\* The answer to a GET of the exchange's book at version v.
FetchSnapshot(v) ==
  [last_update_id |-> v, bids |-> LevelsOf(v, "Bid"), asks |-> LevelsOf(v, "Ask")]

\* Emitter::level for each <<price, quantity>> of a side.
EmitLevels(side, levels) ==
  [i \in DOMAIN levels |-> LevelEvent(side, levels[i][1], levels[i][2])]

\* As seed_snapshot without the Clear.
SeedUncleared(snap) == EmitLevels("Bid", snap.bids) \o EmitLevels("Ask", snap.asks)

\* seed_snapshot: a Clear and the levels of the snapshot.
Seed(snap) == <<ClearEvent>> \o EmitLevels("Bid", snap.bids) \o EmitLevels("Ask", snap.asks)

\* The levels of version v that a snapshot of it leaves out.
Beyond(v) ==
  {key \in Keys : Qty(v, key) # 0 /\ key[2] \notin Listed(v, key[1])}

\* As the check with a strict comparison.
LoopOrStopPast(evs) == IF Len(evs) > max_events THEN "saving" ELSE "loop"

\* The check at the end of an iteration of the loop.
LoopOrStop(evs) == IF Len(evs) >= max_events THEN "saving" ELSE "loop"

\* fetch_snapshot answers, and its levels are on the tick grid.
Answer ==
  /\ phase \in {"first_fetch", "refetch"}
  /\ \E v \in 0 .. Version :
       /\ v < seen => stale < MaxStale
       /\ stale' = IF v < seen THEN stale + 1 ELSE stale
       /\ events' = events \o Seed(FetchSnapshot(v))
       /\ last_update_id' = FetchSnapshot(v).last_update_id
       /\ unseen' = Beyond(v)
  /\ synced' = FALSE
  /\ seed' = IF phase = "first_fetch" THEN events' ELSE seed
  /\ phase' = IF phase = "first_fetch" THEN "loop" ELSE LoopOrStop(events')
  /\ UNCHANGED <<exchange, chan, prev_u, resnapshots, file, seen, lost>>

-------------------------------------------------------------------------------
(* The loop *)

\* apply_diff, bids before asks: absolute quantities as of the diff's last version.
DiffEvents(msg) ==
  LET Entries(side) ==
        SetToSeq({<<key[2], Qty(msg.u, key)>> : key \in {k \in msg.levels : k[1] = side}})
  IN EmitLevels("Bid", Entries("Bid")) \o EmitLevels("Ask", Entries("Ask"))

\* As the diff that remembers the version it expects instead of the one it has.
ApplyDiffExpecting(msg) ==
  /\ events' = events \o DiffEvents(msg)
  /\ prev_u' = msg.u + 1
  /\ unseen' = unseen \ msg.levels
  /\ phase' = LoopOrStop(events')
  /\ UNCHANGED <<last_update_id, resnapshots>>

ApplyDiff(msg) ==
  /\ events' = events \o DiffEvents(msg)
  /\ prev_u' = msg.u
  /\ unseen' = unseen \ msg.levels
  /\ phase' = LoopOrStop(events')
  /\ UNCHANGED <<last_update_id, resnapshots>>

\* As Follow with a check that takes overlapping and skipped versions alike.
FollowAny(msg) ==
  /\ synced /\ msg.U >= prev_u + 1
  /\ ApplyDiff(msg)
  /\ UNCHANGED synced

Follow(msg) ==
  /\ synced /\ msg.U = prev_u + 1
  /\ ApplyDiff(msg)
  /\ UNCHANGED synced

\* Covered by the snapshot: continue, past the check of --max-events.
SkipStale(msg) ==
  /\ ~synced /\ msg.u <= last_update_id
  /\ UNCHANGED <<recorder, unseen>>

\* The first diff that reaches beyond the snapshot and leaves no hole.
Straddle(msg) ==
  /\ ~synced /\ msg.u > last_update_id /\ msg.U <= last_update_id + 1
  /\ ApplyDiff(msg)
  /\ synced' = TRUE

Resnapshot ==
  /\ resnapshots' = resnapshots + 1
  /\ phase' = "refetch"
  /\ UNCHANGED <<synced, prev_u, last_update_id, events, unseen>>

\* A diff that does not follow on the last: it is dropped for a new snapshot.
Gap(msg) == synced /\ msg.U # prev_u + 1 /\ Resnapshot

\* As MissedSeam for a diff that starts right after the snapshot.
MissedSeamEarly(msg) ==
  ~synced /\ msg.u > last_update_id /\ msg.U > last_update_id /\ Resnapshot

\* Versions between the snapshot and the stream are missing.
MissedSeam(msg) ==
  ~synced /\ msg.u > last_update_id /\ msg.U > last_update_id + 1 /\ Resnapshot

\* Emitter::trade; what is in a trade is of no interest.
TradePrint == CHOOSE t \in Trades : TRUE

\* --with-trades.
RecordTrade ==
  /\ events' = Append(events, TradePrint)
  /\ phase' = LoopOrStop(events')
  /\ UNCHANGED <<synced, prev_u, last_update_id, resnapshots, unseen>>

Recv ==
  /\ phase = "loop" /\ chan # <<>>
  /\ chan' = Tail(chan)
  /\ LET msg == Head(chan) IN
       \/ /\ msg.e = "depthUpdate"
          /\ Follow(msg) \/ Gap(msg) \/ SkipStale(msg) \/ Straddle(msg) \/ MissedSeam(msg)
          /\ seen' = msg.u
       \/ msg.e = "trade" /\ RecordTrade /\ UNCHANGED seen
  /\ UNCHANGED <<exchange, file, lost, stale, seed>>

\* Break, at any moment the loop waits: the deadline has passed (during a fetch it is
\* looked at after it), an interrupt, or the end of the stream with chan drained.
Break ==
  /\ phase = "loop"
  /\ phase' = "saving"
  /\ UNCHANGED <<exchange, chan, synced, prev_u, last_update_id, events, resnapshots,
                 file, history>>

-------------------------------------------------------------------------------
(* Saving, and failing *)

\* Corpus::save: create truncates, ...
Create ==
  /\ phase = "saving"
  /\ file' = NoBytes
  /\ phase' = "writing"
  /\ UNCHANGED <<exchange, chan, synced, prev_u, last_update_id, events, resnapshots,
                 history>>

\* ... and the buffer is written out in pieces, the last one by flush.
Write ==
  /\ phase = "writing"
  /\ \E n \in Pieces(file) + file.rest + 1 .. Pieces(Encode(events)) :
       /\ file' = Prefix(Encode(events), n)
       /\ phase' = IF n = Pieces(Encode(events)) THEN "describe" ELSE phase
  /\ UNCHANGED <<exchange, chan, synced, prev_u, last_update_id, events, resnapshots,
                 history>>

\* As write_meta ahead of the save.
DescribeFirst ==
  /\ \/ phase = "saving" /\ meta = OldMeta /\ meta' = <<Len(events)>> /\ phase' = phase
     \/ phase = "describe" /\ meta' = meta /\ phase' = "done"
  /\ UNCHANGED <<exchange, chan, synced, prev_u, last_update_id, events, resnapshots,
                 file, history>>

\* write_meta: the sidecar is truncated, then written.
Describe ==
  /\ \/ phase = "describe" /\ meta' = <<>> /\ phase' = "describing"
     \/ phase = "describing" /\ meta' = <<Len(events)>> /\ phase' = "done"
  /\ UNCHANGED <<exchange, chan, synced, prev_u, last_update_id, events, resnapshots,
                 file, history>>

\* An error leaves run() by ?: a request refused, a price off the tick grid.  One of
\* the file, or a kill, is a step never taken: it leaves what Write has written.
Fail ==
  /\ Recording
  /\ phase' = "failed"
  /\ UNCHANGED <<exchange, chan, synced, prev_u, last_update_id, events, resnapshots,
                 file, history>>

Next ==
  /\ \/ /\ \/ Change \/ Send \/ SendTrade \/ Lose \/ Disconnect
           \/ Subscribe \/ Answer \/ Recv \/ Break
           \/ Create \/ Write \/ Fail
        /\ UNCHANGED meta
     \/ Describe
  /\ UNCHANGED max_events

Spec == Init /\ [][Next]_vars

-------------------------------------------------------------------------------
(* Correctness *)

\* Every variable has its type: every event recorded is one the books take, and no
\* update id is beyond the exchange's version (recorder.rs:352-390, 496-517).
TypeOK ==
  /\ \A v \in 0 .. Version : exch[v + 1] \in [Keys -> Lots]
  /\ max_events \in MaxEvents
  /\ sent \in 0 .. Version /\ trades \in 0 .. MaxTrades /\ open \in BOOLEAN
  /\ chan \in Seq([e : {"depthUpdate", "trade"}, U : Nat, u : 0 .. Version,
                   levels : SUBSET Keys])
  /\ phase \in {"connecting", "first_fetch", "refetch", "loop", "saving", "writing",
                "describe", "describing", "done", "failed"}
  /\ synced \in BOOLEAN
  /\ prev_u \in 0 .. Version /\ last_update_id \in 0 .. Version
  /\ events \in Seq(Event) /\ seed \in Seq(Event)
  /\ resnapshots \in Nat /\ seen \in 0 .. Version
  /\ lost \in 0 .. MaxLost /\ stale \in 0 .. MaxStale
  /\ unseen \subseteq Keys
  /\ meta \in {OldMeta, <<>>, <<Len(events)>>}

\* The book a consumer rebuilds has exactly the levels of the exchange's book at
\* version v, except the hidden.
Rebuilds(evs, v, hidden) ==
  LET b == Replay(evs) IN
    \A side \in Side :
      b[side] = [px \in {key[2] : key \in {k \in Keys \ hidden :
                                           k[1] = side /\ Qty(v, k) # 0}} |->
                   Qty(v, <<side, px>>)]

Reached == IF synced THEN prev_u ELSE last_update_id

\* The events recorded so far always rebuild the exchange's book at the version they
\* have reached, whatever was lost, late or old, except for levels beyond Limit in
\* the last snapshot and untouched since (recorder.rs:494-518).
RebuildsExchange == events # <<>> => Rebuilds(events, Reached, unseen)

\* A file that loads holds the recording of before or the whole of this one,
\* wherever the save was cut off (corpus.rs:128-141, 163-169).
LoadsWhole ==
  LET corpus == FromBytes(file) IN
    \/ ~corpus.ok
    \/ file = OldFile
    \/ phase \in {"writing", "describe", "describing", "done"} /\ corpus.events = events

\* A sidecar that tells of this recording stands beside a corpus that loads and has
\* as many records as it tells, wherever the program was stopped (recorder.rs:544-546).
SidecarTold ==
  meta \notin {OldMeta, <<>>} => FromBytes(file).ok /\ Len(FromBytes(file).events) = meta[1]

\* Wherever the save was cut off, what the files say of this recording is so
\* (recorder.rs:541-548).
SavedWhole == LoadsWhole /\ SidecarTold

\* A snapshot is asked for again only because of a diff that was lost or of a
\* snapshot older than the stream, once for each (recorder.rs:496-517).
ResnapshotsOwed == resnapshots <= lost + stale

\* Once --max-events is reached nothing more is recorded, unless the first snapshot
\* alone reached it: then one message, or the snapshot it asks for, follows
\* (recorder.rs:466, 533-538).
StopsAtMax ==
  [][events' # events => Len(events) < max_events \/ events = seed]_vars
===============================================================================
