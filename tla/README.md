# A verification of low-latency-lob

`low-latency-lob` is a limit-order-book pipeline in Rust: a producer thread applies market
events to a book, publishes the top of book through a sequence lock and broadcasts the
events through a lock-free ring; consumer threads drain the ring and reload the lock when
they are lapped. This directory holds TLA+ models of it, the TLC configurations that check
them, and proofs that TLAPS checks. Every definition is translated from `src/`;
`PROJECT.json` maps each to its lines.

## The system

| Component | State | Operations | Talks to | What makes it correct |
|---|---|---|---|---|
| `SeqLock` (`sync/src/seqlock.rs`) | a u32 counter and five payload atomics | `store` (one writer), `load`, `load_counted` | written by the engine's producer, read by all consumers | a load returns the words of one store, current at some moment of the call; the retry loop ends |
| `SpmcRing` (`sync/src/ring.rs`) | slots of a stamp and `W` words, the write position; per consumer a cursor | `push`, `try_recv`, `resync`, `consumer`, `consumer_from_oldest` | pushed by the engine's producer | records whole, in order, once; a lap is reported and never stops a consumer |
| `Engine` (`engine/src/lib.rs`) | a book, a lock, a ring, a stamp; per consumer its counters | `process`, `poll`, `snapshot`, `consumer` | composes the three | what an overrun consumer resyncs from covers what it lost |
| Packing (`engine/src/pack.rs`) | none | `pack`, `unpack` | ring records | inverse of each other |
| Books (`book/src/*.rs`) | per side the levels; the last trade | `apply`, `best_bid`, `best_ask`, `top_n`, `depth` | applied to by the producer | the four implementations are one price-to-quantity map |
| `FlatBook` (`book/src/flat.rs`) | a dense window, its base, cached bests and depths | the same | the same | the caches agree with the array across growth, probes and clears |
| Corpus (`feed/src/corpus.rs`) | a file of records | `from_bytes`, `save` | read by the benchmarks | what is read is what was saved, a damaged file is refused |
| Generator (`feed/src/synthetic.rs`, `rng.rs`) | a scenario's mid, ladder and phase | `next` per scenario | writes corpora | its events make a legal stream, of the length asked for |
| `gen` (`feed/src/bin/gen.rs`) | the corpus and its sidecar | `write_corpus` | the generator, the corpus | the sidecar tells what the corpus holds |
| Recorder (`feed/src/bin/recorder.rs`) | events, last update ids, synced or not | reconcile a snapshot with a stream of diffs; convert, fetch, describe | an exchange | the recorded stream has no gap that is not followed by a new snapshot; numbers are exact or refused |
| End-to-end benchmark (`bench/src/benches/e2e.rs`) | start handshake, done flag, tallies | run a cell, drive, drain, join | the engine | every thread gets past the start and stops, every event is accounted for |
| Service benchmark (`bench/src/workload.rs`, `service.rs`) | a ladder of a given depth, a quantity | build, then update, insert, remove, trade | a book | what is timed is the operation named, at the depth named |
| Demo (`engine/src/main.rs`) | its two scenes | keep up, or be lapped | the engine | what it asserts |
| Other benchmarks, harness, plots | schedules, histograms, stop flags | measure, draw | lock, ring, books | |

The hardest behaviours are in the first three rows: nothing in them blocks, every access is an
atomic with an explicit ordering, and the argument for each is a comment. Loom explores the
lock and the ring with one or two operations; the stress tests run on one kind of machine.
The wrap of the counter, a lap inside one `try_recv`, a stale write position and the
composition of lock and ring are reached by neither. `PROJECT.json` lists every hazard with
the property that would catch it.

## The memory

`ViewMemory` is the part of the C++20 memory model the `sync` crate uses, as a machine.
Each location has a modification order, a sequence of messages; each reader has a view, the
earliest message of each location it may still load. A message carries the view a reader
gains by acquiring it: all that was stored before, for a Release store; all that was stored
before the last release fence, for a Relaxed one. An acquire fence makes what Relaxed loads
have gathered (`acq`) count (`cur`).

This is exact for this code, and not a general model, because each atomic is stored to by
one thread, and that is the same thread for all of them: `SeqLock` has a single writer, the
ring's `Producer` is not `Clone`, and the engine's producer owns both. So no reader ever
publishes anything, there is one order of all stores, and a load can only return a message
stored before it (no store of this code depends on another thread's load, so promises or
out-of-thin-air values do not arise). `StaleReads = FALSE` makes every load return the
latest store: the sequentially consistent machine, which is also what readers see of a
single storing thread on x86.

## The modules

`SeqLock` models every access of `store` (`MarkOdd`: load, odd marker, fence W1;
`StoreWord` per field; `Publish`: W2) and of `load_counted` (`Call`, `LoadSeq` R1,
`LoadWord` per field, `Recheck`: fence R2 and s2; `Retry`). Store number k writes k in each
of its words, so that a torn snapshot is one whose words differ. The counter wraps at
`SeqMod`; `retries` saturates at `RetryMax`. `SnapshotCell` is what it promises: a cell
whose loads return a whole version that was current during the call.

`SpmcRing` models every access of `push` (`MarkWriting` P1 and its fence, `StoreWord` P2,
`MarkReady` P3, `Advance` P4), of `try_recv` (`LoadWrite` R0, `LoadStamp` R1, `LoadWord`
R2, `Recheck` R3) and `Resync`, and the two ways to mint a consumer (`Join`). The record at
position p is p + 1 in each word, so a word that was never written, 0, is no record's.
`start`, `taken`, `missed` and `out` are history for the properties. `BroadcastLog` is what
it promises: a log of which the last `Cap` records are kept, and an atomic `try_recv`.

`Engine` instantiates both over one memory and adds the producer's and the consumers'
control: `Created` is `Engine::new`, `Apply`, `StoreTop`, `PushEvent` are `process`, `Mint`
is `consumer`, `Poll`, `Rebase` and `LoadTop` are `poll` and its overrun branch, `Snapshot`
is `snapshot`. The book is abstracted to the number of events applied to it, which is the
stamp and the version the lock publishes. `last_mid` is left out.

`EndToEnd` is a cell of the end-to-end benchmark: its threads take the steps of `Engine`, and
the flags of the `Handshake` are further locations of the same memory, since the producer is
their only storer (`ready` is the exception: only consumers add to it, with nothing else
stored before). `WaitReady`, `Start`, `Produce` and `Finish` are `drive_producer`; `Warmup`,
`Announce`, `AwaitStart`, `LoadBase`, `Drain` and `CheckDone` are `run_consumer`; `Join` is
the end of `run_cell`. When an event is due is left open, so every schedule is covered.
`Demo` adds `engine/src/main.rs`, which drives the two sides of the engine from one thread:
a behaviour of `PipelineSpec` is a cell or one of the demo's two scenes.

`BookEvents` is the events: a Level (absolute quantity, zero removes), a Trade, a Clear.
`BTreeBook` is the book over two ordered maps, which are the functions they stand for; it is
what the `OrderBook` trait means and what the repository's differential oracle anchors on.
`SortedVecBook` (ascending vectors, binary search), `RevVecBook` (best-first vectors, scan)
and `FlatBook` (a dense array of quantities per side over a window that grows, cached best
slots and depths, the panic beyond `MAX_SPAN`) each keep the code's representation; `Map`
reads the price-to-quantity map off it, and `IsBTreeBook` is `BTreeBook`'s specification
under that mapping. `BookOracle` is `tests/oracle.rs`: the four in lockstep, every query
compared, over every sequence of events instead of seeded ones.
`PriceLevels` is what an event does to a pair of such maps, and what a stream of events does
(`Play`, `Replay`): `BTreeBook` and the books that the recorder, the generator and the service
benchmark build share it.
`last` is the event last applied: it makes the refinement compare what is done for the same
event, so that an implementation that ignores one is no stutter. `apply` is one call by one
thread, so it is one action, growth and probe included. `touched` in `FlatBook` is history.

`Recorder` is `run()` of the recorder: `Subscribe`; `Answer`, a snapshot that arrives (the
first or a later one) and is seeded as a Clear and its levels; `Recv`, a message, with the
branches of the loop as `Follow`, `Gap`, `SkipStale`, `Straddle`, `MissedSeam` and
`RecordTrade` and the check of `--max-events` in each; `Break`, the deadline, an interrupt or
the end of the stream; `Create` and `Write`, the save, and
`Describe`, the sidecar; `Fail`, every `?`. A fetch is an
await, so the exchange and the channel go on between `Resnapshot` and `Answer`. The exchange
(`Change`, `Send`, `Lose`, `Disconnect`, and the version `Answer` picks) is external: a book
with versions, diffs that cover runs of them in order, and snapshots of the best `Limit`
levels that may be old. The properties rebuild the book from the recorded events with
the update of `PriceLevels`. `seen`, `lost`, `stale`, `seed` and `unseen` are
history.

`Corpus` is the file: what `write_to` writes and every check `from_bytes` makes, field by
field, in units of a header, records and the bytes after them. `Pack` is `pack` and `unpack`
with words as numbers below `WordMod`, two's complement and the two bytes of the tag.

`Synthetic` is the generator: `Begin`, `SeedPair` and `Seeded` are `seed`; `Steady`, `Calm`,
`Stretch`, `StretchEnds`, `Sweep`, `SweepEnds`, `Recover` and `RecoverEnds` the loops of the
three profiles, one action per iteration; `Finish` the exit each of them takes once the
target is reached. A draw of the generator of random numbers is any value of its range, so
one run covers every seed. `GenBinary` is `write_corpus`: `Generate`, `SaveCreates`,
`SaveWrites` and `Describe` over the files of an earlier run, any of which may be the last
step taken before the process is killed. `Workload` is `workload.rs` and the four measuring
loops of the service benchmark.

`Decimal`, `Http` and `Calendar` are functions of the recorder: `resolve_scales`,
`scale_to_int` and `to_ticks`; `parse_http_body` and `dechunk`; `iso8601_utc_now`. Each is
translated step by step and compared with a reference definition that is not: a rational
number cross-multiplied, the payload the chunks carry, the day after a date.

`Offline` puts the programs and functions that run alone side by side, one per behaviour:
`program` says which. They share no state; one run checks them all, and the differential oracle
with them, a test that runs alone as well: a behaviour of `MCSpec`, in `MCOffline`, is one of
`OfflineSpec` or one of `OracleSpec`, and the variables of the other stay as they were created.

`MCSeqLock`, `MCSpmcRing`, `MCEngine` and `MCEndToEnd` give the set of locations for TLC, the
last also the cells and scenes; `MCRecorder` the exchange's levels, `MCOffline` the prices of
the books, the configurations and the inputs, `MCSynthetic` a narrow band for the generator
alone (`GenSpec`). Operators whose
comment begins "As ... with" are plausible bugs, not part of any specification: each is
put in the place of the definition that follows it to see that a property notices.

## What the runs show

| Run | Reads | Bounds | Shows |
|---|---|---|---|
| `seqlock_weak` | any | 1 reader, 2 words, counter of 4, 4 stores | a torn snapshot needs a full turn of the counter |
| `seqlock_sc` | latest | 2 readers, 2 words, 2 stores | an atomic cell; retries only under a write; a load returns |
| `seqlock_torn` | latest | counter of 4, 4 stores | and a full turn does tear one: words of two stores (finding) |
| `ring_weak` | any | 1 consumer, 2 slots, 2 words, 6 pushes | whole, in order, once; laps detected and reported |
| `ring_sc` | latest | 1 consumer, 2 slots, 2 words, 5 pushes | implements the broadcast log; catches up |
| `ring_back` | any | as `ring_weak` | `resync` may move the cursor back (finding) |
| `ring_resident` | latest | as `ring_sc` | `resync` may land on the slot being overwritten (finding) |
| `engine_weak` | any | 1 consumer, 2 slots, 3 events | a resync snapshot is whole and covers what was skipped |
| `e2e` | latest | cells of 1 consumer and 4 events, 2 consumers and 3 events, 2 slots; scenes of 4 events | all threads start together, stop, and account for every event; the demo ends as it asserts |
| `recorder` | | 2 bids, `Limit` 1, 4 updates, 1 loss, 1 old snapshot, 1 trade, `--max-events` 2, 4, 20 | what is recorded rebuilds the exchange's book; a file that loads is whole and its sidecar tells its length; each re-snapshot has a cause |
| `offline` | | the books: 3 prices, quantities 0 to 2, `HALF` 1, `MAX_SPAN` 8; the rest: see below | the four books answer alike and implement the map, the caches of `FlatBook` agree, when it may panic; streams are legal and end; files are whole or refused; the ladder is held; conversions are exact or refuse |
| `synthetic_band` | | the code's depth of 8, a band of 2, 9 events | edge churn puts the touch outside the band (finding) |

Some properties are conjunctions of named parts, each a question of its own:

| Property | Parts |
|---|---|
| `StartsTogether` | `WarmupTakesNothing`: no event falls into the warm-up; `SharedBase`: all measure from the published base |
| `RepresentationsSound` | `VectorsOrdered`; `CachesAgree` of `FlatBook` |
| `SavedWhole` | `LoadsWhole`: a recording loads whole or not at all; `SidecarTold` |
| `StreamIsLadder` | `ExactCount`: as many events as asked for; `LadderIsReplay`: the generator's ladder is the book its stream builds |
| `PricesInPlace` | `NeverCrossed`, in any band; `StaysInBand`: in a `WideBand` no level leaves it |
| `WrittenTruthfully` | `SidecarTruthful`; `ReplaysWhole`: the corpus loads as the old or the whole new stream, and each event survives the ring |
| `LadderHeld` | `HoldsDepth` between two passes; `BuildsAgree`: both builders make one book |

Bounds. Two words are the fewest that can be torn, and the fields are symmetric in both
loops. Readers neither write nor see each other, so one shows every behaviour of the weak
machine; two are kept where the specification is about all of them. Two slots make a lap
three pushes away; six pushes let a slot be overwritten twice inside one `try_recv`. Four
stores turn a counter of 4, the smallest with two even values, twice: a load can be torn,
and most are not. `WRITING` stands for 2^63 and is beyond every position of the runs. The
books in `offline` are finite without a bound on the events: three prices put an insertion
or a removal at both ends and in the middle of a side, two quantities overwrite each other.
With the prices -3, 2 and 4 a window grows downward and upward, an occupied one is moved by
a shift, one growth fills `MAX_SPAN` to the last tick, and -3 with 4 is beyond it.
`CHECK_DEADLOCK` stays on where a thread can always do more: a consumer may always poll, a
reader may always call again. It is off in `offline`, where the programs end and a panic
ends the oracle's thread, and in `recorder`, which ends. In `recorder` four updates leave
room for a stale first snapshot and a lost diff after it, each with its re-snapshot; two
bids are the fewest of which a snapshot can hide one; a `--max-events` of 2 is reached by
the first snapshot alone, 4 by what follows, 20 never. Bids and asks go through the same
code in the recorder, so one side is enough there.

In `e2e` the ring is smaller than the corpus, so a consumer may be lapped in a cell, twice
with four events, and the second scene of the demo always is; two consumers tell the barrier
from a flag. One word per record and per snapshot is enough, since torn ones are the
business of the runs above. One pass of warm-up is the fewest there can be; the count of
resyncs stops at 1. Reads are current, as the demo's single thread needs and as progress
needs; the deadlock check is on.

In `offline` the generator runs seven configurations of up to 33 events: bands of 0 to 8
around a `STEADY_DEPTH` of 1, so edge churn is inside the band and beyond it; `MinSweep` is
6, so a recovery of 3 levels is beyond a band of 2 and inside one of 8, and a cascade of 6
takes every bid of a narrow band and leaves some of the widest; the targets fall into every one of its
loops. The depths of the service benchmark are 1, 2 and 4, and `QtyMod` is 4, so `next_qty`
wraps. `I128Max` is 60000 and `I64Max` 500: texts reach below, at and beyond both; the
filters of a symbol come in either order, or one of them is missing. The chunked answers
have a chunk of 17 bytes, an extension, and data that looks like a line end, and each is cut
off after every byte. Every day of the 400-year cycle of the calendar is followed by its
successor. Three corpora have each field of the header and each byte a check reads changed
in turn, with `RECORD_SIZE` 4 and counts below 256, so a wrapping product would be seen.

Fairness. `store` and `push` are straight-line code (wait-free), so a thread inside one goes
on; a thread inside `load` goes on; a consumer keeps polling. Nobody has to call `store`,
`push`, `process`, `load` or `snapshot`. In `e2e` each thread runs on, except that the next
event may never be due: `Terminates` says that the barrier opens, and that once the producer
is done each consumer stops and is joined. The demo's one thread runs on. In `offline` the
loops of `generate` run on; nothing makes `write_corpus` go on to the files. Nobody makes
the exchange answer, so `recorder` has no liveness. Progress of threads is checked with
current reads: the memory model does not promise that a store is ever seen, hardware does.

What the runs do not claim. These behaviours are what the code does, and they are in the models
where the steps that lead to them are; but for the last, a comment on code that is not
modelled, no document promises otherwise:

- A re-snapshot older than what was recorded takes the book back in time; the events still
  rebuild the exchange's book, an older one. Any error ends `run()` without saving, so the
  events of the session are lost. A fetch has no timeout, and an interrupt during it is not
  noticed afterwards, because each turn of the loop listens anew.
- An answer that is not chunked is taken as it came: `FetchedWhole` is about chunked ones,
  and of the others a body cut off by the connection is left to the JSON parser.
- A run of `gen` or of the recorder that is killed while it saves leaves the sidecar of the
  run before beside a new or a cut-off corpus. `SidecarTruthful` and `SidecarTold` exclude
  the other direction: a new sidecar beside anything but its own corpus.
- After an overrun the snapshot may be newer than the oldest resident events, which the
  consumer then sees again as history; and `last_mid` takes an empty side's price for 0.
- A consumer of the end-to-end benchmark that panics before it has announced itself leaves
  the producer at the barrier.
- `plot.rs:662` says that its length and its first and last 16 bytes uniquely fingerprint a
  corpus; the first 16 are header fields that corpora of one length share, so two corpora that
  end alike are told apart by nothing. It is only recorded in a report.

Findings. (1) The counter is compared as a u32: a load delayed across exactly a full turn
accepts a torn snapshot. `OnlyWrapTears` proves that nothing else can. (2) `resync` calls its
Acquire load "fresh", but an Acquire load may return an older write position than the one
implied by the mark that lapped it; then the cursor moves back, by one after R1 and by up to
`capacity - 1` after R3. `ring_weak` shows that this is harmless to the stream (nothing is
delivered twice, nothing is lost silently), but "the cursor is monotonic and `skipped` is
exact" does not follow from the orderings. With current reads, and on x86, it holds:
`ring_sc`. (3) During a push, the position `resync` picks is in the slot being overwritten,
so an overrun of zero follows, repeatedly, until the push ends. (4) `synthetic.rs:45` says of
the band that the touch never leaves it, whatever the configuration. `edge_churn` places levels
from `STEADY_DEPTH + 1` on even when the band ends before: in `synthetic_band`, with the code's
depth of 8, both seeded bids of a band of 2 are removed, churn adds one at 9, and that is the
best bid. A recovery, of 10 levels at the least, goes beyond a band of 9 in the same way, and
`level_update` beyond a band of 0. `StaysInBand` says when the promise holds: from a band of 9
on, 10 for a flash crash, which those of `gen` (64) and of the test at 403 are.

## What is proved

The theorems hold for every value of the constants that satisfies the modules' assumptions.
The modules of proofs extend the components they are about; `ViewMemoryProofs` holds the
lemmas about the memory that the lock and the ring need, `StreamProofs` those about streams of
events. Every safety property that a passing run checks is a theorem, but for
`ConvertsExactly`.

| Module | About | Rests on |
| --- | --- | --- |
| `ViewMemoryProofs` | what a load, a store and a fence do to a view | |
| `SeqLockProofs` | `SeqLock` | `ViewMemoryProofs` |
| `SpmcRingProofs` | `SpmcRing` | `ViewMemoryProofs` |
| `EndToEndProofs` | `Engine`, the cell of `EndToEnd` and the scenes of `Demo` | `SeqLockProofs` and `SpmcRingProofs`, as instances |
| `BookOracleProofs` | `FlatBook`, and `BookOracle`: the four books in lockstep | |
| `StreamProofs` | lemmas: the file of `Corpus`, the book of `PriceLevels`, least elements | |
| `RecorderProofs` | `Recorder` | `StreamProofs` |
| `OfflineProofs` | `Synthetic`, `GenBinary`, `Workload`, `Http`, `Calendar`, damaged files | `StreamProofs` |

### The lock

For every set of readers, number of words, even counter width of at least 4 and bound on
the stores:

- `TypeCorrect`: `Spec => []TypeOK`;
- `OnlyWrapTears`: `Spec => []TornOnlyIfWrapped`, under all the reads the memory model allows;
- `NeverTorn`: if `2 * MaxStores < SeqMod`, then `Spec => [](AllIntact /\ NoTornSnapshot)`:
  every snapshot is that of the store whose counter it validated, so its words agree;
- `RetryUnderWrite`: with current reads, `Spec => []RetryOnlyUnderWrite`;
- `Linearizable`: with current reads and `2 * MaxStores < SeqMod`, `Spec => AtomicCell`.

`AllIntact` is far from inductive: it speaks of what has been returned only. `IInv` adds
the argument of the source's comment, made exact:
- `WriterInv`: how many messages each location has at each point of `store`, and what the
  writer had stored at W1;
- `CounterInv`: the i-th value of the counter, so that two messages less than a full turn
  apart have different values, and odd values sit at even indices;
- `PublishInv`: who reads an even counter at index i acquires (i + 1) / 2 messages of every
  payload location;
- `PayloadInv`: payload message i holds i - 1 and, thanks to W1, carries a view of the odd
  marker that preceded it;
- `SnapInv`: so every word a reader has copied is at least as new as its s1, and once the
  fence R2 has run, no newer than the s2 it may load;
- `OutInv`: what was returned satisfies the theorem.

If s1 and s2 are one message, the two bounds meet and every word is that store's; if they
are two, `CounterInv` puts them a full turn apart. Each action has its lemma; `StepInv` puts
them together. For current reads `CurrentInv` is added to it: what a reader has seen of the
counter is at least what it was at the call, less the stores since, so an attempt that fails
had a store in it, and a load that returns took its linearization point between the two
loads of the counter. Without current reads both fail, and the hypothesis is what the source
needs as well: an Acquire load need not return the last store.

### The ring

For every power-of-two capacity, number of consumers and words, and every read the memory
model allows: `TypeCorrect`, `NoTear` (`[]NoTornRecord`), `ResyncLapped`
(`[]ResyncOnlyWhenLapped`), `NoLoss` (`[]NoSilentLoss`) and `InOrder` (`DeliveredInOrder`).
With current reads, `Implements`: `Spec => BroadcastsLog`. The capacity is a power of two
because `SpmcRing::with_capacity` asserts it; the proofs need only that it is not 0.

What a view has "seen" is the language of the invariant. `IInv` says:
- `StampInv`: the positions in a slot's stamps only grow, busy before ready; who reads a
  stamp has the busy stamps of all earlier positions, and who reads a ready one the words of
  its record;
- `WordInv`: a word of record q comes, after a fence, with the busy stamp of q: a consumer
  that copies a word too new cannot then find the stamp unchanged;
- `WriteInv`: who acquires write position i has the ready stamps below i, so a stamp
  published is never seen late;
- `ConsumerInv`: what the consumer's view has at each of its steps, and, for every position
  delivered and not below the cursor, the busy stamp of a lap later. This last part
  (`OrderInv`) is what keeps the order when `resync` moves the cursor back: the positions it
  would deliver again are known to be overwritten.

### The engine, the benchmark and the demo

For every number of consumers, events, slots and words, in the one memory the lock and the
ring share:

- the pipeline, under all the reads the memory model allows: `RingKept` (the ring's
  `NoTornRecord`, `ResyncOnlyWhenLapped` and `NoSilentLoss`), `LockKept` (the lock's
  `TornOnlyIfWrapped`) and, if `2 * MaxEvents < SeqMod`, `SnapshotCovers`:
  `Spec => SnapshotCoversSkipped`;
- the cell, under all those reads: `BarrierHolds` (`PipelineSpec => []StartsTogether`);
  with current reads, `NothingUncounted` (`[]EveryEventAccounted`) and `CellTypes`
  (`[]CellTypeOK`);
- the demo: `DemoHolds` (`PipelineSpec => []DemoAsserts`), for every capacity and every number
  of events, more than the capacity in the second scene. `DemoAssumption` says that a scene is
  run with current reads: its one thread reads what it has written.

The invariants of the lock and of the ring are taken over whole: to each, a step of the other
is a step of other code, which grows the memory and stores to none of its locations. What
binds the two is `Covers`: a view that knows of p pushes knows of the lock's counter since
the p-th store. It holds of the producer's fence and of every message (`ViewsInv`), because
`process` stores the top before it pushes (`PipelineInv` says that the two are in the same
event), so it holds of every reader that acquired one. The version a consumer resyncs from is
then at least what the ring had told it.

The cell adds its flags to the memory. `BarrierInv` says that `ready` counts the consumers
past their warm-up, and that the producer passes the barrier with all of them; `BaseInv`, that
who acquires `started` has acquired the base. For the accounting, `AccountInv` says that
every position below a consumer's cursor is in its tally, or in the overrun it is about to
return. It needs current reads: with an old write position a cursor may move back, and what
it then passes over again is counted as skipped twice, which is the second finding.

The demo's assertions are about exact counts, so `DemoInv` adds to the invariant of the
pipeline where each scene is: `SceneInv` says, for each step of the thread, how many events
are pushed, at which one the consumer is and what its counters hold. Between two pushes
nothing moves, and then a call has one outcome: `RecvQuiet` says that a `try_recv` delivers
the record at the cursor, or finds it lapped, or finds none, and `LoadQuiet` that a load
returns the last top of book without a retry. The consumer of the first scene so stays within
an event of the producer; that of the second is lapped by the events beyond the capacity,
resyncs to the oldest resident, and drains exactly what is. For `CellTypeOK` in a scene
`SeenInv` adds that a consumer counts no more events than its cursor has passed.

### The books

For every set of prices and quantities, margin and limit (with `2 * HALF + 1 <= MAX_SPAN`):

- `FlatBook`: `TypeCorrect`, `CachesTrue` (`[]CachesAgree`), `NoPanicInBand`
  (`[]PanicsOnlyOutsideBand`), and `Implements`: `Spec => IsBTreeBook`;
- the lockstep drive: `RepresentationsHold` (`[]RepresentationsSound`), `AllImplement`
  (`OracleSpec => AllAreBTreeBooks`) and `AllSame` (`[]ObservedSame`: the last trade, the best
  levels, the depths and, for every count asked for, the levels `top_n` gives).

`FlatBook`'s invariant says that the window lies between two prices seen, with a margin on
both sides, and that each cached best and depth is true of its array (`Sound`); the band
bounds what a growth can ask for, and the caches survive the shift, the probe and the clear.
For the vectors it is the order. The binary search and the scan both end at the one `Place`
where the price is or belongs, so both updates are the one `Edited`; `EditedOrdered` and
`EditedMap` say that it keeps the order and updates the map. An event then moves all four
maps alike (`Moves`, `MovesOnce`), hence `Agree`.

`top_n` is where the four compute most differently: the BTreeBook takes the i-th best price,
the one with i - 1 better than it; the vectors are read from their best end, where the order
makes the i-th entry that price; `FlatBook` walks over its slots, skipping the empty ones.
The walk is a recursive function, and `Answer` says what it is to give from each slot with
what it has found so far: the best levels of the rest, up to the count. Such a function exists
and is that one by the least number of slots left (`LeftFalls`).

### The recorder

For every set of prices, quantities and levels, every limit of the snapshots and of the
events, and every number of versions, trades, losses and old snapshots:

- `RecorderTypes`: `Spec => []TypeOK`;
- `BookRebuilt`: `Spec => []RebuildsExchange`. `RebuildInv` says that the events replayed
  show the exchange's book of the version reached, but for the levels no message has shown,
  and that a diff in the channel names exactly the levels its versions changed. A diff that
  follows, or straddles the snapshot, then carries the book on (`DiffShows`): a level it
  names is set to its newest quantity, and one it does not name has not changed. Seeding
  starts again from the levels a snapshot shows (`SnapshotShows`). `Replay` is a recursive
  function; that it exists, and that one more event is one more `Apply`, is shown by
  least counterexample (`AfterExists`, `ReplayRuns`);
- `SnapshotsOwed`: `Spec => []ResnapshotsOwed`. The count of snapshots asked for again is
  bounded by nothing that is inductive by itself: `OwedInv` adds to it those that will have to
  be, one for every hole in the stream between what was received and what was sent, and one
  for a snapshot older than what was received;
- `SaveIsAtomic`: `Spec => [](Fits(events) => SavedWhole)`. `FileInv` says, by phase, which
  part of the new file is on disk; a part that is not all is refused (`PartRefused`), and the
  whole loads as the recording (`WholeLoads`). `Fits` says that the bytes of the corpus are
  fewer than `CountMod`, 2^64 in the code: without it the length that the header implies
  wraps round, and then a file that is cut off can agree with it;
- `MaxEventsStops`: `Spec => StopsAtMax`.

### The programs that run alone

For every configuration of the generator, every depth of the service benchmark and every
stream, in `OfflineProofs`:

- the generator: `StreamWhole` (`[]StreamIsLadder`), `PricesHold` (`[]PricesInPlace`),
  `TradesPrintAtTouch` (`TradesAtTouch`). `SimSound` says of a generator between two emits
  that its ladder is the replay of its stream, its levels are within `ReachOf` its
  configuration, which is the band itself when that is a `WideBand`, and on their side of
  the mid, and no more is emitted than asked for. `Emits` is what an emitter may do to it:
  keep it sound, emit at the end only, print trades at the touch. It is shown of `level`,
  `trade` and `clear`, carried over their compositions to each action, with `Touches` stated
  of what lies between the old end and the new. That a level stays on its side of the mid,
  which the generator never checks, is why its book is never crossed;
- `gen`: `FilesTruthful` (`[]WrittenTruthfully`), if `CorporaFit` and `ValuesFit`: the bytes
  of a configuration's corpus are fewer than `CountMod` and its prices and quantities are an
  i64. `BinInv` says which part of the new file is there at each stage;
- the service benchmark: `DepthHeld` (`[]LadderHeld`) and `TimedAsNamed`
  (`TimesWhatItNames`). `SvcInv` says that the book has the rungs of the cell's depth, and
  between the two applies of a pass the level in the gap, which is not on a rung because a
  rung is `STEP` from the next (`BookWith`, `IsGap`). The two builders apply the same levels
  in two orders, each once (`IsOrder`), so they make one book (`BuiltBook`);
- the corpus: `LoadsLoudly` (`[]FailsLoudly`), if the damaged corpora were those of streams of
  events. It rests on one fact about any file at all, damaged in whatever way: if it loads,
  every byte that a check reads is what `write_to` would write for the events it loads
  (`LoadsWritten`);
- an HTTP answer: `FetchedHolds` (`[]FetchedWhole`). `dechunk` is a recursive function from a
  position on; each position rests on later ones only, so it exists (`FromExists`). Where a
  cut-off body has a whole chunk, the whole body has the same chunk at the same place
  (`CutChunk`); by the last position where the two would differ, what a cut-off body
  dechunks to is what the whole does, or it is refused (`CutWhole`). That the whole body
  carries the payload is the meaning of `Chunkings` (`ChunkingsAssumption`);
- the date: `DatesHold` (`[]DatesCount`), for every integer number of days. Each day has one
  place: an era, a year of it, a day of that year (`PlaceExists`). The formula for the year
  of the era, with its corrections for leap years, is inverted century by century (`YearOf`,
  `YearBack`), that of the month day by day; the next place is then the next date, inside a
  month, over its end and over the end of a year;
- `OfflineTypes` (`[]OfflineTypeOK`).

### What is only model-checked

- Liveness (`LoadReturns`, `CatchesUp`, `Terminates`, `Generates`): out of TLAPS' reach here.
- `ConvertsExactly`: its statement is about powers of ten with variable exponents, of which
  the provers know nothing, not even that 10^(a + b) is the product of the two, and `^` has
  no definition in the library from which it could be shown.
- `EveryEventAccounted` and `CellTypeOK` when reads may be old: the run checks them with
  current reads, as the theorems assume. With old reads the first does not hold (finding 2).
- That an external part behaves as modelled: the exchange, the channel, the file system.

## Not modelled, and the plan

The plan of modules, runs and proofs is done: every component of the table above but the last
row has its module, and every safety property its theorem, with the exception above.

Left out for good, and why:

- thread pinning, clocks, histograms, rates, SVG and CSV output: measurement and text. The
  histograms drop what is beyond 60 s, which no control depends on;
- `sustained`, one thread that applies a corpus at scheduled times: the pacing is that of the
  end-to-end benchmark, which the model leaves open;
- the benchmarks of the lock and the ring: threads that call `SeqLock` or `SpmcRing` until a
  stop flag is set, and count. The single-threaded benchmarks, which keep no state a property
  could be about;
- argument parsing, the sweep of `gen --all` and of the benchmarks over their cells: loops
  over what is modelled;
- TLS, WebSocket frames, pings and JSON: libraries. What the recorder makes of their results
  is `Recorder`, `Decimal` and `Http`;
- time stamps and sequence numbers of events: no check and no control reads them. `Pack`
  carries both.
