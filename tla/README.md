# kami-lens in TLA+

kami-lens keeps a local mirror of an on-chain world: a table of component
values, kept current by a stream of frames from an indexer (Kamigaze), by reads
of the chain itself (RPC), and by files on disk. Its promises are about *when*
an answer may be trusted: two bounds, `appliedThrough` and
`reconciledThrough`, say through which block the mirror holds every write. This
directory specifies the parts of the program those promises rest on, checks
them with TLC on small chains, and proves the ones that are inductive with
TLAPS for every chain, every number of writers and every retry schedule.

Paths below are relative to the repository; `stream.ts` is
`src/workers/sync/stream/stream.ts`, and `heal.ts` its neighbour.

## 1. The system

| Component | Code | State | Operations | Modelled |
|---|---|---|---|---|
| apply path: guard and marks | `src/network/setup/utils.ts`, `src/sync-health.ts`, `src/workers/types.ts` | the mirror, `lastPos` per key, the two bounds | apply a batch, prune, seed the baseline | `ApplyGuard` |
| live stream | `stream.ts`, `heal.ts`, `transform.ts` | the cursor (`expectedPrevLog*`), the chain anchor, `frontier`, the heal in progress | frame, gap heal, teardown, reconcile pass, catch-up | `MirrorSync` |
| sync health | `src/sync-health.ts` | the bounds, repairs, the unhealed ranges and since when | `applyMark`, `recordUnhealed`, `clearUnhealed` | `ApplyGuard`, `MirrorSync`, `Unhealed` |
| proven range reads | `src/workers/sync/utils.ts`, `healRange` | the chunk at hand, what was collected | batch proof, chunk loop | `RangeRead`, `ProvenRead` |
| sync worker boot, snapshot fetch | `src/workers/sync/Worker.ts`, `bridge.ts`, `stream/gapfill.ts`, `snapshot/*` | the cache, its pointers and stamp, the buffered frames | load, delta, save, bridge, gap fill, merge, seed | `Boot` |
| state cache | `src/workers/sync/state/cache.ts`, `snapshot/fetch.ts` | rows under two indices, the tables that name them | store, remove, append, event, output | `IndexTables`, `Boot` |
| worker life cycle | `src/workers/sync/Worker.ts` (`init`, `initOnce`, `own`, `dispose`) | the runs of a worker, what they hold open | boot, await, self-retry, dispose | `WorkerLife`, `Daemon` |
| worker plumbing | `src/workers/create.ts`, `Worker.ts` `work`, `utils.ts` (acks) | buffered output, the batch handed over | emit, window, ack, dispose | `Plumbing` |
| entity store and indexers | `src/engine/recs/*` | the table of entities, component values, reverse indices | register, set, remove, query | `Entities` |
| derived caches, query rows | `src/app/cache/*`, `src/queries/build.ts` | cached sub-objects with stamps, config values | read through, invalidate, project or refuse | `Projection` |
| heap decision | `src/heap.ts`, `src/cli.ts` | the process image, its options and marker | decide, execve | `Heap` |
| state store | `src/workers/sync/state/store.ts` | the snapshot file, its previous generation, temp files; the flush in progress | load, sweep, commit, set | `StateStore`, `StoreFlush` |
| daemon lifecycle | `src/daemon.ts`, `src/backoff.ts` | worker, attempts, timers, watchdog, `liveAt` | bootstrap, retry, LIVE, watchdog, stop | `Daemon` |
| checkpoint child | `src/workers/checkpoint/*` | the child, its age | run, drain | `Daemon`, `StateStore`, `Boot` |
| Kamiden feed | `src/kamiden.ts`, `src/queries/feeds.ts` | connection state, ring buffer | subscribe, retry, read | `Feed`, `Daemon` (stop) |
| read-your-writes wait, query server | `daemon.ts` `waitApplied`, `src/server.ts` | request queues, waiters, nudges | send, wait, nudge, time out, close | `ReadYourWrites` |
| chain clock | `daemon.ts` `startClockSync`, `syncClock` | the armed sample, the reads in flight | arm, sample, re-arm, follow up | `Clock` |
| provider reconnect | `src/engine/providers/create.ts` | connection state, the pair in use | connect, keep alive, dispose | `Reconnect` |
| tripwires, answer formatting, registries, CLI, stateless mode, gates, generated code | see `PROJECT.json` | little or none | I/O, wording, data layout | not modelled |

How they meet: the worker boots an image into its state cache, hands it to the
apply path, then the stream emits frames and proven ranges into the same path.
The output path is a FIFO of batches, so the order of emission is the order of
application. Each batch carries a *mark* (anchor, through, reconciled), and
`applyMark` moves the bounds when the anchor is already held; what lands is kept in
the entity store, whose indexers serve the queries, and queries keep derived
objects in caches of their own. The daemon watches
the worker's loading state, adopts the first LIVE, and owns every timer. A
checkpoint child, another process, loads and commits the same snapshot files.

What is hard here: frames, gap heals, reconcile passes, catch-ups and image
values all write the same keys; chain reads are awaited, and everything else
moves meanwhile; frames are lost without a trace; the continuity check compares
log indices that restart in every transaction; a torn-down subscription cannot
abort its read; two processes commit to one file and die anywhere; retry timers,
the watchdog, the seed, `stop()` and a worker's late status race; a disposed
worker's bootstrap resumes after its await, beside its successor; tables that name
the cached values are numbered anew by the service, and read in streams of their
own.
`PROJECT.json` lists each such hazard at its line, with the properties that
would catch it going wrong.

## 2. The modules

`Chain` — the contract's log: entries numbered in chain order, each with a block,
a key and the log index a frame reports. "Older" is `<` on entry numbers.
`Collapsed(f, t)` is what a complete, collapsed read of a block range returns;
`UpToDate(k, v, b)` says that `v` is at least as new as every write of `k`
through block `b`. The chain is not reorganised (the code does not handle
reorganisations either: it reads behind a margin).

`ApplyGuard` — `applyNetworkUpdates`. `place` is `lastPos`: the block of the
last placed write and whether it was its block's final one for that key.
`Land` is a whole batch: the guard per write, the places, `prune` when the
reconciled bound moves, both bounds. `LandFrame` is a batch of one frame;
`LandProven` of a proven read; `LandUnplaced` an update without a position.
Run alone it has a deliberately hostile environment: any range is read and
delivered in any order, marks claim anything.

`MirrorSync` — the live stream over `ApplyGuard`. One step is one turn of the
event loop between awaits; a chain read is two steps.

| Action | Code |
|---|---|
| `FirstFrame`, `NextFrame` | frame handling in `createRawStream` |
| `GapFrame`, `DiffAnswers`, `DiffFails`, `HealDone`, `HealDefer` | the heal of a broken continuity, narrow and wide (`healGap`) |
| `Teardown`, `ZombieEnds` | a subscription ends while it heals; the heal returns later, closed |
| `PassStart`, `PassDone` | `runReconcile` before and after its await, with the held range |
| `CatchUpStart`, `CatchUpDone` | `runCatchUp` before and after its await |

`ProvenThrough(f, t)` is what a proven read may come back with: nothing, or any
block of its range below the chain's head. `Boot` is what the boot hands over:
`baseline` (the block the image claims), `start` (where the stream starts),
`frontier` (the newest block a position-less value may reflect) and `filled`.
`Image(b)` is every mirror such a boot may have produced.

`StateStore` — one step per file-system call of `load`, the orphan sweep and
`commitSnapshotFile`, for any number of stores in any number of processes; a
process may end between any two. Contents are abstracted to whether a boot
can read them.

`Daemon` — `bootstrap`, `onFailed`, `onSyncStatus`, the clock seed, `onLive`, the
watchdog, the checkpoint timer and child, the feed's subscription, and `stop()`
with its drain. Time is reduced to what may overtake what: retry delays are
`5 s * 2^(n-1)`, drawn from `[d/2, d]`, so from the sixth failure on
(`OutlastFrom = 6`) a delay may outlast the watchdog's 90 s. The seed's 5 s never
do. Retry timers are named by the failure count that set them.

`ProvenRead`, `RangeRead` — what a range read promises (one answer: every log of
the range up to the block it claims, or nothing), and how `healRange` gets it:
an RPC endpoint is a pool of backends, each with a head of its own and a log
index that may be one block behind it; a read goes chunk by chunk, each an
atomic batch `h1, logs, h2`, whole reads retry a short chunk until their
deadline, partial ones keep what is proven. `RangeRead!ReadKeepsPromise` is
`ProvenRead!Spec` under the obvious mapping. `MirrorSync` uses the promise only.

`Boot` — how the image a process goes LIVE with comes about. The value of a key
is the entry of `Chain` that wrote or removed it, so that "the image is complete
through block b" can be said. Three loaders share the delta: the worker, its
bridge after a CDN image, the checkpoint child over the saved cache (`by`);
`step` says what comes next. Replicas of the snapshot service answer from heads of
their own; streams are cut into chunks anywhere, also within a block; a chunk
that runs out of time is still applied beside its retry (`late`); processes die
between any two steps.

| Action | Code |
|---|---|
| `WorkerBoots`, `CdnLoad` | cache load, head read, release of a stale cache; `planCdnLoad`, `fetchFromCdn` |
| `StateBlock`, `OpenStream`, `Chunk`, `StreamFails`, `LateRow`, `StreamEnds` | `fetchSnapshot` with its retries and its stamp |
| `Save`, `StreamStart`, `BridgeFails` | save, subscription, `bridgeBoot` |
| `Fill` | the gap fill, the merge of buffered frames, baseline and frontier |
| `Checkpoint` | `runCheckpointJob` |

`StoreFlush` — `set()` and `scheduleFlush`: which calls a flush contains, who joins
it, who starts the next. `StateStore` has the file side of the same class.

`Unhealed` — the list behind `MirrorSync`'s set of unhealed blocks: merge into the
first neighbour, cap, splits, and since when it is not empty.

`Clock` — which block's header calibrates the chain clock. `Feed` — the
subscription, the ring buffer and readers that page through it. `ReadYourWrites` —
connections with queued requests, waits, nudges, the catch-up read they ask for
(its range and how far it came back; `MirrorSync` has the race with the stream).
A wait's answer is a query's, with an await between its execution and its stamps.
`Reconnect` — the provider pair, its listeners, probes and attempts.

`WorkerLife` — the workers of one process, disposed of and replaced, and the runs of
each: a run goes from await to await (head, provider, load, save, start, fill,
output), looks whether its worker was disposed of where the code does, and opens
providers, streams and timers, which `own` registers or closes. A worker whose
image cannot be put out begins another run beside the streams of the first.

`IndexTables` — the tables beside `Boot`'s values. The snapshot service numbers
entities; rows are kept under these numbers; the cache holds a copy of the
numbering, appends to it only at its tail, and itself extends it by events that
name an entity it does not know. Rows and names of a CDN image are applied
concurrently, those of a delta one stream after the other, by replicas that know
different lengths of the table, and a new nonce is a new numbering. A row
remembers the entity its writer meant.

`Plumbing` — the worker's output as `work()` buffers it (33 ms or a full window) and
hands it over batch by batch, each after an ack; the ack of the apply path comes
before the worker listens, so that the 100 ms timer's is the one that counts.
`Entities` — registration, values, the reverse index that follows the update
stream, and `runQuery` with two fragments. `Projection` — a kami's row through the
kami, harvest, config and account caches. `Heap` — `decideHeap` and the re-exec, for
every limit, memory and marker.

`*Proofs` modules hold the theorems, `MC*` modules the instances. `MCMirrorSync`
defines the chains and the sets of boots. `MCState` and `MCServices` put parts that
share no variable side by side: `focus` says which part a behaviour is of, the
others rest in one initial state, so their state spaces add instead of
multiplying. The parts do interact in the program (a wait nudges the stream,
the boot saves through the store); what one needs of another is in its own
module as an environment action with every outcome the other may have.

A definition whose comment says `mutant` is a plausible wrong version of the
definition below it, kept so that every property can be seen to fail: each
property of each passing run is violated once its listed definition is replaced
by the mutant.

## 3. The runs

Passing:

| Run | Question | Bounds, and why they suffice |
|---|---|---|
| `sync_safety` | do both bounds keep their word, and does no write go backwards, with losses, short reads, wide gaps and a teardown? | 8 entries in 5 blocks; block 3 holds three, so a proven read can land a key's last write before the frame of an earlier one; `GapMax = 2` makes a gap wide, `PassMax = 2` splits passes; one teardown gives one zombie; three boots: nothing to fill, a window below the frontier, an image ahead of the stream |
| `sync_catchup` | no reconcile (interval 0): is the applied bound true under catch-ups racing frames and narrow heals? | all boots, two catch-ups: one can return between the other's start and return |
| `sync_liveness` | does the reconcile get past every block the stream passed, when every log has the same index, so that the continuity check misses gaps, and with wide gaps? | one block per pass, so every block boundary is a pass boundary; `GapMax = 2` |
| `state` | *guard*: does it hold its ground against any order of deliveries? *boot*: is the image complete through the baseline it claims? *index*: does every saved row stay under its name? *store*: is a readable generation ever lost, does a load find it, is a live temp file swept? *flush*: is a resolved `set()` on disk? *plumbing*: does the output arrive, once and in order? *entities*, *projection*, *heap*: the properties below | 6 entries in 3 blocks: block 2 removes a key and sets it again, block 3 removes it once more, so a key can change kind between two streams and a chunk can end within a block; three loads: a saved cache, a checkpoint over it, the boot that reads it back; `ReplayMax = 2` releases a cache; two stores of one process and one of another; four calls, so that a call can join a flush, miss it, and be joined; two entities numbered anew once, three loads: an image, the delta over it, and the child's; six updates in windows of two; three identifiers for two indices; ages up to one second past the window; limits and memories on both sides of every boundary of the heap's decision |
| `services` | *daemon*: one retry path, LIVE served and lasting, giving up and stopping final, settling, draining; *clock*, *feed*, *wait*, *provider*, *range*, *unhealed*, *worker*: the properties below | the code's own `MaxAttempts = 5`, no failure streak, no rate limit; 5 blocks for the clock, so a read can be overtaken by two; a buffer of 2 under 4 events, one reader that takes all and one that filters and pages by 1; two connections, one with two queued waits; 2 attempts and 4 provider pairs, so old pairs have late events; chunks of 2 blocks in a range of up to 5, so a chunk may be the first, a middle one or a short last one; a list of 1 range that splits into 2; two workers, each with two runs, so that a run may outlive its worker and see the next one LIVE |

`ReconciledIsHeld` is the central one: every write of every block up to
`reconciledThrough` is in the mirror, whatever was lost. `AppliedIsHeld` is its
counterpart for `appliedThrough`, claimed once the stream is past the boot's
frontier (below it a lost frame within the boot window is the reconcile's
to find). `NeverOlder` is about the user's eyes: no value is replaced by an older
one, but for a frame over a position-less boot value. `RepairsAreLosses`: the
repair counter is silent unless the stream lost a write; a repair is an alarm.
`UnhealedIsAhead`: a range on the unhealed list is one a later read will still
cover. `ReconcileCatchesUp` is the liveness of the reconcile. Its second disjunct is
the code's: a wide gap's diff raises the frontier to the block it was read at, and
no pass starts until the stream's cursor is past that; if the frames then stop, the
bound stops with them.

Of the parts around it: `BaselineIsTrue` (what a boot claims is in the image it
goes LIVE with, whatever failed, was retried, cut or merged late, but for keys that
were removed above the claim, which the reconcile then reads; section 7 has the
trace) is what `MirrorSync`'s `Boots` constant assumes of the boot; `ResolvedIsOnDisk` is what the
checkpoint child's success message assumes of the store; `ReadKeepsPromise` is
what every proven read in `MirrorSync` assumes of the chain. `NoSampleLost`: a
request for a clock sample survives failed, hung and overtaken header reads.
`NothingSkippedSilently`: a feed reader that pages on misses only what
`buffer.evicted` told it of. `WaitsComeTrue`: an `--at-least` wait ends through its
own nudges though the stream is dead. `NoPairLeaks`, `ProviderConnects`: no
websocket is left open by reconnects, and CONNECTING ends. `UnhealedIsExact`:
the reported list and its age survive merges, splits and the cap.
`AnswerKeepsItsStamp`: an answer that awaited is stamped with an applied bound that
its data reaches (for the reconciled one see `answer_stamp`).
`NothingOutlives`: whenever a worker is disposed of, all that its runs open is
closed in the end. `SavedRowsAreNamed`: a saved cache names its rows as the service
meant them, or carries a nonce the service no longer has. `OutputIsAChannel` and
`OutputArrives` are what every mark in `MirrorSync` assumes of the path it takes.
`IndexIsInverse`: a query through an index finds what a scan would.
`RefusalIsDue`, `RowIsCurrent`: a derived row lacks only what the mirror lacks, and
shows no more than two seconds of the past, and that only for the node.
`NeverShortUnasked`: no cold boot is started short of heap that the operator did
not ask for.

Three combinations are left out of the passing safety runs because the
property does not survive them. The violating runs below show two: catch-ups
beside the reconcile (`MaxCatchUps = 0` in `sync_safety`), and wide gaps beside
catch-ups (`GapMax = 9` in `sync_catchup`). The third is `UnhealedIsAhead` with
teardowns (`MaxTeardowns = 0` in `sync_liveness`), see section 7. `sync_liveness`
also leaves out catch-ups, for the size of its graph.

Violated, each a disagreement with a comment of the code (`PROJECT.json`,
`findings`):

* `catchup_race` — catch-ups and reconcile share no lock. A catch-up read that
  returns after a pass has advanced and pruned meets no place, and its older
  write lands over a newer one at or below `reconciledThrough`.
* `wide_gap_race` — a wide gap's diff is position-less and lands unconditionally;
  two catch-ups that got past the gap's end while it was read are taken back,
  and `appliedThrough` still claims them.
* `double_retry` — `onFailed` leaves the watchdog armed during a retry delay. With
  a delay over 90 s it fires, a second timer is set, and the second timer
  boots another worker over the first, or over a LIVE daemon.
* `answer_stamp` — an answer's `appliedThrough` is read before its builder runs, its
  `reconciledThrough` when the envelope is made. The account query awaits a gas
  balance in between: a pass that lands meanwhile stamps the answer with a reconciled
  bound above its applied one, and above the state its data was read from.
* `long_outage` — the reconnects that follow a socket's events or a failed probe
  are not awaited; when their attempts run out, the unhandled rejection ends
  the process that SPEC promises will go on serving.
* `late_save` — a worker disposed of while it saves its image creates and
  subscribes its stream before it looks; the hook of the LIVE worker's catch-ups is
  taken away when that stream is closed (`Worker.ts:141` promises a check after every
  await).
* `lost_delta` — a bridge delta that fails after its values and before its entities
  leaves rows without names; if the fill after it is short, a buffered frame's
  new entity is appended under such an index, and the row goes out as that
  entity's value (`bridge.ts:78` calls the outcome chain-authoritative).

## 4. Fairness

`MirrorSync!FairSpec` assumes weak fairness of `Mine` (blocks keep coming) and
`PassStart` (an interval timer), and strong fairness of `FullPass`: a pass that
proves as far as the chain allows happens again and again if it can. A backend
may lag for any finite time, but one that never again proves a block would
rightly stop the bound. Nothing is assumed of the stream: frames may all be
lost, heals may never return.

`MCServices!ServicesFairness`, part by part:

* *daemon*: timers go off (`Retry`, `Watchdog`, the seed's budget, the child's age,
  the drain's polling). Nothing is assumed of workers, the chain, the child or
  the feed: `DaemonSettles` holds although every worker may fall silent or retry by
  itself for ever, because the watchdog finds it.
* *feed*: the retry timer only.
* *plumbing* (in `MCState!StateSpec`): the 33 ms and the 100 ms timers.
* *wait*: blocks keep coming, the head sampler ticks. The nudge intervals get
  strong fairness: a nudge does nothing while another catch-up is in flight, and
  two intervals of a second each against reads of any duration are assumed not
  to phase-lock for ever. Reads get it per range end: a range asked for again and
  again does not come back unproven for ever. Of the stream nothing is assumed,
  and the client's time-out never has to come.
* *provider*: an attempt under way ends, by an answer or by
  `NETWORK_CHECK_TIMEOUT_MS`.

`sync_*`, `services`, `state` and the violation runs set `CHECK_DEADLOCK FALSE`: the
bounded chain and the bounded histories end, and the daemon stops.

## 5. What is proved

All from the named assumptions of the modules only. Every invariant and every action
property of a passing run is stated by a theorem; liveness is not.

* **The guard** (`ApplyGuardProofs`, any chain, any set of keys):
  `GuardTypes`, `GuardPlaceIsTrue`, `GuardFinalIsLast`, `GuardHoldsGround`. The
  inductive invariant is `GuardInv == GuardTypeOK /\ PlaceIsTrue /\ FinalIsLast`:
  that a final place is the last word of its block is only kept because the place
  is that of the value held, so the two are proved together. A batch is
  characterised once (`GoodBatch`, `LandAtKey`), and frames and proven reads are
  two instances. `CollapsedIsUpToDate` is the lemma on reads.
* **The live stream** (`MirrorSyncProofs`, any chain, boots, gap and pass widths,
  any number of teardowns and, where it is not said otherwise, of catch-ups). Two
  inductive invariants. `Control` is about the control alone: types, and the shapes
  of stream, heals and pass (`StreamShape`: a frame or a heal advances the cursor,
  never past what the node sent; `HealShape`: what a heal in flight was asked for;
  `PassShape`: a pass starts just above the bound, or above what it holds). It gives
  `SyncTypes` and `SyncAppliedCovers`, the latter for boots that seed the bounds in
  order. `SyncInv` is about the content: the guard's own invariant; values are
  writes of their key (`OwnValues`); a key with a place above the reconciled bound
  is behind every write the pass can still bring (`PlaceShape`, `LooseShape`,
  `PassedIsSkipped`); what the bound covers is held (`ReconciledIsHeld`); what lies
  between the boot and the cursor is held (`ChainIsHeld`, `AppliedOrAhead`). None of
  them holds alone: the bound is true because the places it pruned were those of
  newer writes, and the places are true because the guard keeps value and place
  together. It gives `SyncReconciledIsHeld`, `SyncAppliedIsHeld`,
  `SyncRepairsAreLosses` and `SyncNeverOlder`. The hypotheses: `Tame` (no catch-up, or
  neither a reconcile nor a wide gap: `catchup_race` and `wide_gap_race` show that it
  is needed); `DistinctIndices` for the three claims that rest on the continuity
  check (two entries of a block with one index let a loss go unseen;
  `SyncReconciledIsHeld`, `SyncNeverOlder` and `SyncKeepsGuard` do without); `BootsFilled` (the image
  reaches the stream's start) for the applied bound. The passing runs satisfy them.
  `SyncKeepsGuard` says that the whole of it keeps what the guard promises of single
  deliveries, though a heal of a wide gap writes values with and without a place in
  one step, which is more than one step of `ApplyGuard` and not a refinement of it.
  `SyncUnhealedIsAhead` has an invariant of its own: a range on the list means that
  an entry behind the cursor is missing which every later frame betrays (`Broken`),
  so the stream stands until a heal covers it. It needs `MaxTeardowns = 0` and
  `IndicesTogether`; section 7 shows what each excludes.
* **The boot** (`BootProofs`, any chain and keys, any replicas, chunks and loads):
  `BootBaselineIsTrue` and `BootCachesAreTrue`, under `Steady` (the service as a whole
  never falls back, section 6). The claim of an image is not inductive during a
  delta, whose stamp comes last. The invariant says what a delta has brought so far:
  the keys whose newest entry lies behind a stream's pointer, or behind the row
  its request has come to, are as they were at the state block or newer
  (`RemovalsAreRead`, `ValuesAreRead`); the rows of a late chunk are all such
  entries, and its last one waits for those before it (`LateShape`), which is why the
  pointer may move with it; the request was opened behind the pointer at the head the
  service has answered from (`RequestShape`). At the end of the values nothing is
  left to bring, so every key is either brought, or untouched since the old stamp,
  or removed above the new one. `ClaimShape` carries the three possible baselines
  through the save, the bridge and the fill; `ColdIsEmpty` is why a load from nothing
  may skip the removals.
* **The store** (`StoreProofs`): `StoreStaysReadable`, `StoreLoadFindsIt`,
  `StoreTempIsSafe` for any writers and processes. The strengthening is
  `SoleCopyIsKept`: while the primary is broken and only the previous generation is
  good, no store that could commit would rotate it away. `FlushKeepsPromise`, for
  any number of calls: the invariant says where each call is: made, in the write in
  progress unless `flushQueued` says that one is not, on disk once resolved.
* **The tables** (`StoreProofs`, any number of entities, numberings and loads, any
  events): `IndexSavedRowsAreNamed`. A saved table may be extended by a later load,
  and a later load may extend it wrongly (`lost_delta`), so the property is not
  inductive. The invariant says that the load at hand, until it puts out events, has
  rows and table true to the one numbering it works under, and that only such a load
  is saved: `DiskIsTrue` and `LoadIsTrue`, with the phases typed.
* **The range read** (`StreamProofs`, any chunk size and chain):
  `ReadImplementsPromise`, the refinement of `ProvenRead`. The invariant is that
  `got` is exactly the blocks from the range's start up to the chunk at hand, and
  that they are below the head; the lemma on `Proof` says that a batch that proves
  a block has every log through it, which is where the margin of one block is
  used.
* **The output path** (`StreamProofs`, any number of updates, any size of batch):
  `PlumbingOutputIsAChannel`. The invariant marks where each batch held back ends and
  says that the next starts there (`Ordered`), and that nothing is held back unless
  an ack is waited for, or a later batch would overtake.
* **The unhealed list** (`StreamProofs`, any cap and chain): `UnhealedListIsExact`. The
  property is inductive but for the bound on its alarm; the work is in what a merge
  (`MergedCoversBoth`), a split (`TrimmedIsTheRest`) and the cap (`RecordedSpread`) do
  to the blocks the list spreads over.
* Both flatten a sequence of sequences, which the community module defines by
  recursion. The library's induction takes an operator and is out of the prover's
  reach, so `FlattenIsDefined`, `FlattenUnfolds`, `FlattenHolds` and `HeldCount` argue by
  the least counterexample (`LeastNatural`, from the library's `WFMin`).
* **The services** (`ServicesProofs`). `ClockLosesNoSample`: a request for a sample is
  older than the newest block, so it is taken by the batch that arms it or by the
  read that follows. `ReconLeaksNoPair`: a socket that is open belongs to the pair in
  use or to the one being tried. `WorkerNothingOutlives`, any number of workers
  and runs: what a run opens it either registers, and disposal closes it, or opens
  after disposal, and the check after its await closes it (`Accounted`, per run and
  per thing). `WaitAnswerKeepsItsStamp`, any connections and requests: the stamp taken
  before the builder is never above what the mirror held then (`StampInv`).
  `FeedSkipsNothing`, any buffer, page and filter: the buffer is an interval of
  sequence numbers, so what is missing below its oldest was counted as evicted
  (`BufferShape`), and a reader's cursor stands before the first event it was not
  given (`ReaderShape`). The heap: `HeapNeverShort`, `HeapOneReexec`,
  `HeapSourceIsTrue`, any limits and memories.
* **The entity store and what is derived from it** (`EntitiesProofs`, any components,
  values and bound): `EntitiesIndexIsInverse`, `EntitiesOneIndex`,
  `EntitiesQueryIsConjunction`; the last says of `runQuery` what its fragments mean,
  and needs the first. `ProjectionRowIsCurrent` and `ProjectionRefusalIsDue`, any
  window, nodes and values: the caches agree with the mirror except where the window
  allows the harvest's node to lag (`CachesAgree`).
* **The daemon** (`DaemonProofs`, any schedule length below the long delays):
  `DaemonOneRetryPath`, `DaemonLiveIsServed`, `DaemonGivingUpIsFinal`,
  `DaemonLiveIsLasting`, `DaemonStopIsFinal`, under `FirstProcess` (no streak, no
  rate limit, `MaxAttempts < OutlastFrom`). `OnePath` says where the process is (a
  worker, a timer, neither), `Schedule` ties the failure count to the attempts
  and so bounds the delay, `LiveIsCurrent` ties LIVE and the seed to the current
  worker. `double_retry` shows that the hypothesis is needed.

Some theorems state properties that no run spends its time on
(`BootCachesAreTrue`, `DaemonGivingUpIsFinal`, `EntitiesOneIndex`,
`EntitiesQueryIsConjunction`, `HeapOneReexec`, `HeapSourceIsTrue`, `SyncTypes`): they
hold for every instance, the small one included.

Model-checked only, and why:

* All liveness (`ReconcileCatchesUp`, `DaemonSettles`, `DrainEnds`, `FeedComesBack`,
  `WaitsComeTrue`, `ProviderConnects`, `OutputArrives`): fairness is beyond the prover.
* What holds of `MirrorSync` where `Tame` does not, and of `Boot` where the service
  falls back, is not claimed at all.

## 6. Not modelled

What the modules leave out of the code they model:

* Retry ladders (which delay follows which error), keepalives, undecodable frames (an entry with `NoKey`), frames with several events.
* `MirrorSync` applies a batch where it is emitted; `Plumbing` is why that is sound.
  It keeps the unhealed list as a set of blocks (`Unhealed` has the
  list). A mark whose batch holds an unknown component is left out. `Init` is the
  LIVE state; frames buffered during the boot are part of `Image`. A healed
  frame's own write is contained in the read that healed it. A diff head below
  the gap is as good as one just below it; a diff has ingested its head block
  wholly or not at all. `BlockUpdate` inputs: the daemon sends none.
* `StateStore`: temp files of one writer are one; a corrupt file is only found at
  the start; the header check is left out.
* `Daemon`: the failure file and preflight checks; both service URLs are
  configured.
* `Boot`: retry counts, the packing of keys; the tables are in `IndexTables`. `Steady`
  assumes that the snapshot service as a whole never falls back behind what one of
  its replicas already served, and that it is not reindexed during one
  bridge; the RPC head a worker subscribes at is the chain's. The output of the
  image and its self-retry are in `WorkerLife`.
* `IndexTables`: the table of components, kept like that of entities. A delta is
  under one nonce: a service that is reindexed between the streams of one delta
  mixes two numberings in that load's mirror, and the load after it sees the nonce.
* `WorkerLife`: what the runs load; a run's stream goes on as long as it is open.
* `Plumbing`: the input side, a subject without a queue.
* `Entities`: proxy fragments, `defineQuery` and components of several keys, none of
  which the program uses. A query has two fragments.
* `Projection`: the kami's bonuses, skills, traits and equipment, read like its stats;
  one kami, one harvest, one owner.
* `Heap`: the wording of a refusal; the limit V8 makes of a requested size is any
  of `Limits`.
* `RangeRead`: a batch that a load balancer splits is assumed to show it in its
  heads, which is what the code tests for.
* `Feed`: the account filter, retry delays and unary calls. `Clock`: the offset
  itself. `Reconnect`: the attempts inside one network check, and a configuration
  without a websocket.

What no module models, and why: more than half of the repository's lines are
generated protocol code (`clients/*/proto.ts`, `ecs-snapshot.ts`), release gates
that compare a running daemon with the chain, vendored libraries and type tables.
Of the rest, most of `src/queries` (some 7,000 lines) and `src/queries/registry.ts`
lay out, under one synchronous snapshot of the mirror, what components say:
field by field, with wording. They keep no state and take no step of their own;
what is hard in them (the caches they read through, what they refuse, the stamps
of an answer that awaits) is in `Projection` and `ReadYourWrites`. The other
shapes under `src/app/cache` are filled once from registries that never change.
The tripwires count. The command line and the stateless mode run once. A model
of these would restate them, so the share of all lines that the definitions
map stays small although the stateful parts are covered.

## 7. Observations

Things met on the way, no property violated by them.

* `stop()` during `onLive`'s await: `onLive` restarts the feed and the checkpoint
  timer afterwards. The CLI exits then, so nothing comes of it.
* The last checkpoint of `stop()` has no bound of its own; only the drain of one
  already in flight has. `protocol.ts` speaks of the latter.
* `appliedThrough` can start below `reconciledThrough` when the RPC's head lags
  the snapshot service (`Worker.ts:853`; `envelope.ts:136` says "Always >=
  reconciledThrough"). It is therefore checked for boots whose stream starts at
  or after the image (`OrderedBoots`).
* On giving up, the CLI may exit before the last failure is on disk.
* The unhealed list may grow past its cap of 64: a heal that lies inside a range
  splits it, and ranges that touch several neighbours are merged into the first
  only. "Bound on the reported list" (`sync-health.ts:102`) bounds what
  `recordUnhealed` appends.
* A batch whose two heads come from one backend and whose logs come from another
  passes the split test of `utils.ts:425`.
* A catch-up cannot serve a block below the boot's frontier until the mark has
  passed it; a wait for one depends on the stream or the reconcile.
* The feed's cursor carries no process identity: after a restart sequence numbers
  begin at 1 again, and a reader with an old cursor is served nothing until they
  pass it. A feed that falls silent without ending is reported, not resubscribed.
* A keepalive probe that was waiting on the previous provider pair, or its late
  close event, tears down the pair that has replaced it.
* A provider disposed while CONNECTING goes on connecting, and after disposal the
  listeners on the pair in use may open another (`SPEC.md:228`: "opens nothing").
  A first `initProviders` that fails leaves the keepalive interval running.
* Callers of `set()` may wait for one flush more than their value needs.
* A CDN boot's baseline stays the image's block although a bridge delta with
  another nonce replaced the whole cache; that is a cautious claim.
* The frontier of a CDN boot whose bridge failed half way and whose gap was filled
  by RPC may be below a block that the failed delta already applied
  (`DESIGN.md:1540`, "the frontier the highest"); `servedHigh` is not persisted.
* Output is acknowledged by the 100 ms timer alone: the ack at the end of a batch
  comes before the worker listens (`utils.ts:385`). One batch per tick is applied,
  and what waits has no bound.
* `getKamiHarvest` takes a node up to 2 s old (`kami/getters.ts:70`, relied upon at
  `queries/build.ts:462`): a kami that moved is shown where it was for that long.
* An owner's name is cached at the first read for the life of the process
  (`account/base.ts:76`); `envelope.ts:130` says an answer reflects every write
  through its stamp.
* A delta reads the removals first and the values after them. A key that was
  written, and removed between the two reads, is in neither stream: the saved cache
  keeps its older value, and its stamp claims the write (`snapshot/fetch.ts:271`;
  `SPEC.md:226`, "never persists a stamp newer than its data"). The next delta may
  miss the key in the same way, if it is written and removed once more: with writes
  of one key in blocks 1 to 5, of which 3 and 5 remove it, a cache that stands at
  block 1 is stamped 2 by a delta whose streams are served at heads 2 and 3, and the
  worker whose streams are then served at heads 4 and 5 goes LIVE with the write of
  block 1 and the baseline 2 (`Worker.ts:785`, "the block this process's loaded state
  may CLAIM"). `BaselineIsTrue` therefore excepts keys that the service has seen
  removed above the baseline; the reconcile starts there and takes them up.
* A gap inside one block may stay on the unhealed list for ever where an index is
  repeated after another one. With indices 0, 1, 0 in a block, the cursor on the
  first entry and a pass through that block, a lost second entry makes the third a
  gap, which is deferred; a later frame with the right index then continues past
  it. The pass starts behind the block and no heal covers it. Nothing is lost, since
  the block is reconciled, but the status reports it. `IndicesTogether` in the proof of
  `SyncUnhealedIsAhead` excludes it.
* A heal abandoned at teardown still records its range as unhealed
  (`stream.ts:887`, `heal.ts:382`) after others healed it. No later read covers the
  range, so it stays on the list: `UnhealedIsAhead` does not survive teardowns.
* The caches keyed by entity index are not emptied when a retry builds a new world
  (`daemon.ts:557`); they are filled by queries, which are served from LIVE on.
* When `createReconnecting` fails its keepalive interval and its reactions stay.
  The window timer of a disposed worker's output is never unsubscribed.
* After a self-retry the first run's stream stays subscribed until disposal: it goes
  on reconciling into a buffer nobody reads, and clears unhealed ranges.
* `isRateLimited` is awaited without a look at the flag afterwards
  (`Worker.ts:633`); it only reads.
* `fetchEntities` cuts the table to its pointer but leaves the removed entities in
  the inverse map; the table is never longer than the pointer there.
* A lagging replica can leave rows without names in a saved cache; an event's new
  entity then takes such an index also without a bridge. The output fails first
  unless the events name every such index.
* `withTimeout` does not stop a chunk: its rows go on being applied beside the
  stream that was reopened, and possibly while the cache is being saved.

## 8. Plan

Next:

1. `Boot` as an implementation of `MirrorSync`'s `Boots`: the frontier covers the
   image (false today for a failed bridge, see above) beside `BaselineIsTrue`.
2. `Boot` and `IndexTables` as one load: a row with its value and its name.
