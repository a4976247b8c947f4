-------------------------------- MODULE Boot --------------------------------
(***************************************************************************)
(* How the state image of a process comes about: the saved cache, the CDN  *)
(* image or the snapshot service's delta (src/workers/sync/snapshot), the  *)
(* gap fill and the frames buffered meanwhile, and what the sync worker    *)
(* then claims of it (src/workers/sync/Worker.ts); and the checkpoint      *)
(* child, which runs the same delta over the saved cache.                  *)
(*                                                                         *)
(* The value of a key is the entry that wrote or removed it, as in Chain.  *)
(* The calls of a delta go to replicas of one service, each complete       *)
(* through a head of its own.  Component and entity indices are left out.  *)
(***************************************************************************)
EXTENDS Chain

CONSTANTS
    Removals,   \* the entries that remove their key
    ReplayMax,  \* BOOT_REPLAY_MAX_BLOCKS
    Steady,     \* the service never falls back: see Answers
    MaxLoads    \* bound: the loads of one behaviour

ASSUME BootAssumption ==
    /\ Removals \subseteq Logs
    /\ ReplayMax \in Nat /\ MaxLoads \in Nat
    /\ Steady \in BOOLEAN

VARIABLES
    height,   \* the chain's head
    service,  \* the highest head a replica of the service has answered from
    disk,     \* the saved cache
    cache,    \* the state cache of the load at hand
    step,     \* what that load, or the boot around it, does next
    by,       \* who loads: the worker, the worker's bridge, or the child
    known,    \* what the boot noted on the way
    request,  \* the GetState stream that is being read, or Closed
    late,     \* the values of a chunk that ran out of time: still applied
    seed,     \* what the worker claims of its image when it goes LIVE
    loads     \* the loads begun

bootVars == <<height, service, disk, cache, step, by, known, request, late, seed, loads>>

Nobody     == [k \in Keys |-> 0]
EmptyCache == [image |-> Nobody, stamp |-> 0, values |-> 0, removals |-> 0, high |-> 0]
Unknown    == [preDelta |-> 0, sameNonce |-> TRUE, cdn |-> 0, stateBlock |-> 0,
               subscribed |-> 0, start |-> 0]
Closed     == [at |-> -1, from |-> 0, sent |-> 0]
NoSeed     == [baseline |-> 0, frontier |-> MaxBlock]

(* What a reader that is complete through block b holds of a key. *)
StateAt(b) == [k \in Keys |-> Max({0} \cup WritesIn(k, 0, b))]

BootInit ==
    /\ height \in 1..MaxBlock /\ service = 0
    /\ disk = [image |-> Nobody, stamp |-> 0]
    /\ cache = EmptyCache /\ step = "down" /\ by = "worker"
    /\ known = Unknown /\ request = Closed /\ late = {} /\ seed = NoSeed
    /\ loads = 0

HeightGrows ==
    /\ height < MaxBlock
    /\ height' = height + 1
    /\ UNCHANGED <<service, disk, cache, step, by, known, request, late, seed, loads>>

Begins(who) ==
    /\ loads < MaxLoads
    /\ loads' = loads + 1
    /\ by' = who
    /\ request' = Closed /\ late' = {} /\ seed' = NoSeed

FromDisk == [EmptyCache EXCEPT !.image = disk.image, !.stamp = disk.stamp]

(* A process is killed, or its worker fails: the next one starts over.     *)
Dies ==
    /\ step # "down"
    /\ step' = "down" /\ by' = "worker"
    /\ cache' = EmptyCache /\ known' = Unknown
    /\ request' = Closed /\ late' = {} /\ seed' = NoSeed
    /\ UNCHANGED <<height, service, disk, loads>>

(* Cache load and head read.  A saved cache that is too far behind to be   *)
(* verified by replay is released, unless the head could not be read.      *)
WorkerBoots ==
    /\ step = "down"
    /\ Begins("worker")
    /\ \/ cache' = FromDisk
       \/ /\ disk.stamp > 0 /\ height - disk.stamp > ReplayMax
          /\ cache' = EmptyCache
    /\ known' = [Unknown EXCEPT !.preDelta = cache'.stamp]
    /\ step' = "plan"
    /\ UNCHANGED <<height, service, disk>>

(* A worker that starts cold is offered an export of block m.  Its chunks  *)
(* may expire while they are read: then those of a newer export, m2, are.  *)
CdnLoad(m, m2) ==
    /\ step = "plan" /\ cache.stamp = 0
    /\ 0 < m /\ m <= m2 /\ m2 <= height
    /\ height - m <= ReplayMax
    /\ cache' = [EmptyCache EXCEPT !.image = StateAt(m2), !.stamp = m2]
    /\ known' = [known EXCEPT !.cdn = m]
    /\ service' = Max({service, m2})
    /\ step' = "save"
    /\ UNCHANGED <<height, disk, by, request, late, seed, loads>>

(* The checkpoint child of a LIVE daemon. *)
Checkpoint ==
    /\ step \in {"live", "saved"}
    /\ Begins("child")
    /\ cache' = FromDisk
    /\ known' = Unknown
    /\ step' = "plan"
    /\ UNCHANGED <<height, service, disk>>

-----------------------------------------------------------------------------
(* A replica with head r answers.  A steady service has none that lags     *)
(* behind what another served before, and keeps its nonce through a boot.  *)
Answers(r) ==
    /\ r <= height
    /\ Steady => r >= service
    /\ service' = Max({r, service})

(* fetchSnapshot: GetStateBlock names block b; a service that was reindexed*)
(* since (another nonce) makes it a full load.                             *)
StateBlock(b, reindexed) ==
    /\ step \in {"plan", "bridge"}
    /\ b > 0 /\ Answers(b)
    /\ Steady /\ by = "bridge" => ~ reindexed
    /\ LET base == IF reindexed THEN EmptyCache ELSE cache
       IN  /\ cache' = [base EXCEPT !.values = base.stamp, !.removals = base.stamp]
           /\ step' = IF base.stamp = 0 THEN "values" ELSE "removals"
    /\ known' = [known EXCEPT !.stateBlock = b, !.sameNonce = @ /\ ~ reindexed]
    /\ UNCHANGED <<height, disk, by, request, late, seed, loads>>

Pointer == IF step = "values" THEN cache.values ELSE cache.removals

(* resumeBlock: the service serves what lies strictly after it. *)
Resume == Max({0, Pointer - 1})

(* What a replica with head r still has to serve: the newest entry of each *)
(* key, if it is of the stream's kind, in the order of the chain.          *)
Rows == {i \in Logs :
            /\ \E k \in Keys : StateAt(request.at)[k] = i
            /\ BlockOf[i] > request.from
            /\ (i \in Removals) = (step = "removals")
            /\ i > request.sent}

(* A GetState stream is opened, first or again. *)
OpenStream(r) ==
    /\ step \in {"removals", "values"}
    /\ request = Closed
    /\ Answers(r)
    /\ request' = [at |-> r, from |-> Resume, sent |-> 0]
    /\ UNCHANGED <<height, disk, cache, step, by, known, late, seed, loads>>

Put(image, rows) ==
    [k \in Keys |-> IF \E i \in rows : KeyOf[i] = k
                    THEN CHOOSE i \in rows : KeyOf[i] = k ELSE image[k]]

(* One chunk, up to entry i: a chunk may end within a block. *)
Chunk(i) ==
    /\ request # Closed
    /\ i \in Rows
    /\ LET block == Max({Pointer, BlockOf[i]})
           held  == [cache EXCEPT !.image = Put(@, {j \in Rows : j <= i})]
       IN  cache' = IF step = "values" THEN [held EXCEPT !.values = block]
                                       ELSE [held EXCEPT !.removals = block]
    /\ request' = [request EXCEPT !.sent = i]
    /\ UNCHANGED <<height, service, disk, step, by, known, late, seed, loads>>

(* The stream fails between chunks: it is opened again.  A chunk of values *)
(* that runs out of time fails it too, while its rows are being applied.   *)
StreamFails ==
    /\ request # Closed
    /\ request' = Closed
    /\ \/ UNCHANGED late
       \/ /\ step = "values" /\ late = {}
          /\ \E i \in Rows : late' = {j \in Rows : j <= i}
    /\ UNCHANGED <<height, service, disk, cache, step, by, known, seed, loads>>

(* The next row of the late chunk; the pointer moves with the last one.    *)
LateRow ==
    /\ late # {}
    /\ LET i == Min(late) IN
       /\ late' = late \ {i}
       /\ cache' = [cache EXCEPT !.image = Put(@, {i}),
                                 !.values = IF late' = {} THEN Max({@, BlockOf[i]}) ELSE @]
    /\ UNCHANGED <<height, service, disk, step, by, known, request, seed, loads>>

(* The blocks the load was served at: see the stamp. *)
Served ==
    {known.stateBlock} \cup {b \in {cache.values, cache.removals} : b > cache.stamp}

StreamEnds ==
    /\ request # Closed
    /\ Rows = {}
    /\ request' = Closed
    /\ IF step = "removals"
       THEN step' = "values" /\ UNCHANGED cache
       ELSE /\ cache' = [cache EXCEPT !.stamp = Min(Served), !.high = Max(Served)]
            /\ step' = IF by = "bridge" THEN "gap" ELSE "save"
    /\ UNCHANGED <<height, service, disk, by, known, late, seed, loads>>

-----------------------------------------------------------------------------
(* The save, which StateStore.tla takes apart; the worker then subscribes  *)
(* to the stream.                                                          *)
Save ==
    /\ step = "save"
    /\ disk' = [image |-> cache.image, stamp |-> cache.stamp]
    /\ step' = IF by = "child" THEN "saved" ELSE "stream"
    /\ known' = [known EXCEPT !.subscribed = height]
    /\ UNCHANGED <<height, service, cache, by, request, late, seed, loads>>

(* streamStartBlockNumber.  A CDN image is first carried forward by a      *)
(* delta (bridgeBoot).                                                     *)
StreamStart ==
    /\ step = "stream"
    /\ known' = [known EXCEPT !.start = height]
    /\ IF known.cdn > 0 THEN step' = "bridge" /\ by' = "bridge"
                        ELSE step' = "gap" /\ UNCHANGED by
    /\ UNCHANGED <<height, service, disk, cache, request, late, seed, loads>>

(* The bridge's delta fails, and what it applied stays; a nonce mismatch   *)
(* made it work on another cache, which is dropped.                        *)
BridgeFails ==
    /\ by = "bridge" /\ step \in {"bridge", "removals", "values"}
    /\ IF known.sameNonce THEN UNCHANGED <<cache, late>>
                          ELSE cache' = FromDisk /\ late' = {}
    /\ step' = "gap"
    /\ request' = Closed
    /\ UNCHANGED <<height, service, disk, by, known, seed, loads>>

BaselineAtStart == known.start      \* mutant: the boot window is not claimed back

(* The block the loaded state may claim. *)
Baseline ==
    IF known.cdn > 0 THEN known.cdn
    ELSE IF known.preDelta > 0 /\ known.sameNonce THEN known.preDelta
    ELSE cache.stamp

(* The gap fill read the chain through c: from the Kamigaze diff, which    *)
(* names its latest block, or from the RPC, or not at all.  The frames     *)
(* that were buffered are merged after it, and the seed is made.           *)
GoLive(c, latest, frames) ==
    LET filled == Collapsed(cache.stamp, c)
        image  == [k \in Keys |-> IF k \in DOMAIN filled THEN filled[k] ELSE cache.image[k]]
        last   == {i \in frames : \A j \in frames : KeyOf[j] = KeyOf[i] => j <= i}
    IN  /\ cache' = [cache EXCEPT !.image = Put(image, last)]
        /\ seed' = [baseline |-> Baseline,
                    frontier |-> Max({Baseline, cache.stamp, cache.high, latest, known.start}
                                     \cup {BlockOf[i] : i \in frames})]
        /\ step' = "live"
        /\ late' = {}
        /\ UNCHANGED <<height, service, disk, by, known, request, loads>>

Fill(frames) ==
    /\ step = "gap"
    /\ frames \subseteq {i \in Logs : known.subscribed < BlockOf[i] /\ BlockOf[i] <= height}
    /\ \/ \E latest \in 0..height : \E c \in {latest - 1, latest} : GoLive(c, latest, frames)
       \/ \E c \in {-1, known.start} : GoLive(c, 0, frames)

BootNext ==
    \/ HeightGrows \/ Dies \/ WorkerBoots \/ Checkpoint
    \/ \E m, m2 \in Blocks : CdnLoad(m, m2)
    \/ \E b \in Blocks, reindexed \in BOOLEAN : StateBlock(b, reindexed)
    \/ \E r \in Blocks : OpenStream(r)
    \/ \E i \in Logs : Chunk(i)
    \/ StreamFails \/ StreamEnds \/ LateRow
    \/ Save \/ StreamStart \/ BridgeFails
    \/ \E frames \in SUBSET Logs : Fill(frames)

BootSpec == BootInit /\ [][BootNext]_bootVars

-----------------------------------------------------------------------------
(* v is what key k was at some moment after block b, if only by being      *)
(* absent: a removal leaves nothing behind.                                *)
Absent(v) == v = 0 \/ v \in Removals

Current(k, v, b) ==
    \E i \in Writes(k) \cup {0} :
        /\ BlockOf[i] <= height /\ UpToDate(k, i, b)
        /\ i = v \/ (Absent(i) /\ Absent(v))

(* k was removed above block b, as far as the service has answered.  A     *)
(* removal that comes between a delta's two streams is in neither, nor is  *)
(* the write before it; the next delta may miss k in the same way.         *)
RemovedSince(k, b) ==
    \E i \in Writes(k) \cap Removals : b < BlockOf[i] /\ BlockOf[i] <= service

(* The image a worker goes LIVE with is complete through the baseline its  *)
(* reconcile starts from, but for keys that were removed above it, which   *)
(* the reconcile then reads: whatever the gap fill missed, and although    *)
(* older buffered frames are merged over newer fills (Worker.ts,           *)
(* divergence 18).                                                         *)
BaselineIsTrue ==
    step = "live" => \A k \in Keys : \/ Current(k, cache.image[k], seed.baseline)
                                     \/ RemovedSince(k, seed.baseline)

=============================================================================
