------------------------------ MODULE BootProofs ------------------------------
(***************************************************************************)
(* What a boot claims of its image, for every chain, every service that     *)
(* does not fall back, and any number of loads: the saved cache and the     *)
(* cache of the load at hand are true to their stamps, and a worker's image *)
(* to its baseline.                                                         *)
(***************************************************************************)
EXTENDS Boot, ApplyGuardProofs

Streaming == step \in {"removals", "values"}

Images == [Keys -> 0..NLogs]
Caches == [image : Images, stamp : Nat, values : Nat, removals : Nat, high : Nat]
Notes  == [preDelta : Nat, sameNonce : BOOLEAN, cdn : Nat, stateBlock : Nat,
           subscribed : Nat, start : Nat]
Steps  == {"down", "plan", "bridge", "removals", "values", "save", "saved", "stream",
           "gap", "live"}

BootTypeOK ==
    /\ height \in Blocks
    /\ service \in 0..height
    /\ disk \in [image : Images, stamp : Nat] /\ disk.stamp <= service
    /\ cache \in Caches /\ cache.stamp <= service
    /\ step \in Steps
    /\ by \in {"worker", "bridge", "child"}
    /\ known \in Notes /\ known.stateBlock <= service /\ known.start <= height
    /\ seed.baseline \in Nat
    /\ request \in [at : Int, from : Nat, sent : 0..NLogs]
    /\ late \subseteq Logs

-----------------------------------------------------------------------------
(* The same for a chain of height h and a service that has answered from s: *)
(* what the constants alone say of a value.                                *)
IsCurrent(k, v, b, h) ==
    \E i \in Writes(k) \cup {0} :
        BlockOf[i] <= h /\ UpToDate(k, i, b) /\ (i = v \/ (Absent(i) /\ Absent(v)))

IsRemoved(k, b, s) == \E i \in Writes(k) \cap Removals : b < BlockOf[i] /\ BlockOf[i] <= s

(* What an image holds of k is true to the claim of block b.  At LIVE the   *)
(* image has had frames merged over it, and is true to the baseline only.  *)
TrueThrough(k, v, b) == IsCurrent(k, v, b, height) \/ IsRemoved(k, b, service)

CachesAreTrue ==
    /\ \A k \in Keys : TrueThrough(k, disk.image[k], disk.stamp)
    /\ step # "live" => \A k \in Keys : TrueThrough(k, cache.image[k], cache.stamp)

(* Only a load from nothing has a stamp of 0.                              *)
ColdIsEmpty ==
    /\ disk.stamp = 0 => disk.image = Nobody
    /\ step = "plan" /\ cache.stamp = 0 => cache.image = Nobody
    /\ step = "save" => cache.stamp > 0
    /\ Streaming => known.stateBlock > 0

(* The newest entry of k that the service has served from.                 *)
NewestOf(k) == StateAt(service)[k]

(* The delta at hand has k as it was at its state block, or later.         *)
Read(k) == IsCurrent(k, cache.image[k], known.stateBlock, height)

(* The keys that a stream of the given kind has to bring.                  *)
Brought(k, removed) ==
    /\ NewestOf(k) \in Logs
    /\ BlockOf[NewestOf(k)] >= cache.stamp
    /\ (NewestOf(k) \in Removals) = removed

(* The part of a stream that is behind its pointer, or the request.        *)
BehindRequest(k, pointer) ==
    \/ BlockOf[NewestOf(k)] < pointer
    \/ request # Closed /\ NewestOf(k) <= request.sent

(* The request is at the head the service has answered from, from the      *)
(* pointer it was opened at or from the beginning.                         *)
RequestShape ==
    /\ ~ Streaming => request = Closed
    /\ request # Closed => /\ request.at = service
                           /\ request.from = 0 \/ request.from < Pointer

PointerShape ==
    Streaming => /\ cache.stamp <= known.stateBlock
                 /\ cache.values <= service /\ cache.removals <= service
                 /\ step = "removals" => cache.values = cache.stamp

RemovalsAreRead ==
    /\ step = "removals" =>
         \A k \in Keys : Brought(k, TRUE) /\ BehindRequest(k, cache.removals) => Read(k)
    /\ step = "values" =>
         \A k \in Keys : Brought(k, TRUE) /\ BlockOf[NewestOf(k)] <= known.stateBlock
                            => Read(k)

ValuesAreRead ==
    step = "values" =>
        \A k \in Keys : Brought(k, FALSE) /\ BehindRequest(k, cache.values) => Read(k)

(* A late chunk was served from the state block's head or a later one, and *)
(* its last row waits for all before it.                                   *)
LateShape ==
    /\ late # {} => cache.stamp <= known.stateBlock
    /\ step \in {"plan", "bridge", "removals", "live"} => late = {}
    /\ known.cdn > 0 /\ step \in {"save", "stream"} => late = {}
    /\ \A i \in late : /\ KeyOf[i] \in Keys
                       /\ BlockOf[i] <= service
                       /\ UpToDate(KeyOf[i], i, known.stateBlock)
    /\ step = "values" =>
         \A i \in late, k \in Keys :
             Brought(k, FALSE) /\ NewestOf(k) <= i => Read(k) \/ NewestOf(k) \in late

(* What the boot will claim.                                               *)
ClaimShape ==
    /\ known.cdn <= cache.stamp
    /\ known.sameNonce => known.preDelta <= cache.stamp
    /\ known.cdn > 0 => known.sameNonce
    /\ step = "plan" => known.cdn = 0 /\ known.sameNonce
    /\ by = "bridge" => known.cdn > 0
    /\ known.cdn > 0 /\ Streaming => by = "bridge"
    /\ step = "bridge" => by = "bridge"
    /\ by = "bridge" \/ step \in {"stream", "bridge", "gap"} => Baseline <= known.subscribed

LiveIsTrue == step = "live" => \A k \in Keys : TrueThrough(k, cache.image[k], seed.baseline)

BootInv ==
    /\ Steady
    /\ BootTypeOK /\ CachesAreTrue /\ ColdIsEmpty
    /\ RequestShape /\ PointerShape /\ RemovalsAreRead /\ ValuesAreRead
    /\ LateShape /\ ClaimShape /\ LiveIsTrue


-----------------------------------------------------------------------------
(* Values and claims, whatever the boot does. *)
LEMMA WriteFacts ==
    ASSUME NEW k, NEW i \in Writes(k) \cup {0}
    PROVE  /\ i \in 0..NLogs /\ BlockOf[i] \in Nat /\ BlockOf[i] \in Blocks
           /\ i # 0 => i \in Logs /\ KeyOf[i] = k /\ BlockOf[i] >= 1
BY ChainAssumption DEF ChainAssumption, Writes, Logs, Blocks

(* A claim holds for every lower block, and for ever. *)
LEMMA CurrentEasier ==
    ASSUME NEW k, NEW v, NEW b \in Int, NEW h \in Int, NEW b2 \in Int, NEW h2 \in Int,
           b2 <= b, h <= h2, IsCurrent(k, v, b, h)
    PROVE  IsCurrent(k, v, b2, h2)
<1>1. PICK i \in Writes(k) \cup {0} :
          BlockOf[i] <= h /\ UpToDate(k, i, b) /\ (i = v \/ (Absent(i) /\ Absent(v)))
  BY DEF IsCurrent
<1>2. UpToDate(k, i, b2)
  <2> SUFFICES ASSUME NEW j \in Writes(k), BlockOf[j] <= b2 PROVE j <= i
    BY DEF UpToDate
  <2>1. BlockOf[j] \in Int
    BY WriteFacts
  <2> QED
    BY <1>1, <2>1 DEF UpToDate
<1>3. BlockOf[i] <= h2
  BY <1>1, WriteFacts
<1> QED
  BY <1>1, <1>2, <1>3 DEF IsCurrent

LEMMA RemovedEasier ==
    ASSUME NEW k, NEW b \in Int, NEW s \in Int, NEW b2 \in Int, NEW s2 \in Int,
           b2 <= b, s <= s2, IsRemoved(k, b, s)
    PROVE  IsRemoved(k, b2, s2)
<1>1. PICK i \in Writes(k) \cap Removals : b < BlockOf[i] /\ BlockOf[i] <= s
  BY DEF IsRemoved
<1>2. BlockOf[i] \in Int
  BY WriteFacts
<1> QED
  BY <1>1, <1>2 DEF IsRemoved

LEMMA AbsentIsCurrent ==
    ASSUME NEW k, NEW h \in Nat
    PROVE  IsCurrent(k, 0, 0, h)
<1>1. UpToDate(k, 0, 0)
  <2> SUFFICES ASSUME NEW j \in Writes(k), BlockOf[j] <= 0 PROVE j <= 0
    BY DEF UpToDate
  <2> QED
    BY WriteFacts, ChainAssumption DEF ChainAssumption, Writes
<1>2. BlockOf[0] = 0
  BY ChainAssumption DEF ChainAssumption
<1> QED
  BY <1>1, <1>2 DEF IsCurrent

(* What a reader that is complete through block b holds of a key is its    *)
(* newest write so far.                                                    *)
LEMMA NewestFacts ==
    ASSUME NEW b \in Nat, NEW k \in Keys
    PROVE  /\ StateAt(b)[k] \in Writes(k) \cup {0}
           /\ StateAt(b)[k] \in 0..NLogs
           /\ BlockOf[StateAt(b)[k]] \in Nat
           /\ BlockOf[StateAt(b)[k]] <= b
           /\ UpToDate(k, StateAt(b)[k], b)
           /\ StateAt(b)[k] \in Logs => /\ StateAt(b)[k] \in Writes(k)
                                        /\ KeyOf[StateAt(b)[k]] = k
           /\ StateAt(b)[k] \notin Logs => StateAt(b)[k] = 0
<1> DEFINE S == {0} \cup WritesIn(k, 0, b)
           n == StateAt(b)[k]
<1>1. S \in SUBSET (0..NLogs) /\ S # {} /\ NLogs \in Nat
  BY ChainAssumption DEF ChainAssumption, WritesIn, Writes, Logs
<1>2. n = Max(S)
  BY DEF StateAt
<1>3. n \in S /\ \A y \in S : n >= y
  <2> HIDE DEF S, n
  <2> QED
    BY <1>1, <1>2, MaxOfLogs
<1> HIDE DEF n
<1>4. n \in Writes(k) \cup {0}
  BY <1>3 DEF WritesIn
<1>5. BlockOf[n] <= b
  BY <1>3, ChainAssumption DEF ChainAssumption, WritesIn
<1>6. UpToDate(k, n, b)
  <2> SUFFICES ASSUME NEW j \in Writes(k), BlockOf[j] <= b PROVE j <= n
    BY DEF UpToDate
  <2>1. BlockOf[j] \in Nat /\ j \in Int /\ n \in Int
    BY <1>4, WriteFacts
  <2>2. j \in S
    BY <2>1 DEF WritesIn
  <2> QED
    BY <1>3, <2>1, <2>2
<1>7. n \in 0..NLogs /\ BlockOf[n] \in Nat
  BY <1>4, WriteFacts
<1>8. n \in Logs => n \in Writes(k) /\ KeyOf[n] = k
  BY <1>4, ChainAssumption DEF ChainAssumption, Logs, Writes
<1>9. n \notin Logs => n = 0
  BY <1>4 DEF Writes
<1> QED
  BY <1>4, <1>5, <1>6, <1>7, <1>8, <1>9 DEF n

LEMMA NewestIsCurrent ==
    ASSUME NEW b \in Nat, NEW h \in Nat, b <= h, NEW k \in Keys, NEW b2 \in Int, b2 <= b
    PROVE  IsCurrent(k, StateAt(b)[k], b2, h)
<1>1. IsCurrent(k, StateAt(b)[k], b, h)
  BY NewestFacts DEF IsCurrent
<1> QED
  BY <1>1, CurrentEasier

(* A service that answers from a higher head leaves a key's newest entry,  *)
(* or has one above the head it answered from before.                      *)
LEMMA NewestMoves ==
    ASSUME NEW b \in Nat, NEW b2 \in Nat, b <= b2, NEW k \in Keys
    PROVE  StateAt(b2)[k] = StateAt(b)[k] \/ BlockOf[StateAt(b2)[k]] > b
<1> DEFINE n == StateAt(b)[k]
           n2 == StateAt(b2)[k]
<1>1. /\ n \in Writes(k) \cup {0} /\ BlockOf[n] \in Nat /\ BlockOf[n] <= b
      /\ UpToDate(k, n, b) /\ n \in 0..NLogs
      /\ n2 \in Writes(k) \cup {0} /\ BlockOf[n2] \in Nat /\ BlockOf[n2] <= b2
      /\ UpToDate(k, n2, b2) /\ n2 \in 0..NLogs
  BY NewestFacts
<1> HIDE DEF n, n2
<1> SUFFICES ASSUME BlockOf[n2] <= b PROVE n2 = n
  BY <1>1 DEF n, n2
<1>2. n2 <= n
  BY <1>1 DEF UpToDate, Writes
<1>3. n <= n2
  BY <1>1 DEF UpToDate, Writes
<1> QED
  BY <1>1, <1>2, <1>3

-----------------------------------------------------------------------------
LEMMA BootFacts ==
    ASSUME BootInv
    PROVE  /\ height \in Nat /\ height <= MaxBlock /\ MaxBlock \in Nat
           /\ service \in Nat /\ service <= height
           /\ disk = [image |-> disk.image, stamp |-> disk.stamp]
           /\ disk.image \in Images /\ disk.stamp \in Nat /\ disk.stamp <= service
           /\ cache = [image |-> cache.image, stamp |-> cache.stamp,
                       values |-> cache.values, removals |-> cache.removals,
                       high |-> cache.high]
           /\ cache.image \in Images /\ cache.stamp \in Nat /\ cache.stamp <= service
           /\ cache.values \in Nat /\ cache.removals \in Nat /\ cache.high \in Nat
           /\ known.preDelta \in Nat /\ known.sameNonce \in BOOLEAN /\ known.cdn \in Nat
           /\ known.stateBlock \in Nat /\ known.stateBlock <= service
           /\ known.subscribed \in Nat /\ known.start \in Nat /\ known.start <= height
           /\ request.at \in Int /\ request.from \in Nat /\ request.sent \in 0..NLogs
           /\ NLogs \in Nat
BY ChainAssumption DEF ChainAssumption, BootInv, BootTypeOK, Blocks, Caches, Notes

LEMMA NothingIsTrue ==
    ASSUME BootInv
    PROVE  /\ EmptyCache \in Caches /\ EmptyCache.image = Nobody /\ EmptyCache.stamp = 0
           /\ \A k \in Keys : TrueThrough(k, Nobody[k], 0)
<1>1. Nobody \in Images
  BY BootFacts DEF Nobody, Images
<1>2. EmptyCache \in Caches
  BY <1>1 DEF EmptyCache, Caches
<1>3. ASSUME NEW k \in Keys PROVE TrueThrough(k, Nobody[k], 0)
  <2>1. Nobody[k] = 0
    BY DEF Nobody
  <2> QED
    BY <2>1, BootFacts, AbsentIsCurrent DEF TrueThrough
<1> QED
  BY <1>2, <1>3 DEF EmptyCache

LEMMA HeightKeepsInv ==
    ASSUME BootInv, HeightGrows
    PROVE  BootInv'
<1>1. /\ height' \in Nat /\ height <= height' /\ height' \in Blocks
  BY BootFacts DEF HeightGrows, Blocks
<1>2. /\ service' = service /\ disk' = disk /\ cache' = cache /\ step' = step /\ by' = by
      /\ known' = known /\ request' = request /\ late' = late /\ seed' = seed
  BY DEF HeightGrows
<1>3. BootTypeOK'
  BY <1>1, <1>2, BootFacts DEF BootInv, BootTypeOK
<1>4. ASSUME NEW k, NEW v, NEW b \in Int, IsCurrent(k, v, b, height)
      PROVE  IsCurrent(k, v, b, height')
  BY <1>1, <1>4, CurrentEasier, BootFacts
<1>5. CachesAreTrue'
  BY <1>2, <1>4, BootFacts DEF BootInv, CachesAreTrue, TrueThrough
<1>6. ColdIsEmpty' /\ RequestShape' /\ PointerShape'
  BY <1>2 DEF BootInv, ColdIsEmpty, RequestShape, PointerShape, Streaming, Pointer
<1>7. \A k \in Keys : Read(k) => Read(k)'
  <2>1. ASSUME NEW k, Read(k) PROVE Read(k)'
    <3>1. IsCurrent(k, cache.image[k], known.stateBlock, height')
      BY <1>4, <2>1, BootFacts DEF Read
    <3> QED
      BY <1>2, <3>1 DEF Read
  <2> QED
    BY <2>1
<1>8. /\ RemovalsAreRead' /\ ValuesAreRead' /\ LateShape'
  <2>1. ASSUME NEW k \in Keys
        PROVE  /\ NewestOf(k)' = NewestOf(k)
               /\ \A r : Brought(k, r)' <=> Brought(k, r)
               /\ \A p : BehindRequest(k, p)' <=> BehindRequest(k, p)
    BY <1>2 DEF Brought, BehindRequest, NewestOf
  <2>2. RemovalsAreRead' /\ ValuesAreRead'
    BY <1>2, <1>7, <2>1 DEF BootInv, RemovalsAreRead, ValuesAreRead
  <2>3. LateShape'
    BY <1>2, <1>7, <2>1 DEF BootInv, LateShape
  <2> QED
    BY <2>2, <2>3
<1>9. ClaimShape'
  BY <1>2 DEF BootInv, ClaimShape, Baseline, Streaming
<1>10. LiveIsTrue'
  BY <1>2, <1>4, BootFacts DEF BootInv, BootTypeOK, LiveIsTrue, TrueThrough
<1> QED
  BY <1>3, <1>5, <1>6, <1>8, <1>9, <1>10 DEF BootInv

LEMMA DiesKeepsInv ==
    ASSUME BootInv, Dies
    PROVE  BootInv'
<1>1. /\ height' = height /\ service' = service /\ disk' = disk /\ cache' = EmptyCache
      /\ step' = "down" /\ by' = "worker" /\ known' = Unknown /\ request' = Closed
      /\ late' = {} /\ seed' = NoSeed
  BY DEF Dies
<1>2. BootTypeOK'
  BY <1>1, BootFacts, NothingIsTrue
  DEF BootInv, BootTypeOK, Steps, Notes, Unknown, Closed, Logs, NoSeed
<1>3. CachesAreTrue'
  BY <1>1, NothingIsTrue DEF BootInv, CachesAreTrue, TrueThrough
<1>4. ColdIsEmpty'
  BY <1>1 DEF BootInv, ColdIsEmpty, Streaming
<1>5. RequestShape' /\ PointerShape' /\ RemovalsAreRead' /\ ValuesAreRead' /\ LiveIsTrue'
  BY <1>1 DEF RequestShape, PointerShape, RemovalsAreRead, ValuesAreRead, LiveIsTrue, Streaming
<1>6. LateShape'
  BY <1>1 DEF LateShape
<1>7. ClaimShape'
  <2>1. known'.cdn = 0 /\ known'.sameNonce = TRUE /\ known'.preDelta = 0 /\ cache'.stamp = 0
    BY <1>1, NothingIsTrue DEF Unknown
  <2> QED
    BY <1>1, <2>1 DEF ClaimShape
<1> QED
  BY <1>2, <1>3, <1>4, <1>5, <1>6, <1>7 DEF BootInv

(* A load from the saved cache, or from nothing.                           *)
LEMMA LoadKeepsInv ==
    ASSUME BootInv, WorkerBoots \/ Checkpoint
    PROVE  BootInv'
<1>1. /\ height' = height /\ service' = service /\ disk' = disk
      /\ step' = "plan" /\ by' \in {"worker", "child"} /\ request' = Closed /\ late' = {}
      /\ seed' = NoSeed
      /\ cache' = FromDisk \/ cache' = EmptyCache
  BY DEF WorkerBoots, Checkpoint, Begins
<1>2. /\ FromDisk \in Caches /\ FromDisk.image = disk.image /\ FromDisk.stamp = disk.stamp
  BY NothingIsTrue, BootFacts DEF FromDisk, Caches, EmptyCache
<1>3. /\ cache' \in Caches
      /\ \/ cache'.image = disk.image /\ cache'.stamp = disk.stamp
         \/ cache'.image = Nobody /\ cache'.stamp = 0
  BY <1>1, <1>2, NothingIsTrue
<1>4. cache'.stamp \in Nat /\ cache'.stamp <= service
  BY <1>3, BootFacts
<1>5. known' = [Unknown EXCEPT !.preDelta = cache'.stamp] \/ known' = Unknown
  BY DEF WorkerBoots, Checkpoint
<1>6. /\ known' \in Notes /\ known'.stateBlock = 0 /\ known'.start = 0 /\ known'.cdn = 0
      /\ known'.sameNonce = TRUE /\ known'.preDelta \in {0, cache'.stamp}
  <2>1. Unknown \in Notes
    BY DEF Notes, Unknown
  <2>2. CASE known' = Unknown
    BY <2>1, <2>2 DEF Unknown
  <2>3. CASE known' = [Unknown EXCEPT !.preDelta = cache'.stamp]
    BY <1>4, <2>1, <2>3 DEF Unknown, Notes
  <2> QED
    BY <1>5, <2>2, <2>3
<1>7. BootTypeOK'
  BY <1>1, <1>3, <1>4, <1>6, BootFacts DEF BootInv, BootTypeOK, Steps, Closed, Logs, NoSeed
<1>8. CachesAreTrue'
  BY <1>1, <1>3, NothingIsTrue DEF BootInv, CachesAreTrue, TrueThrough
<1>9. ColdIsEmpty'
  BY <1>1, <1>3 DEF BootInv, ColdIsEmpty, Streaming
<1>10. RequestShape' /\ PointerShape' /\ RemovalsAreRead' /\ ValuesAreRead' /\ LiveIsTrue'
  BY <1>1 DEF RequestShape, PointerShape, RemovalsAreRead, ValuesAreRead, LiveIsTrue, Streaming
<1>11. LateShape'
  BY <1>1 DEF LateShape
<1>12. ClaimShape'
  BY <1>1, <1>4, <1>6 DEF ClaimShape, Streaming
<1> QED
  BY <1>7, <1>8, <1>9, <1>10, <1>11, <1>12 DEF BootInv

(* The image of an export is what it stands for. *)
LEMMA CdnKeepsInv ==
    ASSUME BootInv, NEW m \in Blocks, NEW m2 \in Blocks, CdnLoad(m, m2)
    PROVE  BootInv'
<1>1. /\ height' = height /\ disk' = disk /\ step' = "save" /\ by' = by
      /\ request' = request /\ late' = late /\ seed' = seed
      /\ step = "plan" /\ cache.stamp = 0
      /\ 0 < m /\ m <= m2 /\ m2 <= height
      /\ cache' = [EmptyCache EXCEPT !.image = StateAt(m2), !.stamp = m2]
      /\ known' = [known EXCEPT !.cdn = m]
      /\ service' = Max({service, m2})
  BY DEF CdnLoad
<1>2. m \in Nat /\ m2 \in Nat
  BY DEF Blocks
<1>3. service' \in Nat /\ service <= service' /\ m2 <= service' /\ service' <= height
  <2>1. service \in Int /\ m2 \in Int
    BY <1>2, BootFacts
  <2>2. service' = IF service >= m2 THEN service ELSE m2
    BY <1>1, <2>1, MaxOfTwo
  <2> QED
    BY <1>1, <1>2, <2>2, BootFacts
<1>4. StateAt(m2) \in Images
  <2>1. \A k \in Keys : StateAt(m2)[k] \in 0..NLogs
    BY <1>2, NewestFacts
  <2>2. StateAt(m2) = [k \in Keys |-> StateAt(m2)[k]]
    BY DEF StateAt
  <2> HIDE DEF StateAt
  <2> QED
    BY <2>1, <2>2 DEF Images
<1>5. /\ cache' \in Caches /\ cache'.image = StateAt(m2) /\ cache'.stamp = m2
  BY <1>1, <1>2, <1>4, NothingIsTrue DEF EmptyCache, Caches
<1>6. /\ known' \in Notes /\ known'.cdn = m /\ known'.preDelta = known.preDelta
      /\ known'.sameNonce = known.sameNonce /\ known'.stateBlock = known.stateBlock
      /\ known'.start = known.start
  BY <1>1, <1>2 DEF BootInv, BootTypeOK, Notes
<1>7. BootTypeOK'
  <2>1. disk.stamp <= service' /\ known.stateBlock <= service'
    BY <1>3, BootFacts
  <2> QED
    BY <1>1, <1>2, <1>3, <1>5, <1>6, <2>1, BootFacts DEF BootInv, BootTypeOK, Steps
<1>8. CachesAreTrue'
  <2>1. ASSUME NEW k \in Keys
        PROVE  IsCurrent(k, disk.image[k], disk.stamp, height)
                 \/ IsRemoved(k, disk.stamp, service')
    <3>1. IsCurrent(k, disk.image[k], disk.stamp, height) \/ IsRemoved(k, disk.stamp, service)
      BY DEF BootInv, CachesAreTrue, TrueThrough
    <3> QED
      BY <1>3, <3>1, BootFacts, RemovedEasier
  <2>2. ASSUME NEW k \in Keys PROVE IsCurrent(k, StateAt(m2)[k], m2, height)
    BY <1>1, <1>2, BootFacts, NewestIsCurrent
  <2>3. \A k \in Keys : TrueThrough(k, disk.image[k], disk.stamp)'
    BY <1>1, <2>1 DEF TrueThrough
  <2>4. \A k \in Keys : TrueThrough(k, cache.image[k], cache.stamp)'
    BY <1>1, <1>5, <2>2 DEF TrueThrough
  <2> QED
    BY <2>3, <2>4 DEF CachesAreTrue
<1>9. ColdIsEmpty'
  BY <1>1, <1>2, <1>5 DEF BootInv, ColdIsEmpty, Streaming
<1>10. late = {} /\ request = Closed /\ known.cdn = 0 /\ known.sameNonce
  BY <1>1 DEF BootInv, LateShape, RequestShape, ClaimShape, Streaming
<1>11. RequestShape' /\ PointerShape' /\ RemovalsAreRead' /\ ValuesAreRead' /\ LiveIsTrue'
  BY <1>1, <1>10
  DEF RequestShape, PointerShape, RemovalsAreRead, ValuesAreRead, LiveIsTrue, Streaming
<1>12. LateShape'
  BY <1>1, <1>10 DEF LateShape
<1>13. ClaimShape'
  <2>1. known.preDelta <= 0 /\ by # "bridge"
    BY <1>1, <1>10 DEF BootInv, ClaimShape
  <2> QED
    BY <1>1, <1>2, <1>5, <1>6, <1>10, <2>1, BootFacts DEF ClaimShape, Streaming
<1> QED
  BY <1>7, <1>8, <1>9, <1>11, <1>12, <1>13 DEF BootInv

-----------------------------------------------------------------------------
(* The replica that answers is at or above every head answered from.       *)
LEMMA AnswersUpward ==
    ASSUME BootInv, NEW r \in Blocks, Answers(r)
    PROVE  /\ r \in Nat /\ service' = r /\ service <= r /\ r <= height
           /\ \A k \in Keys, v \in 0..NLogs, b \in Int :
                  IsCurrent(k, v, b, height) \/ IsRemoved(k, b, service)
                     => IsCurrent(k, v, b, height) \/ IsRemoved(k, b, service')
<1>1. r \in Nat /\ service \in Int /\ service <= r /\ r <= height
      /\ service' = Max({r, service})
  BY BootFacts DEF Answers, BootInv, Blocks
<1>2. service' = r
  BY <1>1, MaxOfTwo
<1>3. ASSUME NEW k \in Keys, NEW b \in Int, IsRemoved(k, b, service)
      PROVE  IsRemoved(k, b, service')
  BY <1>1, <1>2, <1>3, RemovedEasier
<1> QED
  BY <1>1, <1>2, <1>3

(* The start of a delta: nothing is behind its pointers yet.  A load from  *)
(* nothing needs no removals.                                              *)
LEMMA StateBlockKeepsInv ==
    ASSUME BootInv, NEW b \in Blocks, NEW reindexed \in BOOLEAN, StateBlock(b, reindexed)
    PROVE  BootInv'
<1> DEFINE base == IF reindexed THEN EmptyCache ELSE cache
<1>1. /\ height' = height /\ disk' = disk /\ by' = by /\ request' = request /\ late' = late
      /\ seed' = seed /\ step \in {"plan", "bridge"} /\ b > 0 /\ Answers(b)
      /\ by = "bridge" => ~ reindexed
      /\ cache' = [base EXCEPT !.values = base.stamp, !.removals = base.stamp]
      /\ step' = IF base.stamp = 0 THEN "values" ELSE "removals"
      /\ known' = [known EXCEPT !.stateBlock = b, !.sameNonce = @ /\ ~ reindexed]
  BY DEF StateBlock, BootInv
<1>2. /\ b \in Nat /\ service' = b /\ service <= b /\ b <= height
  BY <1>1, AnswersUpward
<1>3. /\ base \in Caches /\ base.stamp \in Nat /\ base.stamp <= service
      /\ \A k \in Keys : TrueThrough(k, base.image[k], base.stamp)
      /\ step = "plan" /\ base.stamp = 0 => base.image = Nobody
      /\ reindexed => base.stamp = 0
      /\ ~ reindexed => base.stamp = cache.stamp
  BY <1>1, NothingIsTrue, BootFacts DEF BootInv, BootTypeOK, CachesAreTrue, ColdIsEmpty
<1> HIDE DEF base
<1>4. /\ cache' \in Caches /\ cache'.image = base.image /\ cache'.stamp = base.stamp
      /\ cache'.values = base.stamp /\ cache'.removals = base.stamp
  BY <1>1, <1>3 DEF Caches
<1>5. known.sameNonce \in BOOLEAN
  BY BootFacts
<1>6. /\ known'.stateBlock = b /\ known'.cdn = known.cdn /\ known'.preDelta = known.preDelta
      /\ known'.subscribed = known.subscribed /\ known'.start = known.start
      /\ known' \in Notes
  BY <1>1, <1>2 DEF BootInv, BootTypeOK, Notes
<1>7. known'.sameNonce => known.sameNonce /\ ~ reindexed
  BY <1>1, <1>5 DEF BootInv, BootTypeOK, Notes
<1>8. ~ reindexed /\ known.sameNonce => known'.sameNonce
  BY <1>1, <1>5 DEF BootInv, BootTypeOK, Notes
<1>9. BootTypeOK'
  <2>1. disk.stamp <= b /\ base.stamp <= b /\ known'.stateBlock <= b
    BY <1>2, <1>3, <1>6, BootFacts
  <2>2. step' \in Steps
    BY <1>1 DEF Steps
  <2> QED
    BY <1>1, <1>2, <1>4, <1>6, <2>1, <2>2, BootFacts DEF BootInv, BootTypeOK
<1>10. CachesAreTrue'
  <2>1. ASSUME NEW k \in Keys
        PROVE  IsCurrent(k, disk.image[k], disk.stamp, height)
                 \/ IsRemoved(k, disk.stamp, service')
    <3>1. IsCurrent(k, disk.image[k], disk.stamp, height) \/ IsRemoved(k, disk.stamp, service)
      BY DEF BootInv, CachesAreTrue, TrueThrough
    <3> QED
      BY <1>2, <3>1, BootFacts, RemovedEasier
  <2>2. ASSUME NEW k \in Keys
        PROVE  IsCurrent(k, base.image[k], base.stamp, height)
                 \/ IsRemoved(k, base.stamp, service')
    <3>1. IsCurrent(k, base.image[k], base.stamp, height) \/ IsRemoved(k, base.stamp, service)
      BY <1>3 DEF TrueThrough
    <3> QED
      BY <1>2, <1>3, <3>1, BootFacts, RemovedEasier
  <2> QED
    BY <1>1, <1>4, <2>1, <2>2 DEF CachesAreTrue, TrueThrough
<1>11. ColdIsEmpty'
  BY <1>1, <1>6 DEF BootInv, ColdIsEmpty, Streaming
<1>12. late = {} /\ request = Closed
  BY <1>1 DEF BootInv, LateShape, RequestShape, Streaming
<1>13. RequestShape' /\ LiveIsTrue'
  BY <1>1, <1>12 DEF RequestShape, LiveIsTrue
<1>14. PointerShape'
  BY <1>1, <1>2, <1>3, <1>4, <1>6, BootFacts DEF PointerShape
<1>15. \A k \in Keys : BlockOf[StateAt(b)[k]] \in Nat
  BY <1>2, NewestFacts
<1>16. ValuesAreRead'
  <2> SUFFICES ASSUME NEW k \in Keys, Brought(k, FALSE)', BehindRequest(k, cache.values)'
               PROVE  Read(k)'
    BY DEF ValuesAreRead
  <2>1. BlockOf[StateAt(b)[k]] >= base.stamp /\ BlockOf[StateAt(b)[k]] < base.stamp
    BY <1>1, <1>2, <1>4, <1>12 DEF Brought, BehindRequest, NewestOf
  <2> QED
    BY <2>1, <1>3, <1>15
<1>17. RemovalsAreRead'
  <2>1. ASSUME step' = "removals", NEW k \in Keys, Brought(k, TRUE)',
               BehindRequest(k, cache.removals)'
        PROVE  Read(k)'
    <3>1. BlockOf[StateAt(b)[k]] >= base.stamp /\ BlockOf[StateAt(b)[k]] < base.stamp
      BY <1>1, <1>2, <1>4, <1>12, <2>1 DEF Brought, BehindRequest, NewestOf
    <3> QED
      BY <3>1, <1>3, <1>15
  <2>2. ASSUME step' = "values", NEW k \in Keys, Brought(k, TRUE)'
        PROVE  Read(k)'
    <3>1. base.stamp = 0
      BY <1>1, <2>2
    <3>2. base.image = Nobody
      <4>1. step = "bridge" => cache.stamp > 0 /\ ~ reindexed
        BY <1>1, BootFacts DEF BootInv, ClaimShape
      <4> QED
        BY <1>1, <1>3, <3>1, <4>1
    <3>3. /\ StateAt(b)[k] \in Removals /\ StateAt(b)[k] \in Writes(k) \cup {0}
          /\ BlockOf[StateAt(b)[k]] <= height /\ UpToDate(k, StateAt(b)[k], b)
      <4>1. StateAt(b)[k] \in Removals
        BY <1>2, <2>2 DEF Brought, NewestOf
      <4> QED
        BY <1>2, <4>1, NewestFacts, BootFacts
    <3>4. cache'.image[k] = 0
      BY <1>4, <3>2 DEF Nobody
    <3>5. IsCurrent(k, 0, b, height)
      BY <3>3 DEF IsCurrent, Absent
    <3> QED
      BY <1>1, <1>6, <3>4, <3>5 DEF Read
  <2> QED
    BY <2>1, <2>2 DEF RemovalsAreRead
<1>18. LateShape'
  BY <1>1, <1>12 DEF LateShape
<1>19. ClaimShape'
  <2>1. by = "bridge" => known.cdn > 0 /\ ~ reindexed /\ known.sameNonce
    BY <1>1 DEF BootInv, ClaimShape
  <2>2. by # "bridge" => known.cdn = 0 /\ step = "plan"
    BY <1>1 DEF BootInv, ClaimShape
  <2>3. known.cdn <= cache.stamp /\ (known.sameNonce => known.preDelta <= cache.stamp)
    BY DEF BootInv, ClaimShape
  <2>4. known'.cdn <= cache'.stamp
    BY <1>3, <1>4, <1>6, <2>1, <2>2, <2>3, BootFacts
  <2>5. known'.sameNonce => known'.preDelta <= cache'.stamp
    BY <1>3, <1>4, <1>6, <1>7, <2>3
  <2>6. known'.cdn > 0 => known'.sameNonce
    BY <1>6, <1>8, <2>1, <2>2
  <2>7. step' \notin {"plan", "bridge", "stream", "gap"}
    BY <1>1
  <2>8. by' = "bridge" => Baseline' <= known'.subscribed /\ known'.cdn > 0
    <3>1. known'.cdn > 0 => Baseline' = known'.cdn
      BY DEF Baseline
    <3>2. known.cdn > 0 => Baseline = known.cdn
      BY DEF Baseline
    <3> QED
      BY <1>1, <1>6, <2>1, <3>1, <3>2 DEF BootInv, ClaimShape
  <2>9. known'.cdn > 0 => by' = "bridge"
    BY <1>1, <1>6, <2>2
  <2> QED
    BY <2>4, <2>5, <2>6, <2>7, <2>8, <2>9 DEF ClaimShape
<1> QED
  BY <1>9, <1>10, <1>11, <1>13, <1>14, <1>16, <1>17, <1>18, <1>19 DEF BootInv

(* A stream that is opened, first or again, may be served from a higher    *)
(* head: what is new there is in front of every pointer.                   *)
LEMMA OpenKeepsInv ==
    ASSUME BootInv, NEW r \in Blocks, OpenStream(r)
    PROVE  BootInv'
<1>1. /\ height' = height /\ disk' = disk /\ cache' = cache /\ step' = step /\ by' = by
      /\ known' = known /\ late' = late /\ seed' = seed
      /\ step \in {"removals", "values"} /\ request = Closed /\ Answers(r)
      /\ request' = [at |-> r, from |-> Resume, sent |-> 0]
  BY DEF OpenStream
<1>2. /\ r \in Nat /\ service' = r /\ service <= r /\ r <= height
  BY <1>1, AnswersUpward
<1>3. Pointer \in Nat /\ Resume \in Nat /\ (Resume = 0 \/ Resume < Pointer)
  <2>1. Pointer \in Nat
    BY BootFacts DEF Pointer
  <2>2. Resume = IF 0 >= Pointer - 1 THEN 0 ELSE Pointer - 1
    BY <2>1, MaxOfTwo DEF Resume
  <2> QED
    BY <2>1, <2>2
<1>4. /\ request'.at = r /\ request'.from = Resume /\ request'.sent = 0
      /\ request' \in [at : Int, from : Nat, sent : 0..NLogs]
  <2>1. r \in Int /\ Resume \in Nat /\ 0 \in 0..NLogs
    BY <1>2, <1>3, BootFacts
  <2> QED
    BY <1>1, <2>1
<1>5. BootTypeOK'
  <2>1. disk.stamp <= r /\ cache.stamp <= r /\ known.stateBlock <= r
    BY <1>2, BootFacts
  <2> QED
    BY <1>1, <1>2, <1>4, <2>1, BootFacts DEF BootInv, BootTypeOK
<1>6. CachesAreTrue'
  <2>1. ASSUME NEW k \in Keys, NEW b \in Int, IsRemoved(k, b, service)
        PROVE  IsRemoved(k, b, service')
    BY <1>2, <2>1, BootFacts, RemovedEasier
  <2> QED
    BY <1>1, <2>1, BootFacts DEF BootInv, CachesAreTrue, TrueThrough
<1>7. ColdIsEmpty' /\ LiveIsTrue'
  BY <1>1 DEF BootInv, ColdIsEmpty, LiveIsTrue, Streaming
<1>8. RequestShape'
  <2>1. Pointer' = Pointer
    BY <1>1 DEF Pointer
  <2> QED
    BY <1>1, <1>2, <1>3, <1>4, <2>1 DEF RequestShape, Streaming
<1>9. PointerShape'
  BY <1>1, <1>2, BootFacts DEF BootInv, PointerShape, Streaming
<1>10. ASSUME NEW k \in Keys
       PROVE  /\ NewestOf(k)' = StateAt(r)[k] /\ BlockOf[StateAt(r)[k]] \in Nat
              /\ StateAt(r)[k] \in 0..NLogs
              /\ \/ NewestOf(k)' = NewestOf(k)
                 \/ BlockOf[StateAt(r)[k]] > service
              /\ Read(k)' <=> Read(k)
              /\ \A x : Brought(k, x)' /\ NewestOf(k)' = NewestOf(k) => Brought(k, x)
              /\ \A x, p : Brought(k, x)' /\ BehindRequest(k, p)'
                                => BlockOf[StateAt(r)[k]] < p
  <2>1. NewestOf(k)' = StateAt(r)[k] /\ NewestOf(k) = StateAt(service)[k]
    BY <1>2 DEF NewestOf
  <2>2. /\ BlockOf[StateAt(r)[k]] \in Nat /\ StateAt(r)[k] \in 0..NLogs
        /\ StateAt(r)[k] = StateAt(service)[k] \/ BlockOf[StateAt(r)[k]] > service
    BY <1>2, BootFacts, NewestFacts, NewestMoves
  <2>3. Read(k)' <=> Read(k)
    BY <1>1 DEF Read
  <2>4. \A x : Brought(k, x)' /\ NewestOf(k)' = NewestOf(k) => Brought(k, x)
    BY <1>1 DEF Brought
  <2>5. \A x, p : Brought(k, x)' /\ BehindRequest(k, p)' => BlockOf[StateAt(r)[k]] < p
    BY <1>4, <2>1, <2>2 DEF Brought, BehindRequest, Logs
  <2> QED
    BY <2>1, <2>2, <2>3, <2>4, <2>5
<1>11. cache.values <= service /\ cache.removals <= service
  BY <1>1 DEF BootInv, PointerShape, Streaming
<1>12. ValuesAreRead'
  <2> SUFFICES ASSUME step = "values", NEW k \in Keys, Brought(k, FALSE)',
                      BehindRequest(k, cache.values)'
               PROVE  Read(k)
    BY <1>1, <1>10 DEF ValuesAreRead
  <2>1. BlockOf[StateAt(r)[k]] < cache.values
    BY <1>1, <1>10
  <2>2. NewestOf(k)' = NewestOf(k)
    BY <1>10, <1>11, <2>1, BootFacts
  <2>3. Brought(k, FALSE) /\ BehindRequest(k, cache.values)
    BY <1>10, <2>1, <2>2 DEF BehindRequest
  <2> QED
    BY <2>3 DEF BootInv, ValuesAreRead
<1>13. RemovalsAreRead'
  <2>1. ASSUME step = "removals", NEW k \in Keys, Brought(k, TRUE)',
               BehindRequest(k, cache.removals)'
        PROVE  Read(k)
    <3>1. BlockOf[StateAt(r)[k]] < cache.removals
      BY <1>1, <1>10, <2>1
    <3>2. NewestOf(k)' = NewestOf(k)
      BY <1>10, <1>11, <3>1, BootFacts
    <3>3. Brought(k, TRUE) /\ BehindRequest(k, cache.removals)
      BY <1>10, <2>1, <3>1, <3>2 DEF BehindRequest
    <3> QED
      BY <2>1, <3>3 DEF BootInv, RemovalsAreRead
  <2>2. ASSUME step = "values", NEW k \in Keys, Brought(k, TRUE)',
               BlockOf[NewestOf(k)'] <= known.stateBlock
        PROVE  Read(k)
    <3>1. NewestOf(k)' = NewestOf(k)
      BY <1>10, <2>2, BootFacts
    <3>2. Brought(k, TRUE) /\ BlockOf[NewestOf(k)] <= known.stateBlock
      BY <1>10, <2>2, <3>1
    <3> QED
      BY <2>2, <3>2 DEF BootInv, RemovalsAreRead
  <2> QED
    BY <1>1, <1>10, <2>1, <2>2 DEF RemovalsAreRead
<1>14. LateShape'
  <2>1. ASSUME step = "values", NEW i \in late, NEW k \in Keys, Brought(k, FALSE)',
               NewestOf(k)' <= i
        PROVE  Read(k) \/ NewestOf(k)' \in late
    <3>1. i \in Logs /\ BlockOf[i] <= service
      BY DEF BootInv, BootTypeOK, LateShape
    <3>2. BlockOf[StateAt(r)[k]] <= BlockOf[i] /\ BlockOf[i] \in Nat
      <4>1. i \in 0..NLogs /\ StateAt(r)[k] \in 0..NLogs /\ StateAt(r)[k] <= i
        BY <1>10, <2>1, <3>1 DEF Logs
      <4> QED
        BY <4>1, LaterIsNoEarlier DEF Blocks
    <3>3. NewestOf(k)' = NewestOf(k)
      BY <1>10, <3>1, <3>2, BootFacts
    <3>4. Brought(k, FALSE) /\ NewestOf(k) <= i
      BY <1>10, <2>1, <3>3
    <3> QED
      BY <2>1, <3>3, <3>4 DEF BootInv, LateShape
  <2>2. \A i \in late : KeyOf[i] \in Keys /\ BlockOf[i] <= r
                        /\ UpToDate(KeyOf[i], i, known.stateBlock)
    <3>1. \A i \in late : BlockOf[i] \in Nat
      BY ChainAssumption DEF ChainAssumption, BootInv, BootTypeOK, Logs, Blocks
    <3>2. \A i \in late : KeyOf[i] \in Keys /\ BlockOf[i] <= service
                           /\ UpToDate(KeyOf[i], i, known.stateBlock)
      BY DEF BootInv, LateShape
    <3> QED
      BY <1>2, <3>1, <3>2, BootFacts
  <2> QED
    BY <1>1, <1>2, <1>10, <2>1, <2>2 DEF BootInv, LateShape
<1>15. ClaimShape'
  BY <1>1 DEF BootInv, ClaimShape, Baseline, Streaming
<1> QED
  BY <1>5, <1>6, <1>7, <1>8, <1>9, <1>12, <1>13, <1>14, <1>15 DEF BootInv

-----------------------------------------------------------------------------
(* What is left of a stream: what is to be brought and is not behind it.   *)
LEMMA RowFacts ==
    ASSUME BootInv, request # Closed, NEW i \in Rows
    PROVE  /\ i \in Logs /\ KeyOf[i] \in Keys /\ NewestOf(KeyOf[i]) = i
           /\ i \in Writes(KeyOf[i]) /\ BlockOf[i] \in Nat /\ BlockOf[i] <= service
           /\ UpToDate(KeyOf[i], i, known.stateBlock)
<1>1. PICK k \in Keys : StateAt(request.at)[k] = i
  BY DEF Rows
<1>2. i \in Logs /\ request.at = service
  BY DEF Rows, BootInv, RequestShape
<1>3. /\ i \in Writes(k) /\ KeyOf[i] = k /\ BlockOf[i] \in Nat /\ BlockOf[i] <= service
      /\ UpToDate(k, i, service)
  BY <1>1, <1>2, BootFacts, NewestFacts
<1>4. UpToDate(k, i, known.stateBlock)
  <2> SUFFICES ASSUME NEW j \in Writes(k), BlockOf[j] <= known.stateBlock PROVE j <= i
    BY DEF UpToDate
  <2>1. BlockOf[j] <= service
    BY BootFacts, WriteFacts
  <2> QED
    BY <1>3, <2>1 DEF UpToDate
<1> QED
  BY <1>1, <1>2, <1>3, <1>4 DEF NewestOf

LEMMA BroughtIsARow ==
    ASSUME BootInv, request # Closed, NEW k \in Keys, Brought(k, step = "removals"),
           ~ BehindRequest(k, Pointer)
    PROVE  NewestOf(k) \in Rows
<1> DEFINE n == NewestOf(k)
<1>1. /\ n \in Logs /\ (n \in Removals) = (step = "removals") /\ n \in 0..NLogs
      /\ BlockOf[n] \in Nat /\ BlockOf[n] >= 1 /\ n = StateAt(service)[k]
  <2>1. n \in Logs /\ (n \in Removals) = (step = "removals") /\ n = StateAt(service)[k]
    BY DEF Brought, NewestOf
  <2> QED
    BY <2>1, ChainAssumption DEF ChainAssumption, Logs, Blocks
<1>2. Streaming /\ request.at = service /\ (request.from = 0 \/ request.from < Pointer)
  BY DEF BootInv, RequestShape
<1>3. Pointer \in Nat
  BY BootFacts DEF Pointer
<1>4. BlockOf[n] >= Pointer /\ n > request.sent
  BY <1>1, <1>3, BootFacts DEF BehindRequest, Logs
<1>5. BlockOf[n] > request.from
  BY <1>1, <1>2, <1>3, <1>4, BootFacts
<1> HIDE DEF n
<1> QED
  BY <1>1, <1>2, <1>4, <1>5 DEF Rows, n

LEMMA PutFacts ==
    ASSUME NEW image \in Images, NEW rows \in SUBSET Logs, NLogs \in Nat
    PROVE  /\ Put(image, rows) \in Images
           /\ \A k \in Keys : \/ /\ \A i \in rows : KeyOf[i] # k
                                 /\ Put(image, rows)[k] = image[k]
                              \/ /\ Put(image, rows)[k] \in rows
                                 /\ KeyOf[Put(image, rows)[k]] = k
<1>1. ASSUME NEW k \in Keys
      PROVE  /\ \/ /\ \A i \in rows : KeyOf[i] # k
                   /\ Put(image, rows)[k] = image[k]
                \/ /\ Put(image, rows)[k] \in rows
                   /\ KeyOf[Put(image, rows)[k]] = k
             /\ Put(image, rows)[k] \in 0..NLogs
  <2>1. Put(image, rows)[k] = IF \E i \in rows : KeyOf[i] = k
                              THEN CHOOSE i \in rows : KeyOf[i] = k ELSE image[k]
    BY DEF Put
  <2>2. CASE \E i \in rows : KeyOf[i] = k
    <3>1. Put(image, rows)[k] \in rows /\ KeyOf[Put(image, rows)[k]] = k
      BY <2>1, <2>2
    <3>2. Put(image, rows)[k] \in Logs
      BY <3>1
    <3> QED
      BY <3>1, <3>2 DEF Logs
  <2>3. CASE ~ \E i \in rows : KeyOf[i] = k
    BY <2>1, <2>3 DEF Images
  <2> QED
    BY <2>2, <2>3
<1>2. Put(image, rows) = [k \in Keys |-> Put(image, rows)[k]]
  BY DEF Put
<1>3. Put(image, rows) \in Images
  BY <1>1, <1>2 DEF Images
<1> QED
  BY <1>1, <1>3

(* Rows that are complete through the delta's state block, each of its     *)
(* key: putting them down keeps what is held, and gives what they bring.   *)
GoodRows(rows) ==
    /\ rows \subseteq Logs
    /\ \A i \in rows : /\ KeyOf[i] \in Keys
                       /\ BlockOf[i] <= height
                       /\ UpToDate(KeyOf[i], i, known.stateBlock)

LEMMA PutKeeps ==
    ASSUME BootInv, NEW rows, GoodRows(rows), cache.stamp <= known.stateBlock, NEW k \in Keys
    PROVE  /\ Read(k) => IsCurrent(k, Put(cache.image, rows)[k], known.stateBlock, height)
           /\ (\E i \in rows : KeyOf[i] = k)
                 => IsCurrent(k, Put(cache.image, rows)[k], known.stateBlock, height)
           /\ TrueThrough(k, cache.image[k], cache.stamp)
                 => TrueThrough(k, Put(cache.image, rows)[k], cache.stamp)
<1> DEFINE v == Put(cache.image, rows)[k]
<1>1. \/ /\ \A i \in rows : KeyOf[i] # k
         /\ v = cache.image[k]
      \/ v \in rows /\ KeyOf[v] = k
  BY PutFacts, BootFacts DEF GoodRows
<1> HIDE DEF v
<1>2. CASE v \in rows /\ KeyOf[v] = k
  <2>1. v \in Writes(k) /\ BlockOf[v] <= height /\ UpToDate(k, v, known.stateBlock)
    BY <1>2 DEF GoodRows, Writes
  <2>2. IsCurrent(k, v, known.stateBlock, height)
    BY <2>1 DEF IsCurrent
  <2>3. IsCurrent(k, v, cache.stamp, height)
    BY <2>2, BootFacts, CurrentEasier
  <2> QED
    BY <2>2, <2>3 DEF TrueThrough, v
<1>3. CASE (\A i \in rows : KeyOf[i] # k) /\ v = cache.image[k]
  BY <1>3 DEF Read, v
<1> QED
  BY <1>1, <1>2, <1>3

(* A chunk brings all rows up to its own. *)
LEMMA ChunkKeepsInv ==
    ASSUME BootInv, NEW i \in Logs, Chunk(i)
    PROVE  BootInv'
<1> DEFINE rows  == {j \in Rows : j <= i}
           block == Max({Pointer, BlockOf[i]})
<1>1. /\ height' = height /\ service' = service /\ disk' = disk /\ step' = step /\ by' = by
      /\ known' = known /\ late' = late /\ seed' = seed
      /\ request # Closed /\ i \in Rows
      /\ cache' = IF step = "values"
                  THEN [[cache EXCEPT !.image = Put(@, rows)] EXCEPT !.values = block]
                  ELSE [[cache EXCEPT !.image = Put(@, rows)] EXCEPT !.removals = block]
      /\ request' = [request EXCEPT !.sent = i]
  BY DEF Chunk
<1>2. /\ Streaming /\ cache.stamp <= known.stateBlock
      /\ cache.values <= service /\ cache.removals <= service
      /\ step = "removals" => cache.values = cache.stamp
  BY <1>1 DEF BootInv, RequestShape, PointerShape
<1>3. /\ BlockOf[i] \in Nat /\ BlockOf[i] <= service /\ i \in Nat /\ i <= NLogs
  BY <1>1, RowFacts DEF Logs
<1>4. Pointer \in Nat /\ Pointer <= service
  BY <1>2, BootFacts DEF Pointer
<1>5. /\ block \in Nat /\ block <= service /\ Pointer <= block
      /\ block = Pointer \/ block = BlockOf[i]
  BY <1>3, <1>4, MaxOfTwo
<1>6. GoodRows(rows)
  <2> SUFFICES ASSUME NEW j \in Rows
               PROVE  /\ j \in Logs /\ KeyOf[j] \in Keys /\ BlockOf[j] <= height
                      /\ UpToDate(KeyOf[j], j, known.stateBlock)
    BY DEF GoodRows
  <2> QED
    BY <1>1, RowFacts, BootFacts
<1>7. Put(cache.image, rows) \in Images
  BY <1>6, PutFacts, BootFacts DEF GoodRows
<1> HIDE DEF rows, block
<1>8. /\ cache' \in Caches /\ cache'.image = Put(cache.image, rows)
      /\ cache'.stamp = cache.stamp
      /\ step = "values" => cache'.values = block /\ cache'.removals = cache.removals
      /\ step # "values" => cache'.values = cache.values /\ cache'.removals = block
  BY <1>1, <1>5, <1>7 DEF BootInv, BootTypeOK, Caches
<1>9. /\ request'.at = request.at /\ request'.from = request.from /\ request'.sent = i
      /\ request' \in [at : Int, from : Nat, sent : 0..NLogs]
  BY <1>1, <1>3, BootFacts DEF BootInv, BootTypeOK
<1>10. BootTypeOK'
  BY <1>1, <1>8, <1>9 DEF BootInv, BootTypeOK
<1>11. CachesAreTrue'
  BY <1>1, <1>2, <1>6, <1>8, PutKeeps DEF BootInv, CachesAreTrue, TrueThrough, Streaming
<1>12. ColdIsEmpty' /\ LiveIsTrue'
  BY <1>1, <1>2 DEF BootInv, ColdIsEmpty, LiveIsTrue, Streaming
<1>13. Pointer' = block
  BY <1>1, <1>2, <1>8 DEF Pointer, Streaming
<1>14. RequestShape'
  <2>1. request.at = service /\ (request.from = 0 \/ request.from < Pointer)
    BY <1>1 DEF BootInv, RequestShape
  <2>2. request'.at = service' /\ (request'.from = 0 \/ request'.from < Pointer')
    BY <1>1, <1>4, <1>5, <1>9, <1>13, <2>1, BootFacts
  <2>3. Streaming'
    BY <1>1, <1>2 DEF Streaming
  <2> QED
    BY <2>2, <2>3 DEF RequestShape
<1>15. PointerShape'
  BY <1>1, <1>2, <1>5, <1>8 DEF PointerShape, Streaming
<1>16. ASSUME NEW k \in Keys PROVE Read(k) => Read(k)'
  BY <1>1, <1>2, <1>6, <1>8, PutKeeps DEF Read
<1>17. ASSUME NEW k \in Keys
       PROVE  /\ NewestOf(k)' = NewestOf(k)
              /\ \A x : Brought(k, x)' <=> Brought(k, x)
  BY <1>1, <1>8 DEF NewestOf, Brought
<1>18. ASSUME NEW k \in Keys, Brought(k, step = "removals"),
              BlockOf[NewestOf(k)] < block \/ NewestOf(k) <= i
       PROVE  BehindRequest(k, Pointer) \/ Read(k)'
  <2> DEFINE n == NewestOf(k)
  <2>1. n \in Logs /\ BlockOf[n] \in Nat /\ n \in 0..NLogs /\ i \in 0..NLogs
    BY <1>3, <1>18, ChainAssumption DEF ChainAssumption, Brought, Logs, Blocks
  <2> SUFFICES ASSUME ~ BehindRequest(k, Pointer) PROVE Read(k)'
    BY <1>1
  <2>2. n \in Rows
    BY <1>1, <1>18, BroughtIsARow
  <2>3. n <= i
    <3>2. BlockOf[n] < block \/ n <= i
      BY <1>18
    <3>3. BlockOf[n] >= Pointer
      BY <1>4, <2>1 DEF BehindRequest, n
    <3>4. CASE BlockOf[n] < block
      <4>1. BlockOf[n] < BlockOf[i]
        BY <1>5, <2>1, <3>3, <3>4
      <4> QED
        BY <2>1, <4>1, LowerBlockIsOlder
    <3> QED
      BY <3>2, <3>4
  <2>4. n \in rows /\ KeyOf[n] = k
    <3>1. KeyOf[n] = k
      BY <2>1, NewestFacts, BootFacts DEF NewestOf
    <3> QED
      BY <2>2, <2>3, <3>1 DEF rows
  <2>5. IsCurrent(k, Put(cache.image, rows)[k], known.stateBlock, height)
    BY <1>2, <1>6, <2>4, PutKeeps
  <2> QED
    BY <1>1, <1>8, <2>5 DEF Read
<1>19. ValuesAreRead'
  <2> SUFFICES ASSUME step = "values", NEW k \in Keys, Brought(k, FALSE),
                      BlockOf[NewestOf(k)] < block \/ NewestOf(k) <= i
               PROVE  Read(k)'
    BY <1>1, <1>8, <1>9, <1>17 DEF ValuesAreRead, BehindRequest
  <2>1. BehindRequest(k, cache.values) \/ Read(k)'
    BY <1>18 DEF Pointer
  <2> QED
    BY <1>16, <2>1 DEF BootInv, ValuesAreRead
<1>20. RemovalsAreRead'
  <2>1. ASSUME step = "removals", NEW k \in Keys, Brought(k, TRUE),
               BlockOf[NewestOf(k)] < block \/ NewestOf(k) <= i
        PROVE  Read(k)'
    <3>1. BehindRequest(k, cache.removals) \/ Read(k)'
      BY <1>18, <2>1 DEF Pointer
    <3> QED
      BY <1>16, <2>1, <3>1 DEF BootInv, RemovalsAreRead
  <2>2. ASSUME step = "values", NEW k \in Keys, Brought(k, TRUE),
               BlockOf[NewestOf(k)] <= known.stateBlock
        PROVE  Read(k)'
    BY <1>16, <2>2 DEF BootInv, RemovalsAreRead
  <2> QED
    BY <1>1, <1>8, <1>9, <1>17, <2>1, <2>2 DEF RemovalsAreRead, BehindRequest
<1>21. LateShape'
  BY <1>1, <1>8, <1>16, <1>17 DEF BootInv, LateShape
<1>22. ClaimShape'
  BY <1>1, <1>2, <1>8 DEF BootInv, ClaimShape, Baseline, Streaming
<1> QED
  BY <1>10, <1>11, <1>12, <1>14, <1>15, <1>19, <1>20, <1>21, <1>22 DEF BootInv

(* A chunk that is late is a part of what the stream still had to bring.   *)
LEMMA FailsKeepsInv ==
    ASSUME BootInv, StreamFails
    PROVE  BootInv'
<1>1. /\ height' = height /\ service' = service /\ disk' = disk /\ cache' = cache
      /\ step' = step /\ by' = by /\ known' = known /\ seed' = seed
      /\ request # Closed /\ request' = Closed
      /\ \/ late' = late
         \/ /\ step = "values" /\ late = {}
            /\ \E i \in Rows : late' = {j \in Rows : j <= i}
  BY DEF StreamFails
<1>2. Closed \in [at : Int, from : Nat, sent : 0..NLogs] /\ 0 \in 0..NLogs
  BY BootFacts DEF Closed
<1>3. \A j \in Rows : /\ j \in Logs /\ KeyOf[j] \in Keys /\ BlockOf[j] <= service
                      /\ UpToDate(KeyOf[j], j, known.stateBlock)
  BY <1>1, RowFacts
<1>4. BootTypeOK'
  BY <1>1, <1>2, <1>3 DEF BootInv, BootTypeOK
<1>5. CachesAreTrue' /\ ColdIsEmpty' /\ LiveIsTrue' /\ PointerShape' /\ ClaimShape'
  BY <1>1 DEF BootInv, CachesAreTrue, TrueThrough, ColdIsEmpty, LiveIsTrue, PointerShape,
              ClaimShape, Baseline, Streaming
<1>6. RequestShape'
  BY <1>1 DEF RequestShape
<1>7. ASSUME NEW k \in Keys
      PROVE  /\ NewestOf(k)' = NewestOf(k)
             /\ \A x : Brought(k, x)' <=> Brought(k, x)
             /\ \A p : BehindRequest(k, p)' => BehindRequest(k, p)
             /\ Read(k)' <=> Read(k)
  BY <1>1 DEF NewestOf, Brought, BehindRequest, Read
<1>8. ValuesAreRead' /\ RemovalsAreRead'
  BY <1>1, <1>7 DEF BootInv, ValuesAreRead, RemovalsAreRead
<1>9. LateShape'
  <2>1. CASE late' = late
    BY <1>1, <1>7, <2>1 DEF BootInv, LateShape
  <2>2. CASE late' # late
    <3>1. PICK i \in Rows : late' = {j \in Rows : j <= i}
      BY <1>1, <2>2
    <3>2. step = "values" /\ cache.stamp <= known.stateBlock
      BY <1>1, <2>2 DEF BootInv, PointerShape, Streaming
    <3>3. ASSUME NEW j \in late', NEW k \in Keys, Brought(k, FALSE), NewestOf(k) <= j
          PROVE  Read(k) \/ NewestOf(k) \in late'
      <4>1. NewestOf(k) \in Logs /\ j \in Logs /\ i \in Logs /\ j <= i
        BY <1>3, <3>1, <3>3 DEF Brought
      <4>2. NewestOf(k) <= i
        BY <3>3, <4>1 DEF Logs
      <4>3. BehindRequest(k, Pointer) \/ NewestOf(k) \in Rows
        BY <1>1, <3>2, <3>3, BroughtIsARow
      <4> QED
        BY <3>1, <3>2, <3>3, <4>2, <4>3 DEF BootInv, ValuesAreRead, Pointer
    <3> QED
      BY <1>1, <1>3, <1>7, <3>1, <3>2, <3>3 DEF LateShape
  <2> QED
    BY <2>1, <2>2
<1> QED
  BY <1>4, <1>5, <1>6, <1>8, <1>9 DEF BootInv

LEMMA MinOfLogs ==
    ASSUME NEW S \in SUBSET Logs, S # {}
    PROVE  Min(S) \in S /\ \A y \in S : Min(S) <= y
<1>1. S \in SUBSET Nat
  BY ChainAssumption DEF ChainAssumption, Logs
<1>2. PICK x \in S : \A y \in S : ~ (<<y, x>> \in OpToRel(<, Nat))
  BY <1>1, NatLessThanWellFounded, WFMin
<1>3. ASSUME NEW y \in S PROVE x <= y
  <2>1. x \in Nat /\ y \in Nat
    BY <1>1
  <2>2. y < x => <<y, x>> \in {ss \in Nat \X Nat : ss[1] < ss[2]}
    BY <2>1
  <2>3. y < x => <<y, x>> \in OpToRel(<, Nat)
    BY <2>2 DEF OpToRel
  <2>4. ~ (y < x)
    BY <1>2, <2>3
  <2> QED
    BY <2>1, <2>4
<1>4. \E z \in S : \A y \in S : z <= y
  BY <1>3
<1> QED
  BY <1>4 DEF Min

(* The rows of a late chunk go down one by one, beside whatever the load   *)
(* does; their pointer moves when the last one is down.                    *)
LEMMA LateKeepsInv ==
    ASSUME BootInv, LateRow
    PROVE  BootInv'
<1> DEFINE i == Min(late)
           values == IF late \ {i} = {} THEN Max({cache.values, BlockOf[i]}) ELSE cache.values
<1>1. /\ height' = height /\ service' = service /\ disk' = disk /\ step' = step /\ by' = by
      /\ known' = known /\ request' = request /\ seed' = seed
      /\ late # {} /\ late' = late \ {i}
      /\ cache' = [cache EXCEPT !.image = Put(@, {i}),
                                !.values = IF late' = {} THEN Max({@, BlockOf[i]}) ELSE @]
  BY DEF LateRow
<1>2. i \in late /\ \A j \in late : i <= j
  BY <1>1, MinOfLogs DEF BootInv, BootTypeOK
<1>3. /\ i \in Logs /\ KeyOf[i] \in Keys /\ BlockOf[i] <= service
      /\ UpToDate(KeyOf[i], i, known.stateBlock)
      /\ i \in Writes(KeyOf[i]) /\ BlockOf[i] \in Nat /\ i \in 0..NLogs
  <2>1. i \in Logs /\ KeyOf[i] \in Keys /\ BlockOf[i] <= service
        /\ UpToDate(KeyOf[i], i, known.stateBlock)
    BY <1>2 DEF BootInv, BootTypeOK, LateShape
  <2> QED
    BY <2>1, ChainAssumption DEF ChainAssumption, Writes, Logs, Blocks
<1>4. /\ cache.stamp <= known.stateBlock
      /\ step \notin {"plan", "bridge", "removals", "live"}
      /\ ~ (known.cdn > 0 /\ step \in {"save", "stream"})
  BY <1>1 DEF BootInv, LateShape
<1>5. GoodRows({i})
  BY <1>3, BootFacts DEF GoodRows
<1>6. Put(cache.image, {i}) \in Images
  BY <1>5, PutFacts, BootFacts DEF GoodRows
<1>7. /\ values \in Nat /\ cache.values <= values
      /\ values = cache.values \/ (values = BlockOf[i] /\ late' = {})
  <2>1. cache.values \in Int /\ BlockOf[i] \in Int /\ cache.values \in Nat
    BY <1>3, BootFacts
  <2>2. Max({cache.values, BlockOf[i]})
          = IF cache.values >= BlockOf[i] THEN cache.values ELSE BlockOf[i]
    BY <2>1, MaxOfTwo
  <2> HIDE DEF i
  <2> QED
    BY <1>1, <1>3, <2>1, <2>2
<1> HIDE DEF i
<1>8. cache' = [cache EXCEPT !.image = Put(cache.image, {i}), !.values = values]
  BY <1>1
<1> HIDE DEF values
<1>9. /\ cache' \in Caches /\ cache'.image = Put(cache.image, {i})
      /\ cache'.stamp = cache.stamp /\ cache'.values = values
      /\ cache'.removals = cache.removals
  BY <1>6, <1>7, <1>8 DEF BootInv, BootTypeOK, Caches
<1>10. BootTypeOK'
  BY <1>1, <1>9 DEF BootInv, BootTypeOK
<1>11. CachesAreTrue'
  BY <1>1, <1>4, <1>5, <1>9, PutKeeps DEF BootInv, CachesAreTrue, TrueThrough
<1>12. ColdIsEmpty' /\ LiveIsTrue'
  BY <1>1, <1>4, <1>9 DEF BootInv, ColdIsEmpty, LiveIsTrue, Streaming
<1>13. PointerShape'
  <2>1. values <= service \/ ~ Streaming
    BY <1>3, <1>7 DEF BootInv, PointerShape
  <2> QED
    BY <1>1, <1>4, <1>9, <2>1 DEF BootInv, PointerShape, Streaming
<1>14. RequestShape'
  <2>1. Pointer' = (IF step = "values" THEN values ELSE cache.removals)
    BY <1>1, <1>9 DEF Pointer
  <2>2. Pointer <= Pointer' /\ Pointer \in Nat /\ Pointer' \in Nat
    BY <1>7, <2>1, BootFacts DEF Pointer
  <2> QED
    BY <1>1, <2>2, BootFacts DEF BootInv, RequestShape, Streaming
<1>15. ASSUME NEW k \in Keys PROVE Read(k) => Read(k)'
  BY <1>1, <1>4, <1>5, <1>9, PutKeeps DEF Read
<1>16. ASSUME NEW k \in Keys
       PROVE  /\ NewestOf(k)' = NewestOf(k)
              /\ \A x : Brought(k, x)' <=> Brought(k, x)
  BY <1>1, <1>9 DEF NewestOf, Brought
<1>17. ASSUME NEW k \in Keys, NewestOf(k) = i PROVE Read(k)'
  <2>1. KeyOf[i] = k
    BY <1>3, <1>17, NewestFacts, BootFacts DEF NewestOf
  <2>2. IsCurrent(k, Put(cache.image, {i})[k], known.stateBlock, height)
    BY <1>4, <1>5, <2>1, PutKeeps
  <2> QED
    BY <1>1, <1>9, <2>2 DEF Read
<1>18. ValuesAreRead'
  <2> SUFFICES ASSUME step = "values", NEW k \in Keys, Brought(k, FALSE),
                      BlockOf[NewestOf(k)] < values
                        \/ (request # Closed /\ NewestOf(k) <= request.sent)
               PROVE  Read(k)'
    BY <1>1, <1>9, <1>16 DEF ValuesAreRead, BehindRequest
  <2>1. CASE BehindRequest(k, cache.values)
    BY <1>15, <2>1 DEF BootInv, ValuesAreRead
  <2>2. CASE ~ BehindRequest(k, cache.values)
    <3>1. BlockOf[NewestOf(k)] < BlockOf[i] /\ late' = {}
      BY <1>7, <2>2 DEF BehindRequest
    <3>2. NewestOf(k) \in 0..NLogs
      BY DEF Brought, Logs
    <3>3. NewestOf(k) < i
      BY <1>3, <3>1, <3>2, LowerBlockIsOlder
    <3>4. NewestOf(k) <= i /\ NewestOf(k) \in Int /\ i \in Int
      BY <1>3, <3>2, <3>3
    <3>5. Read(k) \/ NewestOf(k) \in late
      BY <1>2, <3>4 DEF BootInv, LateShape
    <3>6. late = {i}
      BY <1>1, <1>2, <3>1
    <3> QED
      BY <1>15, <3>3, <3>4, <3>5, <3>6
  <2> QED
    BY <2>1, <2>2
<1>19. RemovalsAreRead'
  BY <1>1, <1>4, <1>15, <1>16 DEF BootInv, RemovalsAreRead
<1>20. LateShape'
  <2>1. ASSUME step = "values", NEW j \in late', NEW k \in Keys, Brought(k, FALSE),
               NewestOf(k) <= j
        PROVE  Read(k)' \/ NewestOf(k) \in late'
    <3>1. Read(k) \/ NewestOf(k) \in late
      BY <1>1, <2>1 DEF BootInv, LateShape
    <3> QED
      BY <1>1, <1>15, <1>17, <3>1
  <2>2. \A j \in late' : j \in late
    BY <1>1
  <2> QED
    BY <1>1, <1>4, <1>9, <1>16, <2>1, <2>2 DEF BootInv, LateShape
<1>21. ClaimShape'
  <2>1. Baseline' = Baseline
    BY <1>1, <1>9 DEF Baseline
  <2> QED
    BY <1>1, <1>9, <2>1 DEF BootInv, ClaimShape, Streaming
<1> QED
  BY <1>10, <1>11, <1>12, <1>13, <1>14, <1>18, <1>19, <1>20, <1>21 DEF BootInv

-----------------------------------------------------------------------------
(* The blocks a load was served at start at the stamp it started from.     *)
LEMMA ServedFacts ==
    ASSUME BootInv, Streaming
    PROVE  /\ Min(Served) \in Nat /\ Max(Served) \in Nat
           /\ Min(Served) <= known.stateBlock /\ cache.stamp <= Min(Served)
           /\ Min(Served) > 0
<1> DEFINE a == known.stateBlock
           v == cache.values
           r == cache.removals
<1>1. /\ a \in Nat /\ v \in Nat /\ r \in Nat /\ cache.stamp \in Nat
      /\ cache.stamp <= a /\ a > 0
  BY BootFacts DEF BootInv, PointerShape, ColdIsEmpty
<1>2. /\ Served \subseteq {a, v, r} /\ a \in Served
      /\ \A b \in Served : b \in Nat /\ b >= cache.stamp /\ b > 0
  BY <1>1 DEF Served
<1> HIDE DEF a, v, r
<1>3. \E x \in Served : \A y \in Served : x <= y
  <2>1. CASE v \in Served /\ r \in Served
    BY <1>1, <1>2, <2>1
  <2>2. CASE v \in Served /\ r \notin Served
    BY <1>1, <1>2, <2>2
  <2>3. CASE v \notin Served /\ r \in Served
    BY <1>1, <1>2, <2>3
  <2>4. CASE v \notin Served /\ r \notin Served
    BY <1>1, <1>2, <2>4
  <2> QED
    BY <2>1, <2>2, <2>3, <2>4
<1>4. \E x \in Served : \A y \in Served : x >= y
  <2>1. CASE v \in Served /\ r \in Served
    BY <1>1, <1>2, <2>1
  <2>2. CASE v \in Served /\ r \notin Served
    BY <1>1, <1>2, <2>2
  <2>3. CASE v \notin Served /\ r \in Served
    BY <1>1, <1>2, <2>3
  <2>4. CASE v \notin Served /\ r \notin Served
    BY <1>1, <1>2, <2>4
  <2> QED
    BY <2>1, <2>2, <2>3, <2>4
<1>5. Min(Served) \in Served /\ \A y \in Served : Min(Served) <= y
  BY <1>3 DEF Min
<1>6. Max(Served) \in Served
  BY <1>4 DEF Max
<1> QED
  BY <1>2, <1>5, <1>6 DEF a

(* The stamp a delta ends with is true of every key: of those its streams  *)
(* brought, of those nobody wrote since, and of those whose removal the    *)
(* stamp does not cover.                                                   *)
LEMMA DeltaIsTrue ==
    ASSUME BootInv, request # Closed, Rows = {}, step = "values", NEW k \in Keys
    PROVE  TrueThrough(k, cache.image[k], Min(Served))
<1> DEFINE n == NewestOf(k)
           t == Min(Served)
           v == cache.image[k]
<1>1. /\ t \in Nat /\ t <= known.stateBlock /\ cache.stamp <= t /\ t <= service
      /\ height \in Nat /\ service \in Nat /\ known.stateBlock \in Nat
      /\ cache.stamp \in Nat
  BY ServedFacts, BootFacts DEF Streaming
<1>2. /\ n \in Writes(k) \cup {0} /\ BlockOf[n] \in Nat /\ BlockOf[n] <= service
      /\ UpToDate(k, n, service) /\ n \in 0..NLogs
      /\ n \in Logs => n \in Writes(k)
      /\ n \notin Logs => n = 0
  BY <1>1, NewestFacts DEF NewestOf
<1>3. Read(k) => IsCurrent(k, v, t, height)
  BY <1>1, CurrentEasier DEF Read
<1> HIDE DEF t
<1>4. CASE Brought(k, FALSE)
  <2>1. BehindRequest(k, cache.values)
    BY <1>4, BroughtIsARow DEF Pointer
  <2> QED
    BY <1>3, <1>4, <2>1 DEF BootInv, ValuesAreRead, TrueThrough, t
<1>5. CASE Brought(k, TRUE)
  <2>1. n \in Removals /\ n \in Writes(k)
    BY <1>2, <1>5 DEF Brought
  <2>2. CASE BlockOf[n] <= known.stateBlock
    BY <1>3, <1>5, <2>2 DEF BootInv, RemovalsAreRead, TrueThrough, t
  <2>3. CASE BlockOf[n] > known.stateBlock
    <3>1. t < BlockOf[n]
      BY <1>1, <1>2, <2>3
    <3>2. IsRemoved(k, t, service)
      BY <1>2, <2>1, <3>1 DEF IsRemoved
    <3> QED
      BY <3>2 DEF TrueThrough, t
  <2> QED
    BY <1>1, <1>2, <2>2, <2>3
<1>6. CASE n \notin Logs \/ BlockOf[n] < cache.stamp
  <2>1. ASSUME NEW j \in Writes(k), BlockOf[j] <= service
        PROVE  j <= n /\ n \in Logs /\ BlockOf[j] <= BlockOf[n] /\ BlockOf[j] < cache.stamp
               /\ BlockOf[j] \in Nat /\ j \in Nat
    <3>1. j <= n
      BY <1>2, <2>1 DEF UpToDate
    <3>2. j \in Logs /\ j \in 0..NLogs /\ j \in Nat
      BY DEF Writes, Logs
    <3>3. n \in Logs
      BY <1>2, <3>1, <3>2 DEF Logs
    <3>4. BlockOf[j] \in Nat /\ BlockOf[j] <= BlockOf[n]
      BY <1>2, <3>1, <3>2, LaterIsNoEarlier DEF Blocks
    <3> QED
      BY <1>1, <1>2, <1>6, <3>1, <3>2, <3>3, <3>4
  <2>2. ~ IsRemoved(k, cache.stamp, service)
    <3> SUFFICES ASSUME NEW j \in Writes(k), cache.stamp < BlockOf[j],
                        BlockOf[j] <= service
                 PROVE  FALSE
      BY DEF IsRemoved
    <3> QED
      BY <1>1, <2>1
  <2>3. IsCurrent(k, v, cache.stamp, height)
    BY <2>2 DEF BootInv, CachesAreTrue, TrueThrough
  <2>4. PICK i \in Writes(k) \cup {0} :
            /\ BlockOf[i] <= height /\ UpToDate(k, i, cache.stamp)
            /\ i = v \/ (Absent(i) /\ Absent(v))
    BY <2>3 DEF IsCurrent
  <2>5. UpToDate(k, i, t)
    <3> SUFFICES ASSUME NEW j \in Writes(k), BlockOf[j] <= t PROVE j <= i
      BY DEF UpToDate
    <3>1. BlockOf[j] \in Nat
      BY WriteFacts
    <3>2. BlockOf[j] <= service
      BY <1>1, <3>1
    <3>3. BlockOf[j] <= cache.stamp
      BY <1>1, <2>1, <3>1, <3>2
    <3> QED
      BY <2>4, <3>3 DEF UpToDate
  <2>6. IsCurrent(k, v, t, height)
    BY <2>4, <2>5 DEF IsCurrent
  <2> QED
    BY <2>6 DEF TrueThrough, t
<1> QED
  <2>1. \/ Brought(k, TRUE) \/ Brought(k, FALSE)
        \/ n \notin Logs \/ BlockOf[n] < cache.stamp
    BY <1>1, <1>2 DEF Brought
  <2> QED
    BY <1>4, <1>5, <1>6, <2>1

(* The end of the removals is the start of the values: what is behind the  *)
(* pointer of the values is older than the stamp.                          *)
LEMMA RemovalsEndKeepsInv ==
    ASSUME BootInv, StreamEnds, step = "removals"
    PROVE  BootInv'
<1>1. /\ height' = height /\ service' = service /\ disk' = disk /\ cache' = cache
      /\ by' = by /\ known' = known /\ late' = late /\ seed' = seed
      /\ request # Closed /\ request' = Closed /\ Rows = {} /\ step' = "values"
  BY DEF StreamEnds
<1>2. Closed \in [at : Int, from : Nat, sent : 0..NLogs]
  BY BootFacts DEF Closed
<1>3. BootTypeOK'
  BY <1>1, <1>2 DEF BootInv, BootTypeOK, Steps
<1>4. CachesAreTrue' /\ ColdIsEmpty' /\ LiveIsTrue' /\ RequestShape' /\ PointerShape'
  BY <1>1 DEF BootInv, CachesAreTrue, TrueThrough, ColdIsEmpty, LiveIsTrue, RequestShape,
              PointerShape, Streaming
<1>5. ASSUME NEW k \in Keys
      PROVE  /\ NewestOf(k)' = NewestOf(k)
             /\ \A x : Brought(k, x)' <=> Brought(k, x)
             /\ Read(k)' <=> Read(k)
  BY <1>1 DEF NewestOf, Brought, Read
<1>6. RemovalsAreRead'
  <2> SUFFICES ASSUME NEW k \in Keys, Brought(k, TRUE) PROVE Read(k)
    BY <1>1, <1>5 DEF RemovalsAreRead
  <2>1. BehindRequest(k, cache.removals)
    BY <1>1, BroughtIsARow DEF Pointer
  <2> QED
    BY <2>1 DEF BootInv, RemovalsAreRead
<1>7. ValuesAreRead'
  <2> SUFFICES ASSUME NEW k \in Keys, Brought(k, FALSE),
                      BlockOf[NewestOf(k)] < cache.values
               PROVE  FALSE
    BY <1>1, <1>5 DEF ValuesAreRead, BehindRequest
  <2>1. cache.values = cache.stamp
    BY DEF BootInv, PointerShape, Streaming
  <2>2. BlockOf[NewestOf(k)] \in Nat
    BY BootFacts, NewestFacts DEF NewestOf
  <2> QED
    BY <2>1, <2>2, BootFacts DEF Brought
<1>8. late = {}
  BY DEF BootInv, LateShape
<1>9. LateShape'
  BY <1>1, <1>8 DEF LateShape
<1>10. ClaimShape'
  BY <1>1 DEF BootInv, ClaimShape, Baseline, Streaming
<1> QED
  BY <1>3, <1>4, <1>6, <1>7, <1>9, <1>10 DEF BootInv

LEMMA ValuesEndKeepsInv ==
    ASSUME BootInv, StreamEnds, step = "values"
    PROVE  BootInv'
<1>1. /\ height' = height /\ service' = service /\ disk' = disk
      /\ by' = by /\ known' = known /\ late' = late /\ seed' = seed
      /\ request # Closed /\ request' = Closed /\ Rows = {}
      /\ step' = IF by = "bridge" THEN "gap" ELSE "save"
      /\ cache' = [cache EXCEPT !.stamp = Min(Served), !.high = Max(Served)]
  BY DEF StreamEnds
<1>2. /\ Min(Served) \in Nat /\ Max(Served) \in Nat
      /\ Min(Served) <= known.stateBlock /\ cache.stamp <= Min(Served) /\ Min(Served) > 0
  BY ServedFacts DEF Streaming
<1>3. Closed \in [at : Int, from : Nat, sent : 0..NLogs]
  BY BootFacts DEF Closed
<1>4. /\ cache' \in Caches /\ cache'.image = cache.image /\ cache'.stamp = Min(Served)
  BY <1>1, <1>2 DEF BootInv, BootTypeOK, Caches
<1>5. BootTypeOK'
  <2>1. Min(Served) <= service
    BY <1>2, BootFacts
  <2>2. step' \in Steps
    BY <1>1 DEF Steps
  <2> QED
    BY <1>1, <1>3, <1>4, <2>1, <2>2 DEF BootInv, BootTypeOK
<1>6. CachesAreTrue'
  <2>1. \A k \in Keys : TrueThrough(k, cache.image[k], Min(Served))
    BY <1>1, DeltaIsTrue
  <2>2. \A k \in Keys : TrueThrough(k, cache.image[k], cache.stamp)'
    BY <1>1, <1>4, <2>1 DEF TrueThrough
  <2>3. \A k \in Keys : TrueThrough(k, disk.image[k], disk.stamp)'
    BY <1>1 DEF BootInv, CachesAreTrue, TrueThrough
  <2> QED
    BY <2>2, <2>3 DEF CachesAreTrue
<1>7. ColdIsEmpty'
  BY <1>1, <1>2, <1>4 DEF BootInv, ColdIsEmpty, Streaming
<1>8. RequestShape' /\ PointerShape' /\ RemovalsAreRead' /\ ValuesAreRead' /\ LiveIsTrue'
  BY <1>1
  DEF RequestShape, PointerShape, RemovalsAreRead, ValuesAreRead, LiveIsTrue, Streaming
<1>9. LateShape'
  <2>1. known.cdn > 0 => by = "bridge"
    BY DEF BootInv, ClaimShape, Streaming
  <2>2. \A i \in late : KeyOf[i] \in Keys /\ BlockOf[i] <= service
                        /\ UpToDate(KeyOf[i], i, known.stateBlock)
    BY DEF BootInv, LateShape
  <2> QED
    BY <1>1, <1>2, <1>4, <2>1, <2>2 DEF LateShape
<1>10. ClaimShape'
  <2>1. /\ known.cdn <= cache.stamp /\ (known.sameNonce => known.preDelta <= cache.stamp)
        /\ known.cdn > 0 => known.sameNonce
        /\ by = "bridge" => known.cdn > 0 /\ Baseline <= known.subscribed
        /\ known.cdn \in Nat /\ known.preDelta \in Nat /\ cache.stamp \in Nat
    BY BootFacts DEF BootInv, ClaimShape
  <2>2. by = "bridge" => Baseline' = Baseline
    BY <1>1, <2>1 DEF Baseline
  <2> QED
    BY <1>1, <1>2, <1>4, <2>1, <2>2 DEF ClaimShape, Streaming
<1> QED
  BY <1>5, <1>6, <1>7, <1>8, <1>9, <1>10 DEF BootInv

-----------------------------------------------------------------------------
(* What a boot may claim, it holds. *)
LEMMA BaselineFacts ==
    ASSUME BootInv
    PROVE  Baseline \in Nat /\ Baseline <= cache.stamp
BY BootFacts DEF BootInv, ClaimShape, Baseline

LEMMA SaveKeepsInv ==
    ASSUME BootInv, Save
    PROVE  BootInv'
<1>1. /\ height' = height /\ service' = service /\ cache' = cache /\ by' = by
      /\ request' = request /\ late' = late /\ seed' = seed
      /\ step = "save" /\ step' = IF by = "child" THEN "saved" ELSE "stream"
      /\ disk' = [image |-> cache.image, stamp |-> cache.stamp]
      /\ known' = [known EXCEPT !.subscribed = height]
  BY DEF Save
<1>2. /\ disk' \in [image : Images, stamp : Nat] /\ disk'.image = cache.image
      /\ disk'.stamp = cache.stamp
  BY <1>1, BootFacts
<1>3. /\ known' \in Notes /\ known'.subscribed = height
      /\ known'.preDelta = known.preDelta /\ known'.sameNonce = known.sameNonce
      /\ known'.cdn = known.cdn /\ known'.stateBlock = known.stateBlock
      /\ known'.start = known.start
  BY <1>1, BootFacts DEF BootInv, BootTypeOK, Notes
<1>4. BootTypeOK'
  <2>1. step' \in Steps
    BY <1>1 DEF Steps
  <2> QED
    BY <1>1, <1>2, <1>3, <2>1, BootFacts DEF BootInv, BootTypeOK
<1>5. CachesAreTrue'
  BY <1>1, <1>2 DEF BootInv, CachesAreTrue, TrueThrough
<1>6. ColdIsEmpty'
  <2>1. cache.stamp > 0
    BY <1>1 DEF BootInv, ColdIsEmpty
  <2> QED
    BY <1>1, <1>2, <2>1, BootFacts DEF ColdIsEmpty, Streaming
<1>7. request = Closed
  BY <1>1 DEF BootInv, RequestShape, Streaming
<1>8. RequestShape' /\ PointerShape' /\ RemovalsAreRead' /\ ValuesAreRead' /\ LiveIsTrue'
  BY <1>1, <1>7
  DEF RequestShape, PointerShape, RemovalsAreRead, ValuesAreRead, LiveIsTrue, Streaming
<1>9. LateShape'
  BY <1>1, <1>3 DEF BootInv, LateShape
<1>10. ClaimShape'
  <2>1. Baseline' = Baseline
    BY <1>1, <1>3 DEF Baseline
  <2>2. Baseline <= height
    BY BaselineFacts, BootFacts
  <2>3. step' \in {"saved", "stream"}
    BY <1>1
  <2> QED
    BY <1>1, <1>3, <2>1, <2>2, <2>3 DEF BootInv, ClaimShape, Streaming
<1> QED
  BY <1>4, <1>5, <1>6, <1>8, <1>9, <1>10 DEF BootInv

LEMMA StartKeepsInv ==
    ASSUME BootInv, StreamStart
    PROVE  BootInv'
<1>1. /\ height' = height /\ service' = service /\ disk' = disk /\ cache' = cache
      /\ request' = request /\ late' = late /\ seed' = seed
      /\ step = "stream"
      /\ \/ known.cdn > 0 /\ step' = "bridge" /\ by' = "bridge"
         \/ known.cdn <= 0 /\ step' = "gap" /\ by' = by
      /\ known' = [known EXCEPT !.start = height]
  BY BootFacts DEF StreamStart
<1>2. /\ known' \in Notes /\ known'.start = height
      /\ known'.preDelta = known.preDelta /\ known'.sameNonce = known.sameNonce
      /\ known'.cdn = known.cdn /\ known'.stateBlock = known.stateBlock
      /\ known'.subscribed = known.subscribed
  BY <1>1, BootFacts DEF BootInv, BootTypeOK, Notes
<1>3. BootTypeOK'
  BY <1>1, <1>2, BootFacts DEF BootInv, BootTypeOK, Steps
<1>4. CachesAreTrue' /\ ColdIsEmpty'
  BY <1>1 DEF BootInv, CachesAreTrue, TrueThrough, ColdIsEmpty, Streaming
<1>5. request = Closed /\ (known.cdn > 0 => late = {})
  BY <1>1 DEF BootInv, RequestShape, LateShape, Streaming
<1>6. RequestShape' /\ PointerShape' /\ RemovalsAreRead' /\ ValuesAreRead' /\ LiveIsTrue'
  BY <1>1, <1>5
  DEF RequestShape, PointerShape, RemovalsAreRead, ValuesAreRead, LiveIsTrue, Streaming
<1>7. LateShape'
  BY <1>1, <1>2, <1>5 DEF BootInv, LateShape
<1>8. ClaimShape'
  <2>1. Baseline' = Baseline
    BY <1>1, <1>2 DEF Baseline
  <2> QED
    BY <1>1, <1>2, <2>1 DEF BootInv, ClaimShape, Streaming
<1> QED
  BY <1>3, <1>4, <1>6, <1>7, <1>8 DEF BootInv

(* A bridge that fails leaves what it applied over the stamp it started    *)
(* from.                                                                   *)
LEMMA BridgeKeepsInv ==
    ASSUME BootInv, BridgeFails
    PROVE  BootInv'
<1>1. /\ height' = height /\ service' = service /\ disk' = disk /\ by' = by
      /\ known' = known /\ seed' = seed /\ by = "bridge" /\ request' = Closed
      /\ step \in {"bridge", "removals", "values"} /\ step' = "gap"
      /\ known.sameNonce => cache' = cache /\ late' = late
  BY DEF BridgeFails
<1>2. cache' = cache /\ late' = late
  BY <1>1 DEF BootInv, ClaimShape
<1>3. Closed \in [at : Int, from : Nat, sent : 0..NLogs]
  BY BootFacts DEF Closed
<1>4. BootTypeOK'
  BY <1>1, <1>2, <1>3 DEF BootInv, BootTypeOK, Steps
<1>5. CachesAreTrue' /\ ColdIsEmpty'
  BY <1>1, <1>2 DEF BootInv, CachesAreTrue, TrueThrough, ColdIsEmpty, Streaming
<1>6. RequestShape' /\ PointerShape' /\ RemovalsAreRead' /\ ValuesAreRead' /\ LiveIsTrue'
  BY <1>1
  DEF RequestShape, PointerShape, RemovalsAreRead, ValuesAreRead, LiveIsTrue, Streaming
<1>7. LateShape'
  BY <1>1, <1>2 DEF BootInv, LateShape
<1>8. ClaimShape'
  BY <1>1, <1>2 DEF BootInv, ClaimShape, Baseline, Streaming
<1> QED
  BY <1>4, <1>5, <1>6, <1>7, <1>8 DEF BootInv

-----------------------------------------------------------------------------
(* Fills and frames are newer than the baseline, whatever they miss and    *)
(* whichever of the two is on top.                                         *)
LEMMA FillIsTrue ==
    ASSUME BootInv, step = "gap", NEW c \in Int, c <= height,
           NEW frames \in SUBSET {i \in Logs : known.subscribed < BlockOf[i]
                                                 /\ BlockOf[i] <= height},
           NEW latest, GoLive(c, latest, frames)
    PROVE  /\ cache'.image \in Images
           /\ \A k \in Keys : TrueThrough(k, cache'.image[k], Baseline)
<1> DEFINE filled == Collapsed(cache.stamp, c)
           image  == [k \in Keys |-> IF k \in DOMAIN filled THEN filled[k] ELSE cache.image[k]]
           last   == {i \in frames : \A j \in frames : KeyOf[j] = KeyOf[i] => j <= i}
<1>1. cache' = [cache EXCEPT !.image = Put(image, last)]
  BY DEF GoLive
<1>2. /\ Baseline \in Nat /\ Baseline <= cache.stamp /\ Baseline <= known.subscribed
      /\ cache.stamp \in Nat /\ known.subscribed \in Nat /\ height \in Nat
      /\ cache.image \in Images /\ service \in Nat /\ NLogs \in Nat
  BY BaselineFacts, BootFacts DEF BootInv, ClaimShape
<1>3. last \in SUBSET Logs
  OBVIOUS
<1>4. ASSUME NEW k \in Keys, k \in DOMAIN filled
      PROVE  filled[k] \in 0..NLogs /\ IsCurrent(k, filled[k], Baseline, height)
  <2>1. k \in Touched(cache.stamp, c)
    BY <1>4 DEF Collapsed
  <2>2. /\ filled[k] \in WritesIn(k, cache.stamp, c)
        /\ \A j \in WritesIn(k, cache.stamp, c) : j <= filled[k]
    BY <2>1, ChainAssumption, CollapsedIsNewest
  <2> DEFINE w == filled[k]
  <2>3. /\ w \in Writes(k) /\ cache.stamp <= BlockOf[w] /\ BlockOf[w] <= c
        /\ BlockOf[w] \in Nat /\ w \in 0..NLogs
    BY <2>2, WriteFacts DEF WritesIn
  <2> HIDE DEF w
  <2>4. UpToDate(k, w, Baseline)
    <3> SUFFICES ASSUME NEW j \in Writes(k), BlockOf[j] <= Baseline PROVE j <= w
      BY DEF UpToDate
    <3>1. BlockOf[j] \in Nat /\ j \in 0..NLogs /\ BlockOf[j] <= BlockOf[w]
      BY <1>2, <2>3, WriteFacts
    <3>2. CASE BlockOf[j] < BlockOf[w]
      <4>1. j < w
        BY <2>3, <3>1, <3>2, LowerBlockIsOlder
      <4> QED
        BY <2>3, <3>1, <4>1
    <3>3. CASE BlockOf[j] = BlockOf[w]
      <4>1. j \in WritesIn(k, cache.stamp, c)
        BY <2>3, <3>3 DEF WritesIn
      <4> QED
        BY <2>2, <4>1 DEF w
    <3> QED
      BY <2>3, <3>1, <3>2, <3>3
  <2>5. BlockOf[w] <= height
    BY <1>2, <2>3
  <2>6. IsCurrent(k, w, Baseline, height)
    BY <2>3, <2>4, <2>5 DEF IsCurrent
  <2> QED
    BY <2>3, <2>6 DEF w
<1>5. ASSUME NEW k \in Keys
      PROVE  image[k] \in 0..NLogs /\ TrueThrough(k, image[k], Baseline)
  <2>1. CASE k \in DOMAIN filled
    BY <1>4, <2>1 DEF TrueThrough
  <2>2. CASE k \notin DOMAIN filled
    <3>1. image[k] = cache.image[k] /\ cache.image[k] \in 0..NLogs
      BY <1>2, <2>2 DEF Images
    <3>2. TrueThrough(k, cache.image[k], cache.stamp)
      BY DEF BootInv, CachesAreTrue
    <3>3. TrueThrough(k, cache.image[k], Baseline)
      <4>1. CASE IsCurrent(k, cache.image[k], cache.stamp, height)
        <5>1. IsCurrent(k, cache.image[k], Baseline, height)
          BY <1>2, <4>1, CurrentEasier
        <5> QED
          BY <5>1 DEF TrueThrough
      <4>2. CASE IsRemoved(k, cache.stamp, service)
        <5>1. IsRemoved(k, Baseline, service)
          BY <1>2, <4>2, RemovedEasier
        <5> QED
          BY <5>1 DEF TrueThrough
      <4> QED
        BY <3>2, <4>1, <4>2 DEF TrueThrough
    <3> QED
      BY <3>1, <3>3
  <2> QED
    BY <2>1, <2>2
<1>6. image \in Images
  BY <1>5 DEF Images
<1>7. \A i \in last : i \in Logs /\ known.subscribed < BlockOf[i] /\ BlockOf[i] <= height
  OBVIOUS
<1> HIDE DEF image, last, filled
<1>8. /\ Put(image, last) \in Images
      /\ \A k \in Keys : \/ Put(image, last)[k] = image[k]
                         \/ /\ Put(image, last)[k] \in last
                            /\ KeyOf[Put(image, last)[k]] = k
  BY <1>2, <1>3, <1>6, PutFacts
<1>9. ASSUME NEW k \in Keys, NEW v \in last, KeyOf[v] = k
      PROVE  IsCurrent(k, v, Baseline, height)
  <2>1. /\ v \in Logs /\ v \in Writes(k) /\ BlockOf[v] \in Nat /\ v \in 0..NLogs
        /\ known.subscribed < BlockOf[v] /\ BlockOf[v] <= height
    BY <1>7, <1>9, ChainAssumption DEF ChainAssumption, Writes, Logs, Blocks
  <2>2. UpToDate(k, v, Baseline)
    <3> SUFFICES ASSUME NEW j \in Writes(k), BlockOf[j] <= Baseline PROVE j <= v
      BY DEF UpToDate
    <3>1. BlockOf[j] \in Nat /\ j \in 0..NLogs /\ BlockOf[j] < BlockOf[v]
      BY <1>2, <2>1, WriteFacts
    <3>2. j < v
      BY <2>1, <3>1, LowerBlockIsOlder
    <3> QED
      BY <2>1, <3>1, <3>2
  <2> QED
    BY <2>1, <2>2 DEF IsCurrent
<1>10. cache'.image = Put(image, last)
  BY <1>1 DEF BootInv, BootTypeOK, Caches
<1> QED
  BY <1>5, <1>8, <1>9, <1>10 DEF TrueThrough

LEMMA FillKeepsInv ==
    ASSUME BootInv, NEW frames \in SUBSET Logs, Fill(frames)
    PROVE  BootInv'
<1>1. PICK c \in Int, latest \in 0..height : c <= height /\ GoLive(c, latest, frames)
  <2>1. \/ \E latest \in 0..height : \E c \in {latest - 1, latest} : GoLive(c, latest, frames)
        \/ \E c \in {-1, known.start} : GoLive(c, 0, frames)
    BY DEF Fill
  <2>2. CASE \E latest \in 0..height : \E c \in {latest - 1, latest} : GoLive(c, latest, frames)
    <3>1. PICK latest \in 0..height : \E c \in {latest - 1, latest} : GoLive(c, latest, frames)
      BY <2>2
    <3>2. PICK c \in {latest - 1, latest} : GoLive(c, latest, frames)
      BY <3>1
    <3>3. c \in Int /\ c <= height
      BY BootFacts
    <3> QED
      BY <3>2, <3>3
  <2>3. CASE \E c \in {-1, known.start} : GoLive(c, 0, frames)
    <3>1. PICK c \in {-1, known.start} : GoLive(c, 0, frames)
      BY <2>3
    <3>2. c \in Int /\ c <= height
      BY BootFacts
    <3>3. 0 \in 0..height
      BY BootFacts
    <3> QED
      BY <3>1, <3>2, <3>3
  <2> QED
    BY <2>1, <2>2, <2>3
<1>2. /\ step = "gap"
      /\ frames \subseteq {i \in Logs : known.subscribed < BlockOf[i] /\ BlockOf[i] <= height}
  BY DEF Fill
<1>3. /\ cache'.image \in Images
      /\ \A k \in Keys : TrueThrough(k, cache'.image[k], Baseline)
  BY <1>1, <1>2, FillIsTrue
<1>4. /\ height' = height /\ service' = service /\ disk' = disk /\ by' = by
      /\ known' = known /\ request' = request /\ late' = {} /\ step' = "live"
      /\ seed'.baseline = Baseline
      /\ cache' = [cache EXCEPT !.image = cache'.image]
  <2>1. cache' = [cache EXCEPT !.image = cache'.image]
    BY <1>1 DEF GoLive, BootInv, BootTypeOK, Caches
  <2> QED
    BY <1>1, <2>1 DEF GoLive
<1>5. cache' \in Caches /\ cache'.stamp = cache.stamp
  BY <1>3, <1>4 DEF BootInv, BootTypeOK, Caches
<1>6. BootTypeOK'
  BY <1>4, <1>5, BaselineFacts DEF BootInv, BootTypeOK, Steps
<1>7. CachesAreTrue' /\ ColdIsEmpty'
  BY <1>4 DEF BootInv, CachesAreTrue, TrueThrough, ColdIsEmpty, Streaming
<1>8. request = Closed
  BY <1>2 DEF BootInv, RequestShape, Streaming
<1>9. RequestShape' /\ PointerShape' /\ RemovalsAreRead' /\ ValuesAreRead' /\ LateShape'
  BY <1>4, <1>8
  DEF RequestShape, PointerShape, RemovalsAreRead, ValuesAreRead, LateShape, Streaming
<1>10. LiveIsTrue'
  BY <1>3, <1>4 DEF LiveIsTrue, TrueThrough
<1>11. ClaimShape'
  <2>1. by = "bridge" => Baseline' = Baseline
    BY <1>4 DEF BootInv, ClaimShape, Baseline
  <2> QED
    BY <1>4, <1>5, <2>1 DEF BootInv, ClaimShape, Streaming
<1> QED
  BY <1>6, <1>7, <1>9, <1>10, <1>11 DEF BootInv

-----------------------------------------------------------------------------
LEMMA BootInitInv == Steady /\ BootInit => BootInv
<1> SUFFICES ASSUME Steady, BootInit PROVE BootInv
  OBVIOUS
<1>1. NLogs \in Nat /\ MaxBlock \in Nat
  BY ChainAssumption DEF ChainAssumption
<1>2. /\ height \in Blocks /\ height \in Nat /\ service = 0
      /\ disk = [image |-> Nobody, stamp |-> 0]
      /\ cache = EmptyCache /\ step = "down" /\ by = "worker"
      /\ known = Unknown /\ request = Closed /\ late = {} /\ seed = NoSeed
  BY <1>1 DEF BootInit, Blocks
<1>3. Nobody \in Images
  BY <1>1 DEF Nobody, Images
<1>4. /\ EmptyCache \in Caches /\ EmptyCache.image = Nobody /\ EmptyCache.stamp = 0
      /\ Unknown \in Notes /\ Unknown.cdn = 0 /\ Unknown.sameNonce = TRUE
      /\ Unknown.preDelta = 0 /\ Unknown.stateBlock = 0 /\ Unknown.start = 0
      /\ Closed \in [at : Int, from : Nat, sent : 0..NLogs] /\ NoSeed.baseline = 0
  BY <1>1, <1>3 DEF EmptyCache, Caches, Unknown, Notes, Closed, NoSeed
<1>5. BootTypeOK
  BY <1>2, <1>3, <1>4 DEF BootTypeOK, Steps
<1>6. CachesAreTrue
  <2>1. ASSUME NEW k \in Keys PROVE Nobody[k] = 0 /\ IsCurrent(k, 0, 0, height)
    BY <1>2, AbsentIsCurrent DEF Nobody
  <2> QED
    BY <1>2, <1>4, <2>1 DEF CachesAreTrue, TrueThrough
<1>7. /\ ColdIsEmpty /\ RequestShape /\ PointerShape /\ RemovalsAreRead /\ ValuesAreRead
      /\ LateShape /\ LiveIsTrue
  BY <1>2 DEF ColdIsEmpty, RequestShape, PointerShape, RemovalsAreRead, ValuesAreRead, LateShape,
              LiveIsTrue, Streaming
<1>8. ClaimShape
  BY <1>2, <1>4 DEF ClaimShape
<1> QED
  BY <1>5, <1>6, <1>7, <1>8 DEF BootInv

LEMMA BootStepInv == BootInv /\ [BootNext]_bootVars => BootInv'
<1> SUFFICES ASSUME BootInv, [BootNext]_bootVars PROVE BootInv'
  OBVIOUS
<1>1. CASE HeightGrows
  BY <1>1, HeightKeepsInv
<1>2. CASE Dies
  BY <1>2, DiesKeepsInv
<1>3. CASE WorkerBoots \/ Checkpoint
  BY <1>3, LoadKeepsInv
<1>4. CASE \E m, m2 \in Blocks : CdnLoad(m, m2)
  BY <1>4, CdnKeepsInv
<1>5. CASE \E b \in Blocks, reindexed \in BOOLEAN : StateBlock(b, reindexed)
  BY <1>5, StateBlockKeepsInv
<1>6. CASE \E r \in Blocks : OpenStream(r)
  BY <1>6, OpenKeepsInv
<1>7. CASE \E i \in Logs : Chunk(i)
  BY <1>7, ChunkKeepsInv
<1>8. CASE StreamFails
  BY <1>8, FailsKeepsInv
<1>9. CASE StreamEnds
  <2>1. step \in {"removals", "values"}
    BY <1>9 DEF StreamEnds, BootInv, RequestShape, Streaming
  <2> QED
    BY <1>9, <2>1, RemovalsEndKeepsInv, ValuesEndKeepsInv
<1>10. CASE LateRow
  BY <1>10, LateKeepsInv
<1>11. CASE Save
  BY <1>11, SaveKeepsInv
<1>12. CASE StreamStart
  BY <1>12, StartKeepsInv
<1>13. CASE BridgeFails
  BY <1>13, BridgeKeepsInv
<1>14. CASE \E frames \in SUBSET Logs : Fill(frames)
  BY <1>14, FillKeepsInv
<1>15. CASE UNCHANGED bootVars
  <2>1. /\ height' = height /\ service' = service /\ disk' = disk /\ cache' = cache
        /\ step' = step /\ by' = by /\ known' = known /\ request' = request
        /\ late' = late /\ seed' = seed
    BY <1>15 DEF bootVars
  <2>2. /\ BootTypeOK' /\ CachesAreTrue' /\ ColdIsEmpty' /\ RequestShape' /\ PointerShape'
        /\ LiveIsTrue'
    BY <2>1 DEF BootInv, BootTypeOK, CachesAreTrue, TrueThrough, ColdIsEmpty, RequestShape,
                PointerShape, LiveIsTrue, Streaming, Pointer
  <2>3. /\ RemovalsAreRead' /\ ValuesAreRead' /\ LateShape' /\ ClaimShape'
    BY <2>1 DEF BootInv, RemovalsAreRead, ValuesAreRead, LateShape, ClaimShape, Read, Brought,
                BehindRequest, NewestOf, Baseline, Streaming
  <2> QED
    BY <2>2, <2>3 DEF BootInv
<1> QED
  BY <1>1, <1>2, <1>3, <1>4, <1>5, <1>6, <1>7, <1>8, <1>9, <1>10, <1>11, <1>12, <1>13, <1>14,
     <1>15 DEF BootNext

LEMMA BootInvSuffices == BootInv => BaselineIsTrue
BY DEF BootInv, LiveIsTrue, BaselineIsTrue, TrueThrough, IsCurrent, IsRemoved, Current,
       RemovedSince

(* With a snapshot service that never falls back, the image a worker goes  *)
(* LIVE with is complete through the block it claims for it, but for keys  *)
(* removed above that block: for every chain, every replica's head, chunk, *)
(* failed stream and late row, every export, bridge and checkpoint child,  *)
(* and every process killed on the way.                                    *)
THEOREM BootBaselineIsTrue == Steady /\ BootSpec => []BaselineIsTrue
<1>1. Steady /\ BootInit => BootInv
  BY BootInitInv
<1>2. BootInv /\ [BootNext]_bootVars => BootInv'
  BY BootStepInv
<1>3. BootInv => BaselineIsTrue
  BY BootInvSuffices
<1> QED
  BY <1>1, <1>2, <1>3, PTL DEF BootSpec

(* The saved cache, and the state cache of a load until it goes LIVE, are  *)
(* true to their stamps: which is what the next load starts from.          *)
THEOREM BootCachesAreTrue == Steady /\ BootSpec => []CachesAreTrue
<1>1. Steady /\ BootInit => BootInv
  BY BootInitInv
<1>2. BootInv /\ [BootNext]_bootVars => BootInv'
  BY BootStepInv
<1>3. BootInv => CachesAreTrue
  BY DEF BootInv
<1> QED
  BY <1>1, <1>2, <1>3, PTL DEF BootSpec

=============================================================================
