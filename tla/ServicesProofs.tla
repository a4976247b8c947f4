---------------------------- MODULE ServicesProofs ----------------------------
(***************************************************************************)
(* The services around the mirror, for every value of their parameters:    *)
(* the chain clock, the provider pair, the workers of a process, the reads *)
(* of the clients, the pages of the feed, and the heap.                    *)
(***************************************************************************)
EXTENDS Clock, Reconnect, WorkerLife, ReadYourWrites, Feed, Heap, FiniteSetTheorems,
        WellFoundedInduction, TLAPS

-----------------------------------------------------------------------------
(* The newest of two, as the models use it. *)
LEMMA NewerOfTwo ==
    ASSUME NEW i \in Int, NEW j \in Int
    PROVE  Max({i, j}) = IF i >= j THEN i ELSE j
<1>1. \E x \in {i, j} : \A y \in {i, j} : x >= y
  OBVIOUS
<1>2. Max({i, j}) \in {i, j} /\ \A y \in {i, j} : Max({i, j}) >= y
  BY <1>1 DEF Max
<1> QED
  BY <1>2

-----------------------------------------------------------------------------
(* The chain clock. *)
ClockTypeOK ==
    /\ live \in Nat /\ sampled \in Nat /\ asked \in Nat
    /\ armed \in BOOLEAN
    /\ reads \subseteq Nat

(* A sample is asked for at the newest block or an older one, so the block *)
(* it is then taken on is newer than the request.                          *)
ClockInv == ClockTypeOK /\ asked <= live /\ NoSampleLost

LEMMA ClockInitInv == ClockInit => ClockInv
<1> SUFFICES ASSUME ClockInit PROVE ClockInv
  OBVIOUS
<1>1. live \in Nat /\ asked = live /\ armed = TRUE /\ reads = {}
  BY ClockAssumption DEF ClockInit, LiveBlocks, ClockAssumption
<1>2. PICK block \in LiveBlocks : sampled = Max({block, live})
  BY DEF ClockInit
<1>3. block \in Nat /\ block \in Int /\ live \in Int
  BY <1>1, ClockAssumption DEF LiveBlocks, ClockAssumption
<1>4. sampled = IF block >= live THEN block ELSE live
  BY <1>2, <1>3, NewerOfTwo
<1>5. sampled \in Nat
  BY <1>1, <1>3, <1>4
<1>6. armed
  BY <1>1, Zenon
<1>7. ClockTypeOK
  BY <1>1, <1>5 DEF ClockTypeOK
<1>8. asked <= live
  BY <1>1
<1> QED
  BY <1>6, <1>7, <1>8, Zenon DEF ClockInv, NoSampleLost

LEMMA ClockStepInv == ClockInv /\ [ClockNext]_clockVars => ClockInv'
<1> SUFFICES ASSUME ClockInv, [ClockNext]_clockVars PROVE ClockInv'
  OBVIOUS
<1> USE DEF ClockInv, ClockTypeOK, NoSampleLost
<1>1. CASE Tick \/ FollowUp
  <2>1. /\ live' = live /\ sampled' = sampled /\ reads' = reads
        /\ asked' = live
    BY <1>1 DEF Tick, FollowUp, Ask
  <2>2. armed' = TRUE
    BY <1>1, Zenon DEF Tick, FollowUp, Ask
  <2>3. armed' /\ armed' \in BOOLEAN
    BY <2>2, Zenon
  <2>4. /\ live' \in Nat /\ sampled' \in Nat /\ asked' \in Nat /\ reads' \subseteq Nat
        /\ asked' <= live'
    BY <2>1
  <2> QED
    BY <2>3, <2>4, Zenon
<1>2. ASSUME NEW n \in LiveBlocks, NEW stalled \in BOOLEAN, Batch(n, stalled) PROVE ClockInv'
  <2> DEFINE wanted == armed \/ stalled
             taken  == wanted /\ n > live /\ n > sampled
  <2>1. n \in Nat
    BY ClockAssumption DEF LiveBlocks
  <2>2. /\ live' = Max({live, n})
        /\ armed' = (wanted /\ ~ taken)
        /\ asked' = IF stalled THEN live ELSE asked
        /\ reads' = IF taken THEN reads \cup {n} ELSE reads
        /\ sampled' = sampled
    BY <1>2 DEF Batch
  <2>3. live' = IF live >= n THEN live ELSE n
    BY <2>1, <2>2, NewerOfTwo
  <2>4. ClockTypeOK' /\ asked' <= live'
    BY <2>1, <2>2, <2>3
  <2>5. NoSampleLost'
    <3>1. CASE taken
      <4>1. n \in reads' /\ n > asked'
        BY <2>1, <2>2, <3>1
      <4> QED
        BY <4>1
    <3>2. CASE wanted /\ ~ taken
      BY <2>2, <3>2
    <3>3. CASE ~ wanted
      BY <2>2, <3>3
    <3> QED
      BY <3>1, <3>2, <3>3
  <2> QED
    BY <2>4, <2>5
<1>3. ASSUME NEW b \in reads, NoHeader(b) PROVE ClockInv'
  BY <1>3 DEF NoHeader
<1>4. ASSUME NEW b \in reads, Header(b) PROVE ClockInv'
  BY <1>4 DEF Header
<1>5. CASE UNCHANGED clockVars
  BY <1>5 DEF clockVars
<1> QED
  BY <1>1, <1>2, <1>3, <1>4, <1>5 DEF ClockNext

(* No request for a sample of the chain clock is lost, however many reads  *)
(* of headers fail, hang or overtake each other (daemon.ts, syncClock).    *)
THEOREM ClockLosesNoSample == ClockSpec => []NoSampleLost
<1>1. ClockInv => NoSampleLost
  BY DEF ClockInv
<1> QED
  BY <1>1, ClockInitInv, ClockStepInv, PTL DEF ClockSpec

-----------------------------------------------------------------------------
(* The provider pair. *)
ReconTypeOK ==
    /\ made \in Nat /\ inUse \in Nat /\ trying \in Nat
    /\ inUse <= made /\ trying <= made
    /\ disposed \in BOOLEAN
    /\ NoPair \notin open

(* The pair in use is closed before another is tried, and only while a     *)
(* connection is being made is a pair tried.                               *)
ReconInv ==
    /\ ReconTypeOK
    /\ conn = "connecting" => inUse \notin open
    /\ trying # NoPair => conn = "connecting"
    /\ NoPairLeaks

LEMMA ReconInitInv == ReconInit => ReconInv
<1> SUFFICES ASSUME ReconInit PROVE ReconInv
  OBVIOUS
<1>1. /\ made = 0 /\ inUse = 0 /\ trying = 0
      /\ open = {} /\ conn = "connecting"
      /\ disposed = FALSE
  BY DEF ReconInit, NoPair
<1>2. ReconTypeOK
  <2>1. /\ made \in Nat /\ inUse \in Nat /\ trying \in Nat
        /\ inUse <= made /\ trying <= made
    BY <1>1
  <2>2. disposed \in BOOLEAN
    BY <1>1, Zenon
  <2>3. NoPair \notin open
    BY <1>1
  <2> QED
    BY <2>1, <2>2, <2>3, Zenon DEF ReconTypeOK
<1>3. NoPairLeaks
  BY <1>1 DEF NoPairLeaks
<1>4. inUse \notin open /\ ~ (trying # 0)
  BY <1>1
<1> QED
  BY <1>1, <1>2, <1>3, <1>4, Zenon DEF ReconInv, NoPair

LEMMA InitProvidersKeeps ==
    ASSUME ReconInv, InitProviders, UNCHANGED <<made, inUse, disposed>>
    PROVE  ReconInv'
BY DEF ReconInv, ReconTypeOK, NoPairLeaks, NoPair, InitProviders, connVars

LEMMA ReconStepInv == ReconInv /\ [ReconNext]_reconVars => ReconInv'
<1> SUFFICES ASSUME ReconInv, [ReconNext]_reconVars PROVE ReconInv'
  OBVIOUS
<1> USE DEF ReconInv, ReconTypeOK, NoPairLeaks, NoPair
<1>1. CASE Try
  <2>1. /\ conn = "connecting" /\ conn' = conn /\ trying = 0
        /\ made' = made + 1 /\ trying' = made + 1
        /\ open' = open \cup {made + 1}
        /\ inUse' = inUse /\ disposed' = disposed
    BY <1>1 DEF Try
  <2>2. ReconTypeOK'
    BY <2>1
  <2>3. inUse' \notin open'
    BY <2>1
  <2>4. NoPairLeaks'
    <3>1. CASE disposed
      BY <2>1, <3>1
    <3>2. CASE ~ disposed
      <4>1. open \subseteq {inUse, trying} /\ inUse \notin open
        BY <2>1, <3>2
      <4>2. open' = open \cup {trying'} /\ inUse' = inUse /\ trying = 0 /\ made \in Nat
        BY <2>1
      <4>3. open \subseteq {trying}
        BY <4>1
      <4>4. 0 \notin open
        OBVIOUS
      <4>5. open' \subseteq {inUse', trying'}
        BY <4>2, <4>3, <4>4
      <4> QED
        BY <4>5
    <3> QED
      BY <3>1, <3>2
  <2>5. conn' = "connecting"
    BY <2>1
  <2> QED
    BY <2>2, <2>3, <2>4, <2>5, Zenon DEF ReconInv
<1>2. CASE Connects
  BY <1>2 DEF Connects
<1>3. CASE TryFails
  BY <1>3 DEF TryFails, DestroysFailedPair
<1>4. CASE Probe \/ Dispose
  BY <1>4 DEF Probe, Dispose, connVars
<1>5. ASSUME NEW p \in Pairs, SocketErrs(p) \/ ProbeFails(p) PROVE ReconInv'
  BY <1>5, InitProvidersKeeps DEF SocketErrs, ProbeFails
<1>6. ASSUME NEW p \in Pairs, SocketCloses(p) PROVE ReconInv'
  <2>1. CASE InitProviders
    BY <1>6, <2>1, InitProvidersKeeps DEF SocketCloses
  <2>2. CASE UNCHANGED <<connVars, open>>
    BY <1>6, <2>2 DEF SocketCloses, connVars
  <2> QED
    BY <1>6, <2>1, <2>2 DEF SocketCloses
<1>7. ASSUME NEW p \in Pairs, ProbeAnswers(p) PROVE ReconInv'
  BY <1>7 DEF ProbeAnswers, connVars
<1>8. CASE UNCHANGED reconVars
  BY <1>8 DEF reconVars, connVars, pairVars
<1> QED
  BY <1>1, <1>2, <1>3, <1>4, <1>5, <1>6, <1>7, <1>8 DEF ReconNext, Connecting

(* However often the providers reconnect, and whatever late events of old  *)
(* pairs and probes do, no socket but that of the pair in use and of the   *)
(* one being tried stays open (engine/providers/create.ts, change 3).      *)
THEOREM ReconLeaksNoPair == ReconSpec => []NoPairLeaks
<1>1. ReconInv => NoPairLeaks
  BY DEF ReconInv
<1> QED
  BY <1>1, ReconInitInv, ReconStepInv, PTL DEF ReconSpec

-----------------------------------------------------------------------------
(* The workers of a process. *)
(* What a run waits for, and how it ends. *)
RunStates == {"unborn", "config", "provider", "store", "load", "head", "snapshot", "save",
              "start", "fill", "live", "retrying", "failed", "ended"}

(* Whose disposal will close x, or which run that waits for a provider will *)
(* hand it to own().                                                        *)
Accounted(x) ==
    \/ x[3] = "keepalive"
    \/ x \in disposers
    \/ \E w \in WorkerIds : awaits[w] = "provider" /\ x = Its(w, "provider")

WorkerInv ==
    /\ awaits \in [WorkerIds -> RunStates] /\ turn \in [WorkerIds -> Nat]
    /\ \A x \in opened : Accounted(x)
    /\ \A x \in disposers : x[1] \notin gone

LEMMA WorkerInitInv == WorkerInit => WorkerInv
BY DEF WorkerInit, WorkerInv, Accounted, RunStates

LEMMA WorkerInvSuffices == WorkerInv => NothingOutlives
<1> SUFFICES ASSUME WorkerInv, NEW w \in gone, NEW x \in opened, x[1] = w, x[3] # "keepalive"
             PROVE  x = Its(w, "provider") /\ awaits[w] = "provider"
  BY DEF NothingOutlives
<1>1. PICK v \in WorkerIds : awaits[v] = "provider" /\ x = Its(v, "provider")
  BY DEF WorkerInv, Accounted
<1>2. v = w
  BY <1>1 DEF Its
<1> QED
  BY <1>1, <1>2

(* What own() is handed by a run of w is registered, or closed at once. *)
LEMMA OwnAccounts ==
    ASSUME WorkerInv, NEW w \in WorkerIds, NEW res, \A x \in res : x[1] = w,
           Own(w, res), gone' = gone
    PROVE  /\ \A x \in opened' : x \in disposers' \/ (x \in opened /\ x \notin res)
           /\ disposers \subseteq disposers'
           /\ \A x \in disposers' : x[1] \notin gone'
BY DEF WorkerInv, Own

(* A step that leaves what is open and registered alone, and ends no run's *)
(* wait for a provider.                                                    *)
LEMMA WaitKeeps ==
    ASSUME WorkerInv, NEW w \in WorkerIds, NEW to \in RunStates, awaits[w] # "provider",
           To(w, to), UNCHANGED <<turn, gone, opened, disposers>>
    PROVE  WorkerInv'
<1>1. \A v \in WorkerIds : awaits[v] = "provider" => awaits'[v] = "provider"
  BY DEF WorkerInv, To
<1>2. awaits' \in [WorkerIds -> RunStates]
  BY DEF WorkerInv, To
<1>3. \A x : Accounted(x) => Accounted(x)'
  BY <1>1 DEF Accounted, Its
<1> QED
  BY <1>2, <1>3 DEF WorkerInv

LEMMA StopsKeeps ==
    ASSUME WorkerInv, NEW w \in WorkerIds, NEW what, what # "provider", Stops(w, what)
    PROVE  WorkerInv'
<1>1. awaits[w] # "provider" /\ To(w, "ended") /\ UNCHANGED <<turn, gone, opened, disposers>>
  BY DEF Stops
<1> QED
  BY <1>1, WaitKeeps DEF RunStates

LEMMA GoesKeeps ==
    ASSUME WorkerInv, NEW w \in WorkerIds, NEW what \in {"load", "head", "snapshot", "start"},
           Goes(w, what)
    PROVE  WorkerInv'
<1>1. CASE Stops(w, what)
  BY <1>1, StopsKeeps
<1>2. CASE ~ Stops(w, what)
  <2>1. awaits[w] = what /\ To(w, Following[what]) /\ UNCHANGED <<turn, gone, opened, disposers>>
    BY <1>2 DEF Goes
  <2>2. Following[what] \in RunStates
    BY DEF Following, RunStates
  <2> QED
    BY <2>1, <2>2, WaitKeeps
<1> QED
  BY <1>1, <1>2

LEMMA DisposeKeeps ==
    ASSUME WorkerInv, NEW w \in WorkerIds, DisposeOf(w)
    PROVE  WorkerInv'
<1> DEFINE mine == {x \in disposers : x[1] = w}
<1>1. /\ gone' = gone \cup {w} /\ opened' = opened \ mine /\ disposers' = disposers \ mine
      /\ awaits' = awaits /\ turn' = turn
  BY DEF DisposeOf
<1>2. \A x \in opened' : Accounted(x)'
  BY <1>1 DEF WorkerInv, Accounted, Its
<1>3. \A x \in disposers' : x[1] \notin gone'
  BY <1>1 DEF WorkerInv
<1> QED
  BY <1>1, <1>2, <1>3 DEF WorkerInv

(* A run begins to wait for a provider, which it has just made. *)
LEMMA WaitsForProvider ==
    ASSUME WorkerInv, NEW w \in WorkerIds, awaits[w] # "provider",
           To(w, "provider"), turn' \in [WorkerIds -> Nat],
           \A v \in WorkerIds \ {w} : turn'[v] = turn[v],
           opened' = opened \cup {<<w, turn'[w], "provider">>},
           UNCHANGED <<gone, disposers>>
    PROVE  WorkerInv'
<1>1. awaits' \in [WorkerIds -> RunStates] /\ awaits'[w] = "provider"
  BY DEF WorkerInv, To, RunStates
<1>2. \A v \in WorkerIds \ {w} : awaits'[v] = awaits[v]
  BY DEF WorkerInv, To
<1>3. ASSUME NEW x \in opened, x \notin {<<w, turn'[w], "provider">>} PROVE Accounted(x)'
  <2>1. Accounted(x)
    BY DEF WorkerInv
  <2>2. CASE \E v \in WorkerIds : awaits[v] = "provider" /\ x = Its(v, "provider")
    <3>1. PICK v \in WorkerIds : awaits[v] = "provider" /\ x = Its(v, "provider")
      BY <2>2
    <3>2. v # w /\ x = <<v, turn'[v], "provider">> /\ awaits'[v] = "provider"
      BY <3>1, <1>2 DEF Its
    <3> QED
      BY <3>2 DEF Accounted, Its
  <2> QED
    BY <2>1, <2>2 DEF Accounted
<1>4. ASSUME NEW x, x = <<w, turn'[w], "provider">> PROVE Accounted(x)'
  BY <1>1, <1>4 DEF Accounted, Its
<1>5. \A x \in opened' : Accounted(x)'
  BY <1>3, <1>4
<1> QED
  BY <1>1, <1>5 DEF WorkerInv

(* A run ends its wait for a provider, or waits for something else; what   *)
(* it was waiting for is registered, closed, or a timer nobody owns.       *)
LEMMA WaitEnds ==
    ASSUME WorkerInv, NEW w \in WorkerIds, NEW to \in RunStates, To(w, to),
           UNCHANGED <<turn, gone>>,
           disposers \subseteq disposers',
           \A x \in disposers' : x[1] \notin gone',
           \A x \in opened' : \/ x \in disposers' \/ x[3] = "keepalive"
                              \/ x \in opened /\ (x # Its(w, "provider") \/ awaits[w] # "provider")
    PROVE  WorkerInv'
<1>1. awaits' \in [WorkerIds -> RunStates]
  BY DEF WorkerInv, To
<1>2. \A v \in WorkerIds \ {w} : awaits'[v] = awaits[v]
  BY DEF WorkerInv, To
<1>3. ASSUME NEW x \in opened', x \notin disposers', x[3] # "keepalive" PROVE Accounted(x)'
  <2>1. x \in opened /\ x \notin disposers
    BY <1>3
  <2>2. PICK v \in WorkerIds : awaits[v] = "provider" /\ x = Its(v, "provider")
    BY <1>3, <2>1 DEF WorkerInv, Accounted
  <2>3. v # w
    BY <1>3, <2>2
  <2>4. awaits'[v] = "provider" /\ x = Its(v, "provider")'
    BY <1>2, <2>2, <2>3 DEF Its
  <2> QED
    BY <2>4 DEF Accounted
<1>4. \A x \in opened' : Accounted(x)'
  BY <1>3 DEF Accounted
<1> QED
  BY <1>1, <1>4 DEF WorkerInv

LEMMA WorkerStepInv == WorkerInv /\ [WorkerNext]_workerVars => WorkerInv'
<1> SUFFICES ASSUME WorkerInv, [WorkerNext]_workerVars PROVE WorkerInv'
  OBVIOUS
<1>1. CASE UNCHANGED workerVars
  BY <1>1 DEF workerVars, WorkerInv, Accounted, Its
<1>2. ASSUME NEW w \in WorkerIds, BootWorker(w) PROVE WorkerInv'
  <2>1. /\ awaits[w] = "unborn" /\ To(w, "config") /\ turn' = [turn EXCEPT ![w] = 1]
        /\ UNCHANGED <<gone, opened, disposers>>
    BY <1>2 DEF BootWorker
  <2>2. turn' \in [WorkerIds -> Nat] /\ awaits' \in [WorkerIds -> RunStates]
    BY <2>1 DEF WorkerInv, To, RunStates
  <2>3. \A v \in WorkerIds : awaits[v] = "provider" => awaits'[v] = "provider" /\ turn'[v] = turn[v]
    BY <2>1 DEF WorkerInv, To
  <2>4. \A x \in opened : Accounted(x)'
    BY <2>1, <2>3 DEF WorkerInv, Accounted, Its
  <2> QED
    BY <2>1, <2>2, <2>4 DEF WorkerInv
<1>3. ASSUME NEW w \in WorkerIds, ConfigArrives(w) PROVE WorkerInv'
  <2>1. CASE Stops(w, "config")
    BY <2>1, StopsKeeps
  <2>2. CASE ~ Stops(w, "config")
    <3>1. /\ awaits[w] = "config" /\ To(w, "provider") /\ UNCHANGED <<turn, gone, disposers>>
          /\ opened' = opened \cup {<<w, turn'[w], "provider">>}
      BY <1>3, <2>2 DEF ConfigArrives, Connect, Its
    <3> QED
      BY <3>1, WaitsForProvider DEF WorkerInv
  <2> QED
    BY <2>1, <2>2
<1>4. ASSUME NEW w \in WorkerIds, ProviderUp(w) PROVE WorkerInv'
  <2>1. /\ awaits[w] = "provider" /\ Own(w, {Its(w, "provider")})
        /\ To(w, IF w \in gone THEN "ended" ELSE "store") /\ UNCHANGED <<turn, gone>>
    BY <1>4 DEF ProviderUp
  <2>2. \A x \in {Its(w, "provider")} : x[1] = w
    BY DEF Its
  <2>3. /\ \A x \in opened' : x \in disposers' \/ (x \in opened /\ x # Its(w, "provider"))
        /\ disposers \subseteq disposers'
        /\ \A x \in disposers' : x[1] \notin gone'
    BY <2>1, <2>2, OwnAccounts
  <2> QED
    BY <2>1, <2>3, WaitEnds DEF RunStates
<1>5. ASSUME NEW w \in WorkerIds, ProviderFails(w) PROVE WorkerInv'
  <2>1. /\ awaits[w] = "provider" /\ To(w, "failed") /\ UNCHANGED <<turn, gone, disposers>>
        /\ opened' = (opened \ {Its(w, "provider")}) \cup {Its(w, "keepalive")}
    BY <1>5 DEF ProviderFails
  <2>2. Its(w, "keepalive")[3] = "keepalive"
    BY DEF Its
  <2>3. \A x \in opened' : x[3] = "keepalive" \/ (x \in opened /\ x # Its(w, "provider"))
    BY <2>1, <2>2
  <2>4. \A x \in disposers' : x[1] \notin gone'
    BY <2>1 DEF WorkerInv
  <2> QED
    BY <2>1, <2>3, <2>4, WaitEnds DEF RunStates
<1>6. ASSUME NEW w \in WorkerIds, StoreOpens(w) PROVE WorkerInv'
  <2>1. CASE Stops(w, "store")
    BY <2>1, StopsKeeps
  <2>2. CASE ~ Stops(w, "store")
    <3> DEFINE res == {Its(w, "blocks"), Its(w, "head")}
    <3>1. /\ awaits[w] = "store" /\ To(w, "load") /\ UNCHANGED <<turn, gone>>
          /\ Own(w, res)
      BY <1>6, <2>2 DEF StoreOpens
    <3>2. \A x \in res : x[1] = w
      BY DEF Its
    <3>3. /\ \A x \in opened' : x \in disposers' \/ (x \in opened /\ x \notin res)
          /\ disposers \subseteq disposers'
          /\ \A x \in disposers' : x[1] \notin gone'
      BY <3>1, <3>2, OwnAccounts
    <3> QED
      BY <3>1, <3>3, WaitEnds DEF RunStates
  <2> QED
    BY <2>1, <2>2
<1>7. ASSUME NEW w \in WorkerIds,
             CacheLoads(w) \/ HeadIsRead(w) \/ SnapshotLoads(w) \/ StreamStarts(w)
      PROVE  WorkerInv'
  BY <1>7, GoesKeeps DEF CacheLoads, HeadIsRead, SnapshotLoads, StreamStarts
<1>8. ASSUME NEW w \in WorkerIds, SaveEnds(w) PROVE WorkerInv'
  <2> DEFINE res == {Its(w, "stream")}
  <2>1. /\ awaits[w] = "save" /\ Own(w, res) /\ UNCHANGED <<turn, gone>>
        /\ To(w, IF w \in gone THEN "ended" ELSE "start")
    BY <1>8 DEF SaveEnds
  <2>2. \A x \in res : x[1] = w
    BY DEF Its
  <2>3. /\ \A x \in opened' : x \in disposers' \/ (x \in opened /\ x \notin res)
        /\ disposers \subseteq disposers'
        /\ \A x \in disposers' : x[1] \notin gone'
    BY <2>1, <2>2, OwnAccounts
  <2> QED
    BY <2>1, <2>3, WaitEnds DEF RunStates
<1>9. ASSUME NEW w \in WorkerIds, FillEnds(w) \/ OutputFails(w) \/ StepFails(w) PROVE WorkerInv'
  <2>1. CASE Stops(w, "fill")
    BY <2>1, StopsKeeps
  <2>2. CASE ~ Stops(w, "fill")
    <3>1. /\ awaits[w] # "provider" /\ UNCHANGED <<turn, gone, opened, disposers>>
          /\ \E to \in {"live", "failed", "retrying"} : To(w, to)
      BY <1>9, <2>2 DEF FillEnds, OutputFails, StepFails
    <3> QED
      BY <3>1, WaitKeeps DEF RunStates
  <2> QED
    BY <2>1, <2>2
<1>10. ASSUME NEW w \in WorkerIds, RetryInit(w) PROVE WorkerInv'
  <2>1. CASE Stops(w, "retrying")
    BY <2>1, StopsKeeps
  <2>2. CASE ~ Stops(w, "retrying")
    <3>1. /\ awaits[w] = "retrying" /\ To(w, "provider") /\ UNCHANGED <<gone, disposers>>
          /\ turn' = [turn EXCEPT ![w] = @ + 1]
          /\ opened' = opened \cup {<<w, turn'[w], "provider">>}
      BY <1>10, <2>2 DEF RetryInit
    <3>2. turn' \in [WorkerIds -> Nat] /\ \A v \in WorkerIds \ {w} : turn'[v] = turn[v]
      BY <3>1 DEF WorkerInv
    <3> QED
      BY <3>1, <3>2, WaitsForProvider
  <2> QED
    BY <2>1, <2>2
<1>11. ASSUME NEW w \in WorkerIds, TearsDown(w) \/ StopsDaemon(w) PROVE WorkerInv'
  BY <1>11, DisposeKeeps DEF TearsDown, StopsDaemon
<1> QED
  BY <1>1, <1>2, <1>3, <1>4, <1>5, <1>6, <1>7, <1>8, <1>9, <1>10, <1>11 DEF WorkerNext

(* However many workers a process has, however often their bootstraps     *)
(* begin again and at whatever await each is disposed of, nothing a        *)
(* disposed worker opened stays open, but for the provider its run still   *)
(* waits for and the keepalive timer of one that never connected           *)
(* (workers/sync/Worker.ts, own and dispose).                              *)
THEOREM WorkerNothingOutlives == WorkerSpec => []NothingOutlives
BY WorkerInitInv, WorkerStepInv, WorkerInvSuffices, PTL DEF WorkerSpec

-----------------------------------------------------------------------------
(* The reads of the clients. *)
WaitSpec == WaitInit /\ [][WaitNext]_waitVars

(* A query that is being built was dispatched on a mirror that held its    *)
(* block, and a connection that waits builds none.                         *)
Stamped(c) ==
    building[c].open =>
        /\ building[c].appliedThrough = building[c].holds
        /\ Current(c) <= building[c].appliedThrough
        /\ c \notin waiting

Queries == [holds : Nat, appliedThrough : Nat, open : BOOLEAN]

StampInv ==
    /\ mark \in Nat
    /\ answered \in [Conns -> Nat]
    /\ building \in [Conns -> Queries]
    /\ \A c \in Conns : Stamped(c)

LEMMA StampedShapes ==
    /\ NoQuery \in Queries /\ ~ NoQuery.open
    /\ \A b \in Nat : /\ Dispatched(b) \in Queries
                      /\ Dispatched(b).appliedThrough = b /\ Dispatched(b).holds = b
BY DEF NoQuery, Dispatched, Queries

LEMMA WaitInitInv == WaitInit => StampInv
<1> SUFFICES ASSUME WaitInit PROVE StampInv
  OBVIOUS
<1>1. chainHead \in Nat /\ mark \in 0..chainHead
  BY WaitAssumption DEF WaitInit, WaitAssumption
<1>2. answered \in [Conns -> Nat] /\ building = [c \in Conns |-> NoQuery]
  BY DEF WaitInit
<1>3. \A c \in Conns : Stamped(c)
  BY <1>2, StampedShapes DEF Stamped
<1> QED
  BY <1>1, <1>2, <1>3, StampedShapes DEF StampInv

LEMMA StampInvSuffices == StampInv => AnswerKeepsItsStamp
<1> SUFFICES ASSUME StampInv, NEW c \in Conns, building[c].open
             PROVE  /\ Envelope(c).appliedThrough <= building[c].holds
                    /\ Current(c) <= Envelope(c).appliedThrough
  BY DEF AnswerKeepsItsStamp
<1>1. Envelope(c).appliedThrough = building[c].appliedThrough
  BY DEF Envelope
<1>2. /\ building[c].appliedThrough = building[c].holds
      /\ Current(c) <= building[c].appliedThrough
  BY DEF StampInv, Stamped
<1>3. building[c].holds \in Nat
  BY DEF StampInv, Queries
<1> QED
  BY <1>1, <1>2, <1>3

(* A step that answers nobody and builds nothing; it may end waits.        *)
LEMMA WaitsKeepStamps ==
    ASSUME StampInv, UNCHANGED <<mark, answered, building>>, waiting' \subseteq waiting
    PROVE  StampInv'
BY DEF StampInv, Stamped, Current

(* Whoever is woken is dispatched on the mirror that holds his block. *)
LEMMA WakesStamp ==
    ASSUME StampInv, NEW b \in Nat, Wakes(b), UNCHANGED answered
    PROVE  StampInv'
<1> DEFINE woken == {c \in waiting : b >= Current(c)}
<1>1. /\ mark' = b /\ waiting' = waiting \ woken
      /\ building' = [c \in Conns |-> IF c \in woken THEN Dispatched(b) ELSE building[c]]
  BY DEF Wakes, FinishWaits
<1>2. building' \in [Conns -> Queries]
  BY <1>1, StampedShapes DEF StampInv
<1>3. ASSUME NEW c \in Conns PROVE Stamped(c)'
  <2>1. CASE c \in woken
    <3>1. building'[c] = Dispatched(b)
      BY <1>1, <2>1
    <3>2. Current(c) <= b /\ Current(c)' = Current(c)
      BY <2>1 DEF Current
    <3>3. c \notin waiting'
      BY <1>1, <2>1
    <3> QED
      BY <3>1, <3>2, <3>3, StampedShapes DEF Stamped
  <2>2. CASE c \notin woken
    BY <1>1, <2>2 DEF StampInv, Stamped, Current
  <2> QED
    BY <2>1, <2>2
<1> QED
  BY <1>1, <1>2, <1>3 DEF StampInv

LEMMA WaitStepInv == StampInv /\ [WaitNext]_waitVars => StampInv'
<1> SUFFICES ASSUME StampInv, [WaitNext]_waitVars PROVE StampInv'
  OBVIOUS
<1>1. CASE UNCHANGED waitVars
  BY <1>1, WaitsKeepStamps DEF waitVars, marks, clientVars
<1>2. CASE MineBlock \/ SampleTip
  BY <1>2, WaitsKeepStamps DEF MineBlock, SampleTip, marks, clientVars
<1>3. ASSUME NEW c \in Conns, Send(c) \/ Nudge(c) PROVE StampInv'
  BY <1>3, WaitsKeepStamps DEF Send, Nudge, marks, clientVars
<1>4. ASSUME NEW c \in Conns, Handle(c) PROVE StampInv'
  <2>1. c \notin waiting /\ ~ building[c].open /\ UNCHANGED <<mark, answered>>
    BY <1>4 DEF Handle, marks
  <2>2. CASE Reached(c)
    <3>1. building' = [building EXCEPT ![c] = Dispatched(mark)] /\ waiting' = waiting
      BY <1>4, <2>2 DEF Handle
    <3>2. building' \in [Conns -> Queries] /\ building'[c] = Dispatched(mark)
      BY <3>1, StampedShapes DEF StampInv
    <3>3. Current(c) <= mark /\ Current(c)' = Current(c)
      BY <2>1, <2>2 DEF Reached, Current
    <3>4. Stamped(c)'
      BY <2>1, <3>1, <3>2, <3>3, StampedShapes DEF Stamped, StampInv
    <3>5. \A d \in Conns \ {c} : Stamped(d)'
      BY <2>1, <3>1 DEF StampInv, Stamped, Current
    <3> QED
      BY <2>1, <3>2, <3>4, <3>5 DEF StampInv
  <2>3. CASE ~ Reached(c)
    <3>1. waiting' = waiting \cup {c} /\ building' = building
      BY <1>4, <2>3 DEF Handle
    <3> QED
      BY <2>1, <3>1 DEF StampInv, Stamped, Current
  <2> QED
    BY <2>2, <2>3
<1>5. ASSUME NEW c \in Conns, TimeOut(c) PROVE StampInv'
  <2>1. /\ c \in waiting /\ waiting' \subseteq waiting /\ UNCHANGED <<mark, building>>
        /\ answered' = [answered EXCEPT ![c] = @ + 1]
    BY <1>5 DEF TimeOut, FinishWaits, Answer, marks
  <2>2. answered' \in [Conns -> Nat] /\ \A d \in Conns \ {c} : answered'[d] = answered[d]
    BY <2>1 DEF StampInv
  <2>3. ~ building'[c].open
    BY <2>1 DEF StampInv, Stamped
  <2>4. \A d \in Conns : Stamped(d)'
    BY <2>1, <2>2, <2>3 DEF StampInv, Stamped, Current
  <2> QED
    BY <2>1, <2>2, <2>4 DEF StampInv
<1>6. ASSUME NEW c \in Conns, Close(c) \/ Respond(c) PROVE StampInv'
  <2>1. /\ building' = [building EXCEPT ![c] = NoQuery] /\ waiting' \subseteq waiting
        /\ mark' = mark
        /\ answered' = answered \/ answered' = [answered EXCEPT ![c] = @ + 1]
    BY <1>6 DEF Close, Respond, FinishWaits, Answer, marks
  <2>2. answered' \in [Conns -> Nat] /\ \A d \in Conns \ {c} : answered'[d] = answered[d]
    BY <2>1 DEF StampInv
  <2>3. building' \in [Conns -> Queries] /\ ~ building'[c].open
    BY <2>1, StampedShapes DEF StampInv
  <2>4. \A d \in Conns : Stamped(d)'
    BY <2>1, <2>2, <2>3 DEF StampInv, Stamped, Current
  <2> QED
    BY <2>1, <2>2, <2>3, <2>4 DEF StampInv
<1>7. ASSUME NEW b \in 0..MaxTip,
             StreamAdvances(b) \/ CatchUpReturns(b) \/ ReconcileAdvances(b)
      PROVE  StampInv'
  <2>1. b \in Nat
    BY WaitAssumption DEF WaitAssumption
  <2>2. /\ answered' = answered
        /\ Wakes(b) \/ UNCHANGED <<mark, waiting, building>>
    BY <1>7 DEF StreamAdvances, CatchUpReturns, ReconcileAdvances
  <2> QED
    BY <2>1, <2>2, WakesStamp, WaitsKeepStamps
<1> QED
  BY <1>1, <1>2, <1>3, <1>4, <1>5, <1>6, <1>7 DEF WaitNext

(* What an answer claims to have applied, the mirror it was read from held, *)
(* and an --at-least read's own block is in it, for any clients, requests   *)
(* and chain, and however the waits, wake-ups, time-outs and disconnects    *)
(* interleave (queries/index.ts serveQuery, daemon.ts waitApplied).         *)
THEOREM WaitAnswerKeepsItsStamp == WaitSpec => []AnswerKeepsItsStamp
BY WaitInitInv, WaitStepInv, StampInvSuffices, PTL DEF WaitSpec

-----------------------------------------------------------------------------
(* The pages of the feed. *)
LEMMA MinOfNaturals ==
    ASSUME NEW S \in SUBSET Nat, S # {}
    PROVE  Min(S) \in S /\ \A y \in S : Min(S) <= y
<1>1. PICK x \in S : \A y \in S : ~ (<<y, x>> \in OpToRel(<, Nat))
  BY NatLessThanWellFounded, WFMin
<1>2. ASSUME NEW y \in S PROVE x <= y
  <2>1. x \in Nat /\ y \in Nat
    OBVIOUS
  <2>2. y < x => <<y, x>> \in {ss \in Nat \X Nat : ss[1] < ss[2]}
    BY <2>1
  <2>3. y < x => <<y, x>> \in OpToRel(<, Nat)
    BY <2>2 DEF OpToRel
  <2>4. ~ (y < x)
    BY <1>1, <2>3
  <2> QED
    BY <2>1, <2>4
<1>3. \E z \in S : \A y \in S : z <= y
  BY <1>2
<1> QED
  BY <1>3 DEF Min

LEMMA MaxOfNaturals ==
    ASSUME NEW n \in Nat, NEW S \in SUBSET (0..n), S # {}
    PROVE  Max(S) \in S /\ \A y \in S : Max(S) >= y
<1> DEFINE T == {n - s : s \in S}
<1>0. \A s \in S : n - s \in Nat
  OBVIOUS
<1>1. T \in SUBSET Nat /\ T # {}
  BY <1>0
<1>2. Min(T) \in T /\ \A y \in T : Min(T) <= y
  <2> HIDE DEF T
  <2> QED
    BY <1>1, MinOfNaturals
<1>3. PICK s \in S : Min(T) = n - s
  BY <1>2
<1>4. \A y \in S : s >= y
  BY <1>2, <1>3
<1>5. \E z \in S : \A y \in S : z >= y
  BY <1>4
<1> QED
  BY <1>5 DEF Max

(* Newest takes with an element of S every newer one, and Oldest every     *)
(* older one; of a non-empty S neither takes nothing.                      *)
LEMMA NewestIsUpward ==
    ASSUME NEW n \in Nat, NEW S \in SUBSET (0..n), NEW k \in Nat \ {0}
    PROVE  /\ Newest(S, k) \subseteq S
           /\ \A s \in Newest(S, k) : \A t \in S : t >= s => t \in Newest(S, k)
           /\ S # {} => Newest(S, k) # {}
<1>1. ASSUME NEW T \in SUBSET S PROVE IsFiniteSet(T) /\ Cardinality(T) \in Nat
  <2>1. IsFiniteSet(0..n)
    BY FS_Interval
  <2>2. T \in SUBSET (0..n)
    OBVIOUS
  <2>3. IsFiniteSet(T)
    BY <2>1, <2>2, FS_Subset
  <2> QED
    BY <2>3, FS_CardinalityType
<1>2. ASSUME NEW s \in Newest(S, k), NEW t \in S, t >= s PROVE t \in Newest(S, k)
  <2> DEFINE A == {u \in S : u >= s}
             B == {u \in S : u >= t}
  <2>1. s \in S /\ Cardinality(A) <= k
    BY DEF Newest
  <2>2. \A u \in S : u \in Nat
    OBVIOUS
  <2>3. s \in Nat /\ t \in Nat
    BY <2>1, <2>2
  <2>4. \A u \in S : u >= t => u >= s
    BY <1>2, <2>2, <2>3
  <2>5. B \in SUBSET A /\ A \in SUBSET S /\ B \in SUBSET S
    BY <2>4
  <2>6. Cardinality(B) <= Cardinality(A) /\ Cardinality(A) \in Nat /\ Cardinality(B) \in Nat
    <3> HIDE DEF A, B
    <3> QED
      BY <1>1, <2>5, FS_Subset
  <2>7. Cardinality(B) <= k
    BY <2>1, <2>6
  <2> QED
    BY <2>7 DEF Newest
<1>3. ASSUME S # {} PROVE Newest(S, k) # {}
  <2>1. Max(S) \in S /\ \A y \in S : Max(S) >= y
    BY <1>3, MaxOfNaturals
  <2>2. \A y \in S : y \in Nat
    OBVIOUS
  <2>3. ASSUME NEW y \in S PROVE y >= Max(S) <=> y = Max(S)
    <3>1. y \in Nat /\ Max(S) \in Nat /\ Max(S) >= y
      BY <2>1, <2>2
    <3> QED
      BY <3>1
  <2>4. {t \in S : t >= Max(S)} = {Max(S)}
    BY <2>1, <2>3
  <2>5. Cardinality({t \in S : t >= Max(S)}) = 1
    BY <2>4, FS_Singleton
  <2>6. Max(S) \in Newest(S, k)
    BY <2>1, <2>5 DEF Newest
  <2> QED
    BY <2>6
<1> QED
  BY <1>2, <1>3 DEF Newest

LEMMA OldestIsDownward ==
    ASSUME NEW n \in Nat, NEW S \in SUBSET (0..n), NEW k \in Nat \ {0}
    PROVE  /\ Oldest(S, k) \subseteq S
           /\ \A s \in Oldest(S, k) : \A t \in S : t <= s => t \in Oldest(S, k)
           /\ S # {} => Oldest(S, k) # {}
<1>1. ASSUME NEW T \in SUBSET S PROVE IsFiniteSet(T) /\ Cardinality(T) \in Nat
  <2>1. IsFiniteSet(0..n)
    BY FS_Interval
  <2>2. T \in SUBSET (0..n)
    OBVIOUS
  <2>3. IsFiniteSet(T)
    BY <2>1, <2>2, FS_Subset
  <2> QED
    BY <2>3, FS_CardinalityType
<1>2. ASSUME NEW s \in Oldest(S, k), NEW t \in S, t <= s PROVE t \in Oldest(S, k)
  <2> DEFINE A == {u \in S : u <= s}
             B == {u \in S : u <= t}
  <2>1. s \in S /\ Cardinality(A) <= k
    BY DEF Oldest
  <2>2. \A u \in S : u \in Nat
    OBVIOUS
  <2>3. s \in Nat /\ t \in Nat
    BY <2>1, <2>2
  <2>4. \A u \in S : u <= t => u <= s
    BY <1>2, <2>2, <2>3
  <2>5. B \in SUBSET A /\ A \in SUBSET S /\ B \in SUBSET S
    BY <2>4
  <2>6. Cardinality(B) <= Cardinality(A) /\ Cardinality(A) \in Nat /\ Cardinality(B) \in Nat
    <3> HIDE DEF A, B
    <3> QED
      BY <1>1, <2>5, FS_Subset
  <2>7. Cardinality(B) <= k
    BY <2>1, <2>6
  <2> QED
    BY <2>7 DEF Oldest
<1>3. ASSUME S # {} PROVE Oldest(S, k) # {}
  <2>1. Min(S) \in S /\ \A y \in S : Min(S) <= y
    BY <1>3, MinOfNaturals
  <2>2. \A y \in S : y \in Nat
    OBVIOUS
  <2>3. ASSUME NEW y \in S PROVE y <= Min(S) <=> y = Min(S)
    <3>1. y \in Nat /\ Min(S) \in Nat /\ Min(S) <= y
      BY <2>1, <2>2
    <3> QED
      BY <3>1
  <2>4. {t \in S : t <= Min(S)} = {Min(S)}
    BY <2>1, <2>3
  <2>5. Cardinality({t \in S : t <= Min(S)}) = 1
    BY <2>4, FS_Singleton
  <2>6. Min(S) \in Oldest(S, k)
    BY <2>1, <2>5 DEF Oldest
  <2> QED
    BY <2>6
<1> QED
  BY <1>2, <1>3 DEF Oldest

(* The newest of an interval are its end. *)
LEMMA NewestOfInterval ==
    ASSUME NEW i \in Nat, NEW j \in Nat, NEW k \in Nat
    PROVE  Newest(i..j, k) = {s \in i..j : s > j - k}
<1>1. ASSUME NEW s \in i..j PROVE Cardinality({t \in i..j : t >= s}) = j - s + 1
  <2>1. {t \in i..j : t >= s} = s..j
    OBVIOUS
  <2>2. s \in Int /\ ~ (s > j)
    OBVIOUS
  <2>3. Cardinality(s..j) = j - s + 1
    BY <2>2, FS_Interval
  <2> QED
    BY <2>1, <2>3
<1>2. \A s \in i..j : Cardinality({t \in i..j : t >= s}) <= k <=> s > j - k
  BY <1>1
<1> QED
  BY <1>2 DEF Newest

(* The buffer holds what was not evicted. *)
BufferShape ==
    /\ kinds \in Seq(FeedTypes)
    /\ evicted \in 0..NewestSeq
    /\ buffer = (evicted + 1)..NewestSeq

Reader == [since : Nat, from : Int, through : Nat, got : SUBSET Nat, told : Nat]

(* A reader pages on within what it believes to have read, and was told of *)
(* no eviction that has not been.                                          *)
ReaderShape ==
    /\ reader \in [Readers -> Reader]
    /\ \A r \in Readers : /\ reader[r].since <= reader[r].through
                          /\ reader[r].through <= NewestSeq
                          /\ reader[r].told <= evicted

FeedInv == BufferShape /\ ReaderShape /\ NothingSkippedSilently

LEMMA FeedInitInv == FeedInit => FeedInv
<1> SUFFICES ASSUME FeedInit PROVE FeedInv
  OBVIOUS
<1>1. kinds = <<>> /\ buffer = {} /\ evicted = 0 /\ reader = [r \in Readers |-> NewReader]
  BY DEF FeedInit
<1>2. kinds \in Seq(FeedTypes) /\ Len(kinds) = 0
  BY <1>1
<1>3. BufferShape
  BY <1>1, <1>2 DEF BufferShape, NewestSeq
<1>4. NewReader \in Reader
  BY DEF NewReader, Reader
<1>5. ReaderShape
  BY <1>1, <1>2, <1>4 DEF ReaderShape, NewestSeq, NewReader
<1>6. NothingSkippedSilently
  BY <1>2 DEF NothingSkippedSilently, NewestSeq
<1> QED
  BY <1>3, <1>5, <1>6 DEF FeedInv

LEMMA IngestKeeps ==
    ASSUME FeedInv, NEW types \in Seq(FeedTypes), IngestFrame(types)
    PROVE  FeedInv'
<1> DEFINE N   == NewestSeq
           M   == N + Len(types)
           all == (evicted + 1)..M
<1>1. /\ kinds \in Seq(FeedTypes) /\ N \in Nat /\ Len(types) \in Nat
      /\ evicted \in 0..N /\ buffer = (evicted + 1)..N /\ Capacity \in Nat
  BY FeedAssumption DEF FeedInv, BufferShape, NewestSeq, FeedAssumption
<1>2. /\ kinds' \in Seq(FeedTypes) /\ NewestSeq' = M
      /\ \A s \in 1..N : kinds'[s] = kinds[s]
  BY <1>1 DEF IngestFrame, NewestSeq
<1>3. buffer \cup (N + 1)..M = all
  BY <1>1
<1>4. buffer' = Newest(all, Capacity) /\ evicted' = evicted + Cardinality(all \ buffer')
  BY <1>3 DEF IngestFrame, Evict
<1>5. buffer' = {s \in all : s > M - Capacity}
  BY <1>1, <1>4, NewestOfInterval
<1>6. evicted' \in evicted..M /\ buffer' = (evicted' + 1)..M
  <2>1. CASE M - Capacity <= evicted
    <3>1. all \ buffer' = {}
      BY <1>1, <1>5, <2>1
    <3>2. Cardinality(all \ buffer') = 0
      BY <3>1, FS_EmptySet
    <3>3. evicted' = evicted
      BY <1>1, <1>4, <3>2
    <3>4. buffer' = all
      BY <1>1, <1>5, <2>1
    <3> QED
      BY <1>1, <3>3, <3>4
  <2>2. CASE M - Capacity > evicted
    <3>1. all \ buffer' = (evicted + 1)..(M - Capacity)
      BY <1>1, <1>5, <2>2
    <3>2. evicted + 1 \in Int /\ M - Capacity \in Int /\ ~ (evicted + 1 > M - Capacity)
      BY <1>1, <2>2
    <3>3. Cardinality((evicted + 1)..(M - Capacity)) = (M - Capacity) - (evicted + 1) + 1
      <4> HIDE DEF M
      <4> QED
        BY <3>2, FS_Interval
    <3>4. Cardinality(all \ buffer') = (M - Capacity) - (evicted + 1) + 1
      BY <3>1, <3>3
    <3>5. evicted' = M - Capacity
      BY <1>1, <1>4, <3>4
    <3> QED
      BY <1>1, <1>5, <2>2, <3>5
  <2> QED
    BY <1>1, <2>1, <2>2
<1>7. BufferShape'
  BY <1>1, <1>2, <1>6 DEF BufferShape, NewestSeq
<1>8. reader' = reader
  BY DEF IngestFrame
<1>9. ReaderShape'
  <2>1. reader \in [Readers -> Reader]
    BY DEF FeedInv, ReaderShape
  <2>2. ASSUME NEW r \in Readers
        PROVE  /\ reader[r].since <= reader[r].through
               /\ reader[r].through <= M /\ reader[r].told <= evicted'
    <3>1. reader[r].through \in Nat /\ reader[r].told \in Nat
      BY <2>1 DEF Reader
    <3> QED
      BY <1>1, <1>6, <3>1 DEF FeedInv, ReaderShape
  <2> QED
    BY <1>2, <1>8, <2>1, <2>2 DEF ReaderShape
<1>10. NothingSkippedSilently'
  <2> SUFFICES ASSUME NEW r \in Readers, NEW s \in 1..M, kinds'[s] \in Wanted[r],
                      s > reader[r].from, s <= reader[r].through
               PROVE  s \in reader[r].got \/ s <= reader[r].told
    BY <1>2, <1>8 DEF NothingSkippedSilently
  <2>1. reader[r].through \in Nat /\ reader[r].through <= N
    BY DEF FeedInv, ReaderShape, Reader
  <2>2. s \in 1..N
    BY <1>1, <2>1
  <2> QED
    BY <1>2, <2>2 DEF FeedInv, NothingSkippedSilently
<1> QED
  BY <1>7, <1>9, <1>10 DEF FeedInv

(* What one answer of the feed is, and what its reader makes of it.        *)
LEMMA QueryKeeps ==
    ASSUME FeedInv, NEW r \in Readers, FeedQuery(r)
    PROVE  FeedInv'
<1> DEFINE N       == NewestSeq
           since   == reader[r].since
           matches == Matches(r)
           served  == Served(r)
           cut     == served # matches
           after   == reader'[r]
<1>1. /\ N \in Nat /\ evicted \in 0..N /\ buffer = (evicted + 1)..N
      /\ Limit[r] \in Nat \ {0}
  BY FeedAssumption DEF FeedInv, BufferShape, NewestSeq, FeedAssumption
<1>2. /\ since \in Nat /\ since <= reader[r].through
      /\ reader[r].through \in Nat /\ reader[r].through <= N
      /\ reader[r].from \in Int /\ reader[r].told \in Nat
      /\ reader[r].got \subseteq Nat
  BY DEF FeedInv, ReaderShape, Reader
<1>3. /\ matches \in SUBSET (1..N) /\ matches \in SUBSET (0..N)
      /\ matches = {s \in buffer : s > since /\ kinds[s] \in Wanted[r]}
  BY <1>1 DEF Matches
<1>4. /\ reader' = [reader EXCEPT ![r] =
             [since   |-> Max(served \cup {since}),
              from    |-> IF since = 0 /\ cut THEN Min(served) - 1 ELSE reader[r].from,
              through |-> IF cut THEN Max(served) ELSE N,
              got     |-> reader[r].got \cup served,
              told    |-> evicted]]
      /\ kinds' = kinds /\ buffer' = buffer /\ evicted' = evicted
  BY DEF FeedQuery
<1>5. /\ after = [since   |-> Max(served \cup {since}),
                  from    |-> IF since = 0 /\ cut THEN Min(served) - 1 ELSE reader[r].from,
                  through |-> IF cut THEN Max(served) ELSE N,
                  got     |-> reader[r].got \cup served,
                  told    |-> evicted]
      /\ \A q \in Readers \ {r} : reader'[q] = reader[q]
  BY <1>4 DEF FeedInv, ReaderShape
<1>6. served \subseteq matches /\ (matches # {} => served # {})
  <2>1. CASE since = 0
    BY <1>1, <1>3, <2>1, NewestIsUpward DEF Served
  <2>2. CASE since # 0
    BY <1>1, <1>3, <2>2, OldestIsDownward DEF Served
  <2> QED
    BY <2>1, <2>2
<1>7. since = 0 => \A s \in served : \A t \in matches : t >= s => t \in served
  BY <1>1, <1>3, NewestIsUpward DEF Served
<1>8. since # 0 => \A s \in served : \A t \in matches : t <= s => t \in served
  BY <1>1, <1>3, OldestIsDownward DEF Served
<1> HIDE DEF N, since, matches, served
<1>9. \A s \in served : s \in 1..N /\ s > since
  BY <1>3, <1>6
<1>10. cut => /\ Max(served) \in served /\ \A y \in served : Max(served) >= y
              /\ Min(served) \in served /\ \A y \in served : Min(served) <= y
  <2> SUFFICES ASSUME cut PROVE /\ Max(served) \in served /\ \A y \in served : Max(served) >= y
                                /\ Min(served) \in served /\ \A y \in served : Min(served) <= y
    OBVIOUS
  <2>1. served # {}
    BY <1>6 DEF cut
  <2>2. \A s \in served : s \in 0..N /\ s \in Nat
    BY <1>1, <1>9
  <2>3. served # {} /\ served \in SUBSET (0..N) /\ served \in SUBSET Nat
    BY <2>1, <2>2
  <2> QED
    BY <1>1, <2>3, MaxOfNaturals, MinOfNaturals
<1>11. /\ Max(served \cup {since}) \in served \cup {since}
       /\ \A y \in served \cup {since} : Max(served \cup {since}) >= y
  <2>1. served \cup {since} # {} /\ served \cup {since} \in SUBSET (0..N)
    BY <1>1, <1>2, <1>9
  <2> QED
    BY <1>1, <2>1, MaxOfNaturals
<1>12. /\ after.since \in Nat /\ after.from \in Int /\ after.through \in Nat
       /\ after.since <= after.through /\ after.through <= N
  <2>1. CASE cut
    <3>1. Max(served) \in 1..N /\ Min(served) \in 1..N
      BY <1>9, <1>10, <2>1
    <3>2. Max(served \cup {since}) <= Max(served) /\ Max(served \cup {since}) \in Nat
      BY <1>2, <1>9, <1>10, <1>11, <2>1, <3>1
    <3>3. after.since = Max(served \cup {since}) /\ after.through = Max(served)
      BY <1>5, <2>1
    <3>4. after.from = Min(served) - 1 \/ after.from = reader[r].from
      BY <1>5
    <3> QED
      BY <1>1, <1>2, <3>1, <3>2, <3>3, <3>4
  <2>2. CASE ~ cut
    <3>1. /\ after.since = Max(served \cup {since}) /\ after.through = N
          /\ after.from = reader[r].from
      BY <1>5, <2>2
    <3>2. Max(served \cup {since}) \in 0..N
      BY <1>1, <1>2, <1>9, <1>11
    <3> QED
      BY <1>1, <1>2, <3>1, <3>2
  <2> QED
    BY <2>1, <2>2
<1>13. after.got = reader[r].got \cup served /\ after.told = evicted
  BY <1>5
<1>14. ReaderShape'
  <2>1. after.got \subseteq Nat /\ after.told \in Nat
    BY <1>1, <1>2, <1>9, <1>13
  <2>2. after \in Reader
    BY <1>5, <1>12, <2>1 DEF Reader
  <2>3. reader' \in [Readers -> Reader]
    BY <1>4, <1>5, <2>2 DEF FeedInv, ReaderShape
  <2>4. NewestSeq' = N
    BY <1>4 DEF NewestSeq, N
  <2>5. after.told <= evicted'
    BY <1>1, <1>4, <1>13
  <2>6. \A q \in Readers \ {r} : /\ reader'[q].since <= reader'[q].through
                                 /\ reader'[q].through <= NewestSeq'
                                 /\ reader'[q].told <= evicted'
    BY <1>4, <1>5, <2>4 DEF FeedInv, ReaderShape, N
  <2> QED
    BY <1>12, <2>3, <2>4, <2>5, <2>6 DEF ReaderShape
<1>15. ASSUME NEW s \in 1..N, kinds[s] \in Wanted[r], s > after.from, s <= after.through,
              s > evicted
       PROVE  s \in after.got
  <2>1. s > since => s \in matches
    BY <1>1, <1>3, <1>15
  <2>2. CASE ~ cut
    <3>1. s > since => s \in served
      BY <2>1, <2>2
    <3>2. s <= since => s \in reader[r].got
      <4> SUFFICES ASSUME s <= since PROVE s \in reader[r].got
        OBVIOUS
      <4>1. after.from = reader[r].from
        BY <1>5, <2>2
      <4>2. s <= reader[r].through /\ s > reader[r].from
        BY <1>2, <1>15, <4>1
      <4>3. s \in reader[r].got \/ s <= reader[r].told
        BY <1>15, <4>2 DEF FeedInv, NothingSkippedSilently, N
      <4>4. reader[r].told <= evicted
        BY DEF FeedInv, ReaderShape
      <4> QED
        BY <1>1, <1>2, <1>15, <4>3, <4>4
    <3> QED
      BY <1>2, <1>13, <3>1, <3>2
  <2>3. CASE cut /\ since = 0
    <3>1. after.from = Min(served) - 1 /\ Min(served) \in served /\ Min(served) \in Nat
      BY <1>5, <1>9, <1>10, <2>3
    <3>2. s >= Min(served) /\ s \in matches
      BY <1>15, <2>1, <2>3, <3>1
    <3> QED
      BY <1>7, <1>13, <2>3, <3>1, <3>2
  <2>4. CASE cut /\ since # 0
    <3>1. /\ after.from = reader[r].from /\ after.through = Max(served)
          /\ Max(served) \in served /\ Max(served) \in Nat
      BY <1>5, <1>9, <1>10, <2>4
    <3>2. s > since => s \in served
      BY <1>8, <1>15, <2>1, <2>4, <3>1
    <3>3. s <= since => s \in reader[r].got
      <4> SUFFICES ASSUME s <= since PROVE s \in reader[r].got
        OBVIOUS
      <4>1. s <= reader[r].through /\ s > reader[r].from
        BY <1>2, <1>15, <3>1
      <4>2. s \in reader[r].got \/ s <= reader[r].told
        BY <1>15, <4>1 DEF FeedInv, NothingSkippedSilently, N
      <4>3. reader[r].told <= evicted
        BY DEF FeedInv, ReaderShape
      <4> QED
        BY <1>1, <1>2, <1>15, <4>2, <4>3
    <3> QED
      BY <1>2, <1>13, <3>2, <3>3
  <2> QED
    BY <2>2, <2>3, <2>4
<1>16. NothingSkippedSilently'
  <2> SUFFICES ASSUME NEW q \in Readers, NEW s \in 1..N, kinds[s] \in Wanted[q],
                      s > reader'[q].from, s <= reader'[q].through
               PROVE  s \in reader'[q].got \/ s <= reader'[q].told
    BY <1>4 DEF NothingSkippedSilently, NewestSeq, N
  <2>1. CASE q = r
    BY <1>1, <1>13, <1>15, <2>1
  <2>2. CASE q # r
    BY <1>5, <2>2 DEF FeedInv, NothingSkippedSilently, N
  <2> QED
    BY <2>1, <2>2
<1>17. BufferShape'
  BY <1>4 DEF FeedInv, BufferShape, NewestSeq
<1> QED
  BY <1>14, <1>16, <1>17 DEF FeedInv

LEMMA FeedStepInv == FeedInv /\ [FeedNext]_feedVars => FeedInv'
<1> SUFFICES ASSUME FeedInv, [FeedNext]_feedVars PROVE FeedInv'
  OBVIOUS
<1>1. CASE UNCHANGED <<kinds, buffer, evicted, reader>>
  BY <1>1 DEF FeedInv, BufferShape, ReaderShape, NothingSkippedSilently, NewestSeq
<1>2. ASSUME NEW types \in Frames, IngestFrame(types) PROVE FeedInv'
  <2>1. types \in Seq(FeedTypes)
    <3>1. CASE types = <<>>
      BY <3>1
    <3>2. ASSUME NEW t \in FeedTypes, types = <<t>> PROVE types \in Seq(FeedTypes)
      BY <3>2
    <3>3. ASSUME NEW t \in FeedTypes, NEW u \in FeedTypes, types = <<t, u>>
          PROVE  types \in Seq(FeedTypes)
      BY <3>3
    <3>4. types \in FeedTypes \X FeedTypes => \E t, u \in FeedTypes : types = <<t, u>>
      OBVIOUS
    <3> QED
      BY <3>1, <3>2, <3>3, <3>4 DEF Frames
  <2> QED
    BY <1>2, <2>1, IngestKeeps
<1>3. ASSUME NEW r \in Readers, FeedQuery(r) PROVE FeedInv'
  BY <1>3, QueryKeeps
<1> QED
  BY <1>1, <1>2, <1>3
     DEF FeedNext, FeedStart, FeedStop, FeedEnds, FeedRetry, feedVars

(* A reader that pages on misses no event of its types in the span it       *)
(* believes to have read, but for evictions it was told of: for any number  *)
(* of readers, types, limits and buffer sizes (kamiden.ts, the feed query). *)
THEOREM FeedSkipsNothing == FeedInit /\ [][FeedNext]_feedVars => []NothingSkippedSilently
<1>1. FeedInv => NothingSkippedSilently
  BY DEF FeedInv
<1> QED
  BY <1>1, FeedInitInv, FeedStepInv, PTL

-----------------------------------------------------------------------------
(* The heap. *)
(* The marker tells the second image from the first, and only a process the *)
(* operator left alone has a second.                                        *)
MarkerIsTrue ==
    /\ images \in {1, 2}
    /\ marker <=> images = 2
    /\ images = 1 => (explicit <=> byOperator)
    /\ images = 2 => ~ byOperator

HeapInv == HeapTypeOK /\ MarkerIsTrue /\ NeverShortUnasked

-----------------------------------------------------------------------------
LEMMA InitHeap == HeapInit => HeapInv
<1> SUFFICES ASSUME HeapInit PROVE HeapInv
  OBVIOUS
<1>1. HeapTypeOK
  BY DEF HeapInit, HeapTypeOK
<1>2. MarkerIsTrue
  <2>1. images = 1 /\ ~ marker
    BY DEF HeapInit
  <2>2. explicit <=> byOperator
    BY DEF HeapInit
  <2> QED BY <2>1, <2>2 DEF MarkerIsTrue
<1>3. NeverShortUnasked
  BY DEF HeapInit, NeverShortUnasked
<1> QED BY <1>1, <1>2, <1>3 DEF HeapInv

LEMMA StepHeap == HeapInv /\ [HeapNext]_heapVars => HeapInv'
<1> SUFFICES ASSUME HeapInv, [HeapNext]_heapVars PROVE HeapInv'
  OBVIOUS
<1> USE DEF HeapInv, HeapTypeOK, MarkerIsTrue, NeverShortUnasked
<1>1. CASE HeapProceed
  BY <1>1 DEF HeapProceed, Decided, Enough
<1>2. CASE HeapWarnProceed
  BY <1>2 DEF HeapWarnProceed, Decided, OperatorSaidSo
<1>3. CASE HeapRefuse \/ NoExecve
  BY <1>3 DEF HeapRefuse, NoExecve, Decided
<1>4. CASE HeapReexec
  <2>1. ~ marker /\ images = 1 /\ ~ byOperator
    BY <1>4 DEF HeapReexec, WorthAnImage, OperatorSaidSo
  <2> QED BY <1>4, <2>1 DEF HeapReexec
<1>5. CASE UNCHANGED heapVars
  BY <1>5 DEF heapVars
<1> QED BY <1>1, <1>2, <1>3, <1>4, <1>5 DEF HeapNext

LEMMA HeapInvariant == HeapSpec => []HeapInv
BY InitHeap, StepHeap, PTL DEF HeapSpec

-----------------------------------------------------------------------------
(* The decision's state is always of its type (src/heap.ts). *)
THEOREM HeapTypes == HeapSpec => []HeapTypeOK
BY HeapInvariant, PTL DEF HeapInv

(* The loop guard: whatever limit the re-exec'd image finds, there is no    *)
(* third one (src/heap.ts, src/cli.ts ensureDaemonHeap).                    *)
THEOREM HeapOneReexec == HeapSpec => []OneReexec
<1>1. HeapInv => OneReexec
  BY DEF HeapInv, MarkerIsTrue, OneReexec
<1> QED BY <1>1, HeapInvariant, PTL

(* A daemon that runs has the heap of a cold boot, or its operator asked    *)
(* for less (src/heap.ts).                                                  *)
THEOREM HeapNeverShort == HeapSpec => []NeverShortUnasked
BY HeapInvariant, PTL DEF HeapInv

(* The served source names who arranged the heap (src/heap.ts heapSource).  *)
THEOREM HeapSourceIsTrue == HeapSpec => []SourceIsTrue
<1>1. HeapInv => SourceIsTrue
  BY DEF HeapInv, HeapTypeOK, MarkerIsTrue, SourceIsTrue, HeapSource
<1> QED BY <1>1, HeapInvariant, PTL


=============================================================================
