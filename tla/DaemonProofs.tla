----------------------------- MODULE DaemonProofs -----------------------------
(***************************************************************************)
(* A process without a failure streak keeps one retry path: what Daemon    *)
(* promises of its workers, its timers, LIVE and stop(), for every length  *)
(* of the retry schedule.                                                  *)
(***************************************************************************)
EXTENDS Daemon, TLAPS

(* Where the process is: it has a worker, a pending timer, or neither. *)
OnePath ==
    /\ boots \in Nat /\ current \in 0..boots
    /\ heard = {current} \ {0}
    /\ DOMAIN workers = heard
    /\ timers # {} => timers = {retryTimer} /\ current = 0 /\ stop = "no"
    /\ current = 0 /\ timers = {} => gaveUp \/ stop # "no"
    /\ stop = "done" => current = 0

(* How far it is along the schedule; a delay is never a long one. *)
Schedule ==
    /\ attempts \in Nat /\ failures \in Nat
    /\ liveOf = 0 /\ stop = "no" /\ ~ gaveUp =>
          /\ current # 0 => failures = attempts - 1 /\ attempts <= MaxAttempts + 1
          /\ current = 0 => /\ failures = attempts /\ retryTimer = failures
                            /\ attempts <= MaxAttempts

(* LIVE belongs to the current worker, which boots no more. *)
LiveIsCurrent ==
    /\ seed \in {"todo", "running", "done"}
    /\ gaveUp => current = 0 /\ timers = {} /\ ~ watchdog /\ liveOf = 0
    /\ status = "LIVE" => liveOf # 0
    /\ liveOf # 0 => timers = {}
    /\ liveOf # 0 /\ stop # "done" => current = liveOf /\ workers[liveOf] = "live"
    /\ seed = "running" => timers = {}
    /\ seed = "running" /\ stop # "done" =>
          current = seedOf /\ current # 0 /\ workers[seedOf] = "live"

DaemonInv == OnePath /\ Schedule /\ LiveIsCurrent

-----------------------------------------------------------------------------
LEMMA DaemonInitInv ==
    ASSUME FirstProcess, Init
    PROVE  DaemonInv
<1>1. failures = 0 /\ timers = {} /\ boots = 1
  BY DEF FirstProcess, Init
<1>2. DOMAIN workers = {1} /\ current = 1 /\ heard = {1} /\ attempts = 1
  BY <1>1 DEF Init
<1>3. gaveUp = FALSE /\ status = "booting" /\ liveOf = 0 /\ seed = "todo" /\ stop = "no"
  BY DEF Init
<1> QED
  BY <1>1, <1>2, <1>3, DaemonAssumption DEF DaemonInv, OnePath, Schedule, LiveIsCurrent

(* A step that keeps the workers, the timers and the schedule. *)
LEMMA QuietStep ==
    ASSUME DaemonInv,
           UNCHANGED <<stop, bootVars, retryVars, liveOf, seed, seedOf>>,
           status' = "LIVE" => status = "LIVE"
    PROVE  DaemonInv'
BY DEF DaemonInv, OnePath, Schedule, LiveIsCurrent, bootVars, retryVars

(* The retry timer starts the only worker. *)
LEMMA RetryStep ==
    ASSUME DaemonInv, NEW t \in timers, RetryFires(t)
    PROVE  DaemonInv'
<1>1. timers = {t} /\ retryTimer = t /\ current = 0 /\ stop = "no" /\ heard = {}
  BY DEF DaemonInv, OnePath
<1>2. ~ gaveUp /\ liveOf = 0 /\ seed # "running" /\ status # "LIVE" /\ DOMAIN workers = {}
  BY <1>1 DEF DaemonInv, OnePath, LiveIsCurrent
<1>3. /\ boots' = boots + 1 /\ current' = boots + 1 /\ heard' = {boots + 1}
      /\ DOMAIN workers' = {boots + 1} /\ attempts' = attempts + 1 /\ timers' = {}
  BY <1>1, <1>2 DEF RetryFires, Bootstrap
<1>4. UNCHANGED <<stop, failures, gaveUp, status, liveOf, seed>>
  BY DEF RetryFires, liveVars
<1>5. OnePath'
  BY <1>1, <1>3, <1>4 DEF DaemonInv, OnePath
<1>6. Schedule'
  <2>1. failures = attempts /\ attempts <= MaxAttempts /\ attempts \in Nat
    BY <1>1, <1>2 DEF DaemonInv, Schedule
  <2> QED
    BY <1>3, <1>4, <1>5, <2>1, DaemonAssumption DEF Schedule, OnePath
<1>7. LiveIsCurrent'
  BY <1>2, <1>3, <1>4 DEF DaemonInv, LiveIsCurrent
<1> QED
  BY <1>5, <1>6, <1>7 DEF DaemonInv

(* A failed attempt leaves a timer, or nothing. *)
LEMMA FailedStep ==
    ASSUME FirstProcess, DaemonInv,
           NEW ws, DOMAIN ws = DOMAIN workers,
           current # 0, stop = "no", liveOf = 0, seed # "running",
           OnFailed(ws, 1),
           UNCHANGED <<stop, liveOf, seed, seedOf>>, status' # "LIVE"
    PROVE  DaemonInv'
<1>1. ~ gaveUp /\ timers = {} /\ heard = {current}
  BY DEF DaemonInv, OnePath, LiveIsCurrent
<1>2. failures = attempts - 1 /\ attempts <= MaxAttempts + 1 /\ attempts \in Nat
  BY <1>1 DEF DaemonInv, Schedule
<1>3. /\ current' = 0 /\ heard' = {} /\ DOMAIN workers' = {}
      /\ failures' = attempts /\ UNCHANGED <<boots, attempts>>
  <2>1. /\ Teardown(ws) /\ failures' = Min2(failures + 1, FailureCap)
        /\ UNCHANGED <<boots, attempts>>
    BY DEF OnFailed
  <2>2. failures' = attempts
    BY <1>2, <2>1, DaemonAssumption DEF Min2
  <2>3. current' = 0 /\ heard' = {} /\ DOMAIN workers' = DOMAIN ws \ {current}
    BY <2>1 DEF Teardown, Disposed, Unsubscribed
  <2>4. DOMAIN ws = {current}
    BY <1>1 DEF DaemonInv, OnePath
  <2> QED
    BY <2>1, <2>2, <2>3, <2>4
<1>4. CASE ScheduleSpent
  <2>1. gaveUp' /\ timers' = {} /\ watchdog' = FALSE
    BY <1>1, <1>4 DEF OnFailed
  <2> QED
    BY <1>1, <1>2, <1>3, <2>1 DEF DaemonInv, OnePath, Schedule, LiveIsCurrent
<1>5. CASE ~ ScheduleSpent
  <2>1. timers' = {attempts} /\ retryTimer' = attempts /\ UNCHANGED gaveUp
    BY <1>1, <1>3, <1>5 DEF OnFailed
  <2>2. attempts <= MaxAttempts
    BY <1>2, <1>5, DaemonAssumption DEF ScheduleSpent
  <2> QED
    BY <1>1, <1>2, <1>3, <2>1, <2>2 DEF DaemonInv, OnePath, Schedule, LiveIsCurrent
<1> QED
  BY <1>4, <1>5

(* Every worker is heard and current; none boots once LIVE is in sight. *)
LEMMA BootingIsCurrent ==
    ASSUME DaemonInv, NEW w, Booting(w)
    PROVE  w = current /\ w # 0 /\ w \in heard /\ stop # "done" /\ timers = {}
           /\ ~ gaveUp /\ liveOf = 0 /\ seed # "running" /\ status # "LIVE"
BY DEF Booting, DaemonInv, OnePath, LiveIsCurrent

LEMMA WorkerFailsStep ==
    ASSUME FirstProcess, DaemonInv, NEW w \in DOMAIN workers, WorkerFails(w, 1)
    PROVE  DaemonInv'
<1> DEFINE ws == [workers EXCEPT ![w] = "failed"]
<1>1. /\ w = current /\ w \in heard /\ timers = {} /\ current # 0 /\ ~ gaveUp
      /\ liveOf = 0 /\ seed # "running" /\ stop # "done" /\ status # "LIVE"
  BY BootingIsCurrent DEF WorkerFails
<1>2. /\ OnFailed(ws, 1) /\ status' = "FAILED"
      /\ UNCHANGED <<stop, liveOf, seed, seedOf>>
  BY <1>1 DEF WorkerFails
<1>3. DOMAIN ws = DOMAIN workers
  OBVIOUS
<1>4. CASE stop = "no"
  BY <1>1, <1>2, <1>3, <1>4, FailedStep
<1>5. CASE stop # "no"
  <2>1. DOMAIN workers' = DOMAIN workers
    BY <1>2, <1>3, <1>5 DEF OnFailed
  <2>2. UNCHANGED <<boots, current, heard, attempts, watchdog, retryVars>>
    BY <1>2, <1>5 DEF OnFailed
  <2> QED
    BY <1>1, <1>2, <1>5, <2>1, <2>2
       DEF DaemonInv, OnePath, Schedule, LiveIsCurrent, retryVars
<1> QED
  BY <1>4, <1>5

LEMMA WorkerLiveStep ==
    ASSUME DaemonInv, NEW w \in DOMAIN workers, WorkerLive(w)
    PROVE  DaemonInv'
<1>1. /\ w = current /\ w \in heard /\ timers = {} /\ current # 0 /\ ~ gaveUp
      /\ liveOf = 0 /\ seed # "running" /\ stop # "done" /\ status # "LIVE"
  BY BootingIsCurrent DEF WorkerLive
<1>2. /\ DOMAIN workers' = DOMAIN workers /\ workers'[w] = "live"
      /\ UNCHANGED <<stop, boots, current, heard, watchdog, timers, retryTimer, gaveUp>>
  BY DEF WorkerLive
<1>3. CASE seed # "done"
  <2>1. seed' = "running" /\ UNCHANGED <<status, liveOf, attempts, failures>>
    BY <1>1, <1>3 DEF WorkerLive, HoldForSeed
  <2>2. seedOf' = w
    <3>1. seed = "todo"
      BY <1>1, <1>3 DEF DaemonInv, LiveIsCurrent
    <3> QED
      BY <1>1, <1>3, <3>1 DEF WorkerLive, HoldForSeed
  <2> QED
    BY <1>1, <1>2, <2>1, <2>2 DEF DaemonInv, OnePath, Schedule, LiveIsCurrent
<1>4. CASE seed = "done"
  <2>1. Adopt(w) /\ UNCHANGED <<seed, seedOf>>
    BY <1>1, <1>4 DEF WorkerLive
  <2>2. status' = "LIVE" /\ liveOf' = w /\ attempts' = 0 /\ failures' = 0
    BY <1>1, <2>1 DEF Adopt
  <2> QED
    BY <1>1, <1>2, <1>4, <2>1, <2>2 DEF DaemonInv, OnePath, Schedule, LiveIsCurrent
<1> QED
  BY <1>3, <1>4

LEMMA SeedStep ==
    ASSUME DaemonInv, SeedEnds
    PROVE  DaemonInv'
<1>1. /\ seed = "running" /\ seed' = "done"
      /\ UNCHANGED <<stop, workers, boots, current, heard, watchdog, timers, retryTimer,
                     gaveUp>>
  BY DEF SeedEnds
<1>2. CASE stop = "no"
  <2>1. Adopt(seedOf)
    BY <1>2 DEF SeedEnds, SeedReports
  <2>2. current = seedOf /\ current # 0 /\ workers[seedOf] = "live" /\ timers = {}
    BY <1>1, <1>2 DEF DaemonInv, LiveIsCurrent
  <2>3. ~ gaveUp
    BY <2>2 DEF DaemonInv, LiveIsCurrent
  <2>4. status' = "LIVE" /\ liveOf' # 0 /\ liveOf' \in {liveOf, seedOf}
    BY <2>1, <2>2 DEF Adopt
  <2>5. attempts' \in Nat /\ failures' \in Nat
    BY <2>1 DEF Adopt, DaemonInv, Schedule
  <2> QED
    BY <1>1, <1>2, <2>2, <2>3, <2>4, <2>5 DEF DaemonInv, OnePath, Schedule, LiveIsCurrent
<1>3. CASE stop # "no"
  <2>1. UNCHANGED <<status, liveOf, attempts, failures>>
    BY <1>3 DEF SeedEnds, SeedReports
  <2> QED
    BY <1>1, <1>3, <2>1 DEF DaemonInv, OnePath, Schedule, LiveIsCurrent
<1> QED
  BY <1>2, <1>3

(* Without a worker the pending delay is short: the watchdog finds one. *)
LEMMA WatchdogStep ==
    ASSUME FirstProcess, DaemonInv, WatchdogFires(1)
    PROVE  DaemonInv'
<1>1. stop = "no" /\ liveOf = 0 /\ seed # "running" /\ watchdog /\ ~ gaveUp
  BY DEF WatchdogFires, DaemonInv, LiveIsCurrent
<1>2. current # 0
  <2> SUFFICES ASSUME current = 0
               PROVE  FALSE
    OBVIOUS
  <2>1. retryTimer <= MaxAttempts /\ retryTimer \in Nat
    BY <1>1 DEF DaemonInv, Schedule
  <2>2. retryTimer >= OutlastFrom
    BY DEF WatchdogFires, DelayOutlasts
  <2> QED
    BY <2>1, <2>2, DaemonAssumption DEF FirstProcess
<1>3. OnFailed(workers, 1) /\ UNCHANGED <<stop, liveVars>>
  BY DEF WatchdogFires, WatchdogIsHeard
<1>4. UNCHANGED <<liveOf, seed, seedOf>> /\ status' # "LIVE"
  BY <1>1, <1>3 DEF liveVars, DaemonInv, LiveIsCurrent
<1> QED
  BY <1>1, <1>2, <1>3, <1>4, FailedStep

(* stop() in its last step, from wherever it was called. *)
LEMMA FinishStep ==
    ASSUME DaemonInv, Finish, timers' \subseteq {},
           UNCHANGED <<boots, attempts, failures, gaveUp, status, liveOf, seed>>,
           watchdog' => watchdog
    PROVE  DaemonInv'
<1>1. stop' = "done" /\ current' = 0 /\ heard' = {} /\ DOMAIN workers' = {}
  BY DEF Finish, Teardown, Disposed, Unsubscribed, DaemonInv, OnePath
<1> QED
  BY <1>1 DEF DaemonInv, OnePath, Schedule, LiveIsCurrent

LEMMA StopStep ==
    ASSUME DaemonInv, Stop
    PROVE  DaemonInv'
<1>1. /\ stop = "no" /\ watchdog' = FALSE /\ timers' = {}
      /\ UNCHANGED <<boots, attempts, failures, retryTimer, gaveUp, liveVars>>
  BY DEF Stop, DaemonInv, OnePath
<1>2. CASE Finish
  BY <1>1, <1>2, FinishStep DEF liveVars
<1>3. CASE ~ Finish
  <2>1. UNCHANGED <<workers, current, heard>> /\ stop' \in {"drain", "final"}
    BY <1>3 DEF Stop
  <2> QED
    BY <1>1, <2>1 DEF DaemonInv, OnePath, Schedule, LiveIsCurrent, liveVars
<1> QED
  BY <1>2, <1>3

LEMMA ChildEndsStep ==
    ASSUME DaemonInv, ChildEnds
    PROVE  DaemonInv'
<1>1. UNCHANGED <<boots, attempts, watchdog, retryVars, liveVars>>
  BY DEF ChildEnds
<1>2. CASE stop = "final"
  <2>1. Finish /\ timers' = {}
    BY <1>1, <1>2 DEF ChildEnds, retryVars, DaemonInv, OnePath
  <2> QED
    BY <1>1, <2>1, FinishStep DEF retryVars, liveVars
<1>3. CASE stop # "final"
  <2>1. UNCHANGED <<stop, workers, current, heard>>
    BY <1>3 DEF ChildEnds
  <2> QED
    BY <1>1, <2>1, QuietStep DEF bootVars, liveVars
<1> QED
  BY <1>2, <1>3

LEMMA DrainStep ==
    ASSUME DaemonInv, Drain
    PROVE  DaemonInv'
<1>1. /\ Finish /\ stop = "drain"
      /\ UNCHANGED <<boots, attempts, watchdog, retryVars, liveVars>>
  BY DEF Drain, DrainKills, DrainFinishes
<1>2. timers' = {}
  BY <1>1 DEF retryVars, DaemonInv, OnePath
<1> QED
  BY <1>1, <1>2, FinishStep DEF retryVars, liveVars

LEMMA DaemonStepInv ==
    ASSUME FirstProcess, DaemonInv, [Next]_vars
    PROVE  DaemonInv'
<1>1. ASSUME NEW w \in DOMAIN workers, WorkerProgress(w) \/ WorkerRetriesItself(w)
      PROVE  DaemonInv'
  <2>1. UNCHANGED <<stop, bootVars, retryVars, liveOf, seed, seedOf>> /\ status' # "LIVE"
    BY <1>1 DEF WorkerProgress, WorkerRetriesItself
  <2> QED
    BY <2>1, QuietStep
<1>2. ASSUME NEW w \in DOMAIN workers, WorkerLive(w)
      PROVE  DaemonInv'
  BY <1>2, WorkerLiveStep
<1>3. ASSUME NEW w \in DOMAIN workers, NEW n \in Counts, WorkerFails(w, n)
      PROVE  DaemonInv'
  <2>1. n = 1
    BY DEF FirstProcess
  <2> QED
    BY <1>3, <2>1, WorkerFailsStep
<1>4. CASE Retry
  BY <1>4, RetryStep DEF Retry
<1>5. CASE WatchdogStandsDown
  BY <1>5 DEF WatchdogStandsDown, DaemonInv, OnePath, Schedule, LiveIsCurrent, retryVars,
              liveVars
<1>6. ASSUME NEW n \in Counts, WatchdogFires(n)
      PROVE  DaemonInv'
  <2>1. n = 1
    BY DEF FirstProcess
  <2> QED
    BY <1>6, <2>1, WatchdogStep
<1>7. CASE SeedEnds
  BY <1>7, SeedStep
<1>8. CASE OnLiveRead
  BY <1>8 DEF OnLiveRead, DaemonInv, OnePath, Schedule, LiveIsCurrent, retryVars
<1>9. CASE CheckpointTick \/ ChildCommits \/ ChildAges \/ Feed
  <2>1. UNCHANGED <<stop, bootVars, retryVars, liveVars>>
    BY <1>9 DEF CheckpointTick, ChildCommits, ChildAges, Feed, FeedFrame, FeedFails,
                FeedRetries
  <2> QED
    BY <2>1, QuietStep DEF liveVars
<1>10. CASE ChildEnds
  BY <1>10, ChildEndsStep
<1>11. CASE Stop
  BY <1>11, StopStep
<1>12. CASE Drain
  BY <1>12, DrainStep
<1>13. CASE UNCHANGED vars
  BY <1>13, QuietStep DEF vars, liveVars
<1> QED
  BY <1>1, <1>2, <1>3, <1>4, <1>5, <1>6, <1>7, <1>8, <1>9, <1>10, <1>11, <1>12, <1>13
     DEF Next, Worker, Watchdog, Live, Checkpoint

LEMMA DaemonInvariant ==
    ASSUME FirstProcess
    PROVE  Spec => []DaemonInv
<1>1. Init => DaemonInv
  BY DaemonInitInv
<1>2. DaemonInv /\ [Next]_vars => DaemonInv'
  BY DaemonStepInv
<1> QED
  BY <1>1, <1>2, PTL DEF Spec

-----------------------------------------------------------------------------
(* At no time is there a second worker, a second retry timer or one beside *)
(* the other, for every length of the schedule that a short delay ends.    *)
THEOREM DaemonOneRetryPath ==
    ASSUME FirstProcess
    PROVE  Spec => []OneRetryPath
<1>1. DaemonInv => OneRetryPath
  BY DEF DaemonInv, OnePath, OneRetryPath
<1> QED
  BY <1>1, DaemonInvariant, PTL

(* The world that is served is that of the worker that went LIVE. *)
THEOREM DaemonLiveIsServed ==
    ASSUME FirstProcess
    PROVE  Spec => []LiveIsServed
<1>1. DaemonInv => LiveIsServed
  BY DEF DaemonInv, LiveIsCurrent, LiveIsServed
<1> QED
  BY <1>1, DaemonInvariant, PTL

(* Once the schedule is spent, nothing is left that could start again. *)
THEOREM DaemonGivingUpIsFinal ==
    ASSUME FirstProcess
    PROVE  Spec => []GivingUpIsFinal
<1>1. DaemonInv => GivingUpIsFinal
  BY DEF DaemonInv, OnePath, LiveIsCurrent, GivingUpIsFinal
<1> QED
  BY <1>1, DaemonInvariant, PTL

(* The status leaves LIVE only if a worker beside the live one boots.      *)
THEOREM DaemonLiveIsLasting ==
    ASSUME FirstProcess
    PROVE  Spec => LiveIsLasting
<1>1. ASSUME DaemonInv, [Next]_vars, status = "LIVE"
      PROVE  status' = "LIVE"
  <2>1. ASSUME NEW w \in DOMAIN workers
        PROVE  ~ Booting(w)
    BY <1>1, BootingIsCurrent
  <2>2. ~ Worker
    BY <2>1 DEF Worker, WorkerProgress, WorkerRetriesItself, WorkerLive, WorkerFails
  <2>3. CASE Live
    BY <1>1, <2>3 DEF Live, SeedEnds, Adopt, OnLiveRead
  <2>4. CASE Retry \/ Watchdog \/ Checkpoint \/ Feed \/ Stop \/ Drain
    BY <1>1, <2>4 DEF Retry, RetryFires, Watchdog, WatchdogStandsDown, WatchdogFires,
       Checkpoint, CheckpointTick, ChildCommits, ChildAges, ChildEnds, Feed, FeedFrame,
       FeedFails, FeedRetries, Stop, Drain, DrainKills, DrainFinishes, liveVars
  <2>5. CASE UNCHANGED vars
    BY <1>1, <2>5 DEF vars, liveVars
  <2> QED
    BY <1>1, <2>2, <2>3, <2>4, <2>5 DEF Next
<1>2. DaemonInv /\ [Next]_vars => [status = "LIVE" => status' = "LIVE"]_vars
  BY <1>1
<1> QED
  BY <1>2, DaemonInvariant, PTL DEF Spec, LiveIsLasting

(* What was in flight when stop() ended finds nothing left to move.        *)
THEOREM DaemonStopIsFinal ==
    ASSUME FirstProcess
    PROVE  Spec => StopIsFinal
<1> DEFINE Still == /\ DOMAIN workers' = {} /\ timers' = {}
                    /\ liveOf' = liveOf /\ boots' = boots
<1>1. ASSUME DaemonInv, [Next]_vars, stop = "done"
      PROVE  Still
  <2>1. DOMAIN workers = {} /\ timers = {}
    BY <1>1 DEF DaemonInv, OnePath
  <2>2. CASE SeedEnds
    BY <1>1, <2>1, <2>2 DEF SeedEnds, SeedReports
  <2>3. CASE OnLiveRead \/ WatchdogStandsDown \/ Feed
    BY <2>1, <2>3 DEF OnLiveRead, WatchdogStandsDown, Feed, FeedFrame, FeedFails,
       FeedRetries, bootVars, retryVars, liveVars
  <2>4. CASE Checkpoint
    BY <1>1, <2>1, <2>4 DEF Checkpoint, CheckpointTick, ChildCommits, ChildAges,
       ChildEnds, bootVars, retryVars, liveVars
  <2>5. CASE UNCHANGED vars
    BY <2>1, <2>5 DEF vars, bootVars, retryVars, liveVars
  <2> QED
    BY <1>1, <2>1, <2>2, <2>3, <2>4, <2>5
       DEF Next, Worker, Retry, Watchdog, WatchdogFires, Live, Stop, Drain, DrainKills,
           DrainFinishes
<1>2. DaemonInv /\ [Next]_vars => [stop = "done" => Still]_vars
  BY <1>1
<1> QED
  BY <1>2, DaemonInvariant, PTL DEF Spec, StopIsFinal

=============================================================================
