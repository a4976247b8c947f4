-------------------------------- MODULE Daemon --------------------------------
(***************************************************************************)
(* The life of the daemon (src/daemon.ts): bootstrap attempts on a retry   *)
(* schedule, the pre-LIVE watchdog, the clock seed that LIVE waits for,    *)
(* periodic checkpoints in a child process, the Kamiden feed, and stop().  *)
(*                                                                         *)
(* A step is one turn of the event loop.  Time is abstracted to what may   *)
(* overtake what: a retry delay either ends before the watchdog's 90 s are *)
(* over or may last longer; the clock seed's 5 s never do.  A worker may   *)
(* report progress, fail, retry by itself, go LIVE or fall silent.         *)
(***************************************************************************)
EXTENDS Integers

CONSTANTS
    MaxAttempts,   \* BOOTSTRAP_MAX_ATTEMPTS
    OutlastFrom,   \* the failure count from which a retry delay may exceed 90 s
    Streaks,       \* the failure counts earlier processes left in the data dir
    Counts,        \* what one failure counts: 1, and 2 if it is a rate limit
    FailureCap     \* bound: failures beyond this many are not told apart

ASSUME DaemonAssumption ==
    /\ MaxAttempts \in Nat \ {0} /\ OutlastFrom \in Nat \ {0}
    /\ Streaks \subseteq Nat
    /\ Counts \subseteq {1, 2} /\ Counts # {}
    /\ FailureCap \in Nat /\ FailureCap > MaxAttempts
    /\ \A s \in Streaks : s <= FailureCap

VARIABLES
    stop,       \* stop(): "no", then "drain" or "final", then "done"
    workers,    \* the sync workers never disposed: "booting", "failed" or "live"
    boots,      \* how many workers were created
    current,    \* this.worker, 0 for null: the one whose world is served
    heard,      \* the workers this.subscriptions listens to
    attempts,   \* bootstrapAttempts
    failures,   \* persistedFailures + backoffFailures
    timers,     \* the retry timers pending, each named by its failure count
    retryTimer, \* the one the handle refers to
    watchdog,   \* the pre-LIVE watchdog is armed
    status,     \* syncStatus: "booting", "retrying" (FAILED, the worker's own), "FAILED" or "LIVE"
    liveOf,     \* the worker whose LIVE was adopted, 0 while liveAt is null
    gaveUp,     \* the live promise was rejected
    seed,       \* the clock seed: "todo", "running" or "done"
    seedOf,     \* the worker whose LIVE waits for the seed
    onLive,     \* "no", "reading" the checkpoint report, "done"
    ticking,    \* the checkpoint timer is armed
    child,      \* the checkpoint child: "none", "working" or "committing"
    age,        \* its age: 0, 1 past the grace, 2 past the commit grace
    feed        \* KamidenFeeds.state

bootVars  == <<workers, boots, current, heard, attempts, watchdog>>
retryVars == <<failures, timers, retryTimer, gaveUp>>
liveVars  == <<status, liveOf, seed, seedOf, onLive>>
childVars == <<child, age>>
vars == <<stop, bootVars, retryVars, liveVars, ticking, childVars, feed>>

Min2(a, b) == IF a < b THEN a ELSE b

FailureOutlasts(f) == TRUE    \* mutant: the ladder starts above the watchdog's window

(* The delay for f failures, drawn from [d/2, d], may outlast the watchdog. *)
DelayOutlasts(f) == f >= OutlastFrom

-----------------------------------------------------------------------------
(* start(): the first attempt, at once or after a failure streak's delay. *)
Init ==
    \E s \in Streaks :
        /\ failures = s
        /\ timers = {s} \ {0} /\ retryTimer = s
        /\ boots = IF s = 0 THEN 1 ELSE 0
        /\ workers = [w \in 1..boots |-> "booting"]
        /\ current = boots /\ heard = 1..boots
        /\ attempts = boots /\ watchdog = (s = 0)
        /\ stop = "no" /\ gaveUp = FALSE
        /\ status = "booting" /\ liveOf = 0
        /\ seed = "todo" /\ seedOf = 0 /\ onLive = "no"
        /\ ticking = FALSE /\ child = "none" /\ age = 0
        /\ feed = "stopped"

(* bootstrap(): a new world and worker; what was there is not torn down. *)
Bootstrap ==
    /\ boots' = boots + 1
    /\ workers' = [w \in DOMAIN workers \cup {boots + 1} |->
                      IF w = boots + 1 THEN "booting" ELSE workers[w]]
    /\ current' = boots + 1
    /\ heard' = heard \cup {boots + 1}
    /\ attempts' = attempts + 1
    /\ watchdog' = TRUE

RetryFires(t) ==
    /\ t \in timers
    /\ timers' = timers \ {t}
    /\ IF stop = "no" THEN Bootstrap ELSE UNCHANGED bootVars
    /\ UNCHANGED <<stop, failures, retryTimer, gaveUp, liveVars, ticking,
                   childVars, feed>>

TeardownForgets(ws) == ws    \* mutant: the worker is dropped, not disposed

(* teardownWorker(): only the current worker is disposed, all are unheard. *)
Disposed(ws) == [w \in DOMAIN ws \ {current} |-> ws[w]]

Unsubscribed == {}

Teardown(ws) ==
    /\ workers' = Disposed(ws)
    /\ current' = 0
    /\ heard' = Unsubscribed

ScheduleSpent == attempts > MaxAttempts

(* onFailed(): the attempt is torn down and counted n times; another one   *)
(* is scheduled unless the schedule is spent.                              *)
OnFailed(ws, n) ==
    IF stop # "no" \/ liveOf # 0
    THEN /\ workers' = ws
         /\ UNCHANGED <<boots, current, heard, attempts, watchdog, retryVars>>
    ELSE /\ Teardown(ws)
         /\ failures' = Min2(failures + n, FailureCap)
         /\ IF ScheduleSpent
            THEN /\ watchdog' = FALSE
                 /\ gaveUp' = TRUE
                 /\ UNCHANGED <<timers, retryTimer>>
            ELSE /\ timers' = timers \cup {failures'}
                 /\ retryTimer' = failures'
                 /\ UNCHANGED <<watchdog, gaveUp>>
         /\ UNCHANGED <<boots, attempts>>

-----------------------------------------------------------------------------
(* The sync workers, and onSyncStatus. *)
Booting(w) == w \in DOMAIN workers /\ workers[w] = "booting"

WorkerProgress(w) ==
    /\ Booting(w) /\ w \in heard
    /\ status' = "booting"
    /\ UNCHANGED <<stop, bootVars, retryVars, liveOf, seed, seedOf, onLive,
                   ticking, childVars, feed>>

(* A failure the worker handles itself ('retrying in') is only shown. *)
WorkerRetriesItself(w) ==
    /\ Booting(w) /\ w \in heard
    /\ status' = "retrying"
    /\ UNCHANGED <<stop, bootVars, retryVars, liveOf, seed, seedOf, onLive,
                   ticking, childVars, feed>>

WorkerFails(w, n) ==
    /\ Booting(w)
    /\ LET ws == [workers EXCEPT ![w] = "failed"] IN
       IF w \in heard
       THEN /\ status' = "FAILED"
            /\ OnFailed(ws, n)
       ELSE /\ workers' = ws
            /\ UNCHANGED <<boots, current, heard, attempts, watchdog, retryVars,
                           status>>
    /\ UNCHANGED <<stop, liveOf, seed, seedOf, onLive, ticking, childVars, feed>>

(* The daemon turns LIVE on worker w's word; the streak is over. *)
Adopt(w) ==
    /\ status' = "LIVE"
    /\ IF liveOf = 0
       THEN /\ liveOf' = w
            /\ attempts' = 0
            /\ failures' = 0
            /\ onLive' = "reading"
       ELSE UNCHANGED <<liveOf, attempts, failures, onLive>>

(* The first LIVE starts the clock seed and waits for it. *)
HoldForSeed(w) ==
    /\ seed' = "running"
    /\ seedOf' = IF seed = "todo" THEN w ELSE seedOf
    /\ UNCHANGED <<status, liveOf, attempts, failures, onLive>>

WorkerLive(w) ==
    /\ Booting(w)
    /\ workers' = [workers EXCEPT ![w] = "live"]
    /\ IF w \notin heard
       THEN UNCHANGED <<liveVars, attempts, failures>>
       ELSE IF liveOf = 0 /\ seed # "done"
            THEN HoldForSeed(w)
            ELSE /\ Adopt(w)
                 /\ UNCHANGED <<seed, seedOf>>
    /\ UNCHANGED <<stop, boots, current, heard, watchdog, timers, retryTimer, gaveUp,
                   ticking, childVars, feed>>

SeedIgnoresStop == TRUE    \* mutant: LIVE is reported although stop() was called

SeedReports == stop = "no"

SeedEnds ==
    /\ seed = "running"
    /\ seed' = "done"
    /\ IF SeedReports THEN Adopt(seedOf)
                      ELSE UNCHANGED <<status, liveOf, attempts, failures, onLive>>
    /\ UNCHANGED <<stop, workers, boots, current, heard, watchdog, timers, retryTimer,
                   gaveUp, seedOf, ticking, childVars, feed>>

(* onLive() after its await: it does not look at stopped again. *)
OnLiveRead ==
    /\ onLive = "reading"
    /\ onLive' = "done"
    /\ watchdog' = FALSE
    /\ ticking' = TRUE
    /\ feed' = IF feed = "stopped" THEN "connecting" ELSE feed
    /\ UNCHANGED <<stop, workers, boots, current, heard, attempts, retryVars, status,
                   liveOf, seed, seedOf, childVars>>

-----------------------------------------------------------------------------
QuotesMarker == status # "retrying"    \* mutant: the quoted message silences onFailed

(* The message it quotes is cleaned of the worker's own 'retrying in'. *)
WatchdogIsHeard == TRUE

(* The watchdog finds no progress for 90 s: the worker has gone silent, or *)
(* there is none and the retry delay is a long one.                        *)
WatchdogFires(n) ==
    /\ watchdog
    /\ stop = "no" /\ liveOf = 0
    /\ seed # "running"
    /\ current = 0 => DelayOutlasts(retryTimer)
    /\ IF WatchdogIsHeard THEN OnFailed(workers, n)
                          ELSE UNCHANGED <<bootVars, retryVars>>
    /\ UNCHANGED <<stop, liveVars, ticking, childVars, feed>>

WatchdogStandsDown ==
    /\ watchdog
    /\ liveOf # 0
    /\ watchdog' = FALSE
    /\ UNCHANGED <<stop, workers, boots, current, heard, attempts, retryVars, liveVars,
                   ticking, childVars, feed>>

-----------------------------------------------------------------------------
(* Checkpoints: one child at a time, asked for by the timer or by stop().  *)
ForkChild == child' = "working" /\ age' = 0

CheckpointTick ==
    /\ ticking
    /\ child = "none"
    /\ ForkChild
    /\ UNCHANGED <<stop, bootVars, retryVars, liveVars, ticking, feed>>

ChildCommits ==
    /\ child = "working"
    /\ child' = "committing"
    /\ UNCHANGED <<stop, bootVars, retryVars, liveVars, ticking, age, feed>>

ChildAges ==
    /\ child # "none"
    /\ age < 2
    /\ age' = age + 1
    /\ UNCHANGED <<stop, bootVars, retryVars, liveVars, ticking, child, feed>>

Finish == stop' = "done" /\ Teardown(workers)

(* The child reports, fails or dies.  A stop() that asked for it goes on. *)
ChildEnds ==
    /\ child # "none"
    /\ child' = "none"
    /\ IF stop = "final" THEN Finish ELSE UNCHANGED <<stop, workers, current, heard>>
    /\ UNCHANGED <<boots, attempts, watchdog, retryVars, liveVars, ticking, age, feed>>

-----------------------------------------------------------------------------
(* The Kamiden stream and its retry. *)
FeedFrame ==
    /\ feed = "connecting"
    /\ feed' = "live"
    /\ UNCHANGED <<stop, bootVars, retryVars, liveVars, ticking, childVars>>

FeedFails ==
    /\ feed \in {"connecting", "live"}
    /\ feed' = "retrying"
    /\ UNCHANGED <<stop, bootVars, retryVars, liveVars, ticking, childVars>>

FeedRetries ==
    /\ feed = "retrying"
    /\ feed' = "connecting"
    /\ UNCHANGED <<stop, bootVars, retryVars, liveVars, ticking, childVars>>

-----------------------------------------------------------------------------
(* stop(): a checkpoint in flight is drained, else a LIVE daemon makes a   *)
(* last one; then the worker is disposed.                                  *)
Stop ==
    /\ stop = "no"
    /\ feed' = "stopped"
    /\ watchdog' = FALSE
    /\ ticking' = FALSE
    /\ timers' = timers \ {retryTimer}
    /\ IF child # "none"
       THEN /\ stop' = "drain"
            /\ UNCHANGED <<workers, current, heard, childVars>>
       ELSE IF liveOf # 0
            THEN /\ stop' = "final"
                 /\ ForkChild
                 /\ UNCHANGED <<workers, current, heard>>
            ELSE /\ Finish
                 /\ UNCHANGED childVars
    /\ UNCHANGED <<boots, attempts, failures, retryTimer, gaveUp, liveVars>>

CommitIsAwaited == age >= 1 /\ child = "working"    \* mutant: a commit is never given up

(* shutdownDecision: the grace is spent, and a commit's own grace too. *)
GraceSpent == age = 2 \/ (age = 1 /\ child = "working")

DrainKills ==
    /\ stop = "drain"
    /\ child # "none"
    /\ GraceSpent
    /\ child' = "none"
    /\ Finish
    /\ UNCHANGED <<boots, attempts, watchdog, retryVars, liveVars, ticking, age, feed>>

DrainFinishes ==
    /\ stop = "drain"
    /\ child = "none"
    /\ Finish
    /\ UNCHANGED <<boots, attempts, watchdog, retryVars, liveVars, ticking, childVars,
                   feed>>

-----------------------------------------------------------------------------
Worker     == \E w \in DOMAIN workers :
                 \/ WorkerProgress(w) \/ WorkerRetriesItself(w) \/ WorkerLive(w)
                 \/ \E n \in Counts : WorkerFails(w, n)
Retry      == \E t \in timers : RetryFires(t)
Watchdog   == WatchdogStandsDown \/ \E n \in Counts : WatchdogFires(n)
Live       == SeedEnds \/ OnLiveRead
Checkpoint == CheckpointTick \/ ChildCommits \/ ChildAges \/ ChildEnds
Feed       == FeedFrame \/ FeedFails \/ FeedRetries
Drain      == DrainKills \/ DrainFinishes

Next == Worker \/ Retry \/ Watchdog \/ Live \/ Checkpoint \/ Feed \/ Stop \/ Drain

Spec == Init /\ [][Next]_vars

(* Timers go off and the seed's budget ends.  Nothing is assumed of the    *)
(* workers, the chain, the child or the feed.                              *)
FairSpec ==
    /\ Spec
    /\ WF_vars(Retry) /\ WF_vars(Watchdog) /\ WF_vars(SeedEnds)
    /\ WF_vars(ChildAges) /\ WF_vars(Drain)

-----------------------------------------------------------------------------
(* A process that starts without a streak, meets no rate limit and gives   *)
(* up before a delay can outlast the watchdog.                             *)
FirstProcess ==
    /\ Streaks = {0} /\ Counts = {1}
    /\ MaxAttempts < OutlastFrom

TypeOK ==
    /\ stop \in {"no", "drain", "final", "done"}
    /\ DOMAIN workers \subseteq 1..boots
    /\ \A w \in DOMAIN workers : workers[w] \in {"booting", "failed", "live"}
    /\ boots \in Nat /\ current \in 0..boots
    /\ heard \subseteq DOMAIN workers
    /\ attempts \in Nat /\ failures \in 0..FailureCap
    /\ timers \subseteq 1..FailureCap /\ retryTimer \in 0..FailureCap
    /\ watchdog \in BOOLEAN /\ gaveUp \in BOOLEAN /\ ticking \in BOOLEAN
    /\ status \in {"booting", "retrying", "FAILED", "LIVE"}
    /\ liveOf \in 0..boots /\ seedOf \in 0..boots
    /\ seed \in {"todo", "running", "done"}
    /\ onLive \in {"no", "reading", "done"}
    /\ child \in {"none", "working", "committing"} /\ age \in 0..2
    /\ feed \in {"stopped", "connecting", "live", "retrying"}

(* There is one path to the next attempt (daemon.ts line 631): one worker  *)
(* that is running, or one pending retry timer.                            *)
OneRetryPath ==
    /\ \A v, w \in DOMAIN workers : v = w
    /\ \A t, u \in timers : t = u
    /\ DOMAIN workers = {} \/ timers = {}

(* What is served is what went LIVE: the world of the current worker is    *)
(* that of the worker whose LIVE was adopted.                              *)
LiveIsServed == (liveOf # 0 /\ stop # "done") => current = liveOf

(* Nothing moves the sync state away from LIVE once it is reached          *)
(* (server.ts line 278): a daemon that answers reads goes on doing so.     *)
LiveIsLasting == [][status = "LIVE" => status' = "LIVE"]_vars

(* Giving up is final (daemon.ts lines 953-964): no worker, no timer and   *)
(* no watchdog is left.                                                    *)
GivingUpIsFinal == gaveUp => DOMAIN workers = {} /\ timers = {} /\ ~ watchdog

(* After stop() nothing boots, goes LIVE or is left undisposed, whatever   *)
(* seed, timer or child was in flight.                                     *)
StopIsFinal ==
    [][stop = "done" => /\ DOMAIN workers' = {} /\ timers' = {}
                        /\ liveOf' = liveOf /\ boots' = boots]_vars

(* A daemon that is not stopped goes LIVE or gives up, whether its workers *)
(* fail, retry by themselves or fall silent (daemon.ts lines 626-632).     *)
Settles == <>(liveOf # 0 \/ gaveUp \/ stop # "no")

(* A wedged checkpoint child does not hold the drain open (protocol.ts     *)
(* lines 62-74): it is killed once its grace is spent.                     *)
DrainEnds == (stop = "drain") ~> (stop = "done")

=============================================================================
