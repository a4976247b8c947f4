------------------------------ MODULE MCServices ------------------------------
(***************************************************************************)
(* The parts of the daemon that share no variable, checked side by side:   *)
(* a behaviour is one of one part, the others rest where they start.       *)
(***************************************************************************)
EXTENDS Daemon, Clock, Feed, ReadYourWrites, Reconnect, RangeRead, Unhealed, WorkerLife

VARIABLE focus    \* the part whose behaviour this is

servicesVars == <<focus, vars, clockVars, feedVars, waitVars, reconVars, rangeVars,
                  unhealedVars, workerVars>>

(* A first process without rate limits. *)
MCFirstProcess == {0}
MCOnce == {1}

(* One reader takes all it asks for, the other a part, one at a time. *)
MCFeedTypes == {"move", "kill"}
MCReaders   == {"all", "some"}
MCWanted    == [r \in MCReaders |-> IF r = "all" THEN MCFeedTypes ELSE {"kill"}]
MCLimit     == [r \in MCReaders |-> IF r = "all" THEN 2 ELSE 1]

(* One client waits for a block and then for the next one; another also  *)
(* waits for that.                                                       *)
MCConns == {"x", "y"}
MCAsks  == [c \in MCConns |-> IF c = "x" THEN <<1, 2>> ELSE <<2>>]

Alone(p) ==
    /\ focus = p
    /\ UNCHANGED focus
    /\ IF p = "daemon"   THEN TRUE ELSE UNCHANGED vars
    /\ IF p = "clock"    THEN TRUE ELSE UNCHANGED clockVars
    /\ IF p = "feed"     THEN TRUE ELSE UNCHANGED feedVars
    /\ IF p = "wait"     THEN TRUE ELSE UNCHANGED waitVars
    /\ IF p = "provider" THEN TRUE ELSE UNCHANGED reconVars
    /\ IF p = "range"    THEN TRUE ELSE UNCHANGED rangeVars
    /\ IF p = "unhealed" THEN TRUE ELSE UNCHANGED unhealedVars
    /\ IF p = "worker"   THEN TRUE ELSE UNCHANGED workerVars

Part(p) == focus = p

ServicesInit ==
    /\ focus \in {"daemon", "clock", "feed", "wait", "provider", "range", "unhealed",
                  "worker"}
    /\ Init /\ ClockInit /\ FeedInit /\ WaitInit /\ ReconInit /\ RangeInit /\ UnhealedInit
    /\ WorkerInit
    /\ focus # "clock" => live = 0 /\ sampled = 0
    /\ focus # "wait" => chainHead = 0
    /\ focus # "range" => tip = 0

ServicesNext ==
    \/ Alone("daemon")   /\ Next
    \/ Alone("clock")    /\ ClockNext
    \/ Alone("feed")     /\ FeedNext
    \/ Alone("wait")     /\ WaitNext
    \/ Alone("provider") /\ ReconNext
    \/ Alone("range")    /\ RangeNext
    \/ Alone("unhealed") /\ UnhealedNext
    \/ Alone("worker")   /\ WorkerNext

(* The daemon's timers as in Daemon; the feed's retry timer; for the waits *)
(* the blocks, the sampler, the nudge intervals and reads that do not come *)
(* back empty for ever; the bounded attempts to connect.                   *)
ServicesFairness ==
    /\ WF_servicesVars(Alone("daemon") /\ Retry)
    /\ WF_servicesVars(Alone("daemon") /\ Watchdog)
    /\ WF_servicesVars(Alone("daemon") /\ SeedEnds)
    /\ WF_servicesVars(Alone("daemon") /\ ChildAges)
    /\ WF_servicesVars(Alone("daemon") /\ Drain)
    /\ WF_servicesVars(Alone("feed") /\ FeedRetry)
    /\ WF_servicesVars(Alone("wait") /\ MineBlock)
    /\ WF_servicesVars(Alone("wait") /\ SampleTip)
    /\ \A c \in MCConns : SF_servicesVars(Alone("wait") /\ Nudge(c))
    /\ \A t \in 0..MaxTip :
          SF_servicesVars(Alone("wait") /\ catchUpRead.to = t /\ ProvingReturn)
    /\ WF_servicesVars(Alone("provider") /\ Connecting)

ServicesSpec == ServicesInit /\ [][ServicesNext]_servicesVars /\ ServicesFairness

(* Settles, which speaks of the first state, where the part at hand is the *)
(* daemon: its bootstrap comes to LIVE, to an end or to a pending retry    *)
(* (src/daemon.ts, onFailed and the watchdog).                             *)
DaemonSettles == focus = "daemon" => Settles

(* ConnectingEnds where the part at hand is the provider: an attempt to    *)
(* connect always ends (src/engine/providers/create.ts, change 3).         *)
ProviderConnects == focus = "provider" => ConnectingEnds

=============================================================================
