------------------------------ MODULE Reconnect ------------------------------
(***************************************************************************)
(* The reconnecting provider pair (src/engine/providers/create.ts): one    *)
(* JSON and one websocket provider, replaced when the socket errs or       *)
(* closes or a keepalive probe fails.                                      *)
(*                                                                         *)
(* Pairs are numbered in the order they are made.  The events of a socket  *)
(* come when they come: the close event of a pair that was closed may come *)
(* long after its successor is in use.                                     *)
(***************************************************************************)
EXTENDS Naturals, FiniteSets

CONSTANTS
    MaxTries,    \* callWithRetry's attempts of one initProviders
    MaxPairs     \* bound: the pairs made in one behaviour

ASSUME ReconnectAssumption == MaxTries \in Nat \ {0} /\ MaxPairs \in Nat

VARIABLES
    conn,       \* connected: disconnected, connecting, connected
    first,      \* the initProviders that createReconnecting awaits is running
    tries,      \* the failed attempts of the initProviders that is running
    made,       \* the pairs made so far
    inUse,      \* providers: the pair in use, or 0
    trying,     \* the pair whose network is being checked, or 0
    open,       \* the pairs whose socket nobody has closed
    listened,   \* the events of pairs that are listened to
    probes,     \* the pairs a keepalive probe is waiting on
    disposed,
    process     \* running, failed (the worker reports FAILED), or dead

connVars  == <<conn, first, tries, trying>>
pairVars  == <<made, inUse, open, listened, probes>>
reconVars == <<connVars, pairVars, disposed, process>>

Pairs     == 1..MaxPairs
NoPair    == 0
Events    == {"error", "close"}
Processes == {"running", "failed", "dead"}

ReconInit ==
    /\ conn = "connecting" /\ first = TRUE /\ tries = 0
    /\ made = 0 /\ inUse = NoPair /\ trying = NoPair
    /\ open = {} /\ listened = {} /\ probes = {}
    /\ disposed = FALSE /\ process = "running"

(* initProviders: nothing while a connection is being made; otherwise the  *)
(* pair in use is closed and the first attempt begins.                     *)
InitProviders ==
    IF conn = "connecting"
    THEN UNCHANGED <<connVars, open>>
    ELSE /\ conn' = "connecting"
         /\ tries' = 0
         /\ open' = open \ {inUse}
         /\ UNCHANGED <<first, trying>>

(* One attempt: a new pair, whose network is checked. *)
Try ==
    /\ conn = "connecting" /\ process = "running"
    /\ trying = NoPair
    /\ made < MaxPairs
    /\ made' = made + 1
    /\ trying' = made'
    /\ open' = open \cup {made'}
    /\ UNCHANGED <<conn, first, tries, inUse, listened, probes, disposed, process>>

(* The network is up: the pair is in use, and its events are listened to   *)
(* unless the reaction that attaches the listeners was disposed of.        *)
Connects ==
    /\ trying # NoPair
    /\ conn' = "connected"
    /\ inUse' = trying
    /\ trying' = NoPair
    /\ first' = FALSE
    /\ listened' = IF disposed THEN listened ELSE listened \cup ({trying} \X Events)
    /\ UNCHANGED <<tries, made, open, probes, disposed, process>>

KeepsFailedPair == open     \* mutant: a failed attempt leaves its pair open

DestroysFailedPair == open \ {trying}

NeverOutOfTries(n) == FALSE     \* mutant: a failed attempt is always tried again

OutOfTries(n) == n >= MaxTries

(* Every probe of the attempt failed or timed out: the pair is destroyed   *)
(* and the next attempt follows.  After the last one initProviders         *)
(* rejects: the first time to the worker, which reports FAILED; from then  *)
(* on nobody awaits it, and an unhandled rejection ends the process.       *)
TryFails ==
    /\ trying # NoPair
    /\ trying' = NoPair
    /\ open' = DestroysFailedPair
    /\ tries' = tries + 1
    /\ process' = IF ~ OutOfTries(tries') THEN process
                  ELSE IF first THEN "failed" ELSE "dead"
    /\ UNCHANGED <<conn, first, made, inUse, listened, probes, disposed>>

(* The socket of a pair errs, or closes: each listener is called once, and *)
(* only the close listener asks whether the connection was up.             *)
SocketErrs(p) ==
    /\ process = "running"
    /\ <<p, "error">> \in listened
    /\ listened' = listened \ {<<p, "error">>}
    /\ InitProviders
    /\ UNCHANGED <<made, inUse, probes, disposed, process>>

SocketCloses(p) ==
    /\ process = "running"
    /\ <<p, "close">> \in listened
    /\ listened' = listened \ ({p} \X Events)
    /\ IF conn = "connected" THEN InitProviders ELSE UNCHANGED <<connVars, open>>
    /\ UNCHANGED <<made, inUse, probes, disposed, process>>

(* The keepalive: a probe of the pair in use every ten seconds, each given *)
(* as long to answer.                                                      *)
Probe ==
    /\ conn = "connected" /\ process = "running" /\ ~ disposed
    /\ probes' = probes \cup {inUse}
    /\ UNCHANGED <<connVars, made, inUse, open, listened, disposed, process>>

ProbeAnswers(p) ==
    /\ p \in probes /\ process = "running"
    /\ probes' = probes \ {p}
    /\ UNCHANGED <<connVars, made, inUse, open, listened, disposed, process>>

ProbeFails(p) ==
    /\ p \in probes /\ process = "running"
    /\ probes' = probes \ {p}
    /\ InitProviders
    /\ UNCHANGED <<made, inUse, listened, disposed, process>>

(* The reactions and the interval end and the socket in use is closed; the *)
(* listeners on it stay.  The disposer is known once createReconnecting    *)
(* has returned.                                                           *)
Dispose ==
    /\ ~ disposed /\ ~ first /\ process = "running"
    /\ disposed' = TRUE
    /\ open' = open \ {inUse}
    /\ UNCHANGED <<connVars, made, inUse, listened, probes, process>>

Connecting == Try \/ Connects \/ TryFails

ReconNext ==
    \/ Connecting \/ Probe \/ Dispose
    \/ \E p \in Pairs : SocketErrs(p) \/ SocketCloses(p) \/ ProbeAnswers(p) \/ ProbeFails(p)

ReconSpec == ReconInit /\ [][ReconNext]_reconVars

-----------------------------------------------------------------------------
(* Until it is disposed of, the provider holds no socket but that of the   *)
(* pair in use and of the one it is trying: however often it reconnects,   *)
(* and whatever late events of old pairs do (banner, change 3).            *)
NoPairLeaks == ~ disposed => open \subseteq {inUse, trying}

(* The state CONNECTING is always left: for CONNECTED, or because the last *)
(* attempt failed (NETWORK_CHECK_TIMEOUT_MS: every probe is bounded).      *)
ConnectingEnds ==
    (conn = "connecting" /\ made + MaxTries <= MaxPairs)
        ~> (conn = "connected" \/ process # "running")

(* A stream outage after LIVE is served stale, whatever its length         *)
(* (SPEC.md line 95): the process survives it.                             *)
OutageIsServed == process # "dead"

=============================================================================
