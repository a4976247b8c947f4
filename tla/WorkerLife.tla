------------------------------ MODULE WorkerLife ------------------------------
(***************************************************************************)
(* The sync workers of one process, one after the other, and what each     *)
(* run of their bootstrap opens (src/workers/sync/Worker.ts).  A run goes  *)
(* from await to await; the daemon may dispose of its worker while it      *)
(* waits, and it resumes afterwards.  A worker whose image cannot be put   *)
(* out runs its bootstrap again, beside the streams of the earlier run.    *)
(*                                                                         *)
(* Only the runs' control is modelled: what they load is in Boot, what the *)
(* stream does in MirrorSync.                                              *)
(***************************************************************************)
EXTENDS Naturals

CONSTANTS
    MaxRetries,   \* maxRetries
    MaxWorkers    \* bound: the workers of one process

ASSUME WorkerLifeAssumption == MaxRetries \in Nat /\ MaxWorkers \in Nat \ {0}

VARIABLES
    awaits,     \* what each worker's run of initOnce waits for, or how it ended
    turn,       \* the number of that run
    gone,       \* the workers disposed of
    opened,     \* what is open: worker, run and kind
    disposers,  \* what a disposal will close
    hook,       \* syncHooks.requestCatchUp: the worker and run of its stream
    over        \* the daemon was stopped

workerVars == <<awaits, turn, gone, opened, disposers, hook, over>>

WorkerIds == 1..MaxWorkers
NoStream  == <<0, 0>>
Its(w, kind)  == <<w, turn[w], kind>>
To(w, what)   == awaits' = [awaits EXCEPT ![w] = what]

WorkerInit ==
    /\ awaits = [w \in WorkerIds |-> "unborn"] /\ turn = [w \in WorkerIds |-> 0]
    /\ gone = {} /\ opened = {} /\ disposers = {}
    /\ hook = NoStream /\ over = FALSE

(* The bootstrap of the daemon, once its last worker was disposed of. *)
BootWorker(w) ==
    /\ ~ over /\ awaits[w] = "unborn"
    /\ \A v \in 1..(w - 1) : v \in gone
    /\ To(w, "config")
    /\ turn' = [turn EXCEPT ![w] = 1]
    /\ UNCHANGED <<gone, opened, disposers, hook, over>>

-----------------------------------------------------------------------------
(* What own() leaves open and registered of the resources it is handed: a  *)
(* disposed worker's are closed at once.                                   *)
OwnUnasked(w, res) == /\ opened' = opened \cup res     \* mutant: whoever asks
                      /\ disposers' = disposers \cup res

Own(w, res) ==
    IF w \in gone
    THEN opened' = opened \ res /\ UNCHANGED disposers
    ELSE opened' = opened \cup res /\ disposers' = disposers \cup res

(* createReconnecting sets its keepalive timer and its reactions, and      *)
(* makes a pair; the disposer is known when it returns.                    *)
Connect(w) ==
    /\ To(w, "provider")
    /\ opened' = opened \cup {Its(w, "provider")}
    /\ UNCHANGED disposers

(* A run that finds its worker disposed of stops there. *)
Stops(w, what) ==
    /\ awaits[w] = what /\ w \in gone
    /\ To(w, "ended")
    /\ UNCHANGED <<turn, gone, opened, disposers, hook, over>>

ConfigArrives(w) ==
    \/ Stops(w, "config")
    \/ /\ awaits[w] = "config" /\ w \notin gone
       /\ Connect(w)
       /\ UNCHANGED <<turn, gone, hook, over>>

ProviderUp(w) ==
    /\ awaits[w] = "provider"
    /\ Own(w, {Its(w, "provider")})
    /\ To(w, IF w \in gone THEN "ended" ELSE "store")
    /\ UNCHANGED <<turn, gone, hook, over>>

(* No attempt reached the network: the pair was destroyed, the timer and   *)
(* the reactions of createReconnecting stay.                               *)
ProviderFails(w) ==
    /\ awaits[w] = "provider"
    /\ opened' = (opened \ {Its(w, "provider")}) \cup {Its(w, "keepalive")}
    /\ To(w, "failed")
    /\ UNCHANGED <<turn, gone, disposers, hook, over>>

StoreOpens(w) ==
    \/ Stops(w, "store")
    \/ /\ awaits[w] = "store" /\ w \notin gone
       /\ Own(w, {Its(w, "blocks"), Its(w, "head")})
       /\ To(w, "load")
       /\ UNCHANGED <<turn, gone, hook, over>>

Following == [load |-> "head", head |-> "snapshot", snapshot |-> "save", start |-> "fill"]

(* The saved cache, the head (also when it cannot be read), the snapshot   *)
(* and, below, the first block of the stream.                              *)
Goes(w, what) ==
    \/ Stops(w, what)
    \/ /\ awaits[w] = what /\ w \notin gone
       /\ To(w, Following[what])
       /\ UNCHANGED <<turn, gone, opened, disposers, hook, over>>

CacheLoads(w)    == Goes(w, "load")
HeadIsRead(w)    == Goes(w, "head")
SnapshotLoads(w) == Goes(w, "snapshot")
StreamStarts(w)  == Goes(w, "start")

(* The save is done: the stream is created, which takes the hook, and is   *)
(* subscribed to; only then is the disposal looked at.  The disposal of a  *)
(* stream (its finalize) takes whatever hook there is away.                *)
SaveEnds(w) ==
    /\ awaits[w] = "save"
    /\ Own(w, {Its(w, "stream")})
    /\ hook' = IF w \in gone THEN NoStream ELSE <<w, turn[w]>>
    /\ To(w, IF w \in gone THEN "ended" ELSE "start")
    /\ UNCHANGED <<turn, gone, over>>

(* The image is put out, and the stream's events after it ... *)
FillEnds(w) ==
    \/ Stops(w, "fill")
    \/ /\ awaits[w] = "fill" /\ w \notin gone
       /\ To(w, "live")
       /\ UNCHANGED <<turn, gone, opened, disposers, hook, over>>

(* ... or cannot be: the run ends, and another follows after a delay.      *)
OutputFails(w) ==
    /\ awaits[w] = "fill" /\ w \notin gone
    /\ To(w, IF turn[w] > MaxRetries THEN "failed" ELSE "retrying")
    /\ UNCHANGED <<turn, gone, opened, disposers, hook, over>>

RetryInit(w) ==
    \/ Stops(w, "retrying")
    \/ /\ awaits[w] = "retrying" /\ w \notin gone
       /\ turn' = [turn EXCEPT ![w] = @ + 1]
       /\ To(w, "provider")
       /\ opened' = opened \cup {<<w, turn'[w], "provider">>}
       /\ UNCHANGED <<gone, disposers, hook, over>>

(* Any other await that fails makes the worker report FAILED, or nothing   *)
(* when nobody listens any more.                                           *)
StepFails(w) ==
    /\ awaits[w] \in {"store", "load", "snapshot", "save", "fill"}
    /\ To(w, "failed")
    /\ UNCHANGED <<turn, gone, opened, disposers, hook, over>>

(* dispose(): every disposer registered so far runs, a stream's among them *)
(* takes the hook away.  The daemon disposes of a worker that is not LIVE, *)
(* or when it stops.                                                       *)
DisposeOf(w) ==
    LET mine == {x \in disposers : x[1] = w}
    IN  /\ awaits[w] # "unborn" /\ w \notin gone
        /\ gone' = gone \cup {w}
        /\ opened' = opened \ mine
        /\ disposers' = disposers \ mine
        /\ hook' = IF \E x \in mine : x[3] = "stream" THEN NoStream ELSE hook
        /\ UNCHANGED <<awaits, turn>>

TearsDown(w) == awaits[w] # "live" /\ DisposeOf(w) /\ UNCHANGED over

StopsDaemon(w) == ~ over /\ over' = TRUE /\ DisposeOf(w)

WorkerNext == \E w \in WorkerIds :
    \/ BootWorker(w) \/ ConfigArrives(w)
    \/ ProviderUp(w) \/ ProviderFails(w) \/ StoreOpens(w)
    \/ CacheLoads(w) \/ HeadIsRead(w) \/ SnapshotLoads(w)
    \/ SaveEnds(w) \/ StreamStarts(w) \/ FillEnds(w)
    \/ OutputFails(w) \/ RetryInit(w) \/ StepFails(w)
    \/ TearsDown(w) \/ StopsDaemon(w)

WorkerSpec == WorkerInit /\ [][WorkerNext]_workerVars

-----------------------------------------------------------------------------
(* Whenever a worker is disposed of, and however often it had begun again, *)
(* all that its runs open is closed: what is still open is a provider that *)
(* a run is waiting for, which will close it (own()), and the keepalive    *)
(* timer of one that never connected, whose disposer nobody was given.     *)
NothingOutlives ==
    \A w \in gone : \A x \in opened :
        x[1] = w => \/ x[3] = "keepalive"
                    \/ x = Its(w, "provider") /\ awaits[w] = "provider"

(* "Now dispose() sets a flag, initOnce() checks it after every await"     *)
(* (src/workers/sync/Worker.ts:141): a disposed worker's late resumption   *)
(* does not touch the LIVE one, whose stream answers the catch-up calls.   *)
HookIsLive ==
    \A w \in WorkerIds \ gone : awaits[w] = "live" => hook = <<w, turn[w]>>

=============================================================================
