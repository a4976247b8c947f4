------------------------------ MODULE Plumbing ------------------------------
(***************************************************************************)
(* How the worker's output reaches the apply path: SyncWorker.work          *)
(* (src/workers/sync/Worker.ts) buffers it by time, hands one batch over    *)
(* at a time and waits for an ack; applyNetworkUpdates                      *)
(* (src/network/setup/utils.ts) applies a batch in the call that hands it   *)
(* over and acks it, and a timer of its own acks every 100 ms.  In one      *)
(* process both are one synchronous call (src/workers/create.ts).           *)
(*                                                                          *)
(* An update is the number of its emission.                                 *)
(***************************************************************************)
EXTENDS Naturals, SequencesExt

CONSTANTS
    MaxEmitted,     \* bound: updates a worker emits
    BatchMax        \* bufferTime's third argument, 33333

ASSUME PlumbingAssumption == MaxEmitted \in Nat /\ BatchMax \in Nat \ {0}

VARIABLES
    emissions,   \* how many updates the worker has emitted
    window,      \* the updates of bufferTime's open window
    batches,     \* the batches concatMap holds back
    delivered,   \* the updates applied to the mirror, in order
    listening,   \* concatMap's inner is subscribed to the acks
    wired        \* the worker is not disposed

plumbingVars == <<emissions, window, batches, delivered, listening, wired>>

PlumbingInit ==
    /\ emissions = 0 /\ window = <<>> /\ batches = <<>> /\ delivered = <<>>
    /\ listening = FALSE /\ wired = TRUE

(* The inner observable is concat(of(batch), acks): the batch is applied     *)
(* within its first part, and the acks are listened to afterwards.  The ack  *)
(* applyNetworkUpdates sends at the end of the batch falls in between.       *)
Apply(batch) ==
    /\ delivered' = delivered \o batch
    /\ listening' = TRUE

HandOverExhausting(batch) ==    \* mutant: exhaustMap drops what comes while it waits
    IF listening THEN UNCHANGED <<batches, delivered, listening>>
    ELSE Apply(batch) /\ UNCHANGED batches

(* A window closes: concatMap starts its batch, or holds it back. *)
HandOver(batch) ==
    IF listening
    THEN batches' = Append(batches, batch) /\ UNCHANGED <<delivered, listening>>
    ELSE Apply(batch) /\ UNCHANGED batches

(* output$.next: a full window closes at once. *)
Emit ==
    /\ wired /\ emissions < MaxEmitted
    /\ emissions' = emissions + 1
    /\ LET updates == Append(window, emissions + 1)
       IN  IF Len(updates) = BatchMax
           THEN window' = <<>> /\ HandOver(updates)
           ELSE window' = updates /\ UNCHANGED <<batches, delivered, listening>>
    /\ UNCHANGED wired

(* Every 33 ms; an empty buffer is filtered out. *)
WindowCloses ==
    /\ wired /\ window # <<>>
    /\ window' = <<>>
    /\ HandOver(window)
    /\ UNCHANGED <<emissions, wired>>

TimerIsHeardWhenDrained ==    \* mutant: the timer is only for an idle apply side
    listening /\ batches = <<>>

(* The timer's ack counts when the worker waits for one. *)
TimerIsHeard == listening

(* Every 100 ms. *)
TimerAck ==
    /\ wired /\ TimerIsHeard
    /\ IF batches = <<>>
       THEN listening' = FALSE /\ UNCHANGED <<batches, delivered>>
       ELSE Apply(Head(batches)) /\ batches' = Tail(batches)
    /\ UNCHANGED <<emissions, window, wired>>

(* teardownWorker: nothing is applied any more. *)
Unwire ==
    /\ wired
    /\ wired' = FALSE
    /\ UNCHANGED <<emissions, window, batches, delivered, listening>>

PlumbingNext == Emit \/ WindowCloses \/ TimerAck \/ Unwire

PlumbingSpec ==
    PlumbingInit /\ [][PlumbingNext]_plumbingVars
    /\ WF_plumbingVars(WindowCloses) /\ WF_plumbingVars(TimerAck)

-----------------------------------------------------------------------------
(* The output path is a channel: what was emitted is applied, held back or  *)
(* in the open window, each update once and in the order of emission.  The  *)
(* marks of src/sync-health.ts and every order argued in stream.ts rest on  *)
(* it.                                                                      *)
OutputIsAChannel ==
    delivered \o FlattenSeq(batches) \o window = [i \in 1..emissions |-> i]

(* What the worker emitted is applied, unless it is disposed: no ack that   *)
(* goes unheard holds a batch back for ever (the timer's do not).           *)
OutputArrives ==
    \A n \in 1..MaxEmitted :
        (emissions >= n) ~> (Len(delivered) >= n \/ ~ wired)

=============================================================================
