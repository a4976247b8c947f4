----------------------------- MODULE StoreFlush -----------------------------
(***************************************************************************)
(* The coalescing of FileStateStore.set() into snapshot writes             *)
(* (src/workers/sync/state/store.ts).                                      *)
(*                                                                         *)
(* The store in memory is the number of set() calls it has taken, a        *)
(* snapshot the number of them it holds.  toStore (state/loaders.ts) makes *)
(* its eight calls in one turn; here other calls may come between them.    *)
(* commitSnapshotFile, which StateStore.tla takes apart, is one step.      *)
(***************************************************************************)
EXTENDS Naturals

CONSTANT MaxSets    \* bound: set() calls of one behaviour

ASSUME FlushAssumption == MaxSets \in Nat

VARIABLES
    sets,       \* the calls made: what the store holds in memory
    flushing,   \* flushPromise: none, waiting for the tick to end, or writing
    flushQueued,
    serial,     \* what the write in progress holds
    written,    \* what the snapshot file holds
    caller      \* what each call's promise waits for, or how it settled

flushVars == <<sets, flushing, flushQueued, serial, written, caller>>

Calls     == 1..MaxSets
Waiting   == {"flush", "joined"}    \* its own flush; somebody else's
CallState == {"unmade"} \cup Waiting \cup {"resolved", "rejected"}

FlushInit ==
    /\ sets = 0
    /\ flushing = "none"
    /\ flushQueued = FALSE
    /\ serial = 0 /\ written = 0
    /\ caller = [c \in Calls |-> "unmade"]

(* A call starts a flush, or joins the one there is. *)
Set ==
    /\ sets < MaxSets
    /\ sets' = sets + 1
    /\ IF flushing = "none"
       THEN /\ flushing' = "tick"
            /\ caller' = [caller EXCEPT ![sets + 1] = "flush"]
            /\ UNCHANGED flushQueued
       ELSE /\ flushQueued' = TRUE
            /\ caller' = [caller EXCEPT ![sets + 1] = "joined"]
            /\ UNCHANGED flushing
    /\ UNCHANGED <<serial, written>>

(* setImmediate: the calls of the tick are in, the snapshot is serialized. *)
Serialize ==
    /\ flushing = "tick"
    /\ flushing' = "writing"
    /\ flushQueued' = FALSE
    /\ serial' = sets
    /\ UNCHANGED <<sets, written, caller>>

SettledCalls(joined) == [c \in Calls |->
    IF caller[c] = "flush" THEN "resolved"
    ELSE IF caller[c] = "joined" THEN joined[c] ELSE caller[c]]

ResolvesAll ==      \* mutant: a call that joined is done when the flush is
    /\ flushing' = "none"
    /\ caller' = SettledCalls([c \in Calls |-> "resolved"])

Joined == {c \in Calls : caller[c] = "joined"}

(* The flush is over.  Its own caller is done, and so are those that       *)
(* joined, unless a call came too late for this snapshot: then the first   *)
(* of them starts another flush and the rest join it.                      *)
FlushOver ==
    IF flushQueued /\ Joined # {}
    THEN /\ flushing' = "tick"
         /\ caller' = SettledCalls([c \in Calls |->
                IF \A d \in Joined : c <= d THEN "flush" ELSE "joined"])
    ELSE /\ flushing' = "none"
         /\ caller' = SettledCalls([c \in Calls |-> "resolved"])

FlushWritten ==
    /\ flushing = "writing"
    /\ written' = serial
    /\ FlushOver
    /\ UNCHANGED <<sets, flushQueued, serial>>

(* The write fails: every promise that waited for it is rejected. *)
FlushFails ==
    /\ flushing = "writing"
    /\ flushing' = "none"
    /\ caller' = [c \in Calls |-> IF caller[c] \in Waiting THEN "rejected" ELSE caller[c]]
    /\ UNCHANGED <<sets, flushQueued, serial, written>>

FlushNext == Set \/ Serialize \/ FlushWritten \/ FlushFails

FlushSpec == FlushInit /\ [][FlushNext]_flushVars

-----------------------------------------------------------------------------
(* A set() whose promise resolved is in the snapshot on disk, whichever    *)
(* flush it started, joined or was late for: the checkpoint child reports  *)
(* success, and the boot its saved cache, on that promise (scheduleFlush). *)
ResolvedIsOnDisk == \A c \in Calls : caller[c] = "resolved" => c <= written

=============================================================================
