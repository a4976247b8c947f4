----------------------------- MODULE StateStore -----------------------------
(***************************************************************************)
(* The state cache on disk (src/workers/sync/state/store.ts): one snapshot *)
(* file, its previous generation, and the temp files of the writers.       *)
(*                                                                         *)
(* A writer is one FileStateStore.  Several live at once: the sync         *)
(* worker's, the one a re-initialised worker opens in the same process,    *)
(* and the checkpoint child's in another process, which outlives a daemon  *)
(* that is killed.  A step is one file system call; processes are killed   *)
(* between any two.  Of a file's content only readability is kept.         *)
(***************************************************************************)
CONSTANTS
    Writers,   \* the stores that may be open
    Pids,      \* the processes
    PidOf      \* the process of each writer

ASSUME StoreAssumption == PidOf \in [Writers -> Pids]

VARIABLES
    primary,   \* the snapshot file
    prev,      \* its previous generation
    temps,     \* the writers whose temp file exists
    alive,     \* the running processes
    stage,     \* what each store is doing
    rotate,    \* rotatePrimary
    owed       \* history: a generation was readable when the load began

files == <<primary, prev>>
vars  == <<files, temps, alive, stage, rotate, owed>>

Contents == {"missing", "broken", "good"}

Loading    == {"opened", "retry"}
Loaded     == {"empty", "ready"}
Committing == {"writing", "written", "rotated"}
Stages     == {"closed"} \cup Loading \cup Loaded \cup Committing

Readable == primary = "good" \/ prev = "good"

(* Any files may be found: a fresh install, or a primary that this version *)
(* cannot read.                                                            *)
Init ==
    /\ primary \in Contents /\ prev \in Contents
    /\ temps = {} /\ alive = {}
    /\ stage = [w \in Writers |-> "closed"]
    /\ rotate = [w \in Writers |-> TRUE]
    /\ owed = [w \in Writers |-> FALSE]

Goes(w, from, to) ==
    /\ stage[w] \in from
    /\ stage' = [stage EXCEPT ![w] = to]

Start(p) ==
    /\ p \notin alive
    /\ alive' = alive \cup {p}
    /\ UNCHANGED <<files, temps, stage, rotate, owed>>

(* A process ends, killed or done, wherever its stores are. *)
Exit(p) ==
    /\ p \in alive
    /\ alive' = alive \ {p}
    /\ stage' = [w \in Writers |-> IF PidOf[w] = p THEN "closed" ELSE stage[w]]
    /\ UNCHANGED <<files, temps, rotate, owed>>

SweptAll(w) == {}    \* mutant: every temp file counts as an orphan

(* removeOrphanedTempFiles: what is left after w's load has swept. *)
Swept(w) == {v \in temps : PidOf[v] \in alive \cup {PidOf[w]}}

Open(w) ==
    /\ PidOf[w] \in alive
    /\ Goes(w, {"closed"}, "opened")
    /\ temps' = Swept(w)
    /\ rotate' = [rotate EXCEPT ![w] = TRUE]
    /\ owed' = [owed EXCEPT ![w] = Readable]
    /\ UNCHANGED <<files, alive>>

FreshIfMissing(w) ==    \* mutant: a missing primary is taken for a fresh install
    /\ Goes(w, {"opened"}, CASE primary = "good"    -> "ready"
                             [] primary = "missing" -> "empty"
                             [] OTHER               -> "retry")
    /\ UNCHANGED <<files, temps, alive, rotate, owed>>

(* readSnapshotFile tries the primary first, then the previous generation. *)
ReadPrimary(w) ==
    /\ Goes(w, {"opened"}, IF primary = "good" THEN "ready" ELSE "retry")
    /\ UNCHANGED <<files, temps, alive, rotate, owed>>

RotateAnyway(w) == TRUE        \* mutant: the source of the load is not looked at

RotateAfter(w) == prev # "good"

ReadPrev(w) ==
    /\ Goes(w, {"retry"}, IF prev = "good" THEN "ready" ELSE "empty")
    /\ rotate' = [rotate EXCEPT ![w] = RotateAfter(w)]
    /\ UNCHANGED <<files, temps, alive, owed>>

(* commitSnapshotFile: temp file, rotation, rename. *)
OpenTemp(w) ==
    /\ Goes(w, Loaded, "writing")
    /\ temps' = temps \cup {w}
    /\ UNCHANGED <<files, alive, rotate, owed>>

SyncTemp(w) ==
    /\ Goes(w, {"writing"}, "written")
    /\ UNCHANGED <<files, temps, alive, rotate, owed>>

(* Writing fails (a full disk): the temp file stays. *)
FailWrite(w) ==
    /\ Goes(w, {"writing"}, "ready")
    /\ UNCHANGED <<files, temps, alive, rotate, owed>>

(* A missing primary is not an error. *)
Rotate(w) ==
    /\ Goes(w, {"written"}, "rotated")
    /\ IF rotate[w] /\ primary # "missing"
       THEN prev' = primary /\ primary' = "missing"
       ELSE UNCHANGED files
    /\ UNCHANGED <<temps, alive, rotate, owed>>

Rename(w) ==
    /\ Goes(w, {"rotated"}, "ready")
    /\ w \in temps
    /\ primary' = "good"
    /\ temps' = temps \ {w}
    /\ rotate' = [rotate EXCEPT ![w] = TRUE]
    /\ UNCHANGED <<prev, alive, owed>>

(* A store is dropped: its worker was disposed of. *)
Drop(w) ==
    /\ Goes(w, Loaded, "closed")
    /\ UNCHANGED <<files, temps, alive, rotate, owed>>

Process == \E p \in Pids : Start(p) \/ Exit(p)
Load    == \E w \in Writers : Open(w) \/ ReadPrimary(w) \/ ReadPrev(w) \/ Drop(w)
Commit  == \E w \in Writers : \/ OpenTemp(w) \/ SyncTemp(w) \/ FailWrite(w)
                              \/ Rotate(w) \/ Rename(w)

Next == Process \/ Load \/ Commit

Spec == Init /\ [][Next]_vars

-----------------------------------------------------------------------------
StoreTypeOK ==
    /\ primary \in Contents /\ prev \in Contents
    /\ temps \subseteq Writers
    /\ alive \subseteq Pids
    /\ stage \in [Writers -> Stages]
    /\ rotate \in [Writers -> BOOLEAN]
    /\ owed \in [Writers -> BOOLEAN]

(* The crash safety of the commit order: once a boot could read a          *)
(* generation, every later instant leaves one it can read, whatever        *)
(* writers overlap and wherever they are killed (store.ts lines 173-185).  *)
StaysReadable == [][Readable => Readable']_vars

(* A load that begins while a generation can be read comes back with one,  *)
(* though it looks at the two files at different instants and commits may  *)
(* run in between (readSnapshotFile): it never starts an empty cache.      *)
LoadFindsIt == \A w \in Writers : owed[w] => stage[w] # "empty"

(* A commit in progress still owns its temp file, so its rename cannot     *)
(* fail: no load of another process sweeps it (removeOrphanedTempFiles).   *)
TempIsSafe == \A w \in Writers : stage[w] \in Committing => w \in temps

=============================================================================
