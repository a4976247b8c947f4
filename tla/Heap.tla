-------------------------------- MODULE Heap --------------------------------
(***************************************************************************)
(* How the daemon comes by a heap its cold boot fits in: decideHeap         *)
(* (src/heap.ts) and what ensureDaemonHeap (src/cli.ts) does about it,      *)
(* which may be to replace the process's image.  Sizes are in MiB.          *)
(***************************************************************************)
EXTENDS Naturals

CONSTANTS
    HeapFloor,     \* COLD_BOOT_HEAP_FLOOR_MB
    HeapTarget,    \* DAEMON_HEAP_TARGET_MB
    MinMem,        \* MIN_EFFECTIVE_MEM_MB
    Limits,        \* the limits a V8 may enforce
    Memories       \* the machines

ASSUME HeapAssumption ==
    /\ HeapFloor \in Nat /\ HeapTarget \in Nat /\ MinMem \in Nat
    /\ Limits \subseteq Nat /\ Memories \subseteq Nat

VARIABLES
    limitMb,      \* the limit of this image
    byOperator,   \* the operator passed --max-old-space-size
    explicit,     \* this image finds the flag in its options
    marker,       \* KAMI_LENS_HEAP_REEXEC is set
    memory,       \* min(os.totalmem(), cgroup limit)
    image,        \* "deciding", "running", "warned" or "refused"
    images        \* how many images the process has had

heapVars == <<limitMb, byOperator, explicit, marker, memory, image, images>>

HeapInit ==
    /\ limitMb \in Limits /\ memory \in Memories /\ byOperator \in BOOLEAN
    /\ explicit = byOperator
    /\ marker = FALSE /\ image = "deciding" /\ images = 1

-----------------------------------------------------------------------------
(* decideHeap: its branches in their order. *)
Enough == limitMb >= HeapFloor

OperatorSaidSoOrWeDid == explicit    \* mutant: takes the re-exec's flag for the operator's

OperatorSaidSo == explicit /\ ~ marker

(* Three quarters of the machine, up to the target. *)
TargetMb ==
    LET share == (memory * 3) \div 4
    IN  IF share < HeapTarget THEN share ELSE HeapTarget

WorthAnImage == ~ marker /\ memory >= MinMem /\ TargetMb >= HeapFloor

(* heapSource: the marker is asked first. *)
HeapSource ==
    IF marker THEN "self-configured" ELSE IF explicit THEN "explicit" ELSE "default"

-----------------------------------------------------------------------------
Decided(how) ==
    /\ image = "deciding" /\ image' = how
    /\ UNCHANGED <<limitMb, byOperator, explicit, marker, memory, images>>

HeapProceed == Enough /\ Decided("running")

HeapWarnProceed == ~ Enough /\ OperatorSaidSo /\ Decided("warned")

HeapRefuse == ~ Enough /\ ~ OperatorSaidSo /\ ~ WorthAnImage /\ Decided("refused")

(* No execve before Node 22.15; or there is one and it fails. *)
NoExecve == ~ Enough /\ ~ OperatorSaidSo /\ WorthAnImage /\ Decided("refused")

(* execve: the same process decides again, with the flag in its options; *)
(* the limit is what its V8 makes of the target.                         *)
HeapReexec ==
    /\ image = "deciding" /\ ~ Enough /\ ~ OperatorSaidSo /\ WorthAnImage
    /\ limitMb' \in Limits
    /\ explicit' = TRUE /\ marker' = TRUE
    /\ images' = images + 1
    /\ UNCHANGED <<byOperator, memory, image>>

HeapNext == HeapProceed \/ HeapWarnProceed \/ HeapRefuse \/ NoExecve \/ HeapReexec

HeapSpec == HeapInit /\ [][HeapNext]_heapVars

-----------------------------------------------------------------------------
HeapTypeOK ==
    /\ limitMb \in Limits /\ memory \in Memories
    /\ byOperator \in BOOLEAN /\ explicit \in BOOLEAN /\ marker \in BOOLEAN
    /\ image \in {"deciding", "running", "warned", "refused"}
    /\ images \in Nat

(* "the daemon never starts a cold load it cannot finish for lack of heap"  *)
(* (src/heap.ts): short of heap it runs only where the operator asked for   *)
(* that size, and never after a size of its own.                            *)
NeverShortUnasked ==
    /\ image = "running" => limitMb >= HeapFloor
    /\ image = "warned" => byOperator /\ images = 1

(* "if it is set and the heap is STILL short, the daemon refuses rather     *)
(* than re-exec a second time" (src/heap.ts): a process has two images at   *)
(* most, and only one where the operator chose.                             *)
OneReexec == images <= 2 /\ (byOperator => images = 1)

(* status.heap.source tells who arranged the heap that is served            *)
(* (src/heap.ts heapSource), whatever the image finds in its options.       *)
SourceIsTrue ==
    image \in {"running", "warned"} =>
        HeapSource = IF images > 1 THEN "self-configured"
                     ELSE IF byOperator THEN "explicit" ELSE "default"

=============================================================================
