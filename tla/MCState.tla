------------------------------- MODULE MCState -------------------------------
(***************************************************************************)
(* How state gets into the mirror, onto the disk and out to a reader: the  *)
(* apply path, the boot, the state cache's tables, the store's files and   *)
(* its flushes, the channel of the worker's output, the entities and their *)
(* indexers, the derived rows and the heap they need, which share no       *)
(* variable, checked side by side.                                         *)
(* A behaviour is one of one part, the others rest where they start.       *)
(***************************************************************************)
EXTENDS ApplyGuard, Boot, IndexTables, StateStore, StoreFlush, Plumbing,
        Entities, Projection, Heap

CONSTANTS a, b, none, w1, w2, w3, daemon, child

VARIABLE focus    \* the part whose behaviour this is

stateVars == <<focus, guardVars, bootVars, indexVars, vars, flushVars,
               plumbingVars, entityVars, projectionVars, heapVars>>

(* Block 2 writes key a twice, in two transactions (equal log indices),    *)
(* the second time removing it, and key b; block 3 writes a once more.     *)
MCKeys     == {a, b}
MCNLogs    == 6
Chain6     == <<1, 1, 2, 2, 2, 3>>
MCBlockOf  == [i \in 0..MCNLogs |-> IF i = 0 THEN 0 ELSE Chain6[i]]
MCKeyOf    == <<a, b, a, a, b, a>>
MCIndexOf  == [i \in 0..MCNLogs |-> 0]
MCRemovals == {3, 6}

(* The service numbers its entities anew once. *)
MCOrders  == <<<<1, 2>>, <<2, 1>>>>
MCOrders3 == <<<<1, 2, 3>>>>

(* Two stores of the daemon's process and one of a checkpoint child. *)
MCWriters == {w1, w2, w3}
MCPids    == {daemon, child}
MCPidOf   == [w \in MCWriters |-> IF w = w3 THEN child ELSE daemon]

(* Around each boundary of the heap's decision. *)
MCLimits   == {2096, 5119, 5120, 6144}
MCMemories == {5631, 5632, 6826, 6827, 8192}

Alone(p) ==
    /\ focus = p
    /\ UNCHANGED focus
    /\ IF p = "guard" THEN TRUE ELSE UNCHANGED guardVars
    /\ IF p = "boot"  THEN TRUE ELSE UNCHANGED bootVars
    /\ IF p = "index" THEN TRUE ELSE UNCHANGED indexVars
    /\ IF p = "store" THEN TRUE ELSE UNCHANGED vars
    /\ IF p = "flush" THEN TRUE ELSE UNCHANGED flushVars
    /\ IF p = "plumbing"   THEN TRUE ELSE UNCHANGED plumbingVars
    /\ IF p = "entities"   THEN TRUE ELSE UNCHANGED entityVars
    /\ IF p = "projection" THEN TRUE ELSE UNCHANGED projectionVars
    /\ IF p = "heap"       THEN TRUE ELSE UNCHANGED heapVars

StateInit ==
    /\ focus \in {"guard", "boot", "index", "store", "flush",
                  "plumbing", "entities", "projection", "heap"}
    /\ GuardInit /\ BootInit /\ IndexInit /\ Init /\ FlushInit
    /\ PlumbingInit /\ EntitiesInit /\ ProjectionInit /\ HeapInit
    /\ focus # "boot" => height = 1
    /\ focus # "store" => primary = "missing" /\ prev = "missing"
    /\ focus # "heap" => limitMb = 6144 /\ memory = 8192 /\ ~ byOperator

StateNext ==
    \/ Alone("guard") /\ GuardNext
    \/ Alone("boot")  /\ BootNext
    \/ Alone("index") /\ IndexNext
    \/ Alone("store") /\ Next
    \/ Alone("flush") /\ FlushNext
    \/ Alone("plumbing")   /\ PlumbingNext
    \/ Alone("entities")   /\ EntitiesNext
    \/ Alone("projection") /\ ProjectionNext
    \/ Alone("heap")       /\ HeapNext

StateSpec ==
    /\ StateInit /\ [][StateNext]_stateVars
    /\ WF_stateVars(Alone("plumbing") /\ WindowCloses)
    /\ WF_stateVars(Alone("plumbing") /\ TimerAck)

=============================================================================
