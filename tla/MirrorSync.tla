----------------------------- MODULE MirrorSync -----------------------------
(***************************************************************************)
(* The live synchronisation of the mirror: the Kamigaze stream with its    *)
(* continuity check and gap heals, the periodic reconcile and the          *)
(* --at-least catch-up (src/workers/sync/stream), over the apply path.     *)
(*                                                                         *)
(* A step is what one turn of the event loop does: everything between two  *)
(* awaits is atomic, and a chain read is two steps, its start and its      *)
(* return, between which every other actor may move.  The chain is never   *)
(* reorganised, so what a read returns depends only on how far it was      *)
(* proven.  Frames between two arrivals may be lost without a trace.       *)
(***************************************************************************)
EXTENDS ApplyGuard

CONSTANTS
    BootHead,      \* the chain's head when the daemon goes LIVE
    Boots,         \* the boots to consider: see Boot below
    GapMax,        \* GAP_RPC_MAX_BLOCKS: the widest gap read from the chain alone
    PassMax,       \* RECONCILE_PASS_MAX_BLOCKS
    CatchUpMax,    \* CATCHUP_MAX_BLOCKS
    ReconcileOn,   \* reconcileIntervalMs > 0
    MaxCatchUps,   \* bound: catch-up reads of one behaviour
    MaxTeardowns   \* bound: teardowns that find a heal in flight

(* What a boot hands over: the block its image may claim, the stream's     *)
(* start block, the highest block a position-less value may reflect, and   *)
(* the block its image is really complete through.                         *)
Boot == [baseline : 0..BootHead, start : 0..BootHead,
         frontier : 0..BootHead, filled : 0..BootHead]

ASSUME SyncAssumption ==
    /\ BootHead \in Blocks
    /\ Boots \subseteq {b \in Boot : /\ b.frontier >= b.baseline
                                     /\ b.frontier >= b.start
                                     /\ b.frontier >= b.filled
                                     /\ b.filled >= b.baseline}
    /\ GapMax \in Nat \ {0} /\ PassMax \in Nat \ {0} /\ CatchUpMax \in Nat \ {0}
    /\ ReconcileOn \in BOOLEAN
    /\ MaxCatchUps \in Nat /\ MaxTeardowns \in Nat

VARIABLES
    head,         \* the chain's head block
    boot,         \* the boot this process made
    seen,         \* the last entry whose frame arrived on any subscription
    cursor,       \* expectedPrevLog{Block,Index}: 0 before the first frame
    chainAnchor,  \* the block the unbroken chain of frames started from
    frontier,     \* trackingState.frontier
    heal,         \* the entry whose frame waits for its gap heal, or 0
    diffHead,     \* what the wide gap's diff answered: see Unasked
    zombies,      \* the heals that outlive their subscription
    unhealed,     \* the blocks of syncHealth.unhealedRanges
    rcursor,      \* reconcileCursor
    held,         \* held.through (held.from is rcursor + 1), or Null
    pass,         \* the reconcile read in flight
    catchUp,      \* the catch-up read in flight
    repaired,     \* the writes counted in reconcileRepairs
    catchUps, torn  \* how often the bounded steps were taken

healVars   == <<heal, diffHead>>
streamVars == <<seen, cursor, chainAnchor, frontier, healVars, zombies, torn>>
passVars   == <<rcursor, held, pass, repaired>>
catchVars  == <<catchUp, catchUps>>
vars == <<guardVars, streamVars, passVars, catchVars, unhealed, head, boot>>

NoRead == [from |-> 0, to |-> Null, cursor |-> Null]
Reads  == [from : Nat, to : Bounds, cursor : Bounds]

(* diffHead: no diff was asked for, or none came yet; Null: it failed;     *)
(* otherwise the diff's latest block.                                      *)
Unasked == -2

CursorBlock == BlockOf[cursor]
HealFrom    == CursorBlock
HealTo      == BlockOf[heal]

(* The frontier rule: a range that starts at or below the boot frontier is *)
(* applied only if it is proven through it.                                *)
FrontierAllows(f, c) == f > frontier \/ c >= frontier

(* A backend whose head is h proves its answer through h - 1, and backends *)
(* lag: a read of f..t may come back proven through any of these blocks,   *)
(* f - 1 meaning that it proved nothing.                                   *)
ProvenThrough(f, t) == {f - 1} \cup {c \in f..t : c < head}

SettledShort(f, t) == unhealed \ (f..(t - 1))    \* mutant: the end of the range is left

(* settleHeal and abandonHeal: what is on the unhealed list afterwards. *)
Settled(f, t)   == unhealed \ (f..t)
Abandoned(f, t) == unhealed \cup (f..t)

-----------------------------------------------------------------------------
(* LIVE: each key holds some write of the image, at least as new as the    *)
(* block the image is filled through and not beyond the frontier.          *)
Image(b) == {m \in [Keys -> 0..NLogs] : \A k \in Keys :
                /\ m[k] \in Writes(k) \cup {0}
                /\ BlockOf[m[k]] <= b.frontier
                /\ UpToDate(k, m[k], b.filled)}

Init ==
    /\ head = BootHead
    /\ boot \in Boots
    /\ mirror \in Image(boot)
    /\ place = [k \in Keys |-> NoPlace]
    /\ applied = boot.start
    /\ reconciled = boot.baseline
    /\ seen = 0 /\ cursor = 0 /\ chainAnchor = Null
    /\ frontier = boot.frontier
    /\ heal = 0 /\ diffHead = Unasked /\ zombies = {} /\ torn = 0
    /\ unhealed = {}
    /\ rcursor = boot.baseline
    /\ held = Null /\ pass = NoRead /\ repaired = {}
    /\ catchUp = NoRead /\ catchUps = 0

(* A block is added to the chain. *)
Mine ==
    /\ head < MaxBlock
    /\ head' = head + 1
    /\ UNCHANGED <<guardVars, streamVars, passVars, catchVars, unhealed, boot>>

-----------------------------------------------------------------------------
(* The stream.  Frames are handled one at a time; the next one that        *)
(* arrives is that of entry i, the ones between it and the last are lost.  *)
Arrives(i) ==
    /\ heal = 0
    /\ i > seen
    /\ BlockOf[i] <= head
    /\ seen' = i

FrameMarkOwnBlock(i, anchor) ==     \* mutant: the block being streamed is claimed
    Mark(anchor, BlockOf[i], FALSE)

FrameMark(i, anchor) == Mark(anchor, BlockOf[i] - 1, FALSE)

(* A frame without an event emits nothing the apply path acts on. *)
ApplyFrame(i, anchor) ==
    IF KeyOf[i] \in Keys THEN LandFrame(i, FrameMark(i, anchor))
                         ELSE UNCHANGED guardVars

(* The prev pointer of entry i's frame is the place of entry i - 1. *)
Continues(i) ==
    /\ BlockOf[i - 1] = CursorBlock
    /\ IndexOf[i - 1] = IndexOf[cursor]

(* The first frame is not checked; the stream is subscribed after the      *)
(* image was loaded, so its frames lie above the image's block.            *)
FirstFrame(i) ==
    /\ cursor = 0
    /\ Arrives(i)
    /\ BlockOf[i] > boot.baseline
    /\ chainAnchor' = BlockOf[i - 1]
    /\ cursor' = i
    /\ ApplyFrame(i, BlockOf[i - 1])
    /\ UNCHANGED <<frontier, healVars, zombies, torn, passVars, catchVars,
                   unhealed, head, boot>>

NextFrame(i) ==
    /\ cursor # 0
    /\ Arrives(i)
    /\ Continues(i)
    /\ cursor' = i
    /\ ApplyFrame(i, chainAnchor)
    /\ UNCHANGED <<chainAnchor, frontier, healVars, zombies, torn, passVars,
                   catchVars, unhealed, head, boot>>

(* Continuity is broken: the frame waits while the gap is read. *)
GapFrame(i) ==
    /\ cursor # 0
    /\ Arrives(i)
    /\ ~ Continues(i)
    /\ heal' = i
    /\ UNCHANGED <<guardVars, cursor, chainAnchor, frontier, diffHead, zombies,
                   torn, passVars, catchVars, unhealed, head, boot>>

Wide  == HealTo - HealFrom + 1 > GapMax
Asked == heal # 0 /\ (Wide => diffHead # Unasked)

(* A wide gap asks Kamigaze for its diff first.  The diff has no positions *)
(* and may reflect writes up to its own head h, so the frontier rises.  A  *)
(* head below the gap makes no difference to the one just below it.        *)
DiffAnswers(h) ==
    /\ heal # 0 /\ Wide
    /\ diffHead = Unasked
    /\ h >= HealFrom - 1 /\ h <= head
    /\ diffHead' = h
    /\ frontier' = Max({frontier, h, HealTo})
    /\ UNCHANGED <<guardVars, seen, cursor, chainAnchor, heal, zombies, torn,
                   passVars, catchVars, unhealed, head, boot>>

DiffFails ==
    /\ heal # 0 /\ Wide
    /\ diffHead = Unasked
    /\ diffHead' = Null
    /\ UNCHANGED <<guardVars, seen, cursor, chainAnchor, frontier, heal, zombies,
                   torn, passVars, catchVars, unhealed, head, boot>>

TopUpSkipsHead == Max({HealFrom, diffHead + 1})    \* mutant: the diff's head is trusted

(* The part of the gap that is read from the chain: all of it, or what the *)
(* diff may have half ingested and what comes after it.                    *)
TopUpFrom == Max({HealFrom, diffHead - 2})

(* The diff's writes (unplaced) and then the top-up's (final), which hold  *)
(* the frame's own.  The diff has ingested every block up to c: its latest *)
(* one, or the one before it.                                              *)
LandGap(c, m) ==
    LET diff   == Collapsed(HealFrom, c)
        read   == Collapsed(TopUpFrom, HealTo)
        taken  == {k \in DOMAIN read : k \in DOMAIN diff \/ k \in Taken(read)}
    IN  /\ mirror' = [k \in Keys |-> IF k \in taken THEN read[k]
                                     ELSE IF k \in DOMAIN diff THEN diff[k]
                                     ELSE mirror[k]]
        /\ place' = [k \in Keys |->
               IF k \in taken THEN [block |-> BlockOf[read[k]], final |-> TRUE]
               ELSE IF k \in DOMAIN diff THEN NoPlace ELSE place[k]]
        /\ applied' = AppliedAfter(m)
        /\ UNCHANGED reconciled

(* The gap was read under the proof, and the frontier rule allows it: its  *)
(* writes and the frame (whose own they include) are applied, the cursor   *)
(* moves.                                                                  *)
HealDone ==
    /\ Asked
    /\ HealTo \in ProvenThrough(TopUpFrom, HealTo)
    /\ FrontierAllows(HealFrom, HealTo)
    /\ IF Touched(HealFrom, HealTo) # {}
       THEN \E c \in {diffHead - 1, diffHead} : LandGap(c, FrameMark(heal, chainAnchor))
       ELSE UNCHANGED guardVars
    /\ unhealed' = Settled(HealFrom, HealTo)
    /\ cursor' = heal
    /\ heal' = 0 /\ diffHead' = Unasked
    /\ UNCHANGED <<seen, chainAnchor, frontier, zombies, torn, passVars, catchVars,
                   head, boot>>

(* The read failed, came back short until its deadline, or ends below the  *)
(* frontier: the frame is dropped and the cursor stays where it is.  What  *)
(* is recorded is the range that was read, or that was to be applied.      *)
HealDefer ==
    /\ Asked
    /\ \/ TopUpFrom <= HealTo /\ unhealed' = Abandoned(TopUpFrom, HealTo)
       \/ ~ FrontierAllows(HealFrom, HealTo) /\ unhealed' = Abandoned(HealFrom, HealTo)
    /\ heal' = 0 /\ diffHead' = Unasked
    /\ UNCHANGED <<guardVars, seen, cursor, chainAnchor, frontier, zombies, torn,
                   passVars, catchVars, head, boot>>

(* A timeout, a wake or an error ends the subscription while it heals.     *)
(* The chain read has no abort: the heal lives on, closed.                 *)
Teardown ==
    /\ heal # 0
    /\ torn < MaxTeardowns
    /\ torn' = torn + 1
    /\ zombies' = zombies \cup {[from |-> HealFrom, to |-> HealTo, diff |-> diffHead,
                               wide |-> Wide]}
    /\ heal' = 0 /\ diffHead' = Unasked
    /\ UNCHANGED <<guardVars, seen, cursor, chainAnchor, frontier, passVars,
                   catchVars, unhealed, head, boot>>

(* A closed heal returns: nothing is applied, but a diff that it still got *)
(* has raised the frontier; what it read, or its whole range, is abandoned.*)
ZombieEnds(z) ==
    /\ \E h \in IF z.wide /\ z.diff = Unasked THEN (z.from - 1)..head \cup {Null} ELSE {z.diff} :
          /\ frontier' = IF h = z.diff \/ h = Null THEN frontier
                                                   ELSE Max({frontier, h, z.to})
          /\ \E f \in {z.from, Max({z.from, h - 2})} : unhealed' = Abandoned(f, z.to)
    /\ zombies' = zombies \ {z}
    /\ UNCHANGED <<guardVars, seen, cursor, chainAnchor, healVars, torn,
                   passVars, catchVars, head, boot>>

-----------------------------------------------------------------------------
(* The periodic reconcile. *)
PassFrom == IF held = Null THEN rcursor + 1 ELSE held + 1

PassStart ==
    /\ ReconcileOn
    /\ pass = NoRead
    /\ cursor # 0
    /\ CursorBlock > rcursor
    /\ PassFrom <= CursorBlock
    /\ pass' = [from |-> PassFrom,
                to |-> Min({CursorBlock, PassFrom + PassMax - 1}),
                cursor |-> CursorBlock]
    /\ UNCHANGED <<guardVars, streamVars, rcursor, held, repaired, catchVars,
                   unhealed, head, boot>>

RepairsOfCursorBlock(ups) ==    \* mutant: the block being streamed counts too
    {ups[k] : k \in {x \in Taken(ups) : /\ rcursor + 1 > frontier
                                        /\ BlockOf[ups[x]] <= pass.cursor
                                        /\ mirror[x] # ups[x]}}

(* The writes a pass above the frontier had to change, in blocks the       *)
(* stream had already left when the pass started.                          *)
Repairs(ups) ==
    {ups[k] : k \in {x \in Taken(ups) : /\ rcursor + 1 > frontier
                                        /\ BlockOf[ups[x]] < pass.cursor
                                        /\ mirror[x] # ups[x]}}

PassLands(through) ==
    LandProven(rcursor + 1, through, Mark(rcursor, through, TRUE))

ApplyPass(through) ==
    /\ PassLands(through)
    /\ repaired' = repaired \cup Repairs(Collapsed(rcursor + 1, through))
    /\ rcursor' = through
    /\ held' = Null
    /\ unhealed' = Settled(rcursor + 1, through)

HoldNothing(through) ==         \* mutant: a held range is read again from its start
    /\ held' = Null
    /\ UNCHANGED <<guardVars, rcursor, repaired, unhealed>>

HoldPass(through) ==
    /\ held' = through
    /\ UNCHANGED <<guardVars, rcursor, repaired, unhealed>>

(* A pass returns, proven through c: it adds c to what is held, and        *)
(* applies all of it once the frontier rule allows.                        *)
PassDone(c) ==
    LET through == IF c >= pass.from THEN c ELSE held
    IN  /\ pass # NoRead
        /\ c \in ProvenThrough(pass.from, pass.to)
        /\ IF through # Null /\ FrontierAllows(rcursor + 1, through)
           THEN ApplyPass(through)
           ELSE HoldPass(through)
        /\ pass' = NoRead
        /\ UNCHANGED <<streamVars, catchVars, head, boot>>

-----------------------------------------------------------------------------
(* The catch-up an --at-least waiter asks for: a proven read of what lies  *)
(* between appliedThrough and its target.                                  *)
CatchUpStart(target) ==
    /\ catchUp = NoRead
    /\ catchUps < MaxCatchUps
    /\ catchUps' = catchUps + 1
    /\ applied < target /\ target < head
    /\ catchUp' = [from |-> applied + 1,
                   to |-> Min({target, applied + CatchUpMax}),
                   cursor |-> Null]
    /\ UNCHANGED <<guardVars, streamVars, passVars, unhealed, head, boot>>

CatchUpMarkAll(c) ==    \* mutant: claims what was asked for, not what was proven
    Mark(catchUp.from - 1, catchUp.to, FALSE)

CatchUpMark(c) == Mark(catchUp.from - 1, c, FALSE)

CatchUpDone(c) ==
    /\ catchUp # NoRead
    /\ c \in ProvenThrough(catchUp.from, catchUp.to)
    /\ IF c >= catchUp.from /\ FrontierAllows(catchUp.from, c)
       THEN LandProven(catchUp.from, c, CatchUpMark(c))
       ELSE UNCHANGED guardVars
    /\ catchUp' = NoRead
    /\ UNCHANGED <<streamVars, passVars, catchUps, unhealed, head, boot>>

-----------------------------------------------------------------------------
Stream    == \E i \in Logs : FirstFrame(i) \/ NextFrame(i) \/ GapFrame(i)
Heal      == \/ HealDone \/ HealDefer \/ Teardown
             \/ DiffFails \/ \E h \in Blocks : DiffAnswers(h)
             \/ \E z \in zombies : ZombieEnds(z)
Reconcile == PassStart \/ \E c \in Blocks : PassDone(c)
CatchUp   == \E b \in Blocks : CatchUpStart(b) \/ CatchUpDone(b)

Next == Mine \/ Stream \/ Heal \/ Reconcile \/ CatchUp

Spec == Init /\ [][Next]_vars

(* A pass that gets as far as the chain allows when it returns.            *)
FullPass == \E c \in Blocks :
    /\ \A d \in ProvenThrough(pass.from, pass.to) : d <= c
    /\ PassDone(c)

(* Blocks keep coming, the reconcile ticks, and a read does not come back  *)
(* short for ever.  Nothing is assumed of the stream or of gap heals.      *)
FairSpec == Spec /\ WF_vars(Mine) /\ WF_vars(PassStart) /\ SF_vars(FullPass)

-----------------------------------------------------------------------------
TypeOK ==
    /\ GuardTypeOK
    /\ head \in Blocks
    /\ boot \in Boot
    /\ seen \in 0..NLogs /\ cursor \in 0..NLogs /\ heal \in 0..NLogs
    /\ chainAnchor \in Bounds
    /\ frontier \in Blocks
    /\ diffHead \in Bounds \cup {Unasked}
    /\ zombies \subseteq [from : Blocks, to : Blocks, wide : BOOLEAN,
                           diff : Bounds \cup {Unasked}]
    /\ unhealed \subseteq Blocks
    /\ rcursor \in Blocks /\ held \in Bounds
    /\ pass \in Reads /\ catchUp \in Reads
    /\ repaired \subseteq Logs
    /\ catchUps \in 0..MaxCatchUps /\ torn \in 0..MaxTeardowns

(* reconciledThrough keeps its word: every write of every block up to it   *)
(* is in the mirror, whatever the stream lost and however reads, frames    *)
(* and teardowns interleave.                                               *)
ReconciledIsHeld == \A k \in Keys : UpToDate(k, mirror[k], reconciled)

(* appliedThrough keeps its word once the stream is past the boot          *)
(* frontier: every write of every block up to it is in the mirror.         *)
AppliedIsHeld ==
    (cursor # 0 /\ CursorBlock > boot.frontier) =>
        \A k \in Keys : UpToDate(k, mirror[k], applied)

(* No older write replaces a newer one.  The one exception is the boot: a  *)
(* frame may lower a key that holds a position-less value, within the      *)
(* frontier.                                                               *)
NeverOlder ==
    [][\A k \in Keys : mirror'[k] < mirror[k] =>
           /\ seen' # seen
           /\ place[k] = NoPlace
           /\ BlockOf[mirror[k]] <= boot.frontier]_vars

(* A block on the unhealed list is one that some read still has before it: *)
(* the next pass starts below it, or the next gap heal covers it.          *)
UnhealedIsAhead ==
    \A b \in unhealed : b > rcursor \/ b >= CursorBlock

(* appliedThrough is never behind reconciledThrough. *)
AppliedCoversReconciled == applied >= reconciled

(* The repair tripwire is silent unless the stream really missed a write:  *)
(* with frames that continue the boot's start block, nothing is repaired.  *)
RepairsAreLosses == repaired # {} => chainAnchor > boot.start

(* Every block the stream has moved past is eventually vouched for,        *)
(* whatever the stream and the heals do next, unless the diff of a wide    *)
(* gap raises the frontier above the stream: no pass starts until frames   *)
(* have passed it, and nothing obliges them to come.                       *)
ReconcileCatchesUp ==
    \A b \in Blocks :
        (cursor # 0 /\ CursorBlock >= frontier /\ b <= CursorBlock /\ b < MaxBlock)
            ~> (reconciled >= b \/ CursorBlock < frontier)

=============================================================================
