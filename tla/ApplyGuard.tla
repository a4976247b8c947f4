----------------------------- MODULE ApplyGuard -----------------------------
(***************************************************************************)
(* The apply path (src/network/setup/utils.ts, applyNetworkUpdates, with   *)
(* applyMark of src/sync-health.ts): the one place where stream frames,    *)
(* proven chain reads and the boot image land, the ordering guard that     *)
(* decides what may be written, and the marks that move appliedThrough     *)
(* and reconciledThrough.                                                  *)
(*                                                                         *)
(* The environment of this module is deliberately weak: frames arrive in   *)
(* chain order per block but ranges may be read and delivered in any       *)
(* order, marks claim anything, and an unplaced value may be any write.    *)
(***************************************************************************)
EXTENDS Chain

VARIABLES
    mirror,      \* the write each key holds
    place,       \* lastPos: block and finality of the last placed write
    applied,     \* syncHealth.appliedThrough
    reconciled   \* syncHealth.reconciledThrough

guardVars == <<mirror, place, applied, reconciled>>

Null    == -1
Bounds  == Blocks \cup {Null}
Places  == [block : Bounds, final : BOOLEAN]
NoPlace == [block |-> Null, final |-> FALSE]

Mark(anchor, through, rec) ==
    [anchor |-> anchor, through |-> through, reconciled |-> rec]
Marks == [anchor : Bounds, through : Blocks, reconciled : BOOLEAN]

(***************************************************************************)
(* The guard: a write of block b is skipped iff its key holds a write of a *)
(* later block, or the final write of b.                                   *)
(***************************************************************************)
SkippedByBlockOnly(k, b) == place[k].block > b   \* mutant: finality is forgotten

Skipped(k, b) ==
    \/ place[k].block > b
    \/ place[k].block = b /\ place[k].final

(***************************************************************************)
(* applyMark: the mark counts once what it is anchored on is held.         *)
(***************************************************************************)
AppliedAfterNext(m) ==       \* mutant: claims the block after the one read
    IF m.anchor = Null \/ (applied # Null /\ applied >= m.anchor)
    THEN m.through + 1
    ELSE applied

AppliedAfterStrict(m) ==     \* mutant: a mark must start below what is held
    IF /\ m.anchor = Null \/ (applied # Null /\ applied > m.anchor)
       /\ applied = Null \/ m.through > applied
    THEN m.through
    ELSE applied

AppliedAfter(m) ==
    IF /\ m.anchor = Null \/ (applied # Null /\ applied >= m.anchor)
       /\ applied = Null \/ m.through > applied
    THEN m.through
    ELSE applied

ReconciledAfter(m) ==
    IF /\ m.reconciled
       /\ reconciled # Null /\ m.anchor # Null
       /\ reconciled >= m.anchor
       /\ m.through > reconciled
    THEN m.through
    ELSE reconciled

(* prune: once the bound advances to r, places below r are forgotten; r's  *)
(* own block is kept.                                                      *)
PrunedThrough(pl, m) ==      \* mutant: r's own block is forgotten too
    IF ReconciledAfter(m) # reconciled
    THEN [k \in Keys |-> IF pl[k].block <= ReconciledAfter(m) THEN NoPlace ELSE pl[k]]
    ELSE pl

Pruned(pl, m) ==
    IF ReconciledAfter(m) # reconciled
    THEN [k \in Keys |-> IF pl[k].block < ReconciledAfter(m) THEN NoPlace ELSE pl[k]]
    ELSE pl

(***************************************************************************)
(* One batch whose updates all have a place: at most one write per key     *)
(* (ups: key -> write), all of them final or none, and the mark its last   *)
(* update carries.                                                         *)
(***************************************************************************)
Taken(ups) == {k \in DOMAIN ups : ~Skipped(k, BlockOf[ups[k]])}

PlaceAfterAny(ups, final) == \* mutant: a skipped write is remembered as well
    [k \in Keys |-> IF k \in DOMAIN ups
                    THEN [block |-> BlockOf[ups[k]], final |-> final]
                    ELSE place[k]]

PlaceAfter(ups, final) ==
    [k \in Keys |-> IF k \in Taken(ups)
                    THEN [block |-> BlockOf[ups[k]], final |-> final]
                    ELSE place[k]]

Land(ups, final, m) ==
    /\ mirror' = [k \in Keys |-> IF k \in Taken(ups) THEN ups[k] ELSE mirror[k]]
    /\ place' = Pruned(PlaceAfter(ups, final), m)
    /\ applied' = AppliedAfter(m)
    /\ reconciled' = ReconciledAfter(m)

LandFrameAsFinal(i, m) ==    \* mutant: a frame passes for its block's last write
    Land([k \in {KeyOf[i]} |-> i], TRUE, m)

(* A stream frame carries one write, never final. *)
LandFrame(i, m) == Land([k \in {KeyOf[i]} |-> i], FALSE, m)

(* A proven read of blocks f..t, collapsed: each write is the last of its  *)
(* block for its key.  A range without writes is a bare marker.            *)
LandProven(f, t, m) == Land(Collapsed(f, t), TRUE, m)

(* An update without a position (state cache, diff) is written             *)
(* unconditionally and forgets the key's place.                            *)
LandUnplaced(k, v) ==
    /\ mirror' = [mirror EXCEPT ![k] = v]
    /\ place' = [place EXCEPT ![k] = NoPlace]
    /\ UNCHANGED <<applied, reconciled>>

(* The reconcile baseline, seeded once the boot image is loaded. *)
Seed(b) ==
    /\ reconciled = Null \/ b > reconciled
    /\ reconciled' = b
    /\ UNCHANGED <<mirror, place, applied>>

GuardInit ==
    /\ mirror = [k \in Keys |-> 0]
    /\ place = [k \in Keys |-> NoPlace]
    /\ applied = Null
    /\ reconciled = Null

(* Frames of one block arrive in chain order: the frame of write i is only *)
(* delivered to a key that holds no later write of the same block from an  *)
(* earlier frame.                                                          *)
InOrder(i) ==
    LET p == place[KeyOf[i]]
    IN  p.block = BlockOf[i] /\ ~p.final => mirror[KeyOf[i]] <= i

FrameStep  == \E i \in Logs, m \in Marks :
                  KeyOf[i] \in Keys /\ InOrder(i) /\ LandFrame(i, m)
ProvenStep == \E f, t \in Blocks, m \in Marks : LandProven(f, t, m)
LooseStep  == \E k \in Keys : \E v \in Writes(k) \cup {0} : LandUnplaced(k, v)
SeedStep   == \E b \in Blocks : Seed(b)

GuardNext == FrameStep \/ ProvenStep \/ LooseStep \/ SeedStep

GuardSpec == GuardInit /\ [][GuardNext]_guardVars

-----------------------------------------------------------------------------
GuardTypeOK ==
    /\ mirror \in [Keys -> 0..NLogs]
    /\ place \in [Keys -> Places]
    /\ applied \in Bounds
    /\ reconciled \in Bounds

(* The remembered place is the place of the value the mirror holds: the    *)
(* guard's decisions are about the value on the screen, not about a write  *)
(* that was skipped or overwritten since (utils.ts lines 254-267, 315-344).*)
PlaceIsTrue ==
    \A k \in Keys : place[k] # NoPlace =>
        /\ mirror[k] \in Writes(k)
        /\ BlockOf[mirror[k]] = place[k].block

(* A final place means what it says: no write of that key, in that block   *)
(* or an earlier one, is newer than the value held.                        *)
FinalIsLast ==
    \A k \in Keys : place[k].final => UpToDate(k, mirror[k], place[k].block)

(* The promise of the guard (banner of utils.ts, rules I1 to I3): while a  *)
(* key's place is remembered, neither a frame nor a chain read of any age, *)
(* in any order, replaces its value by an older one.  The one update that  *)
(* may is one without a position, which leaves the key without a place and *)
(* moves no bound.                                                         *)
HoldsGround ==
    [][\A k \in Keys : place[k] # NoPlace /\ mirror'[k] < mirror[k] =>
           place'[k] = NoPlace /\ UNCHANGED <<applied, reconciled>>]_guardVars

=============================================================================
