------------------------------ MODULE Unhealed ------------------------------
(***************************************************************************)
(* The list of block ranges the mirror is known to miss                    *)
(* (src/sync-health.ts): heals that give up record their range, ranges     *)
(* that are read later are cleared from it.  MirrorSync.tla keeps it as a  *)
(* set of blocks; here it is the list, merged, capped and split as it is   *)
(* in the code, with the time since which it is not empty.                 *)
(***************************************************************************)
EXTENDS Naturals, Sequences, SequencesExt

CONSTANTS
    MaxRanges,       \* MAX_UNHEALED_RANGES
    UnhealedBlocks,  \* bound: the blocks are 1..UnhealedBlocks
    MaxListed,       \* bound: the longest list (splits may exceed MaxRanges)
    MaxClock         \* bound: the times are 0..MaxClock

ASSUME UnhealedAssumption ==
    /\ MaxRanges \in Nat \ {0} /\ MaxListed \in Nat
    /\ UnhealedBlocks \in Nat /\ MaxClock \in Nat

VARIABLES
    ranges,     \* unhealedRanges
    since,      \* unhealedSinceWallMs, or Never for null
    clock,      \* Date.now()
    missingAt,  \* history: when each missing block was recorded, else Never
    dropped     \* history: the missing blocks of ranges the cap pushed out

unhealedVars == <<ranges, since, clock, missingAt, dropped>>

Never     == MaxClock + 1
Missable  == 1..UnhealedBlocks
IsIn(b, r)   == r[1] <= b /\ b <= r[2]
Covers(r, f, t)  == f >= r[1] /\ t <= r[2]
Touches(r, f, t) == f <= r[2] + 1 /\ t + 1 >= r[1]
Listed    == {b \in Missable : \E i \in DOMAIN ranges : IsIn(b, ranges[i])}
Missing   == {b \in Missable : missingAt[b] # Never}

UnhealedInit ==
    /\ ranges = <<>> /\ since = Never /\ clock = 0
    /\ missingAt = [b \in Missable |-> Never] /\ dropped = {}

ClockTicks ==
    /\ clock < MaxClock
    /\ clock' = clock + 1
    /\ UNCHANGED <<ranges, since, missingAt, dropped>>

MergedKeepingEnd(r, f, t) == <<IF f < r[1] THEN f ELSE r[1], t>>   \* mutant: a range may shrink

Merged(r, f, t) == <<IF f < r[1] THEN f ELSE r[1], IF t > r[2] THEN t ELSE r[2]>>

SinceRecorded == IF ranges = <<>> THEN clock ELSE since

(* The first range that covers or touches f..t takes it in; there is no    *)
(* such range: it is appended, and the oldest makes room for it.           *)
RecordUnhealed(f, t) ==
    LET near  == {i \in DOMAIN ranges : Touches(ranges[i], f, t)}
        first == CHOOSE i \in near : \A j \in near : i <= j
        full  == near = {} /\ Len(ranges) >= MaxRanges
    IN  /\ f <= t
        /\ since' = SinceRecorded
        /\ ranges' = IF near # {}
                     THEN [ranges EXCEPT ![first] = Merged(@, f, t)]
                     ELSE Append(IF full THEN Tail(ranges) ELSE ranges, <<f, t>>)
        /\ dropped' = (IF full THEN dropped \cup {b \in Missing : IsIn(b, ranges[1])}
                               ELSE dropped) \ (f..t)
        /\ missingAt' = [b \in Missable |->
               IF b \in f..t /\ (b \notin Missing \/ b \in dropped)
               THEN clock ELSE missingAt[b]]
        /\ UNCHANGED clock

(* What is left of range r once f..t is healed: nothing, all of it, or up  *)
(* to two pieces.                                                          *)
Trimmed(r, f, t) ==
    IF r[2] < f \/ r[1] > t THEN <<r>>
    ELSE (IF r[1] < f THEN <<<<r[1], f - 1>>>> ELSE <<>>)
      \o (IF r[2] > t THEN <<<<t + 1, r[2]>>>> ELSE <<>>)

ClearUnhealed(f, t) ==
    /\ f <= t
    /\ ranges' = FlattenSeq([i \in DOMAIN ranges |-> Trimmed(ranges[i], f, t)])
    /\ Len(ranges') <= MaxListed
    /\ since' = IF ranges' = <<>> THEN Never ELSE since
    /\ dropped' = dropped \ (f..t)
    /\ missingAt' = [b \in Missable |-> IF b \in f..t THEN Never ELSE missingAt[b]]
    /\ UNCHANGED clock

UnhealedNext ==
    \/ ClockTicks
    \/ \E f, t \in Missable : RecordUnhealed(f, t) \/ ClearUnhealed(f, t)

UnhealedSpec == UnhealedInit /\ [][UnhealedNext]_unhealedVars

-----------------------------------------------------------------------------
(* The report of what is missing names no block that was healed, and       *)
(* leaves out no missing one except those the cap pushed out, however      *)
(* ranges overlap, merge and are split by partial heals (recordUnhealed    *)
(* merges into the first neighbour only, so its ranges may overlap).  And  *)
(* its alarm cannot be put off: no block on the list has been missing for  *)
(* longer than unhealedForMs says (the staleness check of daemon.ts lines  *)
(* 1094 to 1097; a dropped block is forgotten until it is recorded again), *)
(* and a list that was emptied does not leave it running.                  *)
UnhealedIsExact ==
    /\ Listed \subseteq Missing
    /\ Missing \subseteq Listed \cup dropped
    /\ \A b \in Listed : since <= missingAt[b]
    /\ since = Never <=> ranges = <<>>

=============================================================================
