-------------------------- MODULE ApplyGuardProofs --------------------------
(***************************************************************************)
(* The ordering guard, for every chain, every set of keys and every order  *)
(* of arrival.                                                             *)
(***************************************************************************)
EXTENDS ApplyGuard, WellFoundedInduction, TLAPS

(* A non-empty set of entry numbers has a newest member, and Max is it: a  *)
(* collapsed read returns, for each key it touches, the newest write.      *)
LEMMA MaxOfLogs ==
    ASSUME NLogs \in Nat, NEW S \in SUBSET (0..NLogs), S # {}
    PROVE  /\ Max(S) \in S
           /\ \A y \in S : Max(S) >= y
<1> DEFINE T == {NLogs - s : s \in S}
<1>0. \A s \in S : s \in 0..NLogs /\ NLogs - s \in Nat
  OBVIOUS
<1>1. T \subseteq Nat /\ T # {}
  BY <1>0
<1>2. PICK x \in T : \A y \in T : ~ (<<y, x>> \in OpToRel(<, Nat))
  BY <1>1, NatLessThanWellFounded, WFMin
<1>3. \A y \in T : x <= y
  <2> SUFFICES ASSUME NEW y \in T PROVE x <= y
    OBVIOUS
  <2> HIDE DEF T
  <2>1. x \in Nat /\ y \in Nat
    BY <1>1
  <2>2. y < x => <<y, x>> \in {ss \in Nat \X Nat : ss[1] < ss[2]}
    BY <2>1
  <2>3. y < x => <<y, x>> \in OpToRel(<, Nat)
    BY <2>2 DEF OpToRel
  <2>4. ~ (<<y, x>> \in OpToRel(<, Nat))
    BY <1>2
  <2>5. ~ (y < x)
    BY <2>3, <2>4
  <2> QED
    BY <2>1, <2>5
<1>4. PICK s \in S : x = NLogs - s
  OBVIOUS
<1>5. \A y \in S : s >= y
  BY <1>3, <1>4
<1> QED
  BY <1>5 DEF Max

(* A key the range touches collapses to its newest write of the range.     *)
LEMMA CollapsedIsNewest ==
    ASSUME ChainAssumption, NEW f, NEW t, NEW k \in Touched(f, t)
    PROVE  /\ k \in Keys
           /\ Collapsed(f, t)[k] \in WritesIn(k, f, t)
           /\ \A i \in WritesIn(k, f, t) : i <= Collapsed(f, t)[k]
<1> DEFINE S == WritesIn(k, f, t)
<1>1. S \in SUBSET (0..NLogs) /\ S # {} /\ NLogs \in Nat
  BY DEF ChainAssumption, Touched, WritesIn, Writes, Logs
<1>2. Max(S) \in S /\ \A y \in S : Max(S) >= y
  BY <1>1, MaxOfLogs
<1>3. Collapsed(f, t)[k] = Max(S) /\ k \in Keys
  BY DEF Collapsed, Touched
<1> HIDE DEF S
<1>4. \A y \in S : y \in Nat
  BY <1>1
<1> QED
  BY <1>1, <1>2, <1>3, <1>4 DEF S

(* Max and Min, as the model uses them. *)
LEMMA MaxOfTwo ==
    ASSUME NEW i \in Int, NEW j \in Int
    PROVE  Max({i, j}) = IF i >= j THEN i ELSE j
<1>1. \E x \in {i, j} : \A y \in {i, j} : x >= y
  OBVIOUS
<1>2. Max({i, j}) \in {i, j} /\ \A y \in {i, j} : Max({i, j}) >= y
  BY <1>1 DEF Max
<1> QED
  BY <1>2

LEMMA MaxOfThree ==
    ASSUME NEW i \in Int, NEW j \in Int, NEW k \in Int
    PROVE  /\ Max({i, j, k}) \in {i, j, k}
           /\ Max({i, j, k}) >= i /\ Max({i, j, k}) >= j /\ Max({i, j, k}) >= k
<1>1. \E x \in {i, j, k} : \A y \in {i, j, k} : x >= y
  OBVIOUS
<1> QED
  BY <1>1 DEF Max

LEMMA MinOfTwo ==
    ASSUME NEW i \in Int, NEW j \in Int
    PROVE  Min({i, j}) = IF i <= j THEN i ELSE j
<1>1. \E x \in {i, j} : \A y \in {i, j} : x <= y
  OBVIOUS
<1>2. Min({i, j}) \in {i, j} /\ \A y \in {i, j} : Min({i, j}) <= y
  BY <1>1 DEF Min
<1> QED
  BY <1>2

(* Entry 0 stands below every entry: the order of blocks is that of        *)
(* entries, genesis included.                                              *)
LEMMA LaterIsNoEarlier ==
    ASSUME NEW i \in 0..NLogs, NEW j \in 0..NLogs, i <= j
    PROVE  BlockOf[i] \in Blocks /\ BlockOf[j] \in Blocks /\ BlockOf[i] <= BlockOf[j]
<1>1. BlockOf[i] \in Blocks /\ BlockOf[j] \in Blocks
  BY ChainAssumption DEF ChainAssumption
<1>2. CASE i = 0
  BY <1>1, <1>2, ChainAssumption DEF ChainAssumption, Blocks
<1>3. CASE i # 0
  BY <1>1, <1>3, ChainAssumption DEF ChainAssumption, Blocks, Logs
<1> QED
  BY <1>1, <1>2, <1>3

LEMMA LowerBlockIsOlder ==
    ASSUME NEW i \in 0..NLogs, NEW j \in 0..NLogs, BlockOf[i] < BlockOf[j]
    PROVE  i < j
<1>1. BlockOf[i] \in Int /\ BlockOf[j] \in Int /\ i \in Int /\ j \in Int
  BY ChainAssumption DEF ChainAssumption, Blocks
<1>2. j <= i => BlockOf[j] <= BlockOf[i]
  BY LaterIsNoEarlier
<1> QED
  BY <1>1, <1>2

(* A read of f..t, collapsed, is at least as new as every write in it.     *)
LEMMA CollapsedHolds ==
    ASSUME NEW f, NEW t, NEW k \in Keys, NEW w \in WritesIn(k, f, t)
    PROVE  /\ k \in Touched(f, t) /\ k \in DOMAIN Collapsed(f, t)
           /\ Collapsed(f, t)[k] \in WritesIn(k, f, t)
           /\ w <= Collapsed(f, t)[k]
<1>1. k \in Touched(f, t)
  BY DEF Touched
<1> QED
  BY <1>1, ChainAssumption, CollapsedIsNewest DEF Collapsed

(* An entry of an earlier block is an earlier entry. *)
LEMMA EarlierBlockIsOlder ==
    ASSUME ChainAssumption, NEW i \in Logs, NEW j \in Logs, BlockOf[i] < BlockOf[j]
    PROVE  i < j
<1>1. i \in Int /\ j \in Int
  BY DEF Logs
<1>2. BlockOf[i] \in Int /\ BlockOf[j] \in Int
  BY DEF ChainAssumption, Logs, Blocks
<1>3. j < i => BlockOf[j] <= BlockOf[i]
  BY DEF ChainAssumption
<1> QED
  BY <1>1, <1>2, <1>3

(* The newest write of a range is the last write of its own block and of   *)
(* every earlier one: the range starts at or below that block.             *)
THEOREM CollapsedIsUpToDate ==
    ASSUME ChainAssumption, NEW f \in Int, NEW t \in Int, NEW k \in Touched(f, t)
    PROVE  UpToDate(k, Collapsed(f, t)[k], BlockOf[Collapsed(f, t)[k]])
<1> DEFINE v == Collapsed(f, t)[k]
<1>1. v \in WritesIn(k, f, t) /\ \A i \in WritesIn(k, f, t) : i <= v
  BY CollapsedIsNewest
<1> HIDE DEF v
<1>2. v \in Logs /\ f <= BlockOf[v] /\ BlockOf[v] <= t /\ BlockOf[v] \in Int
  BY <1>1 DEF WritesIn, Writes, ChainAssumption, Logs, Blocks
<1>3. SUFFICES ASSUME NEW i \in Writes(k), BlockOf[i] <= BlockOf[v]
               PROVE  i <= v
  BY DEF UpToDate, v
<1>4. i \in Logs /\ BlockOf[i] \in Int /\ v \in Int /\ i \in Int
  BY <1>2 DEF Writes, ChainAssumption, Logs, Blocks
<1>5. CASE f <= BlockOf[i]
  BY <1>1, <1>2, <1>3, <1>4, <1>5 DEF WritesIn
<1>6. CASE BlockOf[i] < f
  <2>1. BlockOf[i] < BlockOf[v]
    BY <1>2, <1>4, <1>6
  <2> QED
    BY <2>1, <1>2, <1>4, EarlierBlockIsOlder
<1> QED
  BY <1>2, <1>4, <1>5, <1>6

-----------------------------------------------------------------------------
(* The inductive invariant: the place a key remembers is that of the value *)
(* it holds, and a final place is the last word on its block.  The second  *)
(* part alone is not inductive: a later mark or frame only keeps it        *)
(* because the value and its place change together.                        *)
GuardInv == GuardTypeOK /\ PlaceIsTrue /\ FinalIsLast

(* The writes of a batch, as both kinds of step deliver them: each is a    *)
(* write of its key, and if the batch is final, the last of its block.     *)
GoodBatch(ups, final) ==
    /\ DOMAIN ups \subseteq Keys
    /\ \A k \in DOMAIN ups : ups[k] \in Writes(k)
    /\ final => \A k \in DOMAIN ups : UpToDate(k, ups[k], BlockOf[ups[k]])

LEMMA FrameIsGood ==
    ASSUME NEW i \in Logs, KeyOf[i] \in Keys
    PROVE  GoodBatch([k \in {KeyOf[i]} |-> i], FALSE)
BY DEF GoodBatch, Writes

LEMMA ProvenIsGood ==
    ASSUME NEW f \in Blocks, NEW t \in Blocks
    PROVE  GoodBatch(Collapsed(f, t), TRUE)
<1>1. DOMAIN Collapsed(f, t) = Touched(f, t) /\ Touched(f, t) \subseteq Keys
  BY DEF Collapsed, Touched
<1>2. \A k \in Touched(f, t) : Collapsed(f, t)[k] \in Writes(k)
  BY ChainAssumption, CollapsedIsNewest DEF WritesIn
<1>3. f \in Int /\ t \in Int
  BY DEF Blocks
<1>4. \A k \in Touched(f, t) :
          UpToDate(k, Collapsed(f, t)[k], BlockOf[Collapsed(f, t)[k]])
  BY ChainAssumption, CollapsedIsUpToDate, <1>3
<1> QED
  BY <1>1, <1>2, <1>4 DEF GoodBatch

LEMMA WritesAreLogs ==
    ASSUME NEW k \in Keys, NEW i \in Writes(k)
    PROVE  i \in Logs /\ i \in 0..NLogs /\ BlockOf[i] \in Blocks /\ BlockOf[i] \in Bounds
BY ChainAssumption DEF ChainAssumption, Writes, Logs, Bounds

(* The bounds stay bounds. *)
LEMMA MarkTypes ==
    ASSUME GuardTypeOK, NEW m \in Marks
    PROVE  AppliedAfter(m) \in Bounds /\ ReconciledAfter(m) \in Bounds
BY DEF GuardTypeOK, Marks, AppliedAfter, ReconciledAfter, Bounds

(* What one batch leaves at a key: its value and place stay, or become the *)
(* delivered write's, or the place is forgotten by a prune.                *)
LEMMA LandAtKey ==
    ASSUME GuardTypeOK, NEW ups, NEW final \in BOOLEAN, NEW m \in Marks,
           GoodBatch(ups, final), Land(ups, final, m), NEW k \in Keys
    PROVE  \/ /\ k \in Taken(ups)
              /\ mirror'[k] = ups[k]
              /\ place'[k] \in {NoPlace, [block |-> BlockOf[ups[k]], final |-> final]}
           \/ /\ k \notin Taken(ups)
              /\ mirror'[k] = mirror[k]
              /\ place'[k] \in {NoPlace, place[k]}
<1>1. mirror'[k] = IF k \in Taken(ups) THEN ups[k] ELSE mirror[k]
  BY DEF Land
<1>2. PlaceAfter(ups, final)[k] =
          IF k \in Taken(ups) THEN [block |-> BlockOf[ups[k]], final |-> final]
                              ELSE place[k]
  BY DEF PlaceAfter
<1>3. place'[k] \in {NoPlace, PlaceAfter(ups, final)[k]}
  BY DEF Land, Pruned
<1> QED
  BY <1>1, <1>2, <1>3

LEMMA LandTypes ==
    ASSUME GuardTypeOK, NEW ups, NEW final \in BOOLEAN, NEW m \in Marks,
           GoodBatch(ups, final), Land(ups, final, m)
    PROVE  GuardTypeOK'
<1>1. applied' \in Bounds /\ reconciled' \in Bounds
  BY MarkTypes DEF Land
<1>2. mirror' \in [Keys -> 0..NLogs]
  <2>1. \A k \in Taken(ups) : k \in Keys /\ ups[k] \in 0..NLogs
    BY WritesAreLogs DEF Taken, GoodBatch
  <2> QED
    BY <2>1 DEF Land, GuardTypeOK
<1>3. NoPlace \in Places
  BY DEF NoPlace, Places, Bounds
<1>4. PlaceAfter(ups, final) \in [Keys -> Places]
  <2>1. \A k \in Taken(ups) : [block |-> BlockOf[ups[k]], final |-> final] \in Places
    BY WritesAreLogs DEF Taken, GoodBatch, Places
  <2> QED
    BY <2>1 DEF PlaceAfter, GuardTypeOK
<1>5. place' \in [Keys -> Places]
  BY <1>3, <1>4 DEF Land, Pruned
<1> QED
  BY <1>1, <1>2, <1>5 DEF GuardTypeOK

LEMMA LandKeepsInv ==
    ASSUME GuardInv, NEW ups, NEW final \in BOOLEAN, NEW m \in Marks,
           GoodBatch(ups, final), Land(ups, final, m)
    PROVE  GuardInv'
<1>1. GuardTypeOK'
  BY LandTypes DEF GuardInv
<1>2. ASSUME NEW k \in Keys, place'[k] # NoPlace
      PROVE  mirror'[k] \in Writes(k) /\ BlockOf[mirror'[k]] = place'[k].block
  <2>1. CASE k \in Taken(ups)
    BY <1>2, <2>1, LandAtKey DEF GuardInv, GoodBatch, Taken
  <2>2. CASE k \notin Taken(ups)
    BY <1>2, <2>2, LandAtKey DEF GuardInv, PlaceIsTrue
  <2> QED
    BY <2>1, <2>2
<1>3. ASSUME NEW k \in Keys, place'[k].final
      PROVE  UpToDate(k, mirror'[k], place'[k].block)
  <2>0. place'[k] # NoPlace
    BY <1>3 DEF NoPlace
  <2>1. CASE k \in Taken(ups)
    <3>1. mirror'[k] = ups[k] /\ place'[k] = [block |-> BlockOf[ups[k]], final |-> final]
      BY <2>0, <2>1, LandAtKey DEF GuardInv
    <3>2. final
      BY <1>3, <3>1
    <3>3. UpToDate(k, ups[k], BlockOf[ups[k]])
      BY <2>1, <3>2 DEF GoodBatch, Taken
    <3> QED
      BY <3>1, <3>3
  <2>2. CASE k \notin Taken(ups)
    <3>1. mirror'[k] = mirror[k] /\ place'[k] = place[k]
      BY <2>0, <2>2, LandAtKey DEF GuardInv
    <3>2. UpToDate(k, mirror[k], place[k].block)
      BY <1>3, <3>1 DEF GuardInv, FinalIsLast
    <3> QED
      BY <3>1, <3>2
  <2> QED
    BY <2>1, <2>2
<1>4. PlaceIsTrue'
  BY <1>2 DEF PlaceIsTrue
<1>5. FinalIsLast'
  <2>1. \A k \in Keys : place'[k].final => UpToDate(k, mirror'[k], place'[k].block)
    BY <1>3
  <2> QED
    BY <2>1 DEF FinalIsLast, UpToDate
<1> QED
  BY <1>1, <1>4, <1>5 DEF GuardInv

(***************************************************************************)
(* The steps that are not batches.                                         *)
(***************************************************************************)
LEMMA LooseKeepsInv ==
    ASSUME GuardInv, NEW k0 \in Keys, NEW v \in (Writes(k0) \cup {0}), LandUnplaced(k0, v)
    PROVE  GuardInv'
<1>1. v \in 0..NLogs
  BY WritesAreLogs, ChainAssumption DEF ChainAssumption
<1>2. GuardTypeOK'
  BY <1>1 DEF GuardInv, GuardTypeOK, LandUnplaced, Places, NoPlace, Bounds
<1>3. /\ mirror'[k0] = v /\ place'[k0] = NoPlace
      /\ \A k \in Keys : k # k0 => mirror'[k] = mirror[k] /\ place'[k] = place[k]
  BY DEF GuardInv, GuardTypeOK, LandUnplaced
<1>4. ~ NoPlace.final
  BY DEF NoPlace
<1>5. PlaceIsTrue'
  BY <1>3 DEF GuardInv, PlaceIsTrue
<1>6. FinalIsLast'
  BY <1>3, <1>4 DEF GuardInv, FinalIsLast, UpToDate
<1> QED
  BY <1>2, <1>5, <1>6 DEF GuardInv

LEMMA QuietKeepsInv ==
    ASSUME GuardInv, UNCHANGED <<mirror, place, applied>>, reconciled' \in Bounds
    PROVE  GuardInv'
BY DEF GuardInv, GuardTypeOK, PlaceIsTrue, FinalIsLast, UpToDate

LEMMA GuardInitInv == GuardInit => GuardInv
<1> SUFFICES ASSUME GuardInit PROVE GuardInv
  OBVIOUS
<1>1. NoPlace \in Places /\ ~ NoPlace.final /\ Null \in Bounds
  BY DEF NoPlace, Places, Bounds
<1>2. 0 \in 0..NLogs
  BY ChainAssumption DEF ChainAssumption
<1> QED
  BY <1>1, <1>2 DEF GuardInit, GuardInv, GuardTypeOK, PlaceIsTrue, FinalIsLast

LEMMA GuardStepInv == GuardInv /\ [GuardNext]_guardVars => GuardInv'
<1> SUFFICES ASSUME GuardInv, [GuardNext]_guardVars PROVE GuardInv'
  OBVIOUS
<1>1. CASE FrameStep
  BY <1>1, FrameIsGood, LandKeepsInv DEF FrameStep, LandFrame
<1>2. CASE ProvenStep
  BY <1>2, ProvenIsGood, LandKeepsInv DEF ProvenStep, LandProven
<1>3. CASE LooseStep
  BY <1>3, LooseKeepsInv DEF LooseStep
<1>4. CASE SeedStep
  BY <1>4, QuietKeepsInv DEF SeedStep, Seed, Bounds
<1>5. CASE UNCHANGED guardVars
  BY <1>5, QuietKeepsInv DEF guardVars, GuardInv, GuardTypeOK
<1> QED
  BY <1>1, <1>2, <1>3, <1>4, <1>5 DEF GuardNext

LEMMA GuardInvariant == GuardSpec => []GuardInv
BY GuardInitInv, GuardStepInv, PTL DEF GuardSpec

(* The apply path keeps its types: a mark of any block moves a bound only  *)
(* to a block (sync-health.ts, applyMark).                                 *)
THEOREM GuardTypes == GuardSpec => []GuardTypeOK
<1>1. GuardInv => GuardTypeOK
  BY DEF GuardInv
<1> QED
  BY <1>1, GuardInvariant, PTL

(* The place the guard looks at is that of the value on the screen,        *)
(* whatever was skipped, overwritten or pruned since (utils.ts, lastPos).  *)
THEOREM GuardPlaceIsTrue == GuardSpec => []PlaceIsTrue
<1>1. GuardInv => PlaceIsTrue
  BY DEF GuardInv
<1> QED
  BY <1>1, GuardInvariant, PTL

(* A place marked final is final: nothing of its block or below it is      *)
(* newer than the value held (heal.ts, finalWrites; utils.ts, the guard).  *)
THEOREM GuardFinalIsLast == GuardSpec => []FinalIsLast
<1>1. GuardInv => FinalIsLast
  BY DEF GuardInv
<1> QED
  BY <1>1, GuardInvariant, PTL

(***************************************************************************)
(* HoldsGround: a batch that is in order never lowers a key whose place is *)
(* known.                                                                  *)
(***************************************************************************)
LEMMA LandHoldsGround ==
    ASSUME GuardInv, NEW ups, NEW final \in BOOLEAN, NEW m \in Marks,
           GoodBatch(ups, final), Land(ups, final, m),
           \A k \in DOMAIN ups :
               place[k].block = BlockOf[ups[k]] /\ ~place[k].final => mirror[k] <= ups[k]
    PROVE  \A k \in Keys : place[k] # NoPlace => ~ (mirror'[k] < mirror[k])
<1> SUFFICES ASSUME NEW k \in Keys, place[k] # NoPlace
             PROVE  ~ (mirror'[k] < mirror[k])
  OBVIOUS
<1>0. mirror[k] \in Int
  BY DEF GuardInv, GuardTypeOK
<1>1. CASE k \notin Taken(ups)
  BY <1>0, <1>1, LandAtKey DEF GuardInv
<1>2. CASE k \in Taken(ups)
  <2>1. mirror'[k] = ups[k] /\ k \in DOMAIN ups /\ ~Skipped(k, BlockOf[ups[k]])
    BY <1>2, LandAtKey DEF GuardInv, Taken
  <2>2. /\ ups[k] \in Logs /\ ups[k] \in Int /\ BlockOf[ups[k]] \in Int
        /\ mirror[k] \in Logs /\ BlockOf[mirror[k]] = place[k].block
        /\ place[k].block \in Int
    BY <2>1, WritesAreLogs DEF GuardInv, PlaceIsTrue, GoodBatch, Blocks
  <2>3. CASE place[k].block = BlockOf[ups[k]]
    BY <1>0, <2>1, <2>2, <2>3 DEF Skipped
  <2>4. CASE place[k].block # BlockOf[ups[k]]
    <3>1. BlockOf[mirror[k]] < BlockOf[ups[k]]
      BY <2>1, <2>2, <2>4 DEF Skipped
    <3>2. mirror[k] < ups[k]
      BY <2>2, <3>1, ChainAssumption, EarlierBlockIsOlder
    <3> QED
      BY <1>0, <2>1, <2>2, <3>2
  <2> QED
    BY <2>3, <2>4
<1> QED
  BY <1>1, <1>2

(* A proven read needs no order: it holds every write of the place's block. *)
LEMMA ProvenInOrder ==
    ASSUME GuardInv, NEW f \in Blocks, NEW t \in Blocks, NEW k \in DOMAIN Collapsed(f, t),
           place[k].block = BlockOf[Collapsed(f, t)[k]], ~place[k].final
    PROVE  mirror[k] <= Collapsed(f, t)[k]
<1>1. k \in Touched(f, t)
  BY DEF Collapsed
<1>2. /\ k \in Keys /\ Collapsed(f, t)[k] \in WritesIn(k, f, t)
      /\ \A i \in WritesIn(k, f, t) : i <= Collapsed(f, t)[k]
  BY <1>1, ChainAssumption, CollapsedIsNewest
<1>3. place[k] # NoPlace
  <2>1. BlockOf[Collapsed(f, t)[k]] \in Blocks
    BY <1>2, WritesAreLogs DEF WritesIn
  <2> QED
    BY <2>1 DEF NoPlace, Null, Blocks
<1>4. mirror[k] \in WritesIn(k, f, t)
  BY <1>2, <1>3 DEF GuardInv, PlaceIsTrue, WritesIn
<1> QED
  BY <1>2, <1>4

(* No frame and no chain read, of any age and in any order of arrival,     *)
(* replaces the value of a key whose place is remembered by an older one.  *)
THEOREM GuardHoldsGround == GuardSpec => HoldsGround
<1> DEFINE Kept == \A k \in Keys : place[k] # NoPlace /\ mirror'[k] < mirror[k] =>
                        place'[k] = NoPlace /\ UNCHANGED <<applied, reconciled>>
<1>1. GuardInv /\ [GuardNext]_guardVars => [Kept]_guardVars
  <2> SUFFICES ASSUME GuardInv, GuardNext PROVE Kept
    OBVIOUS
  <2>1. CASE FrameStep
    <3>1. PICK i \in Logs, m \in Marks :
              KeyOf[i] \in Keys /\ InOrder(i) /\ LandFrame(i, m)
      BY <2>1 DEF FrameStep
    <3> QED
      BY <3>1, FrameIsGood, LandHoldsGround DEF LandFrame, InOrder
  <2>2. CASE ProvenStep
    <3>1. PICK f \in Blocks, t \in Blocks, m \in Marks : LandProven(f, t, m)
      BY <2>2 DEF ProvenStep
    <3> QED
      BY <3>1, ProvenIsGood, ProvenInOrder, LandHoldsGround DEF LandProven
  <2>3. CASE LooseStep
    <3>1. PICK k0 \in Keys : \E v \in Writes(k0) \cup {0} : LandUnplaced(k0, v)
      BY <2>3 DEF LooseStep
    <3>2. mirror \in [Keys -> 0..NLogs] /\ place \in [Keys -> Places]
      BY DEF GuardInv, GuardTypeOK
    <3> QED
      BY <3>1, <3>2 DEF LandUnplaced
  <2>4. CASE SeedStep
    BY <2>4 DEF SeedStep, Seed, GuardInv, GuardTypeOK
  <2> QED
    BY <2>1, <2>2, <2>3, <2>4 DEF GuardNext
<1>2. GuardSpec => [][Kept]_guardVars
  BY <1>1, GuardInitInv, GuardStepInv, PTL DEF GuardSpec
<1> QED
  BY <1>2 DEF HoldsGround

=============================================================================
