-------------------------- MODULE MirrorSyncProofs --------------------------
(***************************************************************************)
(* The live synchronisation, for every chain, every boot, every width of   *)
(* gap, pass and catch-up, and every interleaving of frames, heals,        *)
(* teardowns, passes and catch-ups.                                        *)
(***************************************************************************)
EXTENDS MirrorSync, ApplyGuardProofs

(* The configurations whose bounds are true.  A catch-up races two others: *)
(* a reconcile that prunes behind it, and the diff of a wide gap (the runs *)
(* catchup_race and wide_gap_race).  Nothing is promised where they meet.  *)
Tame ==
    \/ MaxCatchUps = 0
    \/ ~ ReconcileOn /\ GapMax > MaxBlock

(* The index a frame reports names its entry within the block.  It is the  *)
(* index inside the entry's transaction: where two entries share it, a     *)
(* lost frame may go unnoticed, and only reconciledThrough keeps its word. *)
DistinctIndices ==
    \A i, j \in 0..NLogs : BlockOf[i] = BlockOf[j] /\ IndexOf[i] = IndexOf[j] => i = j

-----------------------------------------------------------------------------
(* A key holds genesis or a write of its own. *)
OwnValues == \A k \in Keys : mirror[k] \in Writes(k) \cup {0}

(* What any batch with places leaves at a key: the newest of two, or the   *)
(* delivered write over a value without a place.                           *)
LEMMA LandOwns ==
    ASSUME GuardInv, OwnValues, NEW ups, NEW final \in BOOLEAN, NEW m \in Marks,
           GoodBatch(ups, final), Land(ups, final, m)
    PROVE  OwnValues'
<1> SUFFICES ASSUME NEW k \in Keys PROVE mirror'[k] \in Writes(k) \cup {0}
  BY DEF OwnValues, Writes
<1> QED
  BY LandAtKey DEF GuardInv, OwnValues, GoodBatch, Taken

(* What the guard skips is already held: the key was placed later, or      *)
(* finally.                                                                *)
LEMMA SkippedIsHeld ==
    ASSUME GuardInv, NEW k \in Keys, NEW i \in Writes(k), Skipped(k, BlockOf[i])
    PROVE  i <= mirror[k]
<1>1. i \in 0..NLogs /\ BlockOf[i] \in Blocks
  BY WritesAreLogs
<1>2. mirror[k] \in 0..NLogs /\ place[k].block \in Bounds
  BY DEF GuardInv, GuardTypeOK, Places
<1>3. CASE place[k].block > BlockOf[i]
  <2>1. place[k] # NoPlace
    BY <1>1, <1>3 DEF NoPlace, Null, Blocks
  <2>2. BlockOf[i] < BlockOf[mirror[k]]
    BY <1>1, <1>2, <1>3, <2>1 DEF GuardInv, PlaceIsTrue, Blocks, Bounds, Null
  <2> QED
    BY <1>1, <1>2, <2>2, LowerBlockIsOlder
<1>4. CASE place[k].block = BlockOf[i] /\ place[k].final
  <2>1. BlockOf[i] <= place[k].block
    BY <1>1, <1>4 DEF Blocks
  <2> QED
    BY <1>4, <2>1 DEF GuardInv, FinalIsLast, UpToDate
<1> QED
  BY <1>3, <1>4 DEF Skipped

(* A batch does not pass a write by: after it, its key holds that write or *)
(* a newer one.                                                            *)
LEMMA LandedIsHeld ==
    ASSUME GuardInv, NEW ups, NEW final \in BOOLEAN, NEW m \in Marks,
           GoodBatch(ups, final), Land(ups, final, m), NEW k \in DOMAIN ups
    PROVE  ups[k] <= mirror'[k]
<1>1. k \in Keys /\ ups[k] \in Writes(k) /\ ups[k] \in 0..NLogs
  BY WritesAreLogs DEF GoodBatch
<1>2. CASE k \in Taken(ups)
  <2>1. mirror'[k] = ups[k]
    BY <1>1, <1>2, LandAtKey DEF GuardInv
  <2> QED
    BY <1>1, <2>1
<1>3. CASE k \notin Taken(ups)
  <2>1. mirror'[k] = mirror[k] /\ Skipped(k, BlockOf[ups[k]])
    BY <1>1, <1>3, LandAtKey DEF GuardInv, Taken
  <2> QED
    BY <1>1, <2>1, SkippedIsHeld
<1> QED
  BY <1>2, <1>3

(* A proven read leaves every key at least as new as the writes it read.   *)
LEMMA ProvenIsHeld ==
    ASSUME GuardInv, NEW f \in Blocks, NEW t \in Blocks, NEW m \in Marks,
           LandProven(f, t, m), NEW k \in Keys, NEW w \in WritesIn(k, f, t)
    PROVE  w <= mirror'[k]
<1>1. k \in DOMAIN Collapsed(f, t) /\ w <= Collapsed(f, t)[k]
      /\ Collapsed(f, t)[k] \in Writes(k)
  BY CollapsedHolds DEF WritesIn
<1>2. Collapsed(f, t)[k] <= mirror'[k]
  BY <1>1, ProvenIsGood, LandedIsHeld DEF LandProven
<1>3. mirror'[k] \in Int
  <2>1. GuardTypeOK'
    BY ProvenIsGood, LandTypes DEF LandProven, GuardInv
  <2> QED
    BY <2>1 DEF GuardTypeOK
<1>4. w \in Int /\ Collapsed(f, t)[k] \in Int
  BY <1>1, WritesAreLogs DEF WritesIn
<1> QED
  BY <1>1, <1>2, <1>3, <1>4

(* The frontier rule at work: a proven read lowers no key, because a value *)
(* without a place lies below the range or inside it.                      *)
LEMMA ProvenNeverLowers ==
    ASSUME GuardInv, OwnValues, frontier \in Blocks,
           NEW f \in Blocks, NEW t \in Blocks, NEW m \in Marks, f <= t,
           LandProven(f, t, m), FrontierAllows(f, t),
           \A k \in Keys : place[k] = NoPlace =>
               BlockOf[mirror[k]] <= frontier \/ BlockOf[mirror[k]] < f
    PROVE  \A k \in Keys : mirror[k] <= mirror'[k]
<1> DEFINE ups == Collapsed(f, t)
<1> SUFFICES ASSUME NEW k \in Keys PROVE mirror[k] <= mirror'[k]
  OBVIOUS
<1>0. mirror[k] \in 0..NLogs /\ mirror'[k] \in 0..NLogs
  <2>1. GuardTypeOK'
    BY ProvenIsGood, LandTypes DEF LandProven, GuardInv
  <2> QED
    BY <2>1 DEF GuardInv, GuardTypeOK
<1>1. CASE place[k] # NoPlace
  <2>1. ~ (mirror'[k] < mirror[k])
    BY <1>1, ProvenIsGood, ProvenInOrder, LandHoldsGround DEF LandProven
  <2> QED
    BY <1>0, <2>1
<1>2. CASE k \notin Taken(ups)
  <2>1. mirror'[k] = mirror[k]
    BY <1>2, ProvenIsGood, LandAtKey DEF LandProven, GuardInv
  <2> QED
    BY <1>0, <2>1
<1>3. CASE place[k] = NoPlace /\ k \in Taken(ups)
  <2>1. mirror'[k] = ups[k]
    BY <1>3, ProvenIsGood, LandAtKey DEF LandProven, GuardInv
  <2>2. ups[k] \in WritesIn(k, f, t) /\ \A w \in WritesIn(k, f, t) : w <= ups[k]
    BY <1>3, ChainAssumption, CollapsedIsNewest DEF Taken, Collapsed
  <2>3. ups[k] \in 0..NLogs /\ f <= BlockOf[ups[k]] /\ BlockOf[ups[k]] \in Blocks
    BY <2>2, WritesAreLogs DEF WritesIn
  <2>4. BlockOf[mirror[k]] \in Blocks
    BY <1>0, LaterIsNoEarlier
  <2>5. CASE BlockOf[mirror[k]] < f
    <3>1. BlockOf[mirror[k]] < BlockOf[ups[k]]
      BY <2>3, <2>4, <2>5 DEF Blocks
    <3> QED
      BY <1>0, <2>1, <2>3, <3>1, LowerBlockIsOlder
  <2>6. CASE ~ (BlockOf[mirror[k]] < f)
    <3>1. f <= BlockOf[mirror[k]] /\ BlockOf[mirror[k]] <= t
      BY <1>3, <2>4, <2>6 DEF FrontierAllows, Blocks
    <3>2. mirror[k] = 0 \/ mirror[k] \in WritesIn(k, f, t)
      BY <3>1 DEF OwnValues, WritesIn
    <3> QED
      BY <1>0, <2>1, <2>2, <2>3, <3>2
  <2> QED
    BY <2>5, <2>6
<1> QED
  BY <1>1, <1>2, <1>3

-----------------------------------------------------------------------------
(* The inductive invariant, in parts.  First the shape of the control      *)
(* state: what the stream, a heal, a pass and a catch-up may rely on.      *)
StreamShape ==
    /\ boot \in Boots
    /\ cursor <= seen
    /\ boot.frontier <= frontier
    /\ reconciled = rcursor /\ boot.baseline <= rcursor
    /\ applied \in Blocks
    /\ boot.baseline <= boot.start => reconciled <= applied
    /\ cursor = 0 => rcursor = boot.baseline /\ heal = 0 /\ repaired = {}
    /\ cursor # 0 => /\ boot.baseline < CursorBlock /\ rcursor <= CursorBlock
                     /\ chainAnchor \in Blocks
    /\ ~ ReconcileOn => rcursor = boot.baseline

HealShape ==
    /\ heal # 0 => cursor # 0 /\ heal = seen /\ cursor < heal
    /\ heal = 0 => diffHead = Unasked
    /\ diffHead # Unasked => Wide
    /\ diffHead \in Blocks => diffHead <= frontier /\ HealTo <= frontier

PassShape ==
    /\ held # Null => rcursor < held /\ held <= CursorBlock
    /\ pass # NoRead => /\ ReconcileOn
                        /\ cursor # 0
                        /\ pass.from = PassFrom
                        /\ pass.to \in Blocks /\ pass.to <= CursorBlock
                        /\ pass.cursor \in Blocks /\ pass.cursor <= CursorBlock
    /\ catchUp # NoRead => /\ MaxCatchUps # 0
                           /\ catchUp.from >= 1 /\ catchUp.from <= applied + 1
                           /\ catchUp.to \in Blocks

(* A value with a place came from a frame that has arrived, or from a read *)
(* of blocks the stream has reached.                                       *)
PlaceShape ==
    \A k \in Keys : place[k] # NoPlace =>
        /\ ~ place[k].final => mirror[k] <= seen
        /\ place[k].final /\ MaxCatchUps = 0 => place[k].block <= CursorBlock

(* A value without one came from the image or from a diff, or its place    *)
(* was pruned: either way nothing the stream still brings is older, but    *)
(* for the image's own window.                                             *)
LooseShape ==
    \A k \in Keys : place[k] = NoPlace =>
        \/ BlockOf[mirror[k]] <= boot.frontier
        \/ BlockOf[mirror[k]] < rcursor
        \/ BlockOf[mirror[k]] < CursorBlock /\ BlockOf[mirror[k]] <= frontier

(* Where a pass has caught up with the stream inside the cursor's block,   *)
(* the frames still to come of that block are skipped.                     *)
PassedIsSkipped ==
    cursor # 0 /\ rcursor = CursorBlock =>
        \A k \in Touched(rcursor, rcursor) : Skipped(k, rcursor)

(* The unbroken chain of frames has brought what lies along it.            *)
ChainIsHeld ==
    DistinctIndices /\ cursor # 0 =>
        \A k \in Keys : \A w \in Writes(k) :
            chainAnchor < BlockOf[w] /\ w <= cursor => w <= mirror[k]

(* What appliedThrough claims is held, or is still to come: a frame of the *)
(* boot's own window may have lowered a value the image had.               *)
AppliedOrAhead ==
    DistinctIndices /\ boot.filled >= boot.start =>
        \A k \in Keys : \A w \in Writes(k) : BlockOf[w] <= applied =>
            \/ w <= mirror[k]
            \/ cursor # 0 /\ cursor < w /\ BlockOf[w] <= boot.frontier

NothingRepaired == DistinctIndices => RepairsAreLosses

Shape   == StreamShape /\ HealShape /\ PassShape
Control == TypeOK /\ Shape
Content == /\ OwnValues /\ PlaceShape /\ LooseShape /\ PassedIsSkipped
           /\ ReconciledIsHeld /\ ChainIsHeld /\ AppliedOrAhead
SyncInv == Tame /\ GuardInv /\ Content /\ NothingRepaired

(* The types of the state, as the leaves use them. *)
LEMMA StateFacts ==
    ASSUME Control
    PROVE  /\ head \in Blocks /\ frontier \in Blocks /\ rcursor \in Blocks
           /\ boot.baseline \in Blocks /\ boot.start \in Blocks
           /\ boot.frontier \in Blocks /\ boot.filled \in Blocks
           /\ seen \in 0..NLogs /\ cursor \in 0..NLogs /\ heal \in 0..NLogs
           /\ BlockOf[seen] \in Blocks /\ CursorBlock \in Blocks /\ HealTo \in Blocks
           /\ held \in Bounds /\ diffHead \in Bounds \cup {Unasked}
           /\ boot.baseline <= boot.frontier /\ boot.start <= boot.frontier
           /\ boot.filled <= boot.frontier /\ boot.baseline <= boot.filled
<1>1. TypeOK /\ boot \in Boots
  BY DEF Control, Shape, StreamShape
<1>2. /\ seen \in 0..NLogs /\ cursor \in 0..NLogs /\ heal \in 0..NLogs
      /\ head \in Blocks /\ frontier \in Blocks /\ rcursor \in Blocks
      /\ held \in Bounds /\ diffHead \in Bounds \cup {Unasked}
  BY <1>1 DEF TypeOK
<1>3. BlockOf[seen] \in Blocks /\ CursorBlock \in Blocks /\ HealTo \in Blocks
  BY <1>2, ChainAssumption DEF ChainAssumption, CursorBlock, HealTo
<1>4. boot \in Boot /\ boot.frontier >= boot.baseline /\ boot.frontier >= boot.start
      /\ boot.frontier >= boot.filled /\ boot.filled >= boot.baseline
  BY <1>1, SyncAssumption DEF SyncAssumption
<1>5. 0..BootHead \subseteq Blocks
  BY SyncAssumption, ChainAssumption DEF SyncAssumption, ChainAssumption, Blocks
<1>6. boot.baseline \in Blocks /\ boot.start \in Blocks
      /\ boot.frontier \in Blocks /\ boot.filled \in Blocks
  BY <1>4, <1>5 DEF Boot
<1>7. boot.baseline <= boot.frontier /\ boot.start <= boot.frontier
      /\ boot.filled <= boot.frontier /\ boot.baseline <= boot.filled
  BY <1>4, <1>6 DEF Blocks
<1> QED
  BY <1>2, <1>3, <1>6, <1>7

LEMMA MirrorFacts ==
    ASSUME Control, SyncInv, NEW k \in Keys
    PROVE  /\ mirror[k] \in 0..NLogs /\ BlockOf[mirror[k]] \in Blocks
           /\ place[k] \in Places /\ place[k].block \in Bounds
           /\ mirror[k] = 0 \/ mirror[k] \in Writes(k)
           /\ place[k] # NoPlace => BlockOf[mirror[k]] = place[k].block
<1>1. GuardTypeOK /\ PlaceIsTrue /\ OwnValues
  BY DEF SyncInv, GuardInv, Content
<1>2. mirror[k] \in 0..NLogs /\ place[k] \in Places
  BY <1>1 DEF GuardTypeOK
<1> QED
  BY <1>1, <1>2, LaterIsNoEarlier DEF PlaceIsTrue, OwnValues, Places

(* A heal reads blocks from the cursor's to the waiting frame's, and what  *)
(* it reads from the chain itself starts no lower.                         *)
LEMMA HealFacts ==
    ASSUME Control, heal # 0
    PROVE  /\ cursor # 0 /\ heal = seen /\ cursor < heal /\ heal \in Logs
           /\ HealFrom \in Blocks /\ HealTo \in Blocks /\ TopUpFrom \in Blocks
           /\ HealFrom <= HealTo /\ HealFrom <= TopUpFrom
           /\ diffHead \in Blocks => /\ TopUpFrom = HealFrom \/ TopUpFrom = diffHead - 2
                                     /\ TopUpFrom >= diffHead - 2
           /\ diffHead \notin Blocks => TopUpFrom = HealFrom /\ diffHead < 0
<1>1. cursor # 0 /\ heal = seen /\ cursor < heal /\ heal \in 0..NLogs /\ cursor \in 0..NLogs
  BY StateFacts DEF Control, Shape, HealShape
<1>2. HealFrom \in Blocks /\ HealTo \in Blocks /\ HealFrom <= HealTo
  BY <1>1, LaterIsNoEarlier DEF HealFrom, HealTo, CursorBlock
<1>3. diffHead \in Bounds \cup {Unasked}
  BY StateFacts
<1>4. diffHead \in Int
  BY <1>3 DEF Bounds, Blocks, Null, Unasked
<1>5. TopUpFrom = IF HealFrom >= diffHead - 2 THEN HealFrom ELSE diffHead - 2
  BY <1>2, <1>4, MaxOfTwo DEF TopUpFrom, Blocks
<1>6. diffHead \notin Blocks => diffHead < 0
  BY <1>3 DEF Bounds, Null, Unasked
<1>7. TopUpFrom \in Blocks /\ HealFrom <= TopUpFrom
  BY <1>2, <1>4, <1>5, <1>6, ChainAssumption DEF ChainAssumption, Blocks
<1>8. ASSUME diffHead \in Blocks
      PROVE  (TopUpFrom = HealFrom \/ TopUpFrom = diffHead - 2) /\ TopUpFrom >= diffHead - 2
  BY <1>2, <1>4, <1>5 DEF Blocks
<1>9. ASSUME diffHead < 0 PROVE TopUpFrom = HealFrom
  BY <1>2, <1>4, <1>5, <1>9 DEF Blocks
<1>10. heal \in Logs
  BY <1>1 DEF Logs
<1> QED
  BY <1>1, <1>2, <1>6, <1>7, <1>8, <1>9, <1>10

(* A diff is there only where no catch-up is: the catch-ups that are tame  *)
(* go with gaps that are all narrow.                                       *)
LEMMA DiffMeetsNoCatchUp ==
    ASSUME Control, SyncInv, heal # 0, diffHead \in Blocks
    PROVE  MaxCatchUps = 0
<1>1. cursor # 0 /\ HealFrom \in Blocks /\ HealTo \in Blocks
  BY HealFacts
<1>2. Wide
  BY DEF Control, Shape, HealShape, Unasked, Blocks
<1>3. boot.baseline < HealFrom /\ boot.baseline \in Blocks
  BY <1>1, StateFacts DEF Control, Shape, StreamShape, HealFrom
<1>4. HealTo - HealFrom + 1 <= MaxBlock
  BY <1>1, <1>3, ChainAssumption DEF ChainAssumption, Blocks
<1>5. ~ (GapMax > MaxBlock)
  BY <1>1, <1>2, <1>4, SyncAssumption, ChainAssumption
     DEF Wide, SyncAssumption, ChainAssumption, Blocks
<1> QED
  BY <1>5 DEF SyncInv, Tame

-----------------------------------------------------------------------------
(* What lands with a gap.  The diff is complete up to c, and the top-up    *)
(* starts no later than two blocks below the diff's head: between them     *)
(* they hold the whole gap, and the frontier rule has kept the gap above   *)
(* everything without a place.                                             *)
GapLands(c, m) ==
    /\ heal # 0
    /\ FrontierAllows(HealFrom, HealTo)
    /\ c \in {diffHead - 1, diffHead}
    /\ m \in Marks
    /\ LandGap(c, m)

LEMMA GapReads ==
    ASSUME Control, SyncInv, NEW c, NEW m, GapLands(c, m)
    PROVE  /\ c \in Int
           /\ diffHead \in Blocks => c <= frontier /\ c <= HealTo /\ frontier <= HealTo
           /\ diffHead \notin Blocks => Touched(HealFrom, c) = {}
           /\ TopUpFrom > HealFrom => diffHead \in Blocks /\ TopUpFrom - 1 <= c
           /\ TopUpFrom <= HealTo
<1>1. /\ HealFrom \in Blocks /\ HealTo \in Blocks /\ TopUpFrom \in Blocks
      /\ HealFrom <= HealTo /\ HealFrom <= TopUpFrom
      /\ diffHead \in Blocks => TopUpFrom = HealFrom \/ TopUpFrom = diffHead - 2
      /\ diffHead \notin Blocks => TopUpFrom = HealFrom /\ diffHead < 0
  BY HealFacts DEF GapLands
<1>2. frontier \in Blocks /\ diffHead \in Bounds \cup {Unasked}
  BY StateFacts
<1>3. diffHead \in Int
  BY <1>2 DEF Bounds, Blocks, Null, Unasked
<1>4. c \in Int /\ (c = diffHead - 1 \/ c = diffHead)
  BY <1>3 DEF GapLands
<1>5. ASSUME diffHead \in Blocks
      PROVE  c <= frontier /\ c <= HealTo /\ frontier <= HealTo /\ diffHead <= HealTo
  <2>1. diffHead <= frontier /\ HealTo <= frontier
    BY <1>5 DEF Control, Shape, HealShape
  <2> QED
    BY <1>1, <1>2, <1>3, <1>4, <2>1 DEF GapLands, FrontierAllows, Blocks
<1>6. ASSUME diffHead \notin Blocks PROVE Touched(HealFrom, c) = {}
  <2>1. c < HealFrom
    BY <1>1, <1>3, <1>4, <1>6 DEF Blocks
  <2>2. ASSUME NEW k \in Keys, NEW w \in Writes(k) PROVE ~ (HealFrom <= BlockOf[w] /\ BlockOf[w] <= c)
    BY <1>1, <1>4, <2>1, WritesAreLogs DEF Blocks
  <2> QED
    BY <2>2 DEF Touched, WritesIn
<1>7. TopUpFrom > HealFrom => diffHead \in Blocks /\ TopUpFrom - 1 <= c
  BY <1>1, <1>3, <1>4 DEF Blocks
<1>8. TopUpFrom <= HealTo
  BY <1>1, <1>3, <1>5 DEF Blocks
<1> QED
  BY <1>4, <1>5, <1>6, <1>7, <1>8

(* At a key: the write of the gap is the newest of the top-up, or of the   *)
(* diff where the top-up has none; otherwise the key is left alone.        *)
LEMMA GapAtKey ==
    ASSUME Control, SyncInv, NEW c, NEW m, GapLands(c, m), NEW k \in Keys
    PROVE  \/ /\ k \in Touched(TopUpFrom, HealTo)
              /\ k \in Touched(HealFrom, c) \/ ~ Skipped(k, BlockOf[Collapsed(TopUpFrom, HealTo)[k]])
              /\ mirror'[k] = Collapsed(TopUpFrom, HealTo)[k]
              /\ place'[k] = [block |-> BlockOf[mirror'[k]], final |-> TRUE]
           \/ /\ k \notin Touched(TopUpFrom, HealTo) /\ k \in Touched(HealFrom, c)
              /\ mirror'[k] = Collapsed(HealFrom, c)[k]
              /\ place'[k] = NoPlace
           \/ /\ k \notin Touched(HealFrom, c)
              /\ k \in Touched(TopUpFrom, HealTo) =>
                     Skipped(k, BlockOf[Collapsed(TopUpFrom, HealTo)[k]])
              /\ mirror'[k] = mirror[k] /\ place'[k] = place[k]
<1> DEFINE diff == Collapsed(HealFrom, c)
           read == Collapsed(TopUpFrom, HealTo)
           taken == {x \in DOMAIN read : x \in DOMAIN diff \/ x \in Taken(read)}
<1>1. DOMAIN diff = Touched(HealFrom, c) /\ DOMAIN read = Touched(TopUpFrom, HealTo)
  BY DEF Collapsed
<1>2. /\ mirror'[k] = IF k \in taken THEN read[k]
                      ELSE IF k \in DOMAIN diff THEN diff[k] ELSE mirror[k]
      /\ place'[k] = IF k \in taken THEN [block |-> BlockOf[read[k]], final |-> TRUE]
                     ELSE IF k \in DOMAIN diff THEN NoPlace ELSE place[k]
  BY DEF GapLands, LandGap
<1> HIDE DEF diff, read
<1>3. k \in Taken(read) <=> k \in DOMAIN read /\ ~ Skipped(k, BlockOf[read[k]])
  BY DEF Taken
<1>4. CASE k \in taken
  BY <1>1, <1>2, <1>3, <1>4 DEF diff, read
<1>5. CASE k \notin taken /\ k \in DOMAIN diff
  BY <1>1, <1>2, <1>5 DEF diff, read
<1>6. CASE k \notin taken /\ k \notin DOMAIN diff
  BY <1>1, <1>2, <1>3, <1>6 DEF diff, read
<1> QED
  BY <1>4, <1>5, <1>6

LEMMA GapIsHeld ==
    ASSUME Control, SyncInv, NEW c, NEW m, GapLands(c, m),
           NEW k \in Keys, NEW w \in WritesIn(k, HealFrom, HealTo)
    PROVE  w <= mirror'[k]
<1>1. w \in Writes(k) /\ HealFrom <= BlockOf[w] /\ BlockOf[w] <= HealTo
  BY DEF WritesIn
<1>2. w \in 0..NLogs /\ BlockOf[w] \in Blocks
  BY <1>1, WritesAreLogs
<1>3. TopUpFrom \in Blocks /\ HealFrom \in Blocks /\ HealTo \in Blocks
  BY HealFacts DEF GapLands
<1>4. CASE TopUpFrom <= BlockOf[w]
  <2>1. w \in WritesIn(k, TopUpFrom, HealTo)
    BY <1>1, <1>4 DEF WritesIn
  <2>2. /\ k \in Touched(TopUpFrom, HealTo)
        /\ Collapsed(TopUpFrom, HealTo)[k] \in Writes(k)
        /\ w <= Collapsed(TopUpFrom, HealTo)[k]
    BY <2>1, CollapsedHolds DEF WritesIn
  <2>3. CASE mirror'[k] = Collapsed(TopUpFrom, HealTo)[k]
    BY <2>2, <2>3
  <2>4. CASE /\ Skipped(k, BlockOf[Collapsed(TopUpFrom, HealTo)[k]])
             /\ mirror'[k] = mirror[k]
    <3>1. Collapsed(TopUpFrom, HealTo)[k] <= mirror[k]
      BY <2>2, <2>4, SkippedIsHeld DEF SyncInv
    <3>2. mirror[k] \in Int /\ Collapsed(TopUpFrom, HealTo)[k] \in Int
      BY <2>2, WritesAreLogs, MirrorFacts
    <3> QED
      BY <1>2, <2>2, <2>4, <3>1, <3>2
  <2> QED
    BY <2>2, <2>3, <2>4, GapAtKey
<1>5. CASE BlockOf[w] < TopUpFrom
  <2>1. TopUpFrom > HealFrom
    BY <1>1, <1>2, <1>3, <1>5 DEF Blocks
  <2>2. c \in Int /\ TopUpFrom - 1 <= c
    BY <2>1, GapReads
  <2>3. w \in WritesIn(k, HealFrom, c)
    BY <1>1, <1>2, <1>3, <1>5, <2>2 DEF WritesIn, Blocks
  <2>4. k \in Touched(HealFrom, c) /\ w <= Collapsed(HealFrom, c)[k]
    BY <2>3, CollapsedHolds
  <2>5. CASE /\ k \in Touched(TopUpFrom, HealTo)
             /\ mirror'[k] = Collapsed(TopUpFrom, HealTo)[k]
    <3>1. mirror'[k] \in WritesIn(k, TopUpFrom, HealTo)
      BY <2>5, ChainAssumption, CollapsedIsNewest
    <3>2. mirror'[k] \in 0..NLogs /\ BlockOf[mirror'[k]] \in Blocks
          /\ TopUpFrom <= BlockOf[mirror'[k]]
      BY <3>1, WritesAreLogs DEF WritesIn
    <3>3. BlockOf[w] < BlockOf[mirror'[k]]
      BY <1>2, <1>3, <1>5, <3>2 DEF Blocks
    <3> QED
      BY <1>2, <3>2, <3>3, LowerBlockIsOlder
  <2>6. CASE mirror'[k] = Collapsed(HealFrom, c)[k]
    BY <2>4, <2>6
  <2> QED
    BY <2>4, <2>5, <2>6, GapAtKey
<1> QED
  BY <1>2, <1>3, <1>4, <1>5 DEF Blocks

(* A write that a gap lands is one of the gap's, and the last of its key   *)
(* through its own block.                                                  *)
LEMMA GapIsGood ==
    ASSUME Control, SyncInv, NEW c, NEW m, GapLands(c, m), NEW k \in Keys,
           k \in Touched(TopUpFrom, HealTo) \/ k \in Touched(HealFrom, c),
           mirror'[k] = (IF k \in Touched(TopUpFrom, HealTo)
                         THEN Collapsed(TopUpFrom, HealTo)[k] ELSE Collapsed(HealFrom, c)[k])
    PROVE  /\ mirror'[k] \in WritesIn(k, HealFrom, HealTo)
           /\ UpToDate(k, mirror'[k], BlockOf[mirror'[k]])
<1>1. /\ HealFrom \in Blocks /\ HealTo \in Blocks /\ TopUpFrom \in Blocks
      /\ HealFrom <= TopUpFrom
  BY HealFacts DEF GapLands
<1>2. c \in Int /\ (diffHead \in Blocks => c <= HealTo)
      /\ (diffHead \notin Blocks => Touched(HealFrom, c) = {})
  BY GapReads
<1>3. CASE k \in Touched(TopUpFrom, HealTo)
  <2>1. mirror'[k] \in WritesIn(k, TopUpFrom, HealTo)
    BY <1>3, ChainAssumption, CollapsedIsNewest
  <2>2. BlockOf[mirror'[k]] \in Blocks /\ TopUpFrom <= BlockOf[mirror'[k]]
        /\ BlockOf[mirror'[k]] <= HealTo /\ mirror'[k] \in Writes(k)
    BY <2>1, WritesAreLogs DEF WritesIn
  <2>3. mirror'[k] \in WritesIn(k, HealFrom, HealTo)
    BY <1>1, <2>2 DEF WritesIn, Blocks
  <2>4. TopUpFrom \in Int /\ HealTo \in Int
    BY <1>1 DEF Blocks
  <2> QED
    BY <1>3, <2>3, <2>4, ChainAssumption, CollapsedIsUpToDate
<1>4. CASE k \notin Touched(TopUpFrom, HealTo)
  <2>1. k \in Touched(HealFrom, c)
    BY <1>4
  <2>2. mirror'[k] \in WritesIn(k, HealFrom, c)
    BY <1>4, <2>1, ChainAssumption, CollapsedIsNewest
  <2>3. BlockOf[mirror'[k]] \in Blocks /\ HealFrom <= BlockOf[mirror'[k]]
        /\ BlockOf[mirror'[k]] <= c /\ mirror'[k] \in Writes(k)
    BY <2>2, WritesAreLogs DEF WritesIn
  <2>4. c <= HealTo
    BY <1>2, <2>1
  <2>5. mirror'[k] \in WritesIn(k, HealFrom, HealTo)
    BY <1>1, <1>2, <2>3, <2>4 DEF WritesIn, Blocks
  <2>6. HealFrom \in Int
    BY <1>1 DEF Blocks
  <2> QED
    BY <1>2, <1>4, <2>1, <2>5, <2>6, ChainAssumption, CollapsedIsUpToDate
<1> QED
  BY <1>3, <1>4

(* The three outcomes of GapAtKey, as the invariants need them. *)
LEMMA GapOutcome ==
    ASSUME Control, SyncInv, NEW c, NEW m, GapLands(c, m), NEW k \in Keys
    PROVE  \/ /\ mirror'[k] \in WritesIn(k, HealFrom, HealTo)
              /\ UpToDate(k, mirror'[k], BlockOf[mirror'[k]])
              /\ place'[k] = [block |-> BlockOf[mirror'[k]], final |-> TRUE]
           \/ /\ mirror'[k] \in WritesIn(k, HealFrom, HealTo)
              /\ UpToDate(k, mirror'[k], BlockOf[mirror'[k]])
              /\ place'[k] = NoPlace
              /\ BlockOf[mirror'[k]] < HealTo /\ BlockOf[mirror'[k]] <= frontier
           \/ mirror'[k] = mirror[k] /\ place'[k] = place[k]
<1>1. CASE /\ k \in Touched(TopUpFrom, HealTo)
           /\ mirror'[k] = Collapsed(TopUpFrom, HealTo)[k]
           /\ place'[k] = [block |-> BlockOf[mirror'[k]], final |-> TRUE]
  BY <1>1, GapIsGood
<1>2. CASE /\ k \notin Touched(TopUpFrom, HealTo) /\ k \in Touched(HealFrom, c)
           /\ mirror'[k] = Collapsed(HealFrom, c)[k]
           /\ place'[k] = NoPlace
  <2>1. mirror'[k] \in WritesIn(k, HealFrom, HealTo)
        /\ UpToDate(k, mirror'[k], BlockOf[mirror'[k]])
    BY <1>2, GapIsGood
  <2>2. /\ mirror'[k] \in Writes(k) /\ BlockOf[mirror'[k]] \in Blocks
        /\ BlockOf[mirror'[k]] <= HealTo
    BY <2>1, WritesAreLogs DEF WritesIn
  <2>3. mirror'[k] \notin WritesIn(k, TopUpFrom, HealTo)
    BY <1>2 DEF Touched
  <2>4. TopUpFrom \in Blocks /\ HealTo \in Blocks /\ TopUpFrom <= HealTo
    BY HealFacts, GapReads DEF GapLands
  <2>5. BlockOf[mirror'[k]] < HealTo
    BY <2>2, <2>3, <2>4 DEF WritesIn, Blocks
  <2>6. mirror'[k] \in WritesIn(k, HealFrom, c)
    BY <1>2, ChainAssumption, CollapsedIsNewest
  <2>7. c \in Int /\ c <= frontier /\ frontier \in Blocks
    BY <1>2, GapReads, StateFacts
  <2>8. BlockOf[mirror'[k]] <= frontier
    BY <2>2, <2>6, <2>7 DEF WritesIn, Blocks
  <2> QED
    BY <1>2, <2>1, <2>5, <2>8
<1> QED
  BY <1>1, <1>2, GapAtKey

LEMMA GapKeepsGuardInv ==
    ASSUME Control, SyncInv, NEW c, NEW m, GapLands(c, m)
    PROVE  GuardInv'
<1>0. GuardInv
  BY DEF SyncInv
<1>1. \A k \in Keys : mirror'[k] \in 0..NLogs /\ place'[k] \in Places
  <2> TAKE k \in Keys
  <2>1. ASSUME mirror'[k] \in WritesIn(k, HealFrom, HealTo)
        PROVE  /\ mirror'[k] \in 0..NLogs
               /\ [block |-> BlockOf[mirror'[k]], final |-> TRUE] \in Places
    BY <2>1, WritesAreLogs DEF WritesIn, Places
  <2>2. NoPlace \in Places
    BY DEF NoPlace, Places, Bounds
  <2> QED
    BY <2>1, <2>2, GapOutcome, MirrorFacts
<1>2. applied' \in Bounds /\ reconciled' \in Bounds
  BY <1>0, MarkTypes DEF GapLands, LandGap, GuardInv, GuardTypeOK
<1>3. GuardTypeOK'
  <2>1. /\ mirror' = [k \in Keys |-> mirror'[k]] /\ place' = [k \in Keys |-> place'[k]]
    BY DEF GapLands, LandGap
  <2>2. mirror' \in [Keys -> 0..NLogs] /\ place' \in [Keys -> Places]
    BY <1>1, <2>1
  <2> QED
    BY <1>2, <2>2 DEF GuardTypeOK
<1>4. PlaceIsTrue'
  <2> SUFFICES ASSUME NEW k \in Keys, place'[k] # NoPlace
               PROVE  mirror'[k] \in Writes(k) /\ BlockOf[mirror'[k]] = place'[k].block
    BY DEF PlaceIsTrue, Writes
  <2>1. CASE /\ mirror'[k] \in WritesIn(k, HealFrom, HealTo)
             /\ place'[k] = [block |-> BlockOf[mirror'[k]], final |-> TRUE]
    BY <2>1 DEF WritesIn
  <2>2. CASE mirror'[k] = mirror[k] /\ place'[k] = place[k]
    BY <1>0, <2>2 DEF GuardInv, PlaceIsTrue
  <2> QED
    BY <2>1, <2>2, GapOutcome
<1>5. FinalIsLast'
  <2> SUFFICES ASSUME NEW k \in Keys, place'[k].final
               PROVE  UpToDate(k, mirror'[k], place'[k].block)
    BY DEF FinalIsLast, UpToDate, Writes
  <2>1. CASE /\ UpToDate(k, mirror'[k], BlockOf[mirror'[k]])
             /\ place'[k] = [block |-> BlockOf[mirror'[k]], final |-> TRUE]
    BY <2>1
  <2>2. CASE mirror'[k] = mirror[k] /\ place'[k] = place[k]
    BY <1>0, <2>2 DEF GuardInv, FinalIsLast
  <2>3. place'[k] # NoPlace
    BY DEF NoPlace
  <2> QED
    BY <2>1, <2>2, <2>3, GapOutcome
<1> QED
  BY <1>3, <1>4, <1>5 DEF GuardInv

(* A gap lowers no key.  Where the diff overwrites without asking, the     *)
(* frontier rule and the stream's order put what it overwrites in the gap  *)
(* or below it.                                                            *)
LEMMA GapNeverLowers ==
    ASSUME Control, SyncInv, NEW c, NEW m, GapLands(c, m), NEW k \in Keys
    PROVE  mirror[k] <= mirror'[k]
<1>1. /\ mirror[k] \in 0..NLogs /\ BlockOf[mirror[k]] \in Blocks
      /\ mirror[k] = 0 \/ mirror[k] \in Writes(k)
      /\ place[k] # NoPlace => BlockOf[mirror[k]] = place[k].block
  BY MirrorFacts
<1>2. /\ HealFrom \in Blocks /\ HealTo \in Blocks /\ HealFrom <= HealTo
      /\ heal = seen /\ cursor # 0 /\ frontier \in Blocks /\ rcursor \in Blocks
      /\ boot.frontier \in Blocks
  BY HealFacts, StateFacts DEF GapLands
<1>3. boot.frontier <= frontier /\ rcursor <= HealFrom
  BY <1>2 DEF Control, Shape, StreamShape, HealFrom
<1>4. CASE mirror'[k] = mirror[k]
  BY <1>1, <1>4
<1>5. CASE mirror'[k] # mirror[k]
  <2>1. mirror'[k] \in WritesIn(k, HealFrom, HealTo)
    BY <1>5, GapOutcome
  <2>2. mirror'[k] \in 0..NLogs /\ BlockOf[mirror'[k]] \in Blocks
        /\ HealFrom <= BlockOf[mirror'[k]]
    BY <2>1, WritesAreLogs DEF WritesIn
  <2>3. CASE BlockOf[mirror[k]] < HealFrom
    <3>1. BlockOf[mirror[k]] < BlockOf[mirror'[k]]
      BY <1>1, <1>2, <2>2, <2>3 DEF Blocks
    <3> QED
      BY <1>1, <2>2, <3>1, LowerBlockIsOlder
  <2>4. CASE HealFrom <= BlockOf[mirror[k]] /\ BlockOf[mirror[k]] <= HealTo
    <3>1. mirror[k] = 0 \/ mirror[k] \in WritesIn(k, HealFrom, HealTo)
      BY <1>1, <2>4 DEF WritesIn
    <3> QED
      BY <2>2, <3>1, GapIsHeld
  <2>5. CASE HealTo < BlockOf[mirror[k]]
    <3>1. CASE place[k] = NoPlace
      <4>1. BlockOf[mirror[k]] <= frontier
        BY <1>1, <1>2, <1>3, <2>5, <3>1
           DEF SyncInv, Content, LooseShape, HealFrom, Blocks
      <4>2. HealFrom > frontier \/ HealTo >= frontier
        BY DEF GapLands, FrontierAllows
      <4> QED
        BY <1>1, <1>2, <2>5, <4>1, <4>2 DEF Blocks
    <3>2. CASE place[k] # NoPlace /\ ~ place[k].final
      <4>1. mirror[k] <= heal
        BY <1>2, <3>2 DEF SyncInv, Content, PlaceShape
      <4>2. BlockOf[mirror[k]] <= HealTo
        BY <1>1, <4>1, LaterIsNoEarlier, StateFacts DEF HealTo
      <4> QED
        BY <1>1, <1>2, <2>5, <4>2 DEF Blocks
    <3>3. CASE place[k] # NoPlace /\ place[k].final
      <4>1. CASE MaxCatchUps = 0
        <5>1. BlockOf[mirror[k]] <= HealFrom
          BY <1>1, <3>3, <4>1 DEF SyncInv, Content, PlaceShape, HealFrom
        <5> QED
          BY <1>1, <1>2, <2>5, <5>1 DEF Blocks
      <4>2. CASE MaxCatchUps # 0
        <5>1. Touched(HealFrom, c) = {}
          BY <4>2, DiffMeetsNoCatchUp, GapReads DEF GapLands
        <5>2. /\ k \in Touched(TopUpFrom, HealTo)
              /\ ~ Skipped(k, BlockOf[Collapsed(TopUpFrom, HealTo)[k]])
              /\ mirror'[k] = Collapsed(TopUpFrom, HealTo)[k]
          BY <1>5, <5>1, GapAtKey
        <5>3. ~ (place[k].block > BlockOf[mirror'[k]])
          BY <5>2 DEF Skipped
        <5>4. BlockOf[mirror'[k]] <= HealTo
          BY <2>1 DEF WritesIn
        <5> QED
          BY <1>1, <1>2, <2>2, <2>5, <3>3, <5>3, <5>4 DEF Blocks
      <4> QED
        BY <4>1, <4>2
    <3> QED
      BY <3>1, <3>2, <3>3
  <2> QED
    BY <1>1, <1>2, <2>3, <2>4, <2>5 DEF Blocks
<1> QED
  BY <1>4, <1>5

-----------------------------------------------------------------------------
(* What a frame leaves.  The stream is in order, so the entry that arrives *)
(* is newer than all that came before it; it is not above everything the   *)
(* mirror holds, for reads run ahead of the stream.                        *)
FrameLands(i, anchor) ==
    /\ i \in Logs /\ anchor \in Bounds
    /\ i > seen
    /\ cursor = 0 => BlockOf[i] > boot.baseline
    /\ ApplyFrame(i, anchor)

LEMMA FrameFacts ==
    ASSUME Control, NEW i, NEW anchor, FrameLands(i, anchor)
    PROVE  /\ i \in 0..NLogs /\ BlockOf[i] \in Blocks /\ BlockOf[i] - 1 \in Blocks
           /\ i - 1 \in 0..NLogs /\ BlockOf[i - 1] \in Blocks
           /\ cursor < i /\ CursorBlock <= BlockOf[i] /\ rcursor <= BlockOf[i]
           /\ cursor = 0 => rcursor < BlockOf[i]
           /\ FrameMark(i, anchor) \in Marks
<1>1. i \in Logs /\ i \in 0..NLogs /\ i - 1 \in 0..NLogs
  BY ChainAssumption DEF FrameLands, Logs, ChainAssumption
<1>2. BlockOf[i] \in Blocks /\ BlockOf[i - 1] \in Blocks /\ BlockOf[i] >= 1
  BY <1>1, ChainAssumption DEF ChainAssumption
<1>3. BlockOf[i] - 1 \in Blocks
  BY <1>2, ChainAssumption DEF Blocks, ChainAssumption
<1>4. cursor < i
  BY <1>1, StateFacts DEF Control, Shape, StreamShape, FrameLands
<1>5. CursorBlock <= BlockOf[i]
  BY <1>1, <1>4, StateFacts, LaterIsNoEarlier DEF CursorBlock
<1>6. ASSUME cursor = 0 PROVE rcursor < BlockOf[i]
  BY <1>2, <1>6, StateFacts DEF Control, Shape, StreamShape, FrameLands, Blocks
<1>7. rcursor <= BlockOf[i]
  <2>1. cursor # 0 => rcursor <= CursorBlock
    BY DEF Control, Shape, StreamShape
  <2> QED
    BY <1>2, <1>5, <1>6, <2>1, StateFacts DEF Blocks
<1>8. FrameMark(i, anchor) \in Marks
  BY <1>3 DEF FrameLands, FrameMark, Mark, Marks
<1> QED
  BY <1>1, <1>2, <1>3, <1>4, <1>5, <1>6, <1>7, <1>8

LEMMA FrameAtKey ==
    ASSUME Control, SyncInv, NEW i, NEW anchor, FrameLands(i, anchor), NEW k \in Keys
    PROVE  \/ /\ i \in Writes(k) /\ ~ Skipped(k, BlockOf[i])
              /\ mirror'[k] = i
              /\ place'[k] = [block |-> BlockOf[i], final |-> FALSE]
           \/ /\ i \in Writes(k) => Skipped(k, BlockOf[i])
              /\ mirror'[k] = mirror[k] /\ place'[k] = place[k]
<1>1. CASE KeyOf[i] \notin Keys
  BY <1>1 DEF FrameLands, ApplyFrame, guardVars, Writes
<1>2. CASE KeyOf[i] \in Keys
  <2> DEFINE ups == [x \in {KeyOf[i]} |-> i]
             m == FrameMark(i, anchor)
  <2>1. Land(ups, FALSE, m)
    BY <1>2 DEF FrameLands, ApplyFrame, LandFrame
  <2>2. ReconciledAfter(m) = reconciled
    BY DEF ReconciledAfter, FrameMark, Mark
  <2> HIDE DEF m
  <2>3. place' = PlaceAfter(ups, FALSE)
    BY <2>1, <2>2 DEF Land, Pruned
  <2>4. k \in Taken(ups) <=> i \in Writes(k) /\ ~ Skipped(k, BlockOf[i])
    BY <1>2 DEF Taken, Writes, FrameLands
  <2>5. CASE k \in Taken(ups)
    <3>1. ups[k] = i
      BY <2>5 DEF Taken
    <3>2. mirror'[k] = ups[k] /\ place'[k] = [block |-> BlockOf[ups[k]], final |-> FALSE]
      BY <2>1, <2>3, <2>5 DEF Land, PlaceAfter
    <3> QED
      BY <2>4, <2>5, <3>1, <3>2
  <2>6. CASE k \notin Taken(ups)
    <3>1. mirror'[k] = mirror[k] /\ place'[k] = place[k]
      BY <2>1, <2>3, <2>6 DEF Land, PlaceAfter
    <3> QED
      BY <2>4, <2>6, <3>1
  <2> QED
    BY <2>5, <2>6
<1> QED
  BY <1>1, <1>2

LEMMA FrameKeepsGuard ==
    ASSUME Control, SyncInv, NEW i, NEW anchor, FrameLands(i, anchor)
    PROVE  /\ GuardInv' /\ OwnValues'
           /\ reconciled' = reconciled
           /\ applied' = applied \/ applied' = AppliedAfter(FrameMark(i, anchor))
<1>0. GuardInv /\ OwnValues
  BY DEF SyncInv, Content
<1>1. CASE KeyOf[i] \notin Keys
  BY <1>0, <1>1, QuietKeepsInv
     DEF FrameLands, ApplyFrame, guardVars, GuardInv, GuardTypeOK, OwnValues, Writes
<1>2. CASE KeyOf[i] \in Keys
  <2>1. /\ Land([x \in {KeyOf[i]} |-> i], FALSE, FrameMark(i, anchor))
        /\ GoodBatch([x \in {KeyOf[i]} |-> i], FALSE)
        /\ FrameMark(i, anchor) \in Marks
    BY <1>2, FrameIsGood, FrameFacts DEF FrameLands, ApplyFrame, LandFrame
  <2>2. GuardInv' /\ OwnValues'
    BY <1>0, <2>1, LandKeepsInv, LandOwns
  <2>3. ReconciledAfter(FrameMark(i, anchor)) = reconciled
    BY DEF ReconciledAfter, FrameMark, Mark
  <2> QED
    BY <2>1, <2>2, <2>3 DEF Land
<1> QED
  BY <1>1, <1>2

LEMMA FrameIsHeld ==
    ASSUME Control, SyncInv, NEW i, NEW anchor, FrameLands(i, anchor),
           NEW k \in Keys, i \in Writes(k)
    PROVE  i <= mirror'[k]
<1>1. i \in 0..NLogs
  BY FrameFacts
<1>2. CASE mirror'[k] = i
  BY <1>1, <1>2
<1>3. CASE Skipped(k, BlockOf[i]) /\ mirror'[k] = mirror[k]
  BY <1>3, SkippedIsHeld DEF SyncInv
<1> QED
  BY <1>2, <1>3, FrameAtKey

(* A frame lowers a key only where the boot image left a value without a   *)
(* place, within its own window.                                           *)
LEMMA FrameLowersOnlyTheImage ==
    ASSUME Control, SyncInv, NEW i, NEW anchor, FrameLands(i, anchor), NEW k \in Keys,
           mirror'[k] < mirror[k]
    PROVE  /\ mirror'[k] = i
           /\ place[k] = NoPlace
           /\ BlockOf[mirror[k]] <= boot.frontier
<1>1. /\ mirror[k] \in 0..NLogs /\ BlockOf[mirror[k]] \in Blocks
      /\ place[k].block \in Bounds
      /\ place[k] # NoPlace => BlockOf[mirror[k]] = place[k].block
  BY MirrorFacts
<1>2. i \in 0..NLogs /\ BlockOf[i] \in Blocks /\ CursorBlock <= BlockOf[i] /\ rcursor <= BlockOf[i]
  BY FrameFacts
<1>3. mirror'[k] = i /\ ~ Skipped(k, BlockOf[i])
  <2>1. mirror'[k] # mirror[k]
    BY <1>1
  <2> QED
    BY <2>1, FrameAtKey
<1>4. ~ (BlockOf[mirror[k]] < BlockOf[i])
  BY <1>1, <1>2, <1>3, LowerBlockIsOlder
<1>5. place[k] = NoPlace
  <2> SUFFICES ASSUME place[k] # NoPlace PROVE FALSE
    OBVIOUS
  <2>1. BlockOf[mirror[k]] = BlockOf[i] /\ ~ place[k].final
    BY <1>1, <1>2, <1>3, <1>4 DEF Skipped, Blocks
  <2>2. mirror[k] <= seen
    BY <2>1 DEF SyncInv, Content, PlaceShape
  <2> QED
    BY <1>1, <1>2, <1>3, <2>2, StateFacts DEF FrameLands
<1>6. BlockOf[mirror[k]] <= boot.frontier
  BY <1>1, <1>2, <1>4, <1>5, StateFacts DEF SyncInv, Content, LooseShape, Blocks
<1> QED
  BY <1>3, <1>5, <1>6

(* The two ways a frame may come: the first of this process, or one the    *)
(* continuity check lets through.                                          *)
FrameComes(i, anchor) ==
    /\ FrameLands(i, anchor)
    /\ cursor' = i /\ seen' = i /\ chainAnchor' = anchor /\ anchor \in Blocks
    /\ cursor = 0 => anchor = BlockOf[i - 1]
    /\ cursor # 0 => anchor = chainAnchor /\ Continues(i)
    /\ UNCHANGED <<frontier, rcursor, boot, repaired>>

LEMMA FrameIsNext ==
    ASSUME Control, SyncInv, DistinctIndices, NEW i, NEW anchor, FrameComes(i, anchor), cursor # 0
    PROVE  i - 1 = cursor
<1>1. i - 1 \in 0..NLogs /\ cursor \in 0..NLogs
  BY FrameFacts, StateFacts DEF FrameComes
<1>2. BlockOf[i - 1] = BlockOf[cursor] /\ IndexOf[i - 1] = IndexOf[cursor]
  BY DEF FrameComes, Continues, CursorBlock
<1> QED
  BY <1>1, <1>2 DEF DistinctIndices

LEMMA FrameKeepsPlaces ==
    ASSUME Control, SyncInv, NEW i, NEW anchor, FrameComes(i, anchor)
    PROVE  PlaceShape' /\ LooseShape' /\ PassedIsSkipped'
<1>1. /\ FrameLands(i, anchor) /\ i \in 0..NLogs /\ BlockOf[i] \in Blocks
      /\ cursor' = i /\ seen' = i /\ CursorBlock' = BlockOf[i]
      /\ CursorBlock <= BlockOf[i] /\ CursorBlock \in Blocks /\ i > seen /\ seen \in 0..NLogs
      /\ frontier' = frontier /\ rcursor' = rcursor /\ boot' = boot
  BY FrameFacts, StateFacts DEF FrameComes, FrameLands, CursorBlock
<1>2. ASSUME NEW k \in Keys, place'[k] # NoPlace
      PROVE  /\ ~ place'[k].final => mirror'[k] <= i
             /\ place'[k].final /\ MaxCatchUps = 0 => place'[k].block <= BlockOf[i]
  <2>1. CASE mirror'[k] = i /\ place'[k] = [block |-> BlockOf[i], final |-> FALSE]
    BY <1>1, <2>1
  <2>2. CASE mirror'[k] = mirror[k] /\ place'[k] = place[k]
    <3>1. /\ ~ place[k].final => mirror[k] <= seen
          /\ place[k].final /\ MaxCatchUps = 0 => place[k].block <= CursorBlock
      BY <1>2, <2>2 DEF SyncInv, Content, PlaceShape
    <3>2. mirror[k] \in Int /\ place[k].block \in Int
      BY MirrorFacts DEF Bounds, Blocks, Null
    <3> QED
      BY <1>1, <2>2, <3>1, <3>2 DEF Blocks
  <2> QED
    BY <1>1, <2>1, <2>2, FrameAtKey
<1>3. ASSUME NEW k \in Keys, place'[k] = NoPlace
      PROVE  \/ BlockOf[mirror'[k]] <= boot.frontier
             \/ BlockOf[mirror'[k]] < rcursor
             \/ BlockOf[mirror'[k]] < BlockOf[i] /\ BlockOf[mirror'[k]] <= frontier
  <2>1. place'[k] # [block |-> BlockOf[i], final |-> FALSE]
    BY <1>1, <1>3 DEF NoPlace, Null, Blocks
  <2>2. mirror'[k] = mirror[k] /\ place[k] = NoPlace
    BY <1>1, <1>3, <2>1, FrameAtKey
  <2>3. \/ BlockOf[mirror[k]] <= boot.frontier
        \/ BlockOf[mirror[k]] < rcursor
        \/ BlockOf[mirror[k]] < CursorBlock /\ BlockOf[mirror[k]] <= frontier
    BY <2>2 DEF SyncInv, Content, LooseShape
  <2> QED
    BY <1>1, <2>2, <2>3, MirrorFacts DEF Blocks
<1>4. ASSUME rcursor = BlockOf[i], NEW k \in Touched(rcursor, rcursor)
      PROVE  Skipped(k, rcursor)'
  <2>1. cursor # 0 /\ rcursor = CursorBlock
    BY <1>1, <1>4, FrameFacts, StateFacts DEF Control, Shape, StreamShape, Blocks
  <2>2. k \in Keys /\ Skipped(k, rcursor)
    BY <1>4, <2>1 DEF SyncInv, Content, PassedIsSkipped, Touched
  <2>3. place'[k] = place[k]
    BY <1>1, <1>4, <2>2, FrameAtKey
  <2> QED
    BY <1>1, <2>2, <2>3 DEF Skipped
<1>5. PlaceShape'
  BY <1>1, <1>2 DEF PlaceShape
<1>6. LooseShape'
  BY <1>1, <1>3 DEF LooseShape
<1>7. PassedIsSkipped'
  BY <1>1, <1>4 DEF PassedIsSkipped, Touched, WritesIn, Writes
<1> QED
  BY <1>5, <1>6, <1>7

(* A frame of a block the reconcile has vouched for is skipped: what lands *)
(* is newer than every write up to reconciledThrough.                      *)
LEMMA FrameKeepsReconciled ==
    ASSUME Control, SyncInv, NEW i, NEW anchor, FrameComes(i, anchor)
    PROVE  ReconciledIsHeld'
<1>1. /\ FrameLands(i, anchor) /\ i \in 0..NLogs /\ i \in Logs /\ BlockOf[i] \in Blocks
      /\ rcursor <= BlockOf[i] /\ CursorBlock <= BlockOf[i] /\ rcursor \in Blocks
      /\ CursorBlock \in Blocks
  BY FrameFacts, StateFacts DEF FrameComes, FrameLands
<1>2. reconciled' = rcursor /\ reconciled = rcursor
  BY <1>1, FrameKeepsGuard DEF Control, Shape, StreamShape
<1>3. SUFFICES ASSUME NEW k \in Keys PROVE UpToDate(k, mirror'[k], rcursor)
  BY <1>2 DEF ReconciledIsHeld, UpToDate, Writes
<1>4. UpToDate(k, mirror[k], rcursor)
  BY <1>2 DEF SyncInv, Content, ReconciledIsHeld
<1>5. CASE i \in Writes(k) /\ ~ Skipped(k, BlockOf[i]) /\ mirror'[k] = i
  <2>1. BlockOf[i] # rcursor
    <3> SUFFICES ASSUME BlockOf[i] = rcursor PROVE FALSE
      OBVIOUS
    <3>1. cursor # 0 /\ rcursor = CursorBlock
      BY <1>1, FrameFacts DEF Control, Shape, StreamShape, Blocks
    <3>2. k \in Touched(rcursor, rcursor)
      BY <1>1, <1>5 DEF Touched, WritesIn, Blocks
    <3> QED
      BY <1>5, <3>1, <3>2 DEF SyncInv, Content, PassedIsSkipped
  <2>2. ASSUME NEW w \in Writes(k), BlockOf[w] <= rcursor PROVE w <= i
    <3>1. w \in 0..NLogs /\ BlockOf[w] \in Blocks
      BY WritesAreLogs
    <3>2. BlockOf[w] < BlockOf[i]
      BY <1>1, <2>1, <2>2, <3>1 DEF Blocks
    <3> QED
      BY <1>1, <3>1, <3>2, LowerBlockIsOlder
  <2> QED
    BY <1>5, <2>2 DEF UpToDate
<1>6. CASE mirror'[k] = mirror[k]
  BY <1>4, <1>6
<1> QED
  BY <1>1, <1>5, <1>6, FrameAtKey

LEMMA FrameKeepsChain ==
    ASSUME Control, SyncInv, DistinctIndices, NEW i, NEW anchor, FrameComes(i, anchor),
           NEW k \in Keys, NEW w \in Writes(k), anchor < BlockOf[w], w <= i
    PROVE  w <= mirror'[k]
<1>1. /\ FrameLands(i, anchor) /\ i \in 0..NLogs /\ i - 1 \in 0..NLogs
      /\ cursor \in 0..NLogs
      /\ w \in 0..NLogs /\ mirror[k] \in 0..NLogs /\ BlockOf[w] \in Blocks
  BY FrameFacts, StateFacts, MirrorFacts, WritesAreLogs DEF FrameComes
<1>2. CASE w = i
  BY <1>1, <1>2, FrameIsHeld
<1>3. CASE w # i
  <2>1. cursor # 0
    <3> SUFFICES ASSUME cursor = 0 PROVE FALSE
      OBVIOUS
    <3>1. BlockOf[i - 1] < BlockOf[w]
      BY DEF FrameComes
    <3>2. i - 1 < w
      BY <1>1, <3>1, LowerBlockIsOlder
    <3> QED
      BY <1>1, <1>3, <3>2
  <2>2. w <= cursor /\ anchor = chainAnchor
    BY <1>1, <1>3, <2>1, FrameIsNext DEF FrameComes
  <2>3. w <= mirror[k]
    BY <2>1, <2>2 DEF SyncInv, Content, ChainIsHeld
  <2> QED
    BY <1>1, <2>3, FrameAtKey
<1> QED
  BY <1>2, <1>3

LEMMA FrameKeepsApplied ==
    ASSUME Control, SyncInv, NEW i, NEW anchor, FrameComes(i, anchor)
    PROVE  ChainIsHeld' /\ AppliedOrAhead'
<1>1. /\ FrameLands(i, anchor) /\ i \in 0..NLogs /\ BlockOf[i] \in Blocks
      /\ cursor' = i /\ chainAnchor' = anchor /\ anchor \in Blocks
      /\ boot' = boot /\ cursor \in 0..NLogs /\ cursor < i
      /\ boot.frontier \in Blocks /\ applied \in Blocks
  BY FrameFacts, StateFacts DEF FrameComes, Control, Shape, StreamShape
<1>2. ChainIsHeld'
  <2>1. DistinctIndices => \A k \in Keys : \A w \in Writes(k) :
            anchor < BlockOf[w] /\ w <= i => w <= mirror'[k]
    BY FrameKeepsChain
  <2> QED
    BY <1>1, <2>1 DEF ChainIsHeld, Writes, DistinctIndices
<1>3. ASSUME DistinctIndices, boot.filled >= boot.start,
             NEW k \in Keys, NEW w \in Writes(k), BlockOf[w] <= applied'
      PROVE  w <= mirror'[k] \/ (i < w /\ BlockOf[w] <= boot.frontier)
  <2>1. w \in 0..NLogs /\ BlockOf[w] \in Blocks /\ mirror[k] \in 0..NLogs
        /\ BlockOf[mirror[k]] \in Blocks
    BY WritesAreLogs, MirrorFacts
  <2>2. CASE BlockOf[w] <= applied
    <3>1. \/ w <= mirror[k]
          \/ cursor # 0 /\ cursor < w /\ BlockOf[w] <= boot.frontier
      BY <1>3, <2>2 DEF SyncInv, Content, AppliedOrAhead
    <3>2. CASE w <= mirror[k]
      <4>1. CASE mirror'[k] = mirror[k]
        BY <3>2, <4>1
      <4>2. CASE mirror'[k] = i /\ w <= i
        BY <4>2
      <4>3. CASE mirror'[k] = i /\ i < w
        <5>1. mirror'[k] < mirror[k]
          BY <1>1, <2>1, <3>2, <4>3
        <5>2. BlockOf[mirror[k]] <= boot.frontier
          BY <1>1, <5>1, FrameLowersOnlyTheImage
        <5>3. BlockOf[w] <= BlockOf[mirror[k]]
          BY <2>1, <3>2, LaterIsNoEarlier
        <5> QED
          BY <1>1, <2>1, <4>3, <5>2, <5>3 DEF Blocks
      <4>4. mirror'[k] = mirror[k] \/ mirror'[k] = i
        BY <1>1, FrameAtKey
      <4> QED
        BY <1>1, <2>1, <4>1, <4>2, <4>3, <4>4
    <3>3. CASE cursor # 0 /\ cursor < w /\ BlockOf[w] <= boot.frontier
      <4>1. i - 1 = cursor
        BY <1>3, <3>3, FrameIsNext
      <4>2. CASE w = i
        BY <1>1, <4>2, FrameIsHeld
      <4>3. CASE i < w
        BY <3>3, <4>3
      <4> QED
        BY <1>1, <2>1, <3>3, <4>1, <4>2, <4>3
    <3> QED
      BY <3>1, <3>2, <3>3
  <2>3. CASE applied < BlockOf[w]
    <3>1. applied' = AppliedAfter(FrameMark(i, anchor)) /\ applied' # applied
      BY <1>1, <1>3, <2>1, <2>3, FrameKeepsGuard DEF Blocks
    <3>2. applied' = BlockOf[i] - 1 /\ applied >= anchor
      BY <1>1, <3>1 DEF AppliedAfter, FrameMark, Mark, Null, Blocks
    <3>3. w < i
      <4>1. BlockOf[w] < BlockOf[i]
        BY <1>1, <1>3, <2>1, <3>2 DEF Blocks
      <4> QED
        BY <1>1, <2>1, <4>1, LowerBlockIsOlder
    <3>4. anchor < BlockOf[w] /\ w <= i
      BY <1>1, <2>1, <2>3, <3>2, <3>3 DEF Blocks
    <3> QED
      BY <1>3, <3>4, FrameKeepsChain
  <2> QED
    BY <1>1, <2>1, <2>2, <2>3 DEF Blocks
<1>4. AppliedOrAhead'
  <2>1. i # 0
    BY <1>1
  <2> QED
    BY <1>1, <1>3, <2>1 DEF AppliedOrAhead, Writes, DistinctIndices
<1> QED
  BY <1>2, <1>4

-----------------------------------------------------------------------------
(* Steps that leave the mirror and the cursors alone. *)
QuietStep ==
    /\ UNCHANGED <<guardVars, cursor, chainAnchor, rcursor, boot>>
    /\ seen' \in 0..NLogs /\ seen <= seen'
    /\ frontier' \in Blocks /\ frontier <= frontier'

LEMMA QuietKeepsContent ==
    ASSUME Control, SyncInv, QuietStep
    PROVE  GuardInv' /\ Content'
<1>1. /\ mirror' = mirror /\ place' = place /\ applied' = applied
      /\ reconciled' = reconciled /\ cursor' = cursor /\ chainAnchor' = chainAnchor
      /\ rcursor' = rcursor /\ boot' = boot /\ CursorBlock' = CursorBlock
  BY DEF QuietStep, guardVars, CursorBlock
<1>2. GuardInv'
  BY <1>1, QuietKeepsInv DEF SyncInv, GuardInv, GuardTypeOK
<1>3. OwnValues' /\ ReconciledIsHeld'
  BY <1>1 DEF SyncInv, Content, OwnValues, ReconciledIsHeld, UpToDate, Writes
<1>4. PassedIsSkipped'
  BY <1>1 DEF SyncInv, Content, PassedIsSkipped, Skipped, Touched, WritesIn, Writes
<1>5. ChainIsHeld' /\ AppliedOrAhead'
  BY <1>1 DEF SyncInv, Content, ChainIsHeld, AppliedOrAhead, Writes, DistinctIndices
<1>6. PlaceShape'
  <2> SUFFICES ASSUME NEW k \in Keys, place[k] # NoPlace, ~ place[k].final
               PROVE  mirror[k] <= seen'
    BY <1>1 DEF PlaceShape, SyncInv, Content
  <2>1. mirror[k] <= seen
    BY DEF PlaceShape, SyncInv, Content
  <2> QED
    BY <2>1, StateFacts, MirrorFacts DEF QuietStep
<1>7. LooseShape'
  <2> SUFFICES ASSUME NEW k \in Keys, place[k] = NoPlace
               PROVE  \/ BlockOf[mirror[k]] <= boot.frontier
                      \/ BlockOf[mirror[k]] < rcursor
                      \/ BlockOf[mirror[k]] < CursorBlock /\ BlockOf[mirror[k]] <= frontier'
    BY <1>1 DEF LooseShape
  <2>1. \/ BlockOf[mirror[k]] <= boot.frontier
        \/ BlockOf[mirror[k]] < rcursor
        \/ BlockOf[mirror[k]] < CursorBlock /\ BlockOf[mirror[k]] <= frontier
    BY DEF LooseShape, SyncInv, Content
  <2> QED
    BY <2>1, StateFacts, MirrorFacts DEF QuietStep, Blocks
<1> QED
  BY <1>2, <1>3, <1>4, <1>5, <1>6, <1>7 DEF Content

-----------------------------------------------------------------------------
(* What a finished heal leaves, whether its gap held a write or not. *)
LEMMA HealMark ==
    ASSUME Control, heal # 0
    PROVE  /\ FrameMark(heal, chainAnchor) \in Marks
           /\ chainAnchor \in Blocks /\ HealTo - 1 \in Blocks
           /\ FrameMark(heal, chainAnchor).through = HealTo - 1
           /\ FrameMark(heal, chainAnchor).anchor = chainAnchor
<1>1. heal \in Logs /\ cursor # 0 /\ HealTo \in Blocks
  BY HealFacts
<1>2. chainAnchor \in Blocks
  BY <1>1 DEF Control, Shape, StreamShape
<1>3. HealTo - 1 \in Blocks
  BY <1>1, ChainAssumption DEF ChainAssumption, HealTo, Blocks
<1> QED
  BY <1>2, <1>3 DEF FrameMark, Mark, Marks, HealTo, Bounds

LEMMA HealOutcome ==
    ASSUME Control, SyncInv, HealDone
    PROVE  /\ GuardInv'
           /\ reconciled' = reconciled
           /\ applied' = applied \/ applied' = AppliedAfter(FrameMark(heal, chainAnchor))
           /\ \A k \in Keys :
                 /\ mirror[k] <= mirror'[k]
                 /\ \A w \in WritesIn(k, HealFrom, HealTo) : w <= mirror'[k]
<1>1. heal # 0 /\ FrontierAllows(HealFrom, HealTo)
  BY DEF HealDone, Asked
<1>2. CASE Touched(HealFrom, HealTo) = {}
  <2>1. UNCHANGED guardVars
    BY <1>2 DEF HealDone
  <2>2. \A k \in Keys : WritesIn(k, HealFrom, HealTo) = {}
    BY <1>2 DEF Touched
  <2>3. GuardInv'
    BY <2>1, QuietKeepsInv DEF guardVars, SyncInv, GuardInv, GuardTypeOK
  <2>4. \A k \in Keys : mirror[k] <= mirror[k]
    BY MirrorFacts
  <2> QED
    BY <2>1, <2>2, <2>3, <2>4 DEF guardVars
<1>3. CASE Touched(HealFrom, HealTo) # {}
  <2>1. PICK c \in {diffHead - 1, diffHead} : LandGap(c, FrameMark(heal, chainAnchor))
    BY <1>3 DEF HealDone
  <2> DEFINE m == FrameMark(heal, chainAnchor)
  <2> HIDE DEF m
  <2>2. GapLands(c, m)
    BY <1>1, <2>1, HealMark DEF GapLands, m
  <2>3. GuardInv'
    BY <2>2, GapKeepsGuardInv
  <2>4. reconciled' = reconciled /\ applied' = AppliedAfter(m)
    BY <2>2 DEF GapLands, LandGap
  <2>5. ASSUME NEW k \in Keys
        PROVE  mirror[k] <= mirror'[k] /\ \A w \in WritesIn(k, HealFrom, HealTo) : w <= mirror'[k]
    BY <2>2, GapNeverLowers, GapIsHeld
  <2> QED
    BY <2>3, <2>4, <2>5 DEF m
<1> QED
  BY <1>2, <1>3

LEMMA HealAtKey ==
    ASSUME Control, SyncInv, HealDone, NEW k \in Keys
    PROVE  \/ /\ mirror'[k] \in WritesIn(k, HealFrom, HealTo)
              /\ UpToDate(k, mirror'[k], BlockOf[mirror'[k]])
              /\ place'[k] = [block |-> BlockOf[mirror'[k]], final |-> TRUE]
           \/ /\ mirror'[k] \in WritesIn(k, HealFrom, HealTo)
              /\ UpToDate(k, mirror'[k], BlockOf[mirror'[k]])
              /\ place'[k] = NoPlace
              /\ BlockOf[mirror'[k]] < HealTo /\ BlockOf[mirror'[k]] <= frontier
           \/ mirror'[k] = mirror[k] /\ place'[k] = place[k]
<1>1. heal # 0 /\ FrontierAllows(HealFrom, HealTo)
  BY DEF HealDone, Asked
<1>2. CASE Touched(HealFrom, HealTo) = {}
  BY <1>2 DEF HealDone, guardVars
<1>3. CASE Touched(HealFrom, HealTo) # {}
  <2>1. PICK c \in {diffHead - 1, diffHead} : LandGap(c, FrameMark(heal, chainAnchor))
    BY <1>3 DEF HealDone
  <2>2. GapLands(c, FrameMark(heal, chainAnchor))
    BY <1>1, <2>1, HealMark DEF GapLands
  <2> QED
    BY <2>2, GapOutcome
<1> QED
  BY <1>2, <1>3

(* A gap within one block is narrow, so it is read whole from the chain:   *)
(* where the reconcile has been through that block, the heal leaves every  *)
(* key of it final.                                                        *)
LEMMA HealKeepsSkipped ==
    ASSUME Control, SyncInv, HealDone, HealFrom = HealTo, NEW k \in Touched(HealTo, HealTo)
    PROVE  \/ place'[k].block > HealTo
           \/ place'[k].block = HealTo /\ place'[k].final
<1>1. heal # 0 /\ FrontierAllows(HealFrom, HealTo) /\ k \in Keys
      /\ Touched(HealFrom, HealTo) # {}
  BY DEF HealDone, Asked, Touched
<1>2. PICK c \in {diffHead - 1, diffHead} : LandGap(c, FrameMark(heal, chainAnchor))
  BY <1>1 DEF HealDone
<1> DEFINE m == FrameMark(heal, chainAnchor)
<1> HIDE DEF m
<1>3. GapLands(c, m)
  BY <1>1, <1>2, HealMark DEF GapLands, m
<1>4. HealTo \in Blocks /\ HealFrom \in Blocks
  BY <1>1, HealFacts
<1>5. ~ Wide
  BY <1>4, SyncAssumption DEF SyncAssumption, Wide, Blocks
<1>6. diffHead \notin Blocks
  BY <1>5 DEF Control, Shape, HealShape, Unasked, Blocks
<1>7. Touched(HealFrom, c) = {} /\ TopUpFrom = HealTo
  BY <1>1, <1>3, <1>6, HealFacts, GapReads
<1>8. Collapsed(HealTo, HealTo)[k] \in WritesIn(k, HealTo, HealTo)
  BY ChainAssumption, CollapsedIsNewest
<1>9. BlockOf[Collapsed(HealTo, HealTo)[k]] = HealTo
  <2>1. BlockOf[Collapsed(HealTo, HealTo)[k]] \in Blocks
    BY <1>1, <1>8, WritesAreLogs DEF WritesIn
  <2> QED
    BY <1>4, <1>8, <2>1 DEF WritesIn, Blocks
<1>10. CASE /\ mirror'[k] = Collapsed(HealTo, HealTo)[k]
            /\ place'[k] = [block |-> BlockOf[mirror'[k]], final |-> TRUE]
  BY <1>9, <1>10
<1>11. CASE Skipped(k, HealTo) /\ place'[k] = place[k]
  BY <1>11 DEF Skipped
<1> QED
  BY <1>1, <1>3, <1>7, <1>9, <1>10, <1>11, GapAtKey

LEMMA HealKeepsContent ==
    ASSUME Control, SyncInv, HealDone
    PROVE  GuardInv' /\ Content'
<1>1. /\ heal # 0 /\ cursor' = heal /\ seen' = seen /\ chainAnchor' = chainAnchor
      /\ frontier' = frontier /\ rcursor' = rcursor /\ boot' = boot
      /\ CursorBlock' = HealTo
  BY DEF HealDone, Asked, passVars, CursorBlock, HealTo
<1>2. /\ cursor # 0 /\ heal = seen /\ cursor < heal /\ heal \in 0..NLogs
      /\ cursor \in 0..NLogs /\ HealFrom \in Blocks /\ HealTo \in Blocks
      /\ HealFrom <= HealTo /\ rcursor \in Blocks /\ rcursor <= HealFrom
      /\ boot.frontier \in Blocks /\ applied \in Blocks /\ frontier \in Blocks
  BY <1>1, HealFacts, StateFacts DEF Control, Shape, StreamShape, HealFrom, Logs
<1>3. GuardInv' /\ reconciled' = reconciled /\ reconciled = rcursor
  BY HealOutcome DEF Control, Shape, StreamShape
<1> DEFINE Read(k) == /\ mirror'[k] \in WritesIn(k, HealFrom, HealTo)
                      /\ UpToDate(k, mirror'[k], BlockOf[mirror'[k]])
           Placed(k) == place'[k] = [block |-> BlockOf[mirror'[k]], final |-> TRUE]
           Loose(k) == /\ place'[k] = NoPlace
                       /\ BlockOf[mirror'[k]] < HealTo /\ BlockOf[mirror'[k]] <= frontier
           Kept(k) == mirror'[k] = mirror[k] /\ place'[k] = place[k]
<1>4. \A k \in Keys : (Read(k) /\ Placed(k)) \/ (Read(k) /\ Loose(k)) \/ Kept(k)
  BY HealAtKey
<1>5. \A k \in Keys : mirror[k] <= mirror'[k]
  BY HealOutcome
<1>6. \A k \in Keys : \A w \in WritesIn(k, HealFrom, HealTo) : w <= mirror'[k]
  BY HealOutcome
<1>7. \A k \in Keys : mirror'[k] \in 0..NLogs
  BY <1>3 DEF GuardInv, GuardTypeOK
<1>8. ASSUME NEW k \in Keys, Read(k)
      PROVE  /\ mirror'[k] \in Writes(k) /\ BlockOf[mirror'[k]] \in Blocks
             /\ HealFrom <= BlockOf[mirror'[k]] /\ BlockOf[mirror'[k]] <= HealTo
  BY <1>8, WritesAreLogs DEF WritesIn
<1> HIDE DEF Read
<1>9. OwnValues'
  <2> SUFFICES ASSUME NEW k \in Keys PROVE mirror'[k] \in Writes(k) \cup {0}
    BY DEF OwnValues, Writes
  <2> QED
    BY <1>4, <1>8 DEF SyncInv, Content, OwnValues
<1>10. PlaceShape'
  <2> SUFFICES ASSUME NEW k \in Keys, place'[k] # NoPlace
               PROVE  /\ ~ place'[k].final => mirror'[k] <= seen
                      /\ place'[k].final /\ MaxCatchUps = 0 => place'[k].block <= HealTo
    BY <1>1 DEF PlaceShape
  <2>1. CASE Read(k) /\ Placed(k)
    BY <1>8, <2>1
  <2>2. CASE Kept(k)
    <3>1. /\ ~ place[k].final => mirror[k] <= seen
          /\ place[k].final /\ MaxCatchUps = 0 => place[k].block <= HealFrom
      BY <2>2 DEF SyncInv, Content, PlaceShape, HealFrom
    <3>2. place[k].block \in Int
      BY MirrorFacts DEF Bounds, Blocks, Null
    <3> QED
      BY <1>2, <2>2, <3>1, <3>2 DEF Blocks
  <2> QED
    BY <1>4, <2>1, <2>2
<1>11. LooseShape'
  <2> SUFFICES ASSUME NEW k \in Keys, place'[k] = NoPlace
               PROVE  \/ BlockOf[mirror'[k]] <= boot.frontier
                      \/ BlockOf[mirror'[k]] < rcursor
                      \/ BlockOf[mirror'[k]] < HealTo /\ BlockOf[mirror'[k]] <= frontier
    BY <1>1 DEF LooseShape
  <2>1. CASE Kept(k)
    <3>1. \/ BlockOf[mirror[k]] <= boot.frontier
          \/ BlockOf[mirror[k]] < rcursor
          \/ BlockOf[mirror[k]] < HealFrom /\ BlockOf[mirror[k]] <= frontier
      BY <2>1 DEF SyncInv, Content, LooseShape, HealFrom
    <3> QED
      BY <1>2, <2>1, <3>1, MirrorFacts DEF Blocks
  <2>2. CASE Read(k) /\ Placed(k)
    <3>1. place'[k].final /\ ~ NoPlace.final
      BY <2>2 DEF NoPlace
    <3> QED
      BY <3>1
  <2> QED
    BY <1>4, <2>1, <2>2
<1>12. PassedIsSkipped'
  <2> SUFFICES ASSUME rcursor = HealTo, NEW k \in Touched(HealTo, HealTo)
               PROVE  \/ place'[k].block > HealTo
                      \/ place'[k].block = HealTo /\ place'[k].final
    BY <1>1 DEF PassedIsSkipped, Touched, WritesIn, Writes, Skipped
  <2>1. HealFrom = HealTo
    BY <1>2 DEF Blocks
  <2> QED
    BY <2>1, HealKeepsSkipped
<1>13. ReconciledIsHeld'
  <2> SUFFICES ASSUME NEW k \in Keys, NEW w \in Writes(k), BlockOf[w] <= rcursor
               PROVE  w <= mirror'[k]
    BY <1>3 DEF ReconciledIsHeld, UpToDate, Writes
  <2>1. w <= mirror[k]
    BY <1>3 DEF SyncInv, Content, ReconciledIsHeld, UpToDate
  <2> QED
    BY <1>5, <1>7, <2>1, WritesAreLogs, MirrorFacts
<1>14. ASSUME DistinctIndices, NEW k \in Keys, NEW w \in Writes(k),
              chainAnchor < BlockOf[w], w <= heal
       PROVE  w <= mirror'[k]
  <2>1. w \in 0..NLogs /\ mirror[k] \in 0..NLogs
    BY WritesAreLogs, MirrorFacts
  <2>2. CASE w <= cursor
    <3>1. w <= mirror[k]
      BY <1>2, <1>14, <2>2 DEF SyncInv, Content, ChainIsHeld
    <3> QED
      BY <1>5, <1>7, <2>1, <3>1
  <2>3. CASE cursor < w
    <3>1. HealFrom <= BlockOf[w] /\ BlockOf[w] <= HealTo
      BY <1>2, <1>14, <2>1, <2>3, LaterIsNoEarlier DEF HealFrom, HealTo, CursorBlock
    <3> QED
      BY <1>6, <3>1 DEF WritesIn
  <2> QED
    BY <1>2, <2>1, <2>2, <2>3
<1>15. ChainIsHeld'
  BY <1>1, <1>14 DEF ChainIsHeld, Writes, DistinctIndices
<1>16. AppliedOrAhead'
  <2> SUFFICES ASSUME DistinctIndices, boot.filled >= boot.start,
                      NEW k \in Keys, NEW w \in Writes(k), BlockOf[w] <= applied'
               PROVE  w <= mirror'[k] \/ (heal < w /\ BlockOf[w] <= boot.frontier)
    BY <1>1 DEF AppliedOrAhead, Writes, DistinctIndices
  <2>1. w \in 0..NLogs /\ mirror[k] \in 0..NLogs /\ BlockOf[w] \in Blocks
    BY WritesAreLogs, MirrorFacts
  <2>2. CASE BlockOf[w] <= applied
    <3>1. \/ w <= mirror[k]
          \/ cursor < w /\ BlockOf[w] <= boot.frontier
      BY <2>2 DEF SyncInv, Content, AppliedOrAhead
    <3>2. CASE w <= mirror[k]
      BY <1>5, <1>7, <2>1, <3>2
    <3>3. CASE cursor < w /\ w <= heal
      <4>1. HealFrom <= BlockOf[w] /\ BlockOf[w] <= HealTo
        BY <1>2, <2>1, <3>3, LaterIsNoEarlier DEF HealFrom, HealTo, CursorBlock
      <4> QED
        BY <1>6, <4>1 DEF WritesIn
    <3> QED
      BY <1>2, <2>1, <3>1, <3>2, <3>3
  <2>3. CASE applied < BlockOf[w]
    <3>1. applied' = AppliedAfter(FrameMark(heal, chainAnchor)) /\ applied' # applied
      BY <1>2, <2>1, <2>3, HealOutcome DEF Blocks
    <3>2. applied' = HealTo - 1 /\ applied >= chainAnchor /\ chainAnchor \in Blocks
      BY <1>1, <1>2, <3>1, HealMark DEF AppliedAfter, Null, Blocks
    <3>3. BlockOf[w] < BlockOf[heal] /\ chainAnchor < BlockOf[w]
      BY <1>2, <2>1, <2>3, <3>2 DEF HealTo, Blocks
    <3>4. w <= heal
      BY <1>2, <2>1, <3>3, LowerBlockIsOlder
    <3> QED
      BY <1>14, <3>3, <3>4
  <2> QED
    BY <1>2, <2>1, <2>2, <2>3 DEF Blocks
<1> QED
  BY <1>3, <1>9, <1>10, <1>11, <1>12, <1>13, <1>15, <1>16 DEF Content

-----------------------------------------------------------------------------
(* What a pass leaves.  The held range and the new one are applied         *)
(* together, from the reconcile's cursor on.                               *)
PassLandsThrough(through) ==
    /\ ReconcileOn /\ cursor # 0
    /\ through \in Blocks /\ rcursor < through /\ through <= CursorBlock
    /\ pass.cursor \in Blocks /\ pass.cursor <= CursorBlock
    /\ FrontierAllows(rcursor + 1, through)
    /\ ApplyPass(through)
    /\ UNCHANGED <<seen, cursor, chainAnchor, frontier, boot>>

LEMMA PassFacts ==
    ASSUME Control, SyncInv, NEW through, PassLandsThrough(through)
    PROVE  /\ rcursor + 1 \in Blocks /\ through \in Blocks /\ rcursor + 1 <= through
           /\ rcursor \in Blocks /\ CursorBlock \in Blocks
           /\ Mark(rcursor, through, TRUE) \in Marks
           /\ LandProven(rcursor + 1, through, Mark(rcursor, through, TRUE))
           /\ GuardInv' /\ OwnValues'
           /\ MaxCatchUps = 0
           /\ reconciled' = through /\ rcursor' = through
           /\ applied' \in {applied, through}
<1>1. /\ rcursor \in Blocks /\ through \in Blocks /\ CursorBlock \in Blocks
      /\ rcursor < through
  BY StateFacts DEF PassLandsThrough
<1>2. rcursor + 1 \in Blocks /\ rcursor + 1 <= through
  BY <1>1, ChainAssumption DEF ChainAssumption, Blocks
<1>3. Mark(rcursor, through, TRUE) \in Marks
  BY <1>1 DEF Mark, Marks, Bounds
<1>4. LandProven(rcursor + 1, through, Mark(rcursor, through, TRUE)) /\ rcursor' = through
  BY DEF PassLandsThrough, ApplyPass, PassLands
<1>5. GuardInv' /\ OwnValues'
  BY <1>1, <1>2, <1>3, <1>4, ProvenIsGood, LandKeepsInv, LandOwns
     DEF LandProven, SyncInv, Content
<1>6. MaxCatchUps = 0
  BY DEF SyncInv, Tame, PassLandsThrough
<1>7. reconciled' = ReconciledAfter(Mark(rcursor, through, TRUE))
      /\ applied' = AppliedAfter(Mark(rcursor, through, TRUE))
  BY <1>4 DEF LandProven, Land
<1>8. reconciled = rcursor
  BY DEF Control, Shape, StreamShape
<1>9. reconciled' = through
  BY <1>1, <1>7, <1>8 DEF ReconciledAfter, Mark, Null, Blocks
<1>10. applied' \in {applied, through}
  BY <1>7 DEF AppliedAfter, Mark
<1> QED
  BY <1>1, <1>2, <1>3, <1>4, <1>5, <1>6, <1>9, <1>10

LEMMA PassNeverLowers ==
    ASSUME Control, SyncInv, NEW through, PassLandsThrough(through)
    PROVE  \A k \in Keys : mirror[k] <= mirror'[k]
<1>1. \A k \in Keys : place[k] = NoPlace =>
          BlockOf[mirror[k]] <= frontier \/ BlockOf[mirror[k]] < rcursor + 1
  <2> SUFFICES ASSUME NEW k \in Keys, place[k] = NoPlace
               PROVE  BlockOf[mirror[k]] <= frontier \/ BlockOf[mirror[k]] < rcursor + 1
    OBVIOUS
  <2>1. \/ BlockOf[mirror[k]] <= boot.frontier
        \/ BlockOf[mirror[k]] < rcursor
        \/ BlockOf[mirror[k]] < CursorBlock /\ BlockOf[mirror[k]] <= frontier
    BY DEF SyncInv, Content, LooseShape
  <2>2. boot.frontier <= frontier
    BY DEF Control, Shape, StreamShape
  <2> QED
    BY <2>1, <2>2, StateFacts, MirrorFacts DEF Blocks
<1>2. GuardInv /\ OwnValues /\ frontier \in Blocks
  BY StateFacts DEF SyncInv, Content
<1> QED
  BY <1>1, <1>2, PassFacts, ProvenNeverLowers DEF PassLandsThrough

(* At a key: the delivered write with a final place, or what was there;    *)
(* and a place below the new bound is forgotten.                           *)
LEMMA PassAtKey ==
    ASSUME Control, SyncInv, NEW through, PassLandsThrough(through), NEW k \in Keys
    PROVE  LET ups == Collapsed(rcursor + 1, through)
               pl  == PlaceAfter(ups, TRUE)[k]
           IN  /\ place'[k] = IF pl.block < through THEN NoPlace ELSE pl
               /\ \/ /\ k \in Taken(ups) /\ mirror'[k] = ups[k]
                     /\ pl = [block |-> BlockOf[ups[k]], final |-> TRUE]
                  \/ /\ k \notin Taken(ups) /\ mirror'[k] = mirror[k]
                     /\ pl = place[k]
<1> DEFINE ups == Collapsed(rcursor + 1, through)
           m == Mark(rcursor, through, TRUE)
<1>1. Land(ups, TRUE, m) /\ reconciled' = through
  BY PassFacts DEF LandProven
<1>2. ReconciledAfter(m) = through /\ reconciled # through
  <2>1. ReconciledAfter(m) = through
    BY <1>1 DEF Land
  <2>2. /\ reconciled = rcursor /\ rcursor < through
        /\ rcursor \in Blocks /\ through \in Blocks
    BY PassFacts DEF Control, Shape, StreamShape, PassLandsThrough
  <2>3. reconciled # through
    BY <2>2 DEF Blocks
  <2> QED
    BY <2>1, <2>3
<1> HIDE DEF m, ups
<1>3. place'[k] = IF PlaceAfter(ups, TRUE)[k].block < through THEN NoPlace
                  ELSE PlaceAfter(ups, TRUE)[k]
  BY <1>1, <1>2 DEF Land, Pruned
<1>4. mirror'[k] = IF k \in Taken(ups) THEN ups[k] ELSE mirror[k]
  BY <1>1 DEF Land
<1>5. PlaceAfter(ups, TRUE)[k] =
          IF k \in Taken(ups) THEN [block |-> BlockOf[ups[k]], final |-> TRUE] ELSE place[k]
  BY DEF PlaceAfter
<1> QED
  BY <1>3, <1>4, <1>5 DEF ups

LEMMA PassKeepsPlaces ==
    ASSUME Control, SyncInv, NEW through, PassLandsThrough(through)
    PROVE  PlaceShape' /\ LooseShape' /\ PassedIsSkipped'
<1> DEFINE ups == Collapsed(rcursor + 1, through)
           pl(k) == PlaceAfter(ups, TRUE)[k]
           Landed(k) == /\ k \in Taken(ups) /\ mirror'[k] = ups[k]
                        /\ pl(k) = [block |-> BlockOf[ups[k]], final |-> TRUE]
           Kept(k) == k \notin Taken(ups) /\ mirror'[k] = mirror[k] /\ pl(k) = place[k]
<1>1. /\ rcursor + 1 \in Blocks /\ through \in Blocks /\ rcursor \in Blocks
      /\ CursorBlock \in Blocks /\ MaxCatchUps = 0
      /\ rcursor < through /\ through <= CursorBlock /\ cursor # 0
      /\ rcursor' = through /\ seen' = seen /\ cursor' = cursor /\ CursorBlock' = CursorBlock
      /\ frontier' = frontier /\ boot' = boot
      /\ frontier \in Blocks /\ boot.frontier \in Blocks
  BY PassFacts, StateFacts DEF PassLandsThrough, CursorBlock
<1>2. ASSUME NEW k \in Keys
      PROVE  /\ place'[k] = IF pl(k).block < through THEN NoPlace ELSE pl(k)
             /\ Landed(k) \/ Kept(k)
  BY PassAtKey
<1>3. ASSUME NEW k \in DOMAIN ups
      PROVE  /\ k \in Keys /\ ups[k] \in WritesIn(k, rcursor + 1, through)
             /\ ups[k] \in Writes(k) /\ BlockOf[ups[k]] \in Blocks
             /\ BlockOf[ups[k]] <= through /\ ups[k] \in 0..NLogs
  <2>1. k \in Keys /\ ups[k] \in WritesIn(k, rcursor + 1, through)
    BY <1>3, ChainAssumption, CollapsedIsNewest DEF Collapsed
  <2> QED
    BY <2>1, WritesAreLogs DEF WritesIn
<1>4. Taken(ups) \subseteq DOMAIN ups
  BY DEF Taken
<1> HIDE DEF ups, pl
<1>5. PlaceShape'
  <2> SUFFICES ASSUME NEW k \in Keys, place'[k] # NoPlace
               PROVE  /\ ~ place'[k].final => mirror'[k] <= seen
                      /\ place'[k].final => place'[k].block <= CursorBlock
    BY <1>1 DEF PlaceShape
  <2>1. place'[k] = pl(k)
    BY <1>2
  <2>2. CASE Landed(k)
    BY <1>1, <1>3, <1>4, <2>1, <2>2 DEF Blocks
  <2>3. CASE Kept(k)
    BY <1>1, <2>1, <2>3 DEF SyncInv, Content, PlaceShape
  <2> QED
    BY <1>2, <2>2, <2>3
<1>6. LooseShape'
  <2> SUFFICES ASSUME NEW k \in Keys, place'[k] = NoPlace
               PROVE  \/ BlockOf[mirror'[k]] <= boot.frontier
                      \/ BlockOf[mirror'[k]] < through
                      \/ BlockOf[mirror'[k]] < CursorBlock /\ BlockOf[mirror'[k]] <= frontier
    BY <1>1 DEF LooseShape
  <2>1. CASE Landed(k)
    <3>1. pl(k) # NoPlace
      BY <2>1 DEF NoPlace
    <3>2. pl(k).block < through /\ pl(k).block = BlockOf[mirror'[k]]
      BY <1>2, <2>1, <3>1
    <3> QED
      BY <3>2
  <2>2. CASE Kept(k) /\ place[k] = NoPlace
    <3>1. \/ BlockOf[mirror[k]] <= boot.frontier
          \/ BlockOf[mirror[k]] < rcursor
          \/ BlockOf[mirror[k]] < CursorBlock /\ BlockOf[mirror[k]] <= frontier
      BY <2>2 DEF SyncInv, Content, LooseShape
    <3> QED
      BY <1>1, <2>2, <3>1, MirrorFacts DEF Blocks
  <2>3. CASE Kept(k) /\ place[k] # NoPlace
    <3>1. place[k].block < through /\ BlockOf[mirror[k]] = place[k].block
      BY <1>2, <2>3, MirrorFacts
    <3> QED
      BY <2>3, <3>1
  <2> QED
    BY <1>2, <2>1, <2>2, <2>3
<1>7. PassedIsSkipped'
  <2> SUFFICES ASSUME NEW k \in Touched(through, through)
               PROVE  \/ place'[k].block > through
                      \/ place'[k].block = through /\ place'[k].final
    BY <1>1 DEF PassedIsSkipped, Touched, WritesIn, Writes, Skipped
  <2>1. PICK w \in WritesIn(k, through, through) : TRUE
    BY DEF Touched
  <2>2. w \in Writes(k) /\ k \in Keys /\ w \in 0..NLogs /\ BlockOf[w] \in Blocks
        /\ BlockOf[w] = through
    <3>1. w \in Writes(k) /\ k \in Keys /\ through <= BlockOf[w] /\ BlockOf[w] <= through
      BY DEF Touched, WritesIn
    <3> QED
      BY <1>1, <3>1, WritesAreLogs DEF Blocks
  <2>3. w \in WritesIn(k, rcursor + 1, through)
    BY <1>1, <2>2 DEF WritesIn, Blocks
  <2>4. k \in DOMAIN ups /\ w <= ups[k]
    BY <2>2, <2>3, CollapsedHolds DEF ups
  <2>5. BlockOf[ups[k]] = through
    <3>1. through <= BlockOf[ups[k]]
      BY <1>3, <2>2, <2>4, LaterIsNoEarlier
    <3> QED
      BY <1>1, <1>3, <2>4, <3>1 DEF Blocks
  <2>6. CASE Landed(k)
    <3>1. pl(k) = [block |-> through, final |-> TRUE]
      BY <2>5, <2>6
    <3>2. pl(k).block = through /\ pl(k).final
      BY <3>1
    <3>3. ~ (pl(k).block < through)
      BY <1>1, <3>2 DEF Blocks
    <3>4. place'[k] = pl(k)
      BY <1>2, <2>2, <3>3
    <3> QED
      BY <3>2, <3>4
  <2>7. CASE Kept(k)
    <3>1. Skipped(k, through)
      BY <2>4, <2>5, <2>7 DEF Taken
    <3>2. place[k].block \in Int
      BY <2>2, MirrorFacts DEF Bounds, Blocks, Null
    <3>3. ~ (place[k].block < through)
      BY <1>1, <3>1, <3>2 DEF Skipped, Blocks
    <3>4. place'[k] = place[k]
      BY <1>2, <2>2, <2>7, <3>3
    <3> QED
      BY <3>1, <3>4 DEF Skipped
  <2> QED
    BY <1>2, <2>2, <2>6, <2>7
<1> QED
  BY <1>5, <1>6, <1>7

(* The bound moves over blocks that were read whole: what they hold is in  *)
(* the mirror, and the pass has lowered nothing below them.                *)
LEMMA PassKeepsReconciled ==
    ASSUME Control, SyncInv, NEW through, PassLandsThrough(through)
    PROVE  ReconciledIsHeld'
<1>1. /\ rcursor + 1 \in Blocks /\ through \in Blocks /\ rcursor \in Blocks
      /\ GuardInv /\ GuardInv' /\ reconciled' = through
      /\ Mark(rcursor, through, TRUE) \in Marks
      /\ LandProven(rcursor + 1, through, Mark(rcursor, through, TRUE))
  BY PassFacts DEF SyncInv
<1>2. SUFFICES ASSUME NEW k \in Keys, NEW w \in Writes(k), BlockOf[w] <= through
               PROVE  w <= mirror'[k]
  BY <1>1 DEF ReconciledIsHeld, UpToDate, Writes
<1>3. w \in 0..NLogs /\ BlockOf[w] \in Blocks /\ mirror[k] \in 0..NLogs
      /\ mirror'[k] \in 0..NLogs
  BY <1>1, WritesAreLogs, MirrorFacts DEF GuardInv, GuardTypeOK
<1>4. CASE rcursor + 1 <= BlockOf[w]
  BY <1>1, <1>2, <1>4, ProvenIsHeld DEF WritesIn
<1>5. CASE BlockOf[w] <= rcursor
  <2>1. w <= mirror[k]
    BY <1>5 DEF SyncInv, Content, ReconciledIsHeld, UpToDate, Control, Shape, StreamShape
  <2> QED
    BY <1>3, <2>1, PassNeverLowers
<1> QED
  BY <1>1, <1>3, <1>4, <1>5 DEF Blocks

LEMMA PassKeepsContent ==
    ASSUME Control, SyncInv, NEW through, PassLandsThrough(through)
    PROVE  GuardInv' /\ Content'
<1>1. /\ GuardInv' /\ OwnValues' /\ reconciled' = through /\ through \in Blocks
      /\ applied' \in {applied, through}
      /\ cursor' = cursor /\ chainAnchor' = chainAnchor /\ boot' = boot
  BY PassFacts DEF PassLandsThrough
<1>2. ASSUME NEW k \in Keys, NEW w \in Writes(k), w <= mirror[k]
      PROVE  w <= mirror'[k]
  <2>1. w \in Int /\ mirror[k] \in Int /\ mirror'[k] \in Int
    BY <1>1, WritesAreLogs, MirrorFacts DEF GuardInv, GuardTypeOK
  <2> QED
    BY <1>2, <2>1, PassNeverLowers
<1>3. ChainIsHeld'
  BY <1>1, <1>2 DEF SyncInv, Content, ChainIsHeld, Writes, DistinctIndices
<1>4. ASSUME NEW k \in Keys, NEW w \in Writes(k), BlockOf[w] <= through
      PROVE  w <= mirror'[k]
  BY <1>1, <1>4, PassKeepsReconciled DEF ReconciledIsHeld, UpToDate, Writes
<1>5. AppliedOrAhead'
  BY <1>1, <1>2, <1>4 DEF SyncInv, Content, AppliedOrAhead, Writes, DistinctIndices
<1> QED
  BY <1>1, <1>3, <1>5, PassKeepsPlaces, PassKeepsReconciled DEF Content

(* The repair tripwire: what a pass above the frontier brings of blocks    *)
(* the stream has left was brought by the chain of frames, if that chain   *)
(* started at or below the boot's start block.                             *)
LEMMA PassRepairsLosses ==
    ASSUME Control, SyncInv, DistinctIndices, NEW through, PassLandsThrough(through),
           chainAnchor <= boot.start
    PROVE  Repairs(Collapsed(rcursor + 1, through)) = {}
<1> DEFINE ups == Collapsed(rcursor + 1, through)
<1>1. SUFFICES ASSUME NEW k \in Taken(ups), rcursor + 1 > frontier,
                      BlockOf[ups[k]] < pass.cursor, mirror[k] # ups[k]
               PROVE  FALSE
  BY DEF Repairs
<1>2. /\ k \in DOMAIN ups /\ k \in Keys /\ ups[k] \in WritesIn(k, rcursor + 1, through)
  BY ChainAssumption, CollapsedIsNewest DEF Taken, Collapsed
<1>3. /\ ups[k] \in Writes(k) /\ ups[k] \in 0..NLogs /\ BlockOf[ups[k]] \in Blocks
      /\ rcursor + 1 <= BlockOf[ups[k]]
  BY <1>2, WritesAreLogs DEF WritesIn
<1>4. /\ cursor # 0 /\ pass.cursor \in Blocks /\ pass.cursor <= CursorBlock
      /\ CursorBlock \in Blocks /\ cursor \in 0..NLogs /\ chainAnchor \in Blocks
      /\ boot.start \in Blocks /\ boot.start <= boot.frontier
      /\ boot.frontier <= frontier /\ frontier \in Blocks /\ boot.frontier \in Blocks
      /\ rcursor \in Blocks
  BY StateFacts DEF PassLandsThrough, Control, Shape, StreamShape
<1>5. ups[k] <= cursor
  <2>1. BlockOf[ups[k]] < BlockOf[cursor]
    BY <1>1, <1>3, <1>4 DEF CursorBlock, Blocks
  <2> QED
    BY <1>3, <1>4, <2>1, LowerBlockIsOlder
<1>6. chainAnchor < BlockOf[ups[k]]
  BY <1>1, <1>3, <1>4 DEF Blocks
<1>7. ups[k] <= mirror[k]
  BY <1>2, <1>3, <1>4, <1>5, <1>6 DEF SyncInv, Content, ChainIsHeld
<1>8. mirror'[k] = ups[k] /\ mirror[k] <= mirror'[k]
  BY <1>2, PassAtKey, PassNeverLowers
<1> QED
  BY <1>1, <1>2, <1>3, <1>7, <1>8, MirrorFacts

-----------------------------------------------------------------------------
(* What a catch-up leaves. *)
CatchUpLands(c) ==
    /\ catchUp # NoRead
    /\ c \in Blocks /\ c >= catchUp.from
    /\ FrontierAllows(catchUp.from, c)
    /\ LandProven(catchUp.from, c, CatchUpMark(c))
    /\ UNCHANGED <<seen, cursor, chainAnchor, frontier, rcursor, boot>>

LEMMA CatchUpFacts ==
    ASSUME Control, SyncInv, NEW c, CatchUpLands(c)
    PROVE  /\ catchUp.from \in Blocks /\ c \in Blocks /\ catchUp.from <= c
           /\ catchUp.from <= applied + 1 /\ applied \in Blocks
           /\ CatchUpMark(c) \in Marks
           /\ GuardInv' /\ OwnValues'
           /\ MaxCatchUps # 0 /\ rcursor = boot.baseline
           /\ reconciled' = reconciled
           /\ applied' \in {applied, c}
           /\ \A k \in Keys : mirror[k] <= mirror'[k]
<1>1. /\ c \in Blocks /\ catchUp.from >= 1 /\ catchUp.from <= applied + 1
      /\ MaxCatchUps # 0 /\ applied \in Blocks /\ catchUp.from \in Nat
  BY DEF CatchUpLands, Control, Shape, PassShape, StreamShape, TypeOK, Reads
<1>2. catchUp.from \in Blocks /\ catchUp.from - 1 \in Blocks /\ catchUp.from <= c
  BY <1>1, ChainAssumption DEF CatchUpLands, ChainAssumption, Blocks
<1>3. CatchUpMark(c) \in Marks
  BY <1>1, <1>2 DEF CatchUpMark, Mark, Marks, Bounds
<1>4. Land(Collapsed(catchUp.from, c), TRUE, CatchUpMark(c))
  BY DEF CatchUpLands, LandProven
<1>5. GuardInv /\ OwnValues
  BY DEF SyncInv, Content
<1>6. GuardInv' /\ OwnValues'
  BY <1>2, <1>1, <1>3, <1>4, <1>5, ProvenIsGood, LandKeepsInv, LandOwns
<1>7. ~ ReconcileOn /\ rcursor = boot.baseline
  BY <1>1 DEF SyncInv, Tame, Control, Shape, StreamShape
<1>8. reconciled' = reconciled /\ applied' \in {applied, c}
  BY <1>4 DEF Land, ReconciledAfter, AppliedAfter, CatchUpMark, Mark
<1>9. \A k \in Keys : place[k] = NoPlace =>
          BlockOf[mirror[k]] <= frontier \/ BlockOf[mirror[k]] < catchUp.from
  <2> SUFFICES ASSUME NEW k \in Keys, place[k] = NoPlace
               PROVE  BlockOf[mirror[k]] <= frontier
    OBVIOUS
  <2>1. \/ BlockOf[mirror[k]] <= boot.frontier
        \/ BlockOf[mirror[k]] < rcursor
        \/ BlockOf[mirror[k]] < CursorBlock /\ BlockOf[mirror[k]] <= frontier
    BY DEF SyncInv, Content, LooseShape
  <2>2. boot.frontier <= frontier
    BY DEF Control, Shape, StreamShape
  <2> QED
    BY <1>7, <2>1, <2>2, StateFacts, MirrorFacts DEF Blocks
<1>10. \A k \in Keys : mirror[k] <= mirror'[k]
  BY <1>1, <1>2, <1>3, <1>5, <1>9, StateFacts, ProvenNeverLowers DEF CatchUpLands
<1> QED
  BY <1>1, <1>2, <1>3, <1>6, <1>7, <1>8, <1>10

LEMMA CatchUpKeepsPlaces ==
    ASSUME Control, SyncInv, NEW c, CatchUpLands(c)
    PROVE  PlaceShape' /\ LooseShape' /\ PassedIsSkipped'
<1> DEFINE ups == Collapsed(catchUp.from, c)
<1>1. /\ Land(ups, TRUE, CatchUpMark(c))
      /\ MaxCatchUps # 0 /\ rcursor = boot.baseline
      /\ UNCHANGED <<seen, cursor, chainAnchor, frontier, rcursor, boot>>
  BY CatchUpFacts DEF CatchUpLands, LandProven
<1>2. ReconciledAfter(CatchUpMark(c)) = reconciled
  BY DEF ReconciledAfter, CatchUpMark, Mark
<1>3. place' = PlaceAfter(ups, TRUE)
  BY <1>1, <1>2 DEF Land, Pruned
<1> HIDE DEF ups
<1>4. ASSUME NEW k \in Keys
      PROVE  \/ place'[k].final /\ place'[k] # NoPlace
             \/ mirror'[k] = mirror[k] /\ place'[k] = place[k]
  <2>1. CASE k \in Taken(ups)
    <3>1. place'[k] = [block |-> BlockOf[ups[k]], final |-> TRUE]
      BY <1>3, <2>1 DEF PlaceAfter
    <3>2. place'[k].final
      BY <3>1
    <3> QED
      BY <3>2 DEF NoPlace
  <2>2. CASE k \notin Taken(ups)
    BY <1>1, <1>3, <2>2 DEF Land, PlaceAfter
  <2> QED
    BY <2>1, <2>2
<1>5. PlaceShape'
  <2> SUFFICES ASSUME NEW k \in Keys, place'[k] # NoPlace, ~ place'[k].final
               PROVE  mirror'[k] <= seen
    BY <1>1 DEF PlaceShape
  <2>1. mirror'[k] = mirror[k] /\ place'[k] = place[k]
    BY <1>4
  <2> QED
    BY <2>1 DEF SyncInv, Content, PlaceShape
<1>6. LooseShape'
  <2> SUFFICES ASSUME NEW k \in Keys, place'[k] = NoPlace
               PROVE  \/ BlockOf[mirror'[k]] <= boot.frontier
                      \/ BlockOf[mirror'[k]] < rcursor
                      \/ BlockOf[mirror'[k]] < CursorBlock /\ BlockOf[mirror'[k]] <= frontier
    BY <1>1 DEF LooseShape, CursorBlock
  <2>1. mirror'[k] = mirror[k] /\ place'[k] = place[k]
    BY <1>4
  <2> QED
    BY <2>1 DEF SyncInv, Content, LooseShape
<1>7. PassedIsSkipped'
  <2>1. cursor # 0 => rcursor # CursorBlock
    BY <1>1, StateFacts DEF Control, Shape, StreamShape, Blocks
  <2> QED
    BY <1>1, <2>1 DEF PassedIsSkipped, CursorBlock
<1> QED
  BY <1>5, <1>6, <1>7

LEMMA CatchUpKeepsContent ==
    ASSUME Control, SyncInv, NEW c, CatchUpLands(c)
    PROVE  GuardInv' /\ Content'
<1>1. /\ GuardInv /\ GuardInv' /\ OwnValues' /\ reconciled' = reconciled
      /\ applied' \in {applied, c} /\ applied \in Blocks /\ c \in Blocks
      /\ catchUp.from \in Blocks /\ catchUp.from <= applied + 1
      /\ CatchUpMark(c) \in Marks
      /\ LandProven(catchUp.from, c, CatchUpMark(c))
      /\ cursor' = cursor /\ chainAnchor' = chainAnchor /\ boot' = boot
  BY CatchUpFacts DEF CatchUpLands, SyncInv
<1>2. ASSUME NEW k \in Keys, NEW w \in Writes(k), w <= mirror[k]
      PROVE  w <= mirror'[k]
  <2>1. w \in Int /\ mirror[k] \in Int /\ mirror'[k] \in Int
    BY <1>1, WritesAreLogs, MirrorFacts DEF GuardInv, GuardTypeOK
  <2> QED
    BY <1>2, <2>1, CatchUpFacts
<1>3. ChainIsHeld'
  BY <1>1, <1>2 DEF SyncInv, Content, ChainIsHeld, Writes, DistinctIndices
<1>4. ReconciledIsHeld'
  BY <1>1, <1>2 DEF SyncInv, Content, ReconciledIsHeld, UpToDate, Writes
<1>5. ASSUME NEW k \in Keys, NEW w \in Writes(k), BlockOf[w] <= applied',
             ~ (BlockOf[w] <= applied)
      PROVE  w <= mirror'[k]
  <2>1. BlockOf[w] \in Blocks
    BY WritesAreLogs
  <2>2. catchUp.from <= BlockOf[w] /\ BlockOf[w] <= c
    BY <1>1, <1>5, <2>1 DEF Blocks
  <2> QED
    BY <1>1, <2>2, ProvenIsHeld DEF WritesIn
<1>6. AppliedOrAhead'
  BY <1>1, <1>2, <1>5 DEF SyncInv, Content, AppliedOrAhead, Writes, DistinctIndices
<1> QED
  BY <1>1, <1>3, <1>4, <1>6, CatchUpKeepsPlaces DEF Content

-----------------------------------------------------------------------------
(* The control state, in every configuration: neither the guard nor the    *)
(* tameness of catch-ups is needed for it.                                 *)
LEMMA AppliedGrows ==
    ASSUME applied \in Blocks, NEW m \in Marks
    PROVE  /\ AppliedAfter(m) \in Blocks /\ applied <= AppliedAfter(m)
           /\ m.anchor # Null /\ applied >= m.anchor => m.through <= AppliedAfter(m)
BY DEF AppliedAfter, Marks, Null, Blocks

LEMMA FrameTypes ==
    ASSUME Control, NEW i, NEW anchor, FrameLands(i, anchor)
    PROVE  /\ GuardTypeOK'
           /\ reconciled' = reconciled
           /\ applied' \in Blocks /\ applied <= applied'
<1>0. GuardTypeOK /\ applied \in Blocks
  BY DEF Control, TypeOK, Shape, StreamShape
<1>1. CASE KeyOf[i] \notin Keys
  BY <1>0, <1>1 DEF FrameLands, ApplyFrame, guardVars, GuardTypeOK, Blocks
<1>2. CASE KeyOf[i] \in Keys
  <2>1. /\ Land([x \in {KeyOf[i]} |-> i], FALSE, FrameMark(i, anchor))
        /\ GoodBatch([x \in {KeyOf[i]} |-> i], FALSE)
        /\ FrameMark(i, anchor) \in Marks
    BY <1>2, FrameIsGood, FrameFacts DEF FrameLands, ApplyFrame, LandFrame
  <2>2. GuardTypeOK'
    BY <1>0, <2>1, LandTypes
  <2>3. ReconciledAfter(FrameMark(i, anchor)) = reconciled
    BY DEF ReconciledAfter, FrameMark, Mark
  <2> QED
    BY <1>0, <2>1, <2>2, <2>3, AppliedGrows DEF Land
<1> QED
  BY <1>1, <1>2

LEMMA GapTypes ==
    ASSUME Control, heal # 0, NEW c, LandGap(c, FrameMark(heal, chainAnchor))
    PROVE  /\ GuardTypeOK'
           /\ reconciled' = reconciled
           /\ applied' \in Blocks /\ applied <= applied'
<1> DEFINE m == FrameMark(heal, chainAnchor)
           diff == Collapsed(HealFrom, c)
           read == Collapsed(TopUpFrom, HealTo)
<1>0. GuardTypeOK /\ applied \in Blocks
  BY DEF Control, TypeOK, Shape, StreamShape
<1>1. applied' = AppliedAfter(m) /\ reconciled' = reconciled /\ m \in Marks
  BY HealMark DEF LandGap
<1>2. ASSUME NEW f, NEW t, NEW k \in DOMAIN Collapsed(f, t)
      PROVE  /\ k \in Keys /\ Collapsed(f, t)[k] \in 0..NLogs
             /\ [block |-> BlockOf[Collapsed(f, t)[k]], final |-> TRUE] \in Places
  <2>1. k \in Keys /\ Collapsed(f, t)[k] \in Writes(k)
    BY ChainAssumption, CollapsedIsNewest DEF Collapsed, WritesIn
  <2> QED
    BY <2>1, WritesAreLogs DEF Places
<1>3. ASSUME NEW k \in Keys PROVE mirror'[k] \in 0..NLogs /\ place'[k] \in Places
  <2> DEFINE taken == {x \in DOMAIN read : x \in DOMAIN diff \/ x \in Taken(read)}
  <2>1. /\ mirror'[k] = IF k \in taken THEN read[k]
                        ELSE IF k \in DOMAIN diff THEN diff[k] ELSE mirror[k]
        /\ place'[k] = IF k \in taken THEN [block |-> BlockOf[read[k]], final |-> TRUE]
                       ELSE IF k \in DOMAIN diff THEN NoPlace ELSE place[k]
    BY DEF LandGap
  <2>2. NoPlace \in Places /\ mirror[k] \in 0..NLogs /\ place[k] \in Places
    BY <1>0 DEF NoPlace, Places, Bounds, GuardTypeOK
  <2>3. k \in taken => k \in DOMAIN read
    OBVIOUS
  <2> HIDE DEF taken, diff, read
  <2>4. k \in DOMAIN read => /\ read[k] \in 0..NLogs
                             /\ [block |-> BlockOf[read[k]], final |-> TRUE] \in Places
    BY <1>2 DEF read
  <2>5. k \in DOMAIN diff => diff[k] \in 0..NLogs
    BY <1>2 DEF diff
  <2> QED
    BY <2>1, <2>2, <2>3, <2>4, <2>5
<1>4. mirror' = [k \in Keys |-> mirror'[k]] /\ place' = [k \in Keys |-> place'[k]]
  BY DEF LandGap
<1>5. mirror' \in [Keys -> 0..NLogs] /\ place' \in [Keys -> Places]
  BY <1>3, <1>4
<1> HIDE DEF m
<1>6. applied' \in Blocks /\ applied <= applied'
  BY <1>0, <1>1, AppliedGrows
<1> QED
  BY <1>0, <1>1, <1>5, <1>6 DEF GuardTypeOK, Bounds

(* The parts of the control state that one kind of step leaves alone. *)
LEMMA FrameKeepsControl ==
    ASSUME Control, NEW i, NEW anchor, FrameComes(i, anchor),
           UNCHANGED <<healVars, zombies, torn, held, pass, catchVars, unhealed, head>>,
           heal = 0
    PROVE  Control'
<1>1. /\ FrameLands(i, anchor) /\ i \in 0..NLogs /\ i \in Logs /\ BlockOf[i] \in Blocks
      /\ cursor' = i /\ seen' = i /\ CursorBlock' = BlockOf[i] /\ i # 0
      /\ chainAnchor' = anchor /\ anchor \in Blocks
      /\ frontier' = frontier /\ rcursor' = rcursor /\ boot' = boot /\ repaired' = repaired
      /\ heal' = 0 /\ diffHead' = diffHead /\ zombies' = zombies /\ torn' = torn
      /\ held' = held /\ pass' = pass /\ catchUp' = catchUp /\ catchUps' = catchUps
      /\ unhealed' = unhealed /\ head' = head
      /\ cursor < i /\ CursorBlock <= BlockOf[i] /\ rcursor <= BlockOf[i]
      /\ CursorBlock \in Blocks /\ rcursor \in Blocks
      /\ boot.baseline \in Blocks
  BY FrameFacts, StateFacts DEF FrameComes, FrameLands, healVars, catchVars, CursorBlock, Logs
<1>2. /\ GuardTypeOK' /\ reconciled' = reconciled
      /\ applied' \in Blocks /\ applied <= applied' /\ applied \in Blocks
  BY <1>1, FrameTypes DEF Control, Shape, StreamShape
<1>3. TypeOK'
  BY <1>1, <1>2 DEF Control, TypeOK, Bounds
<1>4. StreamShape'
  <2>1. boot.baseline < BlockOf[i]
    <3>1. CASE cursor = 0
      BY <1>1, <3>1 DEF FrameLands, Blocks
    <3>2. CASE cursor # 0
      BY <1>1, <3>2 DEF Control, Shape, StreamShape, Blocks
    <3> QED
      BY <3>1, <3>2
  <2>2. boot.baseline <= boot.start => reconciled <= applied'
    BY <1>1, <1>2 DEF Control, Shape, StreamShape, Blocks
  <2>3. i <= i
    BY <1>1
  <2> QED
    BY <1>1, <1>2, <2>1, <2>2, <2>3 DEF Control, Shape, StreamShape
<1>5. HealShape'
  <2>1. diffHead = Unasked
    BY DEF Control, Shape, HealShape
  <2> QED
    BY <1>1, <2>1 DEF HealShape, Unasked, Blocks
<1>6. PassShape'
  <2>1. PassShape
    BY DEF Control, Shape
  <2>2. held # Null => held \in Blocks /\ held <= BlockOf[i]
    BY <1>1, <2>1, StateFacts DEF PassShape, Bounds, Blocks
  <2>3. pass # NoRead => pass.to <= BlockOf[i] /\ pass.cursor <= BlockOf[i]
    BY <1>1, <2>1 DEF PassShape, Blocks
  <2>4. catchUp # NoRead => catchUp.from <= applied' + 1
    <3>1. catchUp.from \in Nat
      BY DEF Control, TypeOK, Reads
    <3> QED
      BY <1>2, <2>1, <3>1 DEF PassShape, Blocks
  <2>5. PassFrom' = PassFrom
    BY <1>1 DEF PassFrom
  <2> QED
    BY <1>1, <2>1, <2>2, <2>3, <2>4, <2>5 DEF PassShape
<1> QED
  BY <1>3, <1>4, <1>5, <1>6 DEF Control, Shape

LEMMA HealKeepsControl ==
    ASSUME Control, HealDone
    PROVE  Control'
<1>1. /\ heal # 0 /\ cursor' = heal /\ seen' = seen /\ chainAnchor' = chainAnchor
      /\ frontier' = frontier /\ rcursor' = rcursor /\ boot' = boot
      /\ heal' = 0 /\ diffHead' = Unasked /\ zombies' = zombies /\ torn' = torn
      /\ held' = held /\ pass' = pass /\ repaired' = repaired
      /\ catchUp' = catchUp /\ catchUps' = catchUps /\ head' = head
      /\ CursorBlock' = HealTo /\ unhealed' = Settled(HealFrom, HealTo)
  BY DEF HealDone, Asked, passVars, catchVars, CursorBlock, HealTo
<1>2. /\ cursor # 0 /\ heal = seen /\ heal \in 0..NLogs
      /\ HealFrom \in Blocks /\ HealTo \in Blocks /\ HealFrom <= HealTo
      /\ rcursor \in Blocks /\ boot.baseline \in Blocks
  BY <1>1, HealFacts, StateFacts
<1>3. /\ GuardTypeOK' /\ reconciled' = reconciled
      /\ applied' \in Blocks /\ applied <= applied' /\ applied \in Blocks
  <2>1. GuardTypeOK /\ applied \in Blocks
    BY DEF Control, TypeOK, Shape, StreamShape
  <2>2. CASE UNCHANGED guardVars
    BY <2>1, <2>2 DEF guardVars, GuardTypeOK, Blocks
  <2>3. CASE \E c \in {diffHead - 1, diffHead} : LandGap(c, FrameMark(heal, chainAnchor))
    BY <1>1, <2>1, <2>3, GapTypes
  <2> QED
    BY <2>2, <2>3 DEF HealDone
<1>4. TypeOK'
  <2>1. unhealed' \subseteq Blocks
    BY <1>1 DEF Settled, Control, TypeOK
  <2>2. 0 \in 0..NLogs
    BY ChainAssumption DEF ChainAssumption
  <2> QED
    BY <1>1, <1>2, <1>3, <2>1, <2>2 DEF Control, TypeOK, Bounds
<1>5. StreamShape /\ PassShape
  BY DEF Control, Shape
<1>6. StreamShape'
  <2>1. boot.baseline < HealTo /\ rcursor <= HealTo
    BY <1>2, <1>5 DEF StreamShape, HealFrom, Blocks
  <2>2. boot.baseline <= boot.start => reconciled <= applied'
    BY <1>2, <1>3, <1>5 DEF StreamShape, Blocks
  <2> QED
    BY <1>1, <1>2, <1>3, <1>5, <2>1, <2>2 DEF StreamShape
<1>7. HealShape'
  BY <1>1 DEF HealShape, Unasked, Blocks
<1>8. PassShape'
  <2>1. held # Null => held <= HealTo
    BY <1>2, <1>5, StateFacts DEF PassShape, HealFrom, Bounds, Blocks
  <2>2. pass # NoRead => pass.to <= HealTo /\ pass.cursor <= HealTo
    BY <1>2, <1>5 DEF PassShape, HealFrom, Blocks
  <2>3. catchUp # NoRead => catchUp.from <= applied' + 1
    <3>1. catchUp.from \in Nat
      BY DEF Control, TypeOK, Reads
    <3> QED
      BY <1>3, <1>5, <3>1 DEF PassShape, Blocks
  <2>4. PassFrom' = PassFrom /\ heal # 0
    BY <1>1 DEF PassFrom
  <2> QED
    BY <1>1, <1>5, <2>1, <2>2, <2>3, <2>4 DEF PassShape
<1> QED
  BY <1>4, <1>6, <1>7, <1>8 DEF Control, Shape

LEMMA QuietKeepsShape ==
    ASSUME Control, QuietStep, UNCHANGED <<held, pass, repaired, catchUp>>,
           cursor = 0 => heal' = 0
    PROVE  StreamShape' /\ PassShape'
<1>1. /\ applied' = applied /\ reconciled' = reconciled /\ cursor' = cursor
      /\ chainAnchor' = chainAnchor /\ rcursor' = rcursor /\ boot' = boot
      /\ CursorBlock' = CursorBlock /\ PassFrom' = PassFrom
      /\ seen' \in 0..NLogs /\ seen <= seen'
      /\ frontier' \in Blocks /\ frontier <= frontier'
  BY DEF QuietStep, guardVars, CursorBlock, PassFrom
<1>2. cursor <= seen' /\ boot.frontier <= frontier'
  BY <1>1, StateFacts DEF Control, Shape, StreamShape, Blocks
<1>3. StreamShape'
  BY <1>1, <1>2 DEF Control, Shape, StreamShape
<1>4. PassShape'
  BY <1>1 DEF Control, Shape, PassShape
<1> QED
  BY <1>3, <1>4

(* A heal is started, answered, deferred or torn down: the mirror and the  *)
(* cursors stay.                                                           *)
GapOpens == \E i \in Logs : GapFrame(i)
DiffEnds == DiffFails \/ \E h \in Blocks : DiffAnswers(h)
HealEnds == HealDefer \/ Teardown \/ \E z \in zombies : ZombieEnds(z)

LEMMA GapOpensQuietly ==
    ASSUME Control, GapOpens
    PROVE  QuietStep /\ Control'
<1>1. PICK i \in Logs : GapFrame(i)
  BY DEF GapOpens
<1>2. /\ UNCHANGED <<guardVars, cursor, chainAnchor, frontier, diffHead, zombies, torn,
                     held, pass, rcursor, repaired, catchUp, catchUps, unhealed, head, boot>>
      /\ heal = 0 /\ i > seen /\ seen' = i /\ heal' = i /\ cursor # 0
  BY <1>1 DEF GapFrame, Arrives, passVars, catchVars
<1>3. i \in 0..NLogs /\ seen \in 0..NLogs /\ cursor \in 0..NLogs /\ i # 0
  BY ChainAssumption, StateFacts DEF Logs, ChainAssumption
<1>4. QuietStep
  BY <1>2, <1>3, StateFacts DEF QuietStep, Blocks
<1>5. TypeOK'
  BY <1>2, <1>3 DEF Control, TypeOK, guardVars, GuardTypeOK
<1>6. cursor <= seen /\ diffHead = Unasked
  BY <1>2 DEF Control, Shape, StreamShape, HealShape
<1>7. HealShape'
  BY <1>2, <1>3, <1>6 DEF HealShape, Unasked, Blocks
<1> QED
  BY <1>2, <1>4, <1>5, <1>7, QuietKeepsShape DEF Control, Shape

LEMMA DiffEndsQuietly ==
    ASSUME Control, DiffEnds
    PROVE  QuietStep /\ Control'
<1>1. /\ UNCHANGED <<guardVars, seen, cursor, chainAnchor, heal, zombies, torn,
                     held, pass, rcursor, repaired, catchUp, catchUps, unhealed, head, boot>>
      /\ heal # 0 /\ Wide
      /\ \/ diffHead' = Null /\ frontier' = frontier
         \/ diffHead' \in Blocks /\ frontier' = Max({frontier, diffHead', HealTo})
  BY DEF DiffEnds, DiffFails, DiffAnswers, passVars, catchVars
<1>2. frontier \in Blocks /\ HealTo \in Blocks /\ seen \in 0..NLogs
  BY StateFacts
<1>3. /\ frontier' \in Blocks /\ frontier <= frontier'
      /\ diffHead' \in Blocks => diffHead' <= frontier' /\ HealTo <= frontier'
  <2>1. CASE diffHead' = Null /\ frontier' = frontier
    BY <1>2, <2>1 DEF Null, Blocks
  <2>2. CASE diffHead' \in Blocks /\ frontier' = Max({frontier, diffHead', HealTo})
    <3>1. frontier \in Int /\ diffHead' \in Int /\ HealTo \in Int
      BY <1>2, <2>2 DEF Blocks
    <3>2. /\ frontier' \in {frontier, diffHead', HealTo}
          /\ frontier' >= frontier /\ frontier' >= diffHead' /\ frontier' >= HealTo
      BY <2>2, <3>1, MaxOfThree
    <3>3. frontier' \in Blocks
      BY <1>2, <2>2, <3>2
    <3> QED
      BY <3>1, <3>2, <3>3 DEF Blocks
  <2> QED
    BY <1>1, <2>1, <2>2
<1>4. QuietStep
  BY <1>1, <1>2, <1>3 DEF QuietStep
<1>5. TypeOK'
  <2>1. diffHead' \in Bounds \cup {Unasked}
    BY <1>1 DEF Bounds
  <2> QED
    BY <1>1, <1>3, <2>1 DEF Control, TypeOK, guardVars, GuardTypeOK
<1>6. HealShape'
  BY <1>1, <1>3 DEF Control, Shape, HealShape, Wide, HealTo, HealFrom, CursorBlock
<1>7. cursor # 0
  BY <1>1 DEF Control, Shape, HealShape
<1> QED
  BY <1>1, <1>4, <1>5, <1>6, <1>7, QuietKeepsShape DEF Control, Shape

LEMMA RangesAreBlocks ==
    ASSUME NEW f \in Nat, NEW t \in Blocks
    PROVE  f..t \subseteq Blocks
BY ChainAssumption DEF ChainAssumption, Blocks

LEMMA HealEndsQuietly ==
    ASSUME Control, HealEnds
    PROVE  QuietStep /\ Control'
<1>0. /\ frontier \in Blocks /\ seen \in 0..NLogs /\ unhealed \subseteq Blocks
      /\ zombies \subseteq [from : Blocks, to : Blocks, wide : BOOLEAN,
                            diff : Bounds \cup {Unasked}]
      /\ diffHead \in Bounds \cup {Unasked} /\ head \in Blocks /\ 0 \in 0..NLogs
  BY StateFacts, ChainAssumption DEF Control, TypeOK, ChainAssumption
<1>1. CASE HealDefer
  <2>1. /\ UNCHANGED <<guardVars, seen, cursor, chainAnchor, frontier, zombies, torn,
                       held, pass, rcursor, repaired, catchUp, catchUps, head, boot>>
        /\ heal # 0 /\ heal' = 0 /\ diffHead' = Unasked
        /\ unhealed' \in {Abandoned(TopUpFrom, HealTo), Abandoned(HealFrom, HealTo)}
    BY <1>1 DEF HealDefer, Asked, passVars, catchVars
  <2>2. TopUpFrom \in Nat /\ HealFrom \in Nat /\ HealTo \in Blocks
    BY <2>1, HealFacts DEF Blocks
  <2>3. unhealed' \subseteq Blocks
    BY <1>0, <2>1, <2>2, RangesAreBlocks DEF Abandoned
  <2>4. QuietStep
    BY <1>0, <2>1 DEF QuietStep, Blocks
  <2>5. TypeOK'
    BY <1>0, <2>1, <2>3 DEF Control, TypeOK, guardVars, GuardTypeOK
  <2>6. HealShape'
    BY <2>1 DEF HealShape, Unasked, Blocks
  <2> QED
    BY <2>1, <2>4, <2>5, <2>6, QuietKeepsShape DEF Control, Shape
<1>2. CASE Teardown
  <2>1. /\ UNCHANGED <<guardVars, seen, cursor, chainAnchor, frontier,
                       held, pass, rcursor, repaired, catchUp, catchUps, unhealed, head, boot>>
        /\ heal # 0 /\ heal' = 0 /\ diffHead' = Unasked
        /\ torn < MaxTeardowns /\ torn' = torn + 1
        /\ zombies' = zombies \cup {[from |-> HealFrom, to |-> HealTo, diff |-> diffHead,
                                     wide |-> Wide]}
    BY <1>2 DEF Teardown, passVars, catchVars
  <2>2. HealFrom \in Blocks /\ HealTo \in Blocks /\ Wide \in BOOLEAN
    BY <2>1, HealFacts DEF Wide
  <2>3. torn' \in 0..MaxTeardowns
    BY <2>1, SyncAssumption DEF SyncAssumption, Control, TypeOK
  <2>4. QuietStep
    BY <1>0, <2>1 DEF QuietStep, Blocks
  <2>5. TypeOK'
    BY <1>0, <2>1, <2>2, <2>3 DEF Control, TypeOK, guardVars, GuardTypeOK
  <2>6. HealShape'
    BY <2>1 DEF HealShape, Unasked, Blocks
  <2> QED
    BY <2>1, <2>4, <2>5, <2>6, QuietKeepsShape DEF Control, Shape
<1>3. ASSUME NEW z \in zombies, ZombieEnds(z) PROVE QuietStep /\ Control'
  <2>1. /\ z.from \in Blocks /\ z.to \in Blocks /\ z.diff \in Bounds \cup {Unasked}
    BY <1>0
  <2>2. PICK h \in (IF z.wide /\ z.diff = Unasked THEN (z.from - 1)..head \cup {Null}
                                                 ELSE {z.diff}) :
           /\ frontier' = IF h = z.diff \/ h = Null THEN frontier
                                                   ELSE Max({frontier, h, z.to})
           /\ \E f \in {z.from, Max({z.from, h - 2})} : unhealed' = Abandoned(f, z.to)
    BY <1>3 DEF ZombieEnds
  <2>3. /\ UNCHANGED <<guardVars, seen, cursor, chainAnchor, heal, diffHead, torn,
                       held, pass, rcursor, repaired, catchUp, catchUps, head, boot>>
        /\ zombies' = zombies \ {z}
    BY <1>3 DEF ZombieEnds, passVars, catchVars, healVars
  <2>4. h \in Int /\ h <= MaxBlock
    BY <1>0, <2>1, <2>2, ChainAssumption DEF ChainAssumption, Bounds, Blocks, Null, Unasked
  <2>5. frontier' \in Blocks /\ frontier <= frontier'
    <3>1. frontier \in Int /\ z.to \in Int
      BY <1>0, <2>1 DEF Blocks
    <3>2. CASE frontier' = frontier
      BY <1>0, <3>2 DEF Blocks
    <3>3. CASE frontier' = Max({frontier, h, z.to})
      <4>1. frontier' \in {frontier, h, z.to} /\ frontier' >= frontier
        BY <2>4, <3>1, <3>3, MaxOfThree
      <4> QED
        BY <1>0, <2>1, <2>4, <4>1, ChainAssumption DEF ChainAssumption, Blocks
    <3> QED
      BY <2>2, <3>2, <3>3
  <2>6. unhealed' \subseteq Blocks
    <3>1. PICK f \in {z.from, Max({z.from, h - 2})} : unhealed' = Abandoned(f, z.to)
      BY <2>2
    <3>2. Max({z.from, h - 2}) = IF z.from >= h - 2 THEN z.from ELSE h - 2
      BY <2>1, <2>4, MaxOfTwo DEF Blocks
    <3>3. f \in Nat
      BY <2>1, <2>4, <3>1, <3>2 DEF Blocks
    <3> QED
      BY <1>0, <2>1, <3>1, <3>3, RangesAreBlocks DEF Abandoned
  <2>7. QuietStep
    BY <1>0, <2>3, <2>5 DEF QuietStep
  <2>8. TypeOK'
    BY <2>3, <2>5, <2>6 DEF Control, TypeOK, guardVars, GuardTypeOK
  <2>9. HealShape'
    <3>1. diffHead \in Blocks => diffHead <= frontier' /\ HealTo <= frontier'
      BY <1>0, <2>5, StateFacts DEF Control, Shape, HealShape, Blocks
    <3> QED
      BY <2>3, <3>1 DEF Control, Shape, HealShape, Wide, HealTo, HealFrom, CursorBlock
  <2>10. cursor = 0 => heal = 0
    BY DEF Control, Shape, StreamShape
  <2> QED
    BY <2>3, <2>7, <2>8, <2>9, <2>10, QuietKeepsShape DEF Control, Shape
<1> QED
  BY <1>1, <1>2, <1>3 DEF HealEnds

(* Mine, and the starts of the two reads the daemon makes of its own. *)
LEMMA MineIsQuiet ==
    ASSUME Control, Mine
    PROVE  QuietStep /\ Control'
<1>1. /\ head < MaxBlock /\ head' = head + 1
      /\ UNCHANGED <<guardVars, seen, cursor, chainAnchor, frontier, heal, diffHead, zombies,
                     torn, rcursor, held, pass, repaired, catchUp, catchUps, unhealed, boot>>
  BY DEF Mine, streamVars, healVars, passVars, catchVars
<1>2. frontier \in Blocks /\ seen \in 0..NLogs /\ head \in Blocks
  BY StateFacts
<1>3. head' \in Blocks
  BY <1>1, <1>2, ChainAssumption DEF ChainAssumption, Blocks
<1>4. QuietStep
  BY <1>1, <1>2 DEF QuietStep, Blocks
<1>5. TypeOK'
  BY <1>1, <1>3 DEF Control, TypeOK, guardVars, GuardTypeOK
<1>6. HealShape'
  BY <1>1 DEF Control, Shape, HealShape, Wide, HealTo, HealFrom, CursorBlock
<1>7. cursor = 0 => heal = 0
  BY DEF Control, Shape, StreamShape
<1> QED
  BY <1>1, <1>4, <1>5, <1>6, <1>7, QuietKeepsShape DEF Control, Shape

LEMMA PassStartsQuietly ==
    ASSUME Control, PassStart
    PROVE  QuietStep /\ Control'
<1>1. /\ ReconcileOn /\ cursor # 0 /\ CursorBlock > rcursor /\ PassFrom <= CursorBlock
      /\ pass' = [from |-> PassFrom, to |-> Min({CursorBlock, PassFrom + PassMax - 1}),
                  cursor |-> CursorBlock]
      /\ UNCHANGED <<guardVars, seen, cursor, chainAnchor, frontier, heal, diffHead, zombies,
                     torn, rcursor, held, repaired, catchUp, catchUps, unhealed, head, boot>>
  BY DEF PassStart, streamVars, healVars, passVars, catchVars
<1>2. /\ CursorBlock \in Blocks /\ rcursor \in Blocks /\ held \in Bounds
      /\ frontier \in Blocks /\ seen \in 0..NLogs
  BY StateFacts
<1>3. PassFrom \in Blocks
  <2>1. PassFrom \in Int /\ PassFrom >= 0
    BY <1>2 DEF PassFrom, Bounds, Null, Blocks
  <2> QED
    BY <1>1, <1>2, <2>1, ChainAssumption DEF ChainAssumption, Blocks
<1> DEFINE to == Min({CursorBlock, PassFrom + PassMax - 1})
<1>4. to \in Blocks /\ to <= CursorBlock
  <2>1. CursorBlock \in Int /\ PassFrom + PassMax - 1 \in Int /\ PassFrom + PassMax - 1 >= 0
    BY <1>2, <1>3, SyncAssumption DEF SyncAssumption, Blocks
  <2>2. to = IF CursorBlock <= PassFrom + PassMax - 1 THEN CursorBlock
                                                    ELSE PassFrom + PassMax - 1
    BY <2>1, MinOfTwo
  <2> QED
    BY <1>2, <2>1, <2>2, ChainAssumption DEF ChainAssumption, Blocks
<1> HIDE DEF to
<1>5. pass' = [from |-> PassFrom, to |-> to, cursor |-> CursorBlock]
  BY <1>1 DEF to
<1>6. pass'.from = PassFrom /\ pass'.to = to /\ pass'.cursor = CursorBlock /\ pass' \in Reads
  BY <1>2, <1>3, <1>4, <1>5 DEF Reads, Bounds, Blocks
<1>7. QuietStep
  BY <1>1, <1>2 DEF QuietStep, Blocks
<1>8. TypeOK'
  BY <1>1, <1>6 DEF Control, TypeOK, guardVars, GuardTypeOK
<1>9. StreamShape'
  BY <1>1 DEF Control, Shape, StreamShape, CursorBlock, guardVars
<1>10. HealShape'
  BY <1>1 DEF Control, Shape, HealShape, Wide, HealTo, HealFrom, CursorBlock
<1>11. PassShape'
  <2>1. CursorBlock' = CursorBlock /\ PassFrom' = PassFrom /\ CursorBlock <= CursorBlock
    BY <1>1, <1>2 DEF CursorBlock, PassFrom, Blocks
  <2> QED
    BY <1>1, <1>2, <1>4, <1>6, <2>1 DEF Control, Shape, PassShape, guardVars
<1> QED
  BY <1>7, <1>8, <1>9, <1>10, <1>11 DEF Control, Shape

LEMMA CatchUpStartsQuietly ==
    ASSUME Control, NEW target \in Blocks, CatchUpStart(target)
    PROVE  QuietStep /\ Control'
<1>1. /\ catchUps < MaxCatchUps /\ catchUps' = catchUps + 1 /\ applied < target
      /\ catchUp' = [from |-> applied + 1, to |-> Min({target, applied + CatchUpMax}),
                     cursor |-> Null]
      /\ UNCHANGED <<guardVars, seen, cursor, chainAnchor, frontier, heal, diffHead, zombies,
                     torn, rcursor, held, pass, repaired, unhealed, head, boot>>
  BY DEF CatchUpStart, streamVars, healVars, passVars
<1>2. applied \in Blocks /\ catchUps \in 0..MaxCatchUps /\ MaxCatchUps \in Nat
      /\ frontier \in Blocks /\ seen \in 0..NLogs
  BY StateFacts, SyncAssumption DEF SyncAssumption, Control, TypeOK, Shape, StreamShape
<1>3. catchUps' \in 0..MaxCatchUps /\ MaxCatchUps # 0
  BY <1>1, <1>2
<1> DEFINE to == Min({target, applied + CatchUpMax})
<1>4. to \in Blocks
  <2>1. target \in Int /\ applied + CatchUpMax \in Int /\ applied + CatchUpMax >= 0
    BY <1>2, SyncAssumption DEF SyncAssumption, Blocks
  <2>2. to = IF target <= applied + CatchUpMax THEN target ELSE applied + CatchUpMax
    BY <2>1, MinOfTwo
  <2> QED
    BY <2>1, <2>2, ChainAssumption DEF ChainAssumption, Blocks
<1> HIDE DEF to
<1>5. catchUp' = [from |-> applied + 1, to |-> to, cursor |-> Null]
  BY <1>1 DEF to
<1>6. catchUp'.from = applied + 1 /\ catchUp'.to = to /\ catchUp' \in Reads
  BY <1>2, <1>4, <1>5 DEF Reads, Bounds, Blocks
<1>7. QuietStep
  BY <1>1, <1>2 DEF QuietStep, Blocks
<1>8. TypeOK'
  BY <1>1, <1>3, <1>6 DEF Control, TypeOK, guardVars, GuardTypeOK
<1>9. StreamShape'
  BY <1>1 DEF Control, Shape, StreamShape, CursorBlock, guardVars
<1>10. HealShape'
  BY <1>1 DEF Control, Shape, HealShape, Wide, HealTo, HealFrom, CursorBlock
<1>11. PassShape'
  <2>1. CursorBlock' = CursorBlock /\ PassFrom' = PassFrom /\ applied' = applied
    BY <1>1 DEF CursorBlock, PassFrom, guardVars
  <2>2. applied + 1 >= 1 /\ applied + 1 <= applied + 1
    BY <1>2 DEF Blocks
  <2> QED
    BY <1>1, <1>3, <1>4, <1>6, <2>1, <2>2 DEF Control, Shape, PassShape
<1> QED
  BY <1>7, <1>8, <1>9, <1>10, <1>11 DEF Control, Shape

(* A pass that returns lands all that is held, or holds what it proved. *)
PassHolds ==
    /\ UNCHANGED <<guardVars, rcursor, repaired, unhealed>>
    /\ held' \in Bounds
    /\ held' # Null => rcursor < held' /\ held' <= CursorBlock

LEMMA PassOutcome ==
    ASSUME Control, NEW c \in Blocks, PassDone(c)
    PROVE  /\ pass' = NoRead
           /\ UNCHANGED <<seen, cursor, chainAnchor, frontier, heal, diffHead, zombies, torn,
                          catchUp, catchUps, head, boot>>
           /\ (\E through : PassLandsThrough(through)) \/ PassHolds
<1> DEFINE through == IF c >= pass.from THEN c ELSE held
<1>1. /\ pass # NoRead /\ c \in ProvenThrough(pass.from, pass.to)
      /\ pass' = NoRead
      /\ UNCHANGED <<seen, cursor, chainAnchor, frontier, heal, diffHead, zombies, torn,
                     catchUp, catchUps, head, boot>>
      /\ IF through # Null /\ FrontierAllows(rcursor + 1, through)
         THEN ApplyPass(through) ELSE HoldPass(through)
  BY DEF PassDone, streamVars, healVars, catchVars
<1>2. /\ ReconcileOn /\ cursor # 0 /\ pass.from = PassFrom
      /\ pass.to \in Blocks /\ pass.to <= CursorBlock
      /\ pass.cursor \in Blocks /\ pass.cursor <= CursorBlock
      /\ held # Null => rcursor < held /\ held <= CursorBlock
  BY <1>1 DEF Control, Shape, PassShape
<1>3. rcursor \in Blocks /\ held \in Bounds /\ CursorBlock \in Blocks
  BY StateFacts
<1>4. PassFrom \in Nat /\ rcursor < PassFrom
  BY <1>2, <1>3 DEF PassFrom, Bounds, Null, Blocks
<1>5. ASSUME c >= pass.from PROVE rcursor < c /\ c <= CursorBlock
  <2>1. c <= pass.to
    BY <1>1, <1>2, <1>4, <1>5 DEF ProvenThrough, Blocks
  <2> QED
    BY <1>2, <1>3, <1>4, <1>5, <2>1 DEF Blocks
<1>6. through \in Bounds /\ (through # Null => rcursor < through /\ through <= CursorBlock)
  BY <1>2, <1>3, <1>5 DEF Bounds
<1> HIDE DEF through
<1>7. CASE through # Null /\ FrontierAllows(rcursor + 1, through)
  <2>1. through \in Blocks
    BY <1>6, <1>7 DEF Bounds
  <2>2. PassLandsThrough(through)
    BY <1>1, <1>2, <1>6, <1>7, <2>1 DEF PassLandsThrough
  <2> QED
    BY <1>1, <2>2
<1>8. CASE ~ (through # Null /\ FrontierAllows(rcursor + 1, through))
  <2>1. HoldPass(through)
    BY <1>1, <1>8
  <2>2. PassHolds
    BY <1>6, <2>1 DEF HoldPass, PassHolds
  <2> QED
    BY <1>1, <2>2
<1> QED
  BY <1>7, <1>8

LEMMA PassLandsTypes ==
    ASSUME Control, NEW through, PassLandsThrough(through)
    PROVE  /\ GuardTypeOK'
           /\ reconciled' = through /\ rcursor' = through /\ through \in Blocks
           /\ applied' \in Blocks /\ applied <= applied'
           /\ rcursor <= applied => through <= applied'
           /\ repaired' \subseteq Logs /\ held' = Null
           /\ unhealed' \subseteq Blocks
<1> DEFINE m == Mark(rcursor, through, TRUE)
           ups == Collapsed(rcursor + 1, through)
<1>1. /\ rcursor \in Blocks /\ through \in Blocks /\ rcursor < through
      /\ applied \in Blocks /\ reconciled = rcursor /\ GuardTypeOK
      /\ repaired \subseteq Logs /\ unhealed \subseteq Blocks
  BY StateFacts DEF PassLandsThrough, Control, TypeOK, Shape, StreamShape
<1>2. rcursor + 1 \in Blocks
  BY <1>1, ChainAssumption DEF ChainAssumption, Blocks
<1>3. m \in Marks /\ m.anchor = rcursor /\ m.through = through /\ m.reconciled
  BY <1>1 DEF Mark, Marks, Bounds
<1>4. /\ Land(ups, TRUE, m) /\ rcursor' = through /\ held' = Null
      /\ repaired' = repaired \cup Repairs(ups)
      /\ unhealed' = Settled(rcursor + 1, through)
  BY DEF PassLandsThrough, ApplyPass, PassLands, LandProven
<1>5. GuardTypeOK'
  BY <1>1, <1>2, <1>3, <1>4, ProvenIsGood, LandTypes
<1>6. reconciled' = ReconciledAfter(m) /\ applied' = AppliedAfter(m)
  BY <1>4 DEF Land
<1> HIDE DEF m
<1>7. reconciled' = through
  BY <1>1, <1>3, <1>6 DEF ReconciledAfter, Null, Blocks
<1>8. applied' \in Blocks /\ applied <= applied' /\ (rcursor <= applied => through <= applied')
  BY <1>1, <1>3, <1>6, AppliedGrows DEF Null, Blocks
<1>9. Repairs(ups) \subseteq Logs
  <2>1. ASSUME NEW k \in Taken(ups) PROVE ups[k] \in Logs
    <3>1. k \in Touched(rcursor + 1, through)
      BY DEF Taken, Collapsed
    <3>2. k \in Keys /\ ups[k] \in Writes(k)
      BY <3>1, ChainAssumption, CollapsedIsNewest DEF WritesIn
    <3> QED
      BY <3>2, WritesAreLogs
  <2> QED
    BY <2>1 DEF Repairs
<1>10. unhealed' \subseteq Blocks
  BY <1>1, <1>4 DEF Settled
<1> QED
  BY <1>1, <1>4, <1>5, <1>7, <1>8, <1>9, <1>10

LEMMA PassKeepsControl ==
    ASSUME Control, NEW c \in Blocks, PassDone(c)
    PROVE  Control'
<1>0. /\ pass' = NoRead
      /\ UNCHANGED <<seen, cursor, chainAnchor, frontier, heal, diffHead, zombies, torn,
                     catchUp, catchUps, head, boot>>
      /\ NoRead \in Reads /\ Null \in Bounds
      /\ CursorBlock' = CursorBlock
  BY PassOutcome DEF NoRead, Reads, Bounds, CursorBlock
<1>1. StreamShape /\ PassShape /\ HealShape /\ TypeOK
  BY DEF Control, Shape
<1>2. HealShape'
  BY <1>0, <1>1 DEF HealShape, Wide, HealTo, HealFrom, CursorBlock
<1>3. ASSUME NEW through, PassLandsThrough(through) PROVE Control'
  <2>1. /\ GuardTypeOK'
        /\ reconciled' = through /\ rcursor' = through /\ through \in Blocks
        /\ applied' \in Blocks /\ applied <= applied'
        /\ rcursor <= applied => through <= applied'
        /\ repaired' \subseteq Logs /\ held' = Null
        /\ unhealed' \subseteq Blocks
    BY <1>3, PassLandsTypes
  <2>2. /\ cursor # 0 /\ rcursor < through /\ through <= CursorBlock /\ ReconcileOn
        /\ rcursor \in Blocks /\ applied \in Blocks /\ boot.baseline \in Blocks
    BY <1>1, <1>3, StateFacts DEF PassLandsThrough, StreamShape
  <2>3. TypeOK'
    BY <1>0, <1>1, <2>1 DEF TypeOK
  <2>4. boot.baseline <= through
    BY <1>1, <2>1, <2>2 DEF StreamShape, Blocks
  <2>5. StreamShape'
    BY <1>0, <1>1, <2>1, <2>2, <2>4 DEF StreamShape
  <2>6. catchUp # NoRead => catchUp.from <= applied' + 1
    <3>1. catchUp.from \in Nat
      BY <1>1 DEF TypeOK, Reads
    <3> QED
      BY <1>1, <2>1, <2>2, <3>1 DEF PassShape, Blocks
  <2>7. PassShape'
    BY <1>0, <1>1, <2>1, <2>6 DEF PassShape
  <2> QED
    BY <1>2, <2>3, <2>5, <2>7 DEF Control, Shape
<1>4. CASE PassHolds
  <2>1. /\ UNCHANGED <<mirror, place, applied, reconciled, rcursor, repaired, unhealed>>
        /\ held' \in Bounds
        /\ held' # Null => rcursor < held' /\ held' <= CursorBlock
    BY <1>4 DEF PassHolds, guardVars
  <2>2. TypeOK'
    BY <1>0, <1>1, <2>1 DEF TypeOK, GuardTypeOK
  <2>3. StreamShape'
    BY <1>0, <1>1, <2>1 DEF StreamShape
  <2>4. PassShape'
    BY <1>0, <1>1, <2>1 DEF PassShape
  <2> QED
    BY <1>2, <2>2, <2>3, <2>4 DEF Control, Shape
<1> QED
  BY <1>3, <1>4, PassOutcome

(* A catch-up that returns lands what it proved, or leaves everything. *)
LEMMA CatchUpOutcome ==
    ASSUME Control, NEW c \in Blocks, CatchUpDone(c)
    PROVE  /\ catchUp' = NoRead
           /\ UNCHANGED <<seen, cursor, chainAnchor, frontier, heal, diffHead, zombies, torn,
                          rcursor, held, pass, repaired, catchUps, unhealed, head, boot>>
           /\ CatchUpLands(c) \/ UNCHANGED guardVars
<1>1. UNCHANGED <<seen, cursor, chainAnchor, frontier, rcursor, boot>>
  BY DEF CatchUpDone, streamVars, passVars
<1> QED
  BY <1>1 DEF CatchUpDone, CatchUpLands, streamVars, healVars, passVars

LEMMA CatchUpLandsTypes ==
    ASSUME Control, NEW c, CatchUpLands(c)
    PROVE  /\ GuardTypeOK' /\ reconciled' = reconciled
           /\ applied' \in Blocks /\ applied <= applied'
<1> DEFINE m == CatchUpMark(c)
<1>1. /\ c \in Blocks /\ catchUp.from >= 1 /\ catchUp.from <= c
      /\ applied \in Blocks /\ catchUp.from \in Nat /\ GuardTypeOK
  BY DEF CatchUpLands, Control, Shape, PassShape, StreamShape, TypeOK, Reads, Blocks
<1>2. catchUp.from \in Blocks /\ catchUp.from - 1 \in Blocks
  BY <1>1, ChainAssumption DEF ChainAssumption, Blocks
<1>3. m \in Marks
  BY <1>1, <1>2 DEF CatchUpMark, Mark, Marks, Bounds
<1>4. Land(Collapsed(catchUp.from, c), TRUE, m)
  BY DEF CatchUpLands, LandProven
<1>5. GuardTypeOK'
  BY <1>1, <1>2, <1>3, <1>4, ProvenIsGood, LandTypes
<1>6. reconciled' = reconciled
  BY <1>4 DEF Land, ReconciledAfter, CatchUpMark, Mark
<1>7. applied' = AppliedAfter(m)
  BY <1>4 DEF Land
<1> HIDE DEF m
<1> QED
  BY <1>1, <1>3, <1>5, <1>6, <1>7, AppliedGrows

LEMMA CatchUpKeepsControl ==
    ASSUME Control, NEW c \in Blocks, CatchUpDone(c)
    PROVE  Control'
<1>0. /\ catchUp' = NoRead
      /\ UNCHANGED <<seen, cursor, chainAnchor, frontier, heal, diffHead, zombies, torn,
                     rcursor, held, pass, repaired, catchUps, unhealed, head, boot>>
      /\ CatchUpLands(c) \/ UNCHANGED guardVars
      /\ NoRead \in Reads /\ CursorBlock' = CursorBlock /\ PassFrom' = PassFrom
  BY CatchUpOutcome DEF NoRead, Reads, Bounds, CursorBlock, PassFrom
<1>1. StreamShape /\ PassShape /\ HealShape /\ TypeOK
  BY DEF Control, Shape
<1>2. /\ GuardTypeOK' /\ reconciled' = reconciled
      /\ applied' \in Blocks /\ applied <= applied'
  <2>1. CASE UNCHANGED guardVars
    BY <1>1, <2>1 DEF guardVars, TypeOK, GuardTypeOK, StreamShape, Blocks
  <2>2. CASE CatchUpLands(c)
    BY <2>2, CatchUpLandsTypes
  <2> QED
    BY <1>0, <2>1, <2>2
<1>3. TypeOK'
  BY <1>0, <1>1, <1>2 DEF TypeOK
<1>4. boot.baseline <= boot.start => reconciled' <= applied'
  <2>1. reconciled \in Blocks /\ applied \in Blocks
    BY <1>1 DEF TypeOK, StreamShape
  <2> QED
    BY <1>1, <1>2, <2>1 DEF StreamShape, Blocks
<1>5. StreamShape'
  BY <1>0, <1>1, <1>2, <1>4 DEF StreamShape
<1>6. HealShape'
  BY <1>0, <1>1 DEF HealShape, Wide, HealTo, HealFrom, CursorBlock
<1>7. PassShape'
  BY <1>0, <1>1 DEF PassShape
<1> QED
  BY <1>3, <1>5, <1>6, <1>7 DEF Control, Shape

-----------------------------------------------------------------------------
(* The two kinds of frame that are applied when they arrive. *)
LEMMA AppliedFrame ==
    ASSUME Control, NEW i \in Logs, FirstFrame(i) \/ NextFrame(i)
    PROVE  /\ \E anchor : FrameComes(i, anchor)
           /\ UNCHANGED <<healVars, zombies, torn, held, pass, catchVars, unhealed, head>>
           /\ heal = 0
<1>1. i - 1 \in 0..NLogs /\ BlockOf[i - 1] \in Blocks
  <2>1. i - 1 \in 0..NLogs
    BY ChainAssumption DEF Logs, ChainAssumption
  <2> QED
    BY <2>1, ChainAssumption DEF ChainAssumption
<1>2. CASE FirstFrame(i)
  <2>1. FrameLands(i, BlockOf[i - 1])
    BY <1>1, <1>2 DEF FirstFrame, Arrives, FrameLands, Bounds
  <2>2. FrameComes(i, BlockOf[i - 1])
    BY <1>1, <1>2, <2>1 DEF FirstFrame, Arrives, FrameComes, passVars
  <2> QED
    BY <1>2, <2>2 DEF FirstFrame, Arrives, passVars
<1>3. CASE NextFrame(i)
  <2>1. cursor # 0 /\ chainAnchor \in Blocks
    BY <1>3 DEF NextFrame, Control, Shape, StreamShape
  <2>2. FrameLands(i, chainAnchor)
    BY <1>3, <2>1 DEF NextFrame, Arrives, FrameLands, Bounds
  <2>3. FrameComes(i, chainAnchor)
    BY <1>3, <2>1, <2>2 DEF NextFrame, Arrives, FrameComes, passVars
  <2> QED
    BY <1>3, <2>3 DEF NextFrame, Arrives, passVars
<1> QED
  BY <1>2, <1>3

(* Every step of the daemon is of one of five kinds. *)
Quiet == \/ Mine \/ GapOpens \/ DiffEnds \/ HealEnds \/ PassStart
         \/ \E target \in Blocks : CatchUpStart(target)

LEMMA KindsOfStep ==
    ASSUME Next
    PROVE  \/ Quiet
           \/ \E i \in Logs : FirstFrame(i) \/ NextFrame(i)
           \/ HealDone
           \/ \E c \in Blocks : PassDone(c)
           \/ \E c \in Blocks : CatchUpDone(c)
<1>1. Mine \/ Stream \/ Heal \/ Reconcile \/ CatchUp
  BY DEF Next
<1>2. CASE Stream
  BY <1>2 DEF Stream, Quiet, GapOpens
<1>3. CASE Heal
  BY <1>3 DEF Heal, Quiet, DiffEnds, HealEnds
<1> QED
  BY <1>1, <1>2, <1>3 DEF Reconcile, CatchUp, Quiet

LEMMA QuietIsQuiet ==
    ASSUME Control, Quiet
    PROVE  QuietStep /\ Control'
BY MineIsQuiet, GapOpensQuietly, DiffEndsQuietly, HealEndsQuietly, PassStartsQuietly,
   CatchUpStartsQuietly DEF Quiet

LEMMA StutterIsQuiet ==
    ASSUME Control, UNCHANGED vars
    PROVE  QuietStep /\ Control'
<1>1. UNCHANGED <<mirror, place, applied, reconciled, seen, cursor, chainAnchor, frontier,
                  heal, diffHead, zombies, torn, rcursor, held, pass, repaired, catchUp,
                  catchUps, unhealed, head, boot>>
  BY DEF vars, guardVars, streamVars, healVars, passVars, catchVars
<1>2. QuietStep
  BY <1>1, StateFacts DEF QuietStep, guardVars, Blocks
<1>3. TypeOK'
  BY <1>1 DEF Control, TypeOK, GuardTypeOK
<1>4. HealShape'
  BY <1>1 DEF Control, Shape, HealShape, Wide, HealTo, HealFrom, CursorBlock
<1>5. StreamShape'
  BY <1>1 DEF Control, Shape, StreamShape, CursorBlock
<1>6. PassShape'
  BY <1>1 DEF Control, Shape, PassShape, CursorBlock, PassFrom
<1> QED
  BY <1>2, <1>3, <1>4, <1>5, <1>6 DEF Control, Shape

LEMMA ControlInit == Init => Control
<1> SUFFICES ASSUME Init PROVE Control
  OBVIOUS
<1>1. /\ head = BootHead /\ boot \in Boots /\ mirror \in Image(boot)
      /\ place = [k \in Keys |-> NoPlace]
      /\ applied = boot.start /\ reconciled = boot.baseline
      /\ seen = 0 /\ cursor = 0 /\ chainAnchor = Null /\ frontier = boot.frontier
      /\ heal = 0 /\ diffHead = Unasked /\ zombies = {} /\ torn = 0
      /\ unhealed = {} /\ rcursor = boot.baseline
      /\ held = Null /\ pass = NoRead /\ repaired = {} /\ catchUp = NoRead /\ catchUps = 0
  BY DEF Init
<1>2. 0..BootHead \subseteq Blocks /\ BootHead \in Blocks
  BY SyncAssumption, ChainAssumption DEF SyncAssumption, ChainAssumption, Blocks
<1>3. boot \in Boot /\ boot.frontier >= boot.baseline /\ boot.frontier >= boot.start
  BY <1>1, SyncAssumption DEF SyncAssumption
<1>4. boot.baseline \in Blocks /\ boot.start \in Blocks /\ boot.frontier \in Blocks
  BY <1>2, <1>3 DEF Boot
<1>5. mirror \in [Keys -> 0..NLogs] /\ NoPlace \in Places /\ NoRead \in Reads /\ Null \in Bounds
  BY <1>1 DEF Image, NoPlace, NoRead, Reads, Places, Bounds
<1>6. GuardTypeOK
  BY <1>1, <1>4, <1>5 DEF GuardTypeOK, Bounds
<1>7. 0 \in 0..NLogs /\ 0 \in 0..MaxCatchUps /\ 0 \in 0..MaxTeardowns
  BY ChainAssumption, SyncAssumption DEF ChainAssumption, SyncAssumption
<1>8. TypeOK
  BY <1>1, <1>2, <1>3, <1>4, <1>5, <1>6, <1>7 DEF TypeOK
<1>9. StreamShape
  BY <1>1, <1>4 DEF StreamShape, Blocks
<1>10. HealShape
  BY <1>1 DEF HealShape, Unasked, Blocks
<1>11. PassShape
  BY <1>1 DEF PassShape
<1> QED
  BY <1>8, <1>9, <1>10, <1>11 DEF Control, Shape

LEMMA ControlStep == Control /\ [Next]_vars => Control'
<1> SUFFICES ASSUME Control, [Next]_vars PROVE Control'
  OBVIOUS
<1>1. CASE UNCHANGED vars
  BY <1>1, StutterIsQuiet
<1>2. CASE Quiet
  BY <1>2, QuietIsQuiet
<1>3. ASSUME NEW i \in Logs, FirstFrame(i) \/ NextFrame(i) PROVE Control'
  BY <1>3, AppliedFrame, FrameKeepsControl
<1>4. CASE HealDone
  BY <1>4, HealKeepsControl
<1>5. ASSUME NEW c \in Blocks, PassDone(c) PROVE Control'
  BY <1>5, PassKeepsControl
<1>6. ASSUME NEW c \in Blocks, CatchUpDone(c) PROVE Control'
  BY <1>6, CatchUpKeepsControl
<1> QED
  BY <1>1, <1>2, <1>3, <1>4, <1>5, <1>6, KindsOfStep

(* The live stream keeps its types: every cursor, bound and range stays a  *)
(* block of the chain, and the reads in flight stay well formed.           *)
THEOREM SyncTypes == Spec => []TypeOK
<1>1. Control => TypeOK
  BY DEF Control
<1> QED
  BY <1>1, ControlInit, ControlStep, PTL DEF Spec

(* appliedThrough is never behind reconciledThrough, in any configuration, *)
(* where the boot seeds them in that order: a pass that advances the one   *)
(* is anchored at or below the other (sync-health.ts, applyMark).          *)
BootsInOrder == \A b \in Boots : b.baseline <= b.start

THEOREM SyncAppliedCovers == BootsInOrder /\ Spec => []AppliedCoversReconciled
<1>1. BootsInOrder /\ Control => AppliedCoversReconciled
  BY DEF BootsInOrder, Control, Shape, StreamShape, AppliedCoversReconciled, TypeOK,
         GuardTypeOK, Bounds, Blocks, Null
<1>2. BootsInOrder /\ Init => BootsInOrder /\ Control
  BY ControlInit
<1>3. BootsInOrder /\ Control /\ [Next]_vars => (BootsInOrder /\ Control)'
  BY ControlStep DEF BootsInOrder
<1> QED
  BY <1>1, <1>2, <1>3, PTL DEF Spec

-----------------------------------------------------------------------------
(* The invariant holds at first and is kept by every step. *)
LEMMA SyncInit == Tame /\ Init => SyncInv
<1> SUFFICES ASSUME Tame, Init PROVE SyncInv
  OBVIOUS
<1>1. /\ Control /\ boot \in Boots /\ mirror \in Image(boot)
      /\ place = [k \in Keys |-> NoPlace]
      /\ applied = boot.start /\ reconciled = boot.baseline
      /\ cursor = 0 /\ repaired = {}
  BY ControlInit DEF Init
<1>2. /\ boot.baseline \in Blocks /\ boot.filled \in Blocks /\ boot.start \in Blocks
      /\ boot.baseline <= boot.filled
  BY <1>1, StateFacts
<1>3. ASSUME NEW k \in Keys
      PROVE  /\ mirror[k] \in Writes(k) \cup {0}
             /\ BlockOf[mirror[k]] <= boot.frontier
             /\ UpToDate(k, mirror[k], boot.filled)
             /\ place[k] = NoPlace
  BY <1>1 DEF Image
<1>4. GuardInv
  <2>1. GuardTypeOK
    BY <1>1 DEF Control, TypeOK
  <2>2. PlaceIsTrue
    BY <1>3 DEF PlaceIsTrue
  <2>3. FinalIsLast
    BY <1>3 DEF FinalIsLast, NoPlace
  <2> QED
    BY <2>1, <2>2, <2>3 DEF GuardInv
<1>5. OwnValues /\ PlaceShape /\ LooseShape
  BY <1>3 DEF OwnValues, PlaceShape, LooseShape
<1>6. PassedIsSkipped /\ ChainIsHeld
  BY <1>1 DEF PassedIsSkipped, ChainIsHeld
<1>7. ASSUME NEW k \in Keys, NEW w \in Writes(k), BlockOf[w] <= boot.filled
      PROVE  w <= mirror[k]
  BY <1>3, <1>7 DEF UpToDate
<1>8. ReconciledIsHeld
  <2> SUFFICES ASSUME NEW k \in Keys, NEW w \in Writes(k), BlockOf[w] <= boot.baseline
               PROVE  w <= mirror[k]
    BY <1>1 DEF ReconciledIsHeld, UpToDate
  <2> QED
    BY <1>2, <1>7, WritesAreLogs DEF Blocks
<1>9. AppliedOrAhead
  <2> SUFFICES ASSUME boot.filled >= boot.start,
                      NEW k \in Keys, NEW w \in Writes(k), BlockOf[w] <= boot.start
               PROVE  w <= mirror[k]
    BY <1>1 DEF AppliedOrAhead
  <2> QED
    BY <1>2, <1>7, WritesAreLogs DEF Blocks
<1>10. NothingRepaired
  BY <1>1 DEF NothingRepaired, RepairsAreLosses
<1> QED
  BY <1>4, <1>5, <1>6, <1>8, <1>9, <1>10 DEF SyncInv, Content

LEMMA QuietRepairsNothing ==
    ASSUME Quiet \/ UNCHANGED vars
    PROVE  repaired' = repaired
BY DEF Quiet, vars, passVars, Mine, GapOpens, GapFrame, DiffEnds, DiffFails, DiffAnswers,
       HealEnds, HealDefer, Teardown, ZombieEnds, PassStart, CatchUpStart

LEMMA SyncStep == Control /\ SyncInv /\ [Next]_vars => SyncInv'
<1> SUFFICES ASSUME Control, SyncInv, [Next]_vars PROVE SyncInv'
  OBVIOUS
<1>0. Tame' /\ NothingRepaired
  BY DEF SyncInv, Tame
<1>1. CASE Quiet \/ UNCHANGED vars
  <2>1. QuietStep
    BY <1>1, QuietIsQuiet, StutterIsQuiet
  <2>2. GuardInv' /\ Content'
    BY <2>1, QuietKeepsContent
  <2>3. NothingRepaired'
    BY <1>0, <1>1, <2>1, QuietRepairsNothing
       DEF NothingRepaired, RepairsAreLosses, DistinctIndices, QuietStep
  <2> QED
    BY <1>0, <2>2, <2>3 DEF SyncInv
<1>2. ASSUME NEW i \in Logs, FirstFrame(i) \/ NextFrame(i) PROVE SyncInv'
  <2>1. PICK anchor : FrameComes(i, anchor)
    BY <1>2, AppliedFrame
  <2>2. FrameLands(i, anchor)
    BY <2>1 DEF FrameComes
  <2>3. GuardInv' /\ OwnValues'
    BY <2>2, FrameKeepsGuard
  <2>4. Content'
    BY <2>1, <2>3, FrameKeepsPlaces, FrameKeepsReconciled, FrameKeepsChain,
       FrameKeepsApplied DEF Content
  <2>5. NothingRepaired'
    <3>1. CASE cursor = 0
      BY <2>1, <3>1 DEF Control, Shape, StreamShape, FrameComes, NothingRepaired,
                        RepairsAreLosses
    <3>2. CASE cursor # 0
      BY <1>0, <2>1, <3>2 DEF FrameComes, NothingRepaired, RepairsAreLosses, DistinctIndices
    <3> QED
      BY <3>1, <3>2
  <2> QED
    BY <1>0, <2>3, <2>4, <2>5 DEF SyncInv
<1>3. CASE HealDone
  <2>1. GuardInv' /\ Content'
    BY <1>3, HealKeepsContent
  <2>2. NothingRepaired'
    BY <1>0, <1>3 DEF HealDone, passVars, NothingRepaired, RepairsAreLosses, DistinctIndices
  <2> QED
    BY <1>0, <2>1, <2>2 DEF SyncInv
<1>4. ASSUME NEW c \in Blocks, PassDone(c) PROVE SyncInv'
  <2>1. ASSUME NEW through, PassLandsThrough(through) PROVE SyncInv'
    <3>1. GuardInv' /\ Content'
      BY <2>1, PassKeepsContent
    <3>2. /\ repaired' = repaired \cup Repairs(Collapsed(rcursor + 1, through))
          /\ chainAnchor' = chainAnchor /\ boot' = boot
      BY <2>1 DEF PassLandsThrough, ApplyPass
    <3>3. chainAnchor \in Int /\ boot.start \in Int
      BY <2>1, StateFacts DEF PassLandsThrough, Control, Shape, StreamShape, Blocks
    <3>4. NothingRepaired'
      <4>1. CASE chainAnchor > boot.start
        BY <3>2, <4>1 DEF NothingRepaired, RepairsAreLosses
      <4>2. CASE chainAnchor <= boot.start
        <5>1. DistinctIndices => Repairs(Collapsed(rcursor + 1, through)) = {}
          BY <2>1, <4>2, PassRepairsLosses
        <5>2. DistinctIndices => repaired' = repaired
          BY <3>2, <5>1
        <5> QED
          BY <1>0, <3>2, <5>2 DEF NothingRepaired, RepairsAreLosses, DistinctIndices
      <4> QED
        BY <3>3, <4>1, <4>2
    <3> QED
      BY <1>0, <3>1, <3>4 DEF SyncInv
  <2>2. CASE PassHolds
    <3>1. UNCHANGED <<seen, cursor, chainAnchor, frontier, boot>>
      BY <1>4, PassOutcome
    <3>2. UNCHANGED <<guardVars, rcursor, repaired>>
      BY <2>2 DEF PassHolds
    <3>3. QuietStep
      BY <3>1, <3>2, StateFacts DEF QuietStep, Blocks
    <3>4. GuardInv' /\ Content'
      BY <3>3, QuietKeepsContent
    <3>5. NothingRepaired'
      BY <1>0, <3>1, <3>2 DEF NothingRepaired, RepairsAreLosses, DistinctIndices
    <3> QED
      BY <1>0, <3>4, <3>5 DEF SyncInv
  <2> QED
    BY <1>4, <2>1, <2>2, PassOutcome
<1>5. ASSUME NEW c \in Blocks, CatchUpDone(c) PROVE SyncInv'
  <2>1. UNCHANGED <<seen, cursor, chainAnchor, frontier, rcursor, repaired, boot>>
        /\ (CatchUpLands(c) \/ UNCHANGED guardVars)
    BY <1>5, CatchUpOutcome
  <2>2. GuardInv' /\ Content'
    <3>1. CASE CatchUpLands(c)
      BY <3>1, CatchUpKeepsContent
    <3>2. CASE UNCHANGED guardVars
      <4>1. QuietStep
        BY <2>1, <3>2, StateFacts DEF QuietStep, Blocks
      <4> QED
        BY <4>1, QuietKeepsContent
    <3> QED
      BY <2>1, <3>1, <3>2
  <2>3. NothingRepaired'
    BY <1>0, <2>1 DEF NothingRepaired, RepairsAreLosses, DistinctIndices
  <2> QED
    BY <1>0, <2>2, <2>3 DEF SyncInv
<1> QED
  BY <1>1, <1>2, <1>3, <1>4, <1>5, KindsOfStep

LEMMA SyncInvariant == Tame /\ Spec => [](Control /\ SyncInv)
<1>1. Tame /\ Init => Control /\ SyncInv
  BY ControlInit, SyncInit
<1>2. (Control /\ SyncInv) /\ [Next]_vars => (Control /\ SyncInv)'
  BY ControlStep, SyncStep
<1> QED
  BY <1>1, <1>2, PTL DEF Spec

(* What reconciledThrough claims is in the mirror, whatever frames were    *)
(* lost, however reads, heals, teardowns and passes interleave, and        *)
(* whatever the indices of the entries are (sync-health.ts; stream.ts).    *)
THEOREM SyncReconciledIsHeld == Tame /\ Spec => []ReconciledIsHeld
<1>1. SyncInv => ReconciledIsHeld
  BY DEF SyncInv, Content
<1> QED
  BY <1>1, SyncInvariant, PTL

(* What appliedThrough claims is in the mirror once the stream is past the *)
(* boot frontier, where no lost frame goes unnoticed and the boot image    *)
(* holds what the stream's start block claims (stream.ts; heal.ts).        *)
BootsFilled == \A b \in Boots : b.filled >= b.start

THEOREM SyncAppliedIsHeld ==
    (Tame /\ DistinctIndices /\ BootsFilled) /\ Spec => []AppliedIsHeld
<1>1. DistinctIndices /\ BootsFilled /\ Control /\ SyncInv => AppliedIsHeld
  <2> SUFFICES ASSUME DistinctIndices, BootsFilled, Control, SyncInv,
                      cursor # 0, CursorBlock > boot.frontier,
                      NEW k \in Keys, NEW w \in Writes(k), BlockOf[w] <= applied
               PROVE  w <= mirror[k]
    BY DEF AppliedIsHeld, UpToDate
  <2>1. boot.filled >= boot.start
    BY DEF BootsFilled, Control, Shape, StreamShape
  <2>2. w <= mirror[k] \/ (cursor < w /\ BlockOf[w] <= boot.frontier)
    BY <2>1 DEF SyncInv, Content, AppliedOrAhead
  <2>3. ASSUME BlockOf[w] <= boot.frontier PROVE w < cursor
    <3>1. /\ w \in 0..NLogs /\ cursor \in 0..NLogs /\ BlockOf[w] \in Blocks
          /\ boot.frontier \in Blocks /\ BlockOf[cursor] \in Blocks
      BY WritesAreLogs, StateFacts DEF CursorBlock
    <3>2. BlockOf[w] < BlockOf[cursor]
      BY <2>3, <3>1 DEF CursorBlock, Blocks
    <3> QED
      BY <3>1, <3>2, LowerBlockIsOlder
  <2>4. w \in Int /\ cursor \in Int
    BY WritesAreLogs, StateFacts
  <2> QED
    BY <2>2, <2>3, <2>4
<1>2. Tame /\ DistinctIndices /\ BootsFilled /\ Init =>
          (DistinctIndices /\ BootsFilled /\ Control /\ SyncInv)
  BY ControlInit, SyncInit
<1>3. (DistinctIndices /\ BootsFilled /\ Control /\ SyncInv) /\ [Next]_vars =>
          (DistinctIndices /\ BootsFilled /\ Control /\ SyncInv)'
  BY ControlStep, SyncStep DEF DistinctIndices, BootsFilled
<1> QED
  BY <1>1, <1>2, <1>3, PTL DEF Spec

(* The repair tripwire does not cry wolf: a pass counts a repair only      *)
(* where the chain of frames started above the boot's start block, that    *)
(* is, where frames before the first one were lost (stream.ts).            *)
THEOREM SyncRepairsAreLosses ==
    (Tame /\ DistinctIndices) /\ Spec => []RepairsAreLosses
<1>1. DistinctIndices /\ SyncInv => RepairsAreLosses
  BY DEF SyncInv, NothingRepaired
<1>2. Tame /\ DistinctIndices /\ Init => (DistinctIndices /\ Control /\ SyncInv)
  BY ControlInit, SyncInit
<1>3. (DistinctIndices /\ Control /\ SyncInv) /\ [Next]_vars =>
          (DistinctIndices /\ Control /\ SyncInv)'
  BY ControlStep, SyncStep DEF DistinctIndices
<1> QED
  BY <1>1, <1>2, <1>3, PTL DEF Spec

(* No step replaces a value by an older one, but for a frame over a value  *)
(* of the boot image within its frontier (utils.ts, rules I1 to I3, with   *)
(* the frontier rule of stream.ts that protects values without a place).   *)
Lowers(k) ==
    /\ seen' # seen
    /\ place[k] = NoPlace
    /\ BlockOf[mirror[k]] <= boot.frontier

THEOREM SyncNeverOlder == Tame /\ Spec => NeverOlder
<1>1. ASSUME Control, SyncInv, [Next]_vars, NEW k \in Keys, mirror'[k] < mirror[k]
      PROVE  Lowers(k)
  <2>0. /\ mirror[k] \in Int
        /\ ~ (mirror[k] < mirror[k])
        /\ mirror'[k] \in Int
    <3>1. GuardTypeOK'
      BY <1>1, SyncStep DEF SyncInv, GuardInv
    <3> QED
      BY <1>1, <3>1, MirrorFacts DEF GuardTypeOK
  <2>1. CASE Quiet \/ UNCHANGED vars
    <3>1. QuietStep
      BY <1>1, <2>1, QuietIsQuiet, StutterIsQuiet
    <3> QED
      BY <1>1, <2>0, <3>1 DEF QuietStep, guardVars
  <2>2. ASSUME NEW i \in Logs, FirstFrame(i) \/ NextFrame(i) PROVE Lowers(k)
    <3>1. PICK anchor : FrameComes(i, anchor)
      BY <1>1, <2>2, AppliedFrame
    <3>2. FrameLands(i, anchor) /\ seen' = i
      BY <3>1 DEF FrameComes
    <3>3. i \in Int /\ seen \in Int /\ i > seen
      BY <1>1, <3>2, FrameFacts, StateFacts DEF FrameLands
    <3> QED
      BY <1>1, <3>2, <3>3, FrameLowersOnlyTheImage DEF Lowers
  <2>3. CASE HealDone
    BY <1>1, <2>0, <2>3, HealOutcome
  <2>4. ASSUME NEW c \in Blocks, PassDone(c) PROVE Lowers(k)
    <3>1. ASSUME NEW through, PassLandsThrough(through) PROVE mirror[k] <= mirror'[k]
      BY <1>1, <3>1, PassNeverLowers
    <3>2. CASE PassHolds
      BY <1>1, <2>0, <3>2 DEF PassHolds, guardVars
    <3> QED
      BY <1>1, <2>0, <2>4, <3>1, <3>2, PassOutcome
  <2>5. ASSUME NEW c \in Blocks, CatchUpDone(c) PROVE Lowers(k)
    <3>1. CASE CatchUpLands(c)
      BY <1>1, <2>0, <3>1, CatchUpFacts
    <3>2. CASE UNCHANGED guardVars
      BY <1>1, <2>0, <3>2 DEF guardVars
    <3> QED
      BY <1>1, <2>5, <3>1, <3>2, CatchUpOutcome
  <2> QED
    BY <1>1, <2>1, <2>2, <2>3, <2>4, <2>5, KindsOfStep
<1>2. Control /\ SyncInv /\ [Next]_vars =>
          [\A k \in Keys : mirror'[k] < mirror[k] =>
              /\ seen' # seen
              /\ place[k] = NoPlace
              /\ BlockOf[mirror[k]] <= boot.frontier]_vars
  BY <1>1 DEF Lowers
<1> QED
  BY <1>2, SyncInvariant, PTL DEF Spec, NeverOlder

(* The stream, its heals, passes and catch-ups use the apply path as its   *)
(* promise requires, though a wide gap's batch mixes values with and       *)
(* without a place: what the guard promises of single deliveries holds of  *)
(* every step of the synchronisation (utils.ts, rules I1 to I3).           *)
THEOREM SyncKeepsGuard ==
    Tame /\ Spec => [](PlaceIsTrue /\ FinalIsLast) /\ HoldsGround
<1>1. SyncInv => PlaceIsTrue /\ FinalIsLast
  BY DEF SyncInv, GuardInv
<1>2. [\A k \in Keys : mirror'[k] < mirror[k] =>
          /\ seen' # seen
          /\ place[k] = NoPlace
          /\ BlockOf[mirror[k]] <= boot.frontier]_vars
      => [\A k \in Keys : place[k] # NoPlace /\ mirror'[k] < mirror[k] =>
             place'[k] = NoPlace /\ UNCHANGED <<applied, reconciled>>]_guardVars
  BY DEF vars
<1> QED
  BY <1>1, <1>2, SyncInvariant, SyncNeverOlder, PTL DEF NeverOlder, HoldsGround

-----------------------------------------------------------------------------
(* The unhealed list.  A range is put on it when its frame is dropped; the *)
(* stream stands before that frame until a heal covers the range, for no   *)
(* later frame continues at its cursor.  That is where indices count: in a *)
(* block whose entries repeat an index after another, as 0, 1, 0, a frame  *)
(* behind the hole may pass for the next one.                              *)
IndicesTogether ==
    \A i, j, k \in 0..NLogs :
        i < j /\ j < k /\ BlockOf[i] = BlockOf[k] /\ IndexOf[i] = IndexOf[k]
            => IndexOf[j] = IndexOf[i]

(* An entry lost behind the cursor, which every later frame would betray.  *)
Broken ==
    /\ cursor # 0
    /\ \E j \in 0..NLogs :
          /\ cursor < j /\ j < seen
          /\ BlockOf[j] # CursorBlock \/ IndexOf[j] # IndexOf[cursor]

UnhealedInv ==
    /\ zombies = {}
    /\ \A b \in unhealed : b <= BlockOf[seen]
    /\ heal # 0 => Broken
    /\ (\E b \in unhealed : b >= CursorBlock) => Broken
    /\ UnhealedIsAhead

LEMMA BrokenStops ==
    ASSUME Control, IndicesTogether, Broken, NEW i \in Logs, i > seen
    PROVE  ~ Continues(i)
<1>1. PICK j \in 0..NLogs : /\ cursor < j /\ j < seen
                            /\ BlockOf[j] # CursorBlock \/ IndexOf[j] # IndexOf[cursor]
  BY DEF Broken
<1>2. i - 1 \in 0..NLogs /\ cursor \in 0..NLogs /\ seen \in 0..NLogs /\ i \in Int
  BY StateFacts, ChainAssumption DEF Logs, ChainAssumption
<1>3. j < i - 1
  BY <1>1, <1>2
<1>4. SUFFICES ASSUME BlockOf[i - 1] = BlockOf[cursor], IndexOf[i - 1] = IndexOf[cursor]
               PROVE  FALSE
  BY DEF Continues, CursorBlock
<1>5. /\ BlockOf[cursor] \in Blocks /\ BlockOf[j] \in Blocks
      /\ BlockOf[cursor] <= BlockOf[j] /\ BlockOf[j] <= BlockOf[cursor]
  BY <1>1, <1>2, <1>3, <1>4, LaterIsNoEarlier
<1>6. BlockOf[j] = CursorBlock
  BY <1>5 DEF CursorBlock, Blocks
<1>7. IndexOf[j] = IndexOf[cursor]
  BY <1>1, <1>2, <1>3, <1>4 DEF IndicesTogether
<1> QED
  BY <1>1, <1>6, <1>7

(* Dropping a frame, and every step that leaves stream and list alone. *)
LEMMA UnhealedUntouched ==
    ASSUME Control, UnhealedInv,
           UNCHANGED <<cursor, rcursor, zombies>>,
           seen' \in 0..NLogs, seen <= seen',
           heal' # 0 => heal # 0 \/ Broken',
           \A b \in unhealed' :
               b \in unhealed \/ (heal # 0 /\ b \in CursorBlock..HealTo)
    PROVE  UnhealedInv'
<1>1. /\ seen \in 0..NLogs /\ cursor \in 0..NLogs /\ CursorBlock' = CursorBlock
      /\ BlockOf[seen] \in Blocks /\ BlockOf[seen'] \in Blocks /\ BlockOf[seen] <= BlockOf[seen']
      /\ unhealed \subseteq Blocks
  BY StateFacts, LaterIsNoEarlier DEF CursorBlock, Control, TypeOK
<1>2. Broken => Broken'
  BY <1>1 DEF Broken
<1>3. heal # 0 => HealTo = BlockOf[seen] /\ Broken
  BY DEF UnhealedInv, Control, Shape, HealShape, HealTo
<1>4. \A b \in unhealed : b <= BlockOf[seen']
  BY <1>1 DEF UnhealedInv, Blocks
<1>5. \A b \in unhealed' : b <= BlockOf[seen']
  <2>1. ASSUME heal # 0, NEW b \in CursorBlock..HealTo PROVE b <= BlockOf[seen']
    <3>1. b \in Int /\ b <= BlockOf[seen]
      BY <1>3, <2>1
    <3> QED
      BY <1>1, <3>1 DEF Blocks
  <2> QED
    BY <1>4, <2>1
<1>6. (\E b \in unhealed' : b >= CursorBlock) => Broken'
  BY <1>2, <1>3 DEF UnhealedInv
<1>7. UnhealedIsAhead'
  BY <1>1 DEF UnhealedInv, UnhealedIsAhead
<1>8. heal' # 0 => Broken'
  BY <1>2, <1>3
<1> QED
  BY <1>1, <1>5, <1>6, <1>7, <1>8 DEF UnhealedInv

LEMMA UnhealedQuiet ==
    ASSUME Control, UnhealedInv, MaxTeardowns = 0, Quiet \/ UNCHANGED vars
    PROVE  UnhealedInv'
<1>0. /\ QuietStep /\ zombies = {} /\ torn = 0
      /\ UNCHANGED <<cursor, rcursor>>
      /\ seen' \in 0..NLogs /\ seen <= seen'
  <2>1. torn \in 0..0
    BY DEF Control, TypeOK
  <2>2. torn = 0
    BY <2>1
  <2> QED
    BY <2>2, QuietIsQuiet, StutterIsQuiet DEF QuietStep, UnhealedInv
<1>1. CASE Mine \/ DiffEnds \/ PassStart \/ (\E target \in Blocks : CatchUpStart(target))
           \/ UNCHANGED vars
  <2>1. UNCHANGED <<zombies, heal, unhealed>>
    BY <1>1 DEF Mine, DiffEnds, DiffFails, DiffAnswers, PassStart, CatchUpStart, vars,
                streamVars, healVars
  <2> QED
    BY <1>0, <2>1, UnhealedUntouched
<1>2. ASSUME NEW i \in Logs, GapFrame(i) PROVE UnhealedInv'
  <2>1. /\ UNCHANGED <<zombies, unhealed>> /\ seen' = i /\ i > seen /\ cursor # 0
        /\ ~ Continues(i) /\ cursor' = cursor
    BY <1>2 DEF GapFrame, Arrives
  <2>2. /\ i - 1 \in 0..NLogs /\ i - 1 < i /\ cursor <= i - 1
        /\ BlockOf[i - 1] # CursorBlock \/ IndexOf[i - 1] # IndexOf[cursor]
    <3>1. i - 1 \in 0..NLogs /\ i \in Int
      BY ChainAssumption DEF Logs, ChainAssumption
    <3>2. cursor <= seen /\ cursor \in Int /\ seen \in Int
      BY StateFacts DEF Control, Shape, StreamShape
    <3> QED
      BY <2>1, <3>1, <3>2 DEF Continues
  <2>3. cursor # i - 1
    BY <2>2 DEF CursorBlock
  <2>4. cursor < i - 1
    BY <2>2, <2>3, StateFacts
  <2>5. Broken'
    BY <2>1, <2>2, <2>4 DEF Broken, CursorBlock
  <2> QED
    BY <1>0, <2>1, <2>5, UnhealedUntouched
<1>3. CASE HealDefer
  <2>1. /\ heal # 0 /\ heal' = 0 /\ zombies' = zombies
        /\ unhealed' \in {Abandoned(TopUpFrom, HealTo), Abandoned(HealFrom, HealTo)}
    BY <1>3 DEF HealDefer, Asked
  <2>2. TopUpFrom \in Blocks /\ HealFrom \in Blocks /\ HealTo \in Blocks /\ HealFrom <= TopUpFrom
    BY <2>1, HealFacts
  <2>3. \A b \in unhealed' : b \in unhealed \/ b \in CursorBlock..HealTo
    BY <2>1, <2>2 DEF Abandoned, HealFrom, Blocks
  <2> QED
    BY <1>0, <2>1, <2>3, UnhealedUntouched
<1>4. ~ Teardown
  BY <1>0 DEF Teardown
<1>5. ~ \E z \in zombies : ZombieEnds(z)
  BY <1>0
<1> QED
  BY <1>1, <1>2, <1>3, <1>4, <1>5 DEF Quiet, GapOpens, HealEnds

LEMMA UnhealedStep ==
    ASSUME Control, UnhealedInv, MaxTeardowns = 0, IndicesTogether, [Next]_vars
    PROVE  UnhealedInv'
<1>0. /\ seen \in 0..NLogs /\ cursor \in 0..NLogs /\ CursorBlock \in Blocks
      /\ rcursor \in Blocks /\ unhealed \subseteq Blocks /\ BlockOf[seen] \in Blocks
      /\ zombies = {}
  BY StateFacts DEF Control, TypeOK, UnhealedInv
<1>1. CASE Quiet \/ UNCHANGED vars
  BY <1>1, UnhealedQuiet
<1>2. ASSUME NEW i \in Logs, FirstFrame(i) \/ NextFrame(i) PROVE UnhealedInv'
  <2>1. PICK anchor : FrameComes(i, anchor)
    BY <1>2, AppliedFrame
  <2>2. /\ cursor' = i /\ seen' = i /\ rcursor' = rcursor /\ zombies' = {} /\ unhealed' = unhealed
        /\ heal' = 0 /\ i > seen /\ i \in 0..NLogs /\ BlockOf[i] \in Blocks
        /\ CursorBlock' = BlockOf[i] /\ CursorBlock <= BlockOf[i] /\ BlockOf[seen] <= BlockOf[i]
    <3>1. FrameLands(i, anchor) /\ cursor' = i /\ seen' = i /\ rcursor' = rcursor
      BY <2>1 DEF FrameComes
    <3>2. i \in 0..NLogs /\ BlockOf[i] \in Blocks /\ CursorBlock <= BlockOf[i] /\ i > seen
      BY <3>1, FrameFacts DEF FrameLands
    <3>3. BlockOf[seen] <= BlockOf[i]
      BY <1>0, <3>2, LaterIsNoEarlier
    <3> QED
      BY <1>0, <1>2, <3>1, <3>2, <3>3, AppliedFrame DEF healVars, CursorBlock
  <2>3. ~ Broken
    <3>1. CASE cursor = 0
      BY <3>1 DEF Broken
    <3>2. CASE cursor # 0
      BY <2>1, <2>2, <3>2, BrokenStops DEF FrameComes
    <3> QED
      BY <3>1, <3>2
  <2>4. \A b \in unhealed : b < CursorBlock /\ b > rcursor
    BY <1>0, <2>3 DEF UnhealedInv, UnhealedIsAhead, Blocks
  <2>5. \A b \in unhealed : b <= BlockOf[i] /\ ~ (b >= BlockOf[i])
    BY <1>0, <2>2, <2>4 DEF Blocks
  <2> QED
    BY <2>2, <2>4, <2>5 DEF UnhealedInv, UnhealedIsAhead
<1>3. CASE HealDone
  <2>1. /\ heal # 0 /\ cursor' = heal /\ heal' = 0 /\ seen' = seen /\ rcursor' = rcursor
        /\ zombies' = {} /\ CursorBlock' = HealTo /\ unhealed' = unhealed \ (HealFrom..HealTo)
    BY <1>0, <1>3 DEF HealDone, Asked, passVars, Settled, CursorBlock, HealTo
  <2>2. HealTo = BlockOf[seen] /\ HealFrom \in Blocks /\ HealTo \in Blocks
    BY <2>1, HealFacts DEF HealTo
  <2>3. \A b \in unhealed' : b <= HealTo /\ b < HealFrom
    BY <1>0, <2>1, <2>2 DEF UnhealedInv, Blocks
  <2>4. \A b \in unhealed' : b > rcursor
    BY <1>0, <2>1, <2>2, <2>3 DEF UnhealedInv, UnhealedIsAhead, HealFrom, Blocks
  <2>5. \A b \in unhealed' : ~ (b >= HealTo)
    BY <1>0, <2>1, <2>2, <2>3, HealFacts DEF Blocks
  <2> QED
    BY <2>1, <2>2, <2>3, <2>4, <2>5 DEF UnhealedInv, UnhealedIsAhead
<1>4. ASSUME NEW c \in Blocks, PassDone(c) PROVE UnhealedInv'
  <2>1. UNCHANGED <<seen, cursor, heal, zombies>> /\ CursorBlock' = CursorBlock
    BY <1>4, PassOutcome DEF CursorBlock
  <2>2. unhealed' \subseteq unhealed /\ \A b \in unhealed' : b > rcursor' \/ b >= CursorBlock
    <3>1. ASSUME NEW through, PassLandsThrough(through)
          PROVE  /\ unhealed' \subseteq unhealed
                 /\ \A b \in unhealed' : b > rcursor' \/ b >= CursorBlock
      <4>1. /\ rcursor' = through /\ unhealed' = unhealed \ (rcursor + 1..through)
            /\ through \in Blocks
        BY <3>1 DEF PassLandsThrough, ApplyPass, Settled
      <4> QED
        BY <1>0, <4>1 DEF UnhealedInv, UnhealedIsAhead, Blocks
    <3>2. CASE PassHolds
      BY <3>2 DEF PassHolds, UnhealedInv, UnhealedIsAhead
    <3> QED
      BY <1>4, <3>1, <3>2, PassOutcome
  <2>3. Broken' <=> Broken
    BY <2>1 DEF Broken
  <2> QED
    BY <2>1, <2>2, <2>3 DEF UnhealedInv, UnhealedIsAhead
<1>5. ASSUME NEW c \in Blocks, CatchUpDone(c) PROVE UnhealedInv'
  <2>1. UNCHANGED <<seen, cursor, heal, zombies, rcursor, unhealed>>
    BY <1>5, CatchUpOutcome
  <2> QED
    BY <1>0, <2>1, UnhealedUntouched
<1> QED
  BY <1>1, <1>2, <1>3, <1>4, <1>5, KindsOfStep

(* A block on the unhealed list has a read before it: the next pass starts *)
(* below it or the next heal covers it, so that the list empties once the  *)
(* chain can be read (sync-health.ts, clearUnhealed; heal.ts; stream.ts).  *)
(* A teardown during a heal breaks this, and so would repeated indices.    *)
THEOREM SyncUnhealedIsAhead ==
    (MaxTeardowns = 0 /\ IndicesTogether) /\ Spec => []UnhealedIsAhead
<1> DEFINE Inv == MaxTeardowns = 0 /\ IndicesTogether /\ Control /\ UnhealedInv
<1>1. Inv => UnhealedIsAhead
  BY DEF UnhealedInv
<1>2. (MaxTeardowns = 0 /\ IndicesTogether) /\ Init => Inv
  <2>1. Init => UnhealedInv
    BY DEF Init, UnhealedInv, UnhealedIsAhead
  <2> QED
    BY <2>1, ControlInit
<1>3. Inv /\ [Next]_vars => Inv'
  BY ControlStep, UnhealedStep DEF IndicesTogether
<1> QED
  BY <1>1, <1>2, <1>3, PTL DEF Spec

=============================================================================
