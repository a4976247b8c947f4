--------------------------- MODULE EntitiesProofs ---------------------------
(***************************************************************************)
(* The reverse index is the inverse of the values, for any sets of          *)
(* identifiers, components and values, and with it every query is the       *)
(* conjunction of its fragments.  And the rows a query answers with are     *)
(* those of the mirror, whatever the caches of the application layer hold.  *)
(***************************************************************************)
EXTENDS Entities, Projection, TLAPS

EntitiesInv == EntitiesTypeOK /\ IndexIsInverse /\ OneIndexPerEntity

-----------------------------------------------------------------------------
LEMMA InitEntities == EntitiesInit => EntitiesInv
BY EntitiesAssumption
   DEF EntitiesInit, EntitiesInv, EntitiesTypeOK, IndexIsInverse, OneIndexPerEntity,
       Indices, Registered

LEMMA ApplyKeepsInv == EntitiesInv /\ ApplyUpdate => EntitiesInv'
<1> SUFFICES ASSUME EntitiesInv,
                    NEW id \in Ids, NEW c \in Components,
                    NEW value \in Values \cup {NoValue}, NEW i \in Indices,
                    RegistersAt(id, i), Write(c, i, value), UNCHANGED result
             PROVE  EntitiesInv'
  BY DEF ApplyUpdate
<1> USE DEF EntitiesInv
<1>1. entities \in Seq(Ids) /\ values \in [Components -> [Indices -> Values \cup {NoValue}]]
      /\ valueToEntities \in [Indexed -> [Values -> SUBSET Indices]]
  BY DEF EntitiesTypeOK
<1>2. values' = [values EXCEPT ![c][i] = value]
      /\ values' \in [Components -> [Indices -> Values \cup {NoValue}]]
      /\ values'[c] = [values[c] EXCEPT ![i] = value]
      /\ \A d \in Components : d # c => values'[d] = values[d]
  BY <1>1 DEF Write
<1>3. /\ entities' \in Seq(Ids)
      /\ i \in 1..Len(entities')
      /\ Len(entities) <= Len(entities')
      /\ \A j \in 1..Len(entities) : entities'[j] = entities[j]
  <2>1. CASE i \in Registered /\ UNCHANGED entities
    BY <2>1, <1>1 DEF Registered
  <2>2. CASE i = Len(entities) + 1 /\ entities' = Append(entities, id)
    BY <2>2, <1>1
  <2> QED BY <2>1, <2>2 DEF RegistersAt
<1>4. /\ valueToEntities' \in [Indexed -> [Values -> SUBSET Indices]]
      /\ \A d \in Indexed, v \in Values :
            valueToEntities'[d][v] = {k \in Indices : values'[d][k] = v}
  <2>1. CASE c \notin Indexed
    <3>1. valueToEntities' = valueToEntities
      BY <2>1 DEF Write
    <3>2. \A d \in Indexed : values'[d] = values[d]
      BY <1>2, <2>1, EntitiesAssumption
    <3> QED BY <1>1, <3>1, <3>2 DEF IndexIsInverse
  <2>2. CASE c \in Indexed
    <3> DEFINE new == Reindexed(valueToEntities[c], i, value, values[c][i])
    <3>1. valueToEntities' = [valueToEntities EXCEPT ![c] = new]
      BY <2>2 DEF Write
    <3>2. /\ new \in [Values -> SUBSET Indices]
          /\ \A v \in Values, k \in Indices : k \in new[v] <=> values'[c][k] = v
      <4> DEFINE index   == valueToEntities[c]
                 before  == values[c][i]
                 removed == [v \in Values |-> IF v = before THEN index[v] \ {i} ELSE index[v]]
      <4>1. /\ index \in [Values -> SUBSET Indices]
            /\ \A v \in Values, k \in Indices : k \in index[v] <=> values[c][k] = v
        BY <1>1, <2>2 DEF IndexIsInverse
      <4>2. \A k \in Indices : values'[c][k] = IF k = i THEN value ELSE values[c][k]
        BY <1>1, <1>2
      <4>3. new = [v \in Values |-> IF v = value THEN removed[v] \cup {i} ELSE removed[v]]
        BY DEF Reindexed
      <4> HIDE DEF new, index
      <4>4. removed \in [Values -> SUBSET Indices]
        BY <4>1
      <4>5. \A v \in Values, k \in Indices :
               k \in removed[v] <=> values[c][k] = v /\ k # i
        BY <4>1
      <4> HIDE DEF removed, before
      <4>6. new \in [Values -> SUBSET Indices]
        BY <4>3, <4>4
      <4>7. ASSUME NEW v \in Values, NEW k \in Indices
            PROVE  k \in new[v] <=> values'[c][k] = v
        BY <4>2, <4>3, <4>5
      <4> QED BY <4>6, <4>7
    <3> HIDE DEF new
    <3>3. valueToEntities' \in [Indexed -> [Values -> SUBSET Indices]]
      BY <1>1, <3>1, <3>2
    <3>4. ASSUME NEW d \in Indexed, NEW v \in Values
          PROVE  valueToEntities'[d][v] = {k \in Indices : values'[d][k] = v}
      <4>1. CASE d = c
        BY <4>1, <1>1, <1>2, <3>1, <3>2
      <4>2. CASE d # c
        <5>1. valueToEntities'[d] = valueToEntities[d] /\ values'[d] = values[d]
          BY <4>2, <1>1, <1>2, <3>1, EntitiesAssumption
        <5> QED BY <5>1 DEF IndexIsInverse
      <4> QED BY <4>1, <4>2
    <3> QED BY <3>3, <3>4
  <2> QED BY <2>1, <2>2
<1>5. EntitiesTypeOK'
  BY <1>2, <1>3, <1>4 DEF EntitiesTypeOK, Indices
<1>6. IndexIsInverse'
  BY <1>4 DEF IndexIsInverse, Indices
<1>7. OneIndexPerEntity'
  <2>1. \A j, k \in 1..Len(entities') : entities'[j] = entities'[k] => j = k
    BY <1>1 DEF OneIndexPerEntity, RegistersAt, Registered
  <2>2. ASSUME NEW d \in Components, NEW j \in Indices \ (1..Len(entities'))
        PROVE  values'[d][j] = NoValue
    <3>1. j \notin Registered /\ j # i
      BY <1>1, <1>3 DEF Registered, Indices
    <3>2. values[d][j] = NoValue
      BY <3>1 DEF OneIndexPerEntity
    <3> QED BY <1>1, <1>2, <3>1, <3>2
  <2> QED BY <2>1, <2>2 DEF OneIndexPerEntity, Registered, Indices
<1> QED BY <1>5, <1>6, <1>7

LEMMA QueryKeepsInv == EntitiesInv /\ RunQuery => EntitiesInv'
<1> SUFFICES ASSUME EntitiesInv, NEW f \in Fragments, NEW g \in Fragments,
                    result' = QueryResult(f, g),
                    valueToEntities' = IndexAfterQuery(f, g),
                    UNCHANGED <<entities, values>>
             PROVE  EntitiesInv'
  BY DEF RunQuery
<1> USE DEF EntitiesInv
<1>1. FirstResult(f) \subseteq Indices
  BY DEF FirstResult, GetEntitiesWithValue, EntitiesTypeOK, Fragments
<1>2. result' \subseteq Indices
  BY <1>1 DEF QueryResult
<1>3. valueToEntities' = valueToEntities
  BY DEF IndexAfterQuery
<1> QED BY <1>2, <1>3 DEF EntitiesTypeOK, IndexIsInverse, OneIndexPerEntity, Indices, Registered

LEMMA StepKeepsInv == EntitiesInv /\ [EntitiesNext]_entityVars => EntitiesInv'
<1> SUFFICES ASSUME EntitiesInv, [EntitiesNext]_entityVars PROVE EntitiesInv'
  OBVIOUS
<1>1. CASE ApplyUpdate
  BY <1>1, ApplyKeepsInv
<1>2. CASE RunQuery
  BY <1>2, QueryKeepsInv
<1>3. CASE UNCHANGED entityVars
  BY <1>3 DEF EntitiesInv, EntitiesTypeOK, IndexIsInverse, OneIndexPerEntity, entityVars,
              Indices, Registered
<1> QED BY <1>1, <1>2, <1>3 DEF EntitiesNext

LEMMA EntitiesInvariant == EntitiesSpec => []EntitiesInv
BY InitEntities, StepKeepsInv, PTL DEF EntitiesSpec

-----------------------------------------------------------------------------
(* The store is always of its type (src/engine/recs). *)
THEOREM EntitiesTypes == EntitiesSpec => []EntitiesTypeOK
BY EntitiesInvariant, PTL DEF EntitiesInv

(* The reverse index kept by the update stream's subscriber is the inverse  *)
(* of the component's values, after every write, removal and query          *)
(* (src/engine/recs/Indexer.ts).                                            *)
THEOREM EntitiesIndexIsInverse == EntitiesSpec => []IndexIsInverse
BY EntitiesInvariant, PTL DEF EntitiesInv

(* An identifier has one index and an index that was not given out has no   *)
(* value (src/engine/recs/World.ts).                                        *)
THEOREM EntitiesOneIndex == EntitiesSpec => []OneIndexPerEntity
BY EntitiesInvariant, PTL DEF EntitiesInv

(* Read through the index or by a scan, a query returns the entities that   *)
(* pass all its fragments (src/engine/recs/Query.ts).                       *)
THEOREM EntitiesQueryIsConjunction == EntitiesSpec => []QueryIsConjunction
<1>1. ASSUME EntitiesInv PROVE QueryIsConjunction
  <2> SUFFICES ASSUME NEW f \in Fragments, NEW g \in Fragments, ~ IsNegative(f)
               PROVE  QueryResult(f, g) =
                        {i \in Indices : PassesQueryFragment(i, f) /\ PassesQueryFragment(i, g)}
    BY DEF QueryIsConjunction
  <2>1. FirstResult(f) = {i \in Indices : PassesQueryFragment(i, f)}
    <3>1. CASE f.type = "Has"
      BY <3>1 DEF FirstResult, PassesQueryFragment
    <3>2. CASE f.type = "HasValue"
      <4>1. GetEntitiesWithValue(f.component, f.value)
              = {i \in Indices : HasTheValue(f.component, i, f.value)}
        BY <1>1 DEF GetEntitiesWithValue, HasTheValue, EntitiesInv, IndexIsInverse, Fragments
      <4> QED BY <3>2, <4>1 DEF FirstResult, PassesQueryFragment
    <3> QED BY <3>1, <3>2 DEF Fragments, IsNegative
  <2> HIDE DEF PassesQueryFragment
  <2> QED BY <2>1 DEF QueryResult
<1> QED BY <1>1, EntitiesInvariant, PTL

-----------------------------------------------------------------------------
(* The rows.  The caches agree with the mirror: a config that is cached is  *)
(* the one there is, and a node that is cached is the harvest's, or the     *)
(* harvest moved since it was read.                                         *)
CachesAgree ==
    /\ cachedConfig \in {0, config}
    /\ cachedNode = harvestNode \/ movedAge <= nodeAge

ProjectionInv ==
    /\ nodeAge \in 0..AgeCap /\ movedAge \in 0..AgeCap
    /\ CachesAgree
    /\ RefusalIsDue /\ RowIsCurrent

LEMMA InitProjection == ProjectionInit => ProjectionInv
<1> SUFFICES ASSUME ProjectionInit PROVE ProjectionInv
  OBVIOUS
<1>1. nodeAge \in 0..AgeCap /\ movedAge \in 0..AgeCap
  <2>1. AgeCap \in Nat /\ AgeCap \in 0..AgeCap
    BY ProjectionAssumption DEF ProjectionAssumption
  <2>2. nodeAge = AgeCap /\ movedAge = AgeCap
    BY DEF ProjectionInit
  <2> QED
    BY <2>1, <2>2
<1>2. CachesAgree
  BY DEF ProjectionInit, CachesAgree
<1>3. served.is = "nothing"
  BY DEF ProjectionInit, Nothing
<1>4. RefusalIsDue /\ RowIsCurrent
  BY <1>3 DEF RefusalIsDue, RowIsCurrent
<1> QED
  BY <1>1, <1>2, <1>4 DEF ProjectionInv

(* What a query reads through the caches: the config of the mirror, and the *)
(* harvest's node unless it moved within the window.                        *)
LEMMA ReadsThroughCaches ==
    ASSUME ProjectionInv
    PROVE  /\ ConfigAsRead = config
           /\ HarvestExists => NodeAsRead = harvestNode \/ Recently
<1>1. ConfigAsRead = config
  BY DEF ProjectionInv, CachesAgree, ConfigAsRead
<1>2. ASSUME HarvestExists, ~ Recently PROVE NodeAsRead = harvestNode
  <2>1. CASE NodeIsRead
    BY <2>1 DEF NodeAsRead
  <2>2. CASE ~ NodeIsRead
    <3>1. nodeAge <= NodeWindow /\ movedAge > NodeWindow
      BY <1>2, <2>2, ProjectionAssumption
         DEF NodeIsRead, Recently, ProjectionInv, ProjectionAssumption
    <3>2. cachedNode = harvestNode
      BY <3>1, ProjectionAssumption DEF ProjectionInv, CachesAgree, ProjectionAssumption
    <3> QED
      BY <2>2, <3>2 DEF NodeAsRead
  <2> QED
    BY <2>1, <2>2
<1> QED
  BY <1>1, <1>2

LEMMA ReadRowKeeps == ProjectionInv /\ ReadRow => ProjectionInv'
<1> SUFFICES ASSUME ProjectionInv, ReadRow PROVE ProjectionInv'
  OBVIOUS
<1>1. /\ kamiState' = kamiState /\ stats' = stats /\ harvestState' = harvestState
      /\ harvestNode' = harvestNode /\ config' = config /\ movedAge' = movedAge
  BY DEF ReadRow, mirrorVars
<1>2. /\ cachedConfig' = ConfigAsRead
      /\ nodeAge' = NodeAgeAfter /\ cachedNode' = NodeAsRead
  BY DEF ReadRow, Refreshed
<1>3. nodeAge' \in 0..AgeCap /\ CachesAgree'
  <2>1. CASE NodeIsRead
    <3>1. nodeAge' = 0 /\ cachedNode' = harvestNode
      BY <1>2, <2>1 DEF NodeAgeAfter, NodeAsRead
    <3>2. nodeAge' \in 0..AgeCap
      BY <3>1, ProjectionAssumption DEF ProjectionAssumption
    <3> QED
      BY <1>1, <1>2, <3>1, <3>2, ReadsThroughCaches DEF CachesAgree
  <2>2. CASE ~ NodeIsRead
    <3>1. nodeAge' = nodeAge /\ cachedNode' = cachedNode
      BY <1>2, <2>2 DEF NodeAgeAfter, NodeAsRead
    <3> QED
      BY <1>1, <1>2, <3>1, ReadsThroughCaches DEF CachesAgree, ProjectionInv
  <2> QED
    BY <2>1, <2>2
<1>4. \/ served' = [is |-> "incomplete", missing |-> Missing]
      \/ ConfigAsRead = 0 /\ served' = [is |-> "no config"]
      \/ Missing = {} /\ served' = Row
  BY DEF ReadRow
<1>5. RefusalIsDue'
  <2>1. CASE served' = [is |-> "incomplete", missing |-> Missing]
    <3>1. served'.is = "incomplete" /\ served'.missing = Missing
      BY <2>1
    <3>2. "stats" \in Missing => stats = 0
      BY DEF Missing, Refreshed
    <3>3. "harvest" \in Missing => harvestState # "ACTIVE"
      BY DEF Missing, Refreshed
    <3>4. "node" \in Missing => NodeAsRead = NoNode /\ HarvestExists
      BY DEF Missing, HarvestExists
    <3>5. "node" \in Missing => harvestNode = NoNode \/ Recently
      BY <3>4, ReadsThroughCaches
    <3>6. Recently' = Recently
      BY <1>1 DEF Recently
    <3> QED
      BY <1>1, <3>1, <3>2, <3>3, <3>5, <3>6 DEF RefusalIsDue
  <2>2. CASE ConfigAsRead = 0 /\ served' = [is |-> "no config"]
    <3>1. served'.is = "no config" /\ config = 0
      BY <2>2, ReadsThroughCaches
    <3> QED
      BY <1>1, <3>1 DEF RefusalIsDue
  <2>3. CASE served' = Row
    <3>1. served'.is = "row"
      BY <2>3 DEF Row
    <3> QED
      BY <3>1 DEF RefusalIsDue
  <2> QED
    BY <1>4, <2>1, <2>2, <2>3
<1>6. RowIsCurrent'
  <2>1. CASE served' = Row
    <3>1. /\ served'.state = kamiState /\ served'.stats = stats
          /\ served'.config = ConfigAsRead
          /\ served'.node = IF harvestState = "ACTIVE" THEN NodeAsRead ELSE NoNode
      BY <2>1 DEF Row
    <3>2. harvestState = "ACTIVE" /\ ~ Recently => served'.node = harvestNode
      BY <3>1, ReadsThroughCaches DEF HarvestExists
    <3>3. Recently' = Recently
      BY <1>1 DEF Recently
    <3> QED
      BY <1>1, <3>1, <3>2, <3>3, ReadsThroughCaches DEF RowIsCurrent
  <2>2. CASE served' # Row
    <3>1. \/ served' = [is |-> "incomplete", missing |-> Missing]
          \/ served' = [is |-> "no config"]
      BY <1>4, <2>2
    <3>2. served'.is # "row"
      <4>1. CASE served' = [is |-> "incomplete", missing |-> Missing]
        <5>1. served'.is = "incomplete"
          BY <4>1
        <5> QED
          BY <5>1
      <4>2. CASE served' = [is |-> "no config"]
        <5>1. served'.is = "no config"
          BY <4>2
        <5> QED
          BY <5>1
      <4> QED
        BY <3>1, <4>1, <4>2
    <3> QED
      BY <3>2 DEF RowIsCurrent
  <2> QED
    BY <2>1, <2>2
<1> QED
  BY <1>1, <1>3, <1>5, <1>6 DEF ProjectionInv

(* A step that is no query takes the answer away. *)
LEMMA AnswerGone ==
    ASSUME served' = Nothing PROVE RefusalIsDue' /\ RowIsCurrent'
<1>1. served'.is = "nothing"
  BY DEF Nothing
<1> QED
  BY <1>1 DEF RefusalIsDue, RowIsCurrent

LEMMA WriteKeeps ==
    ASSUME ProjectionInv,
           \/ WriteKamiState \/ WriteStats \/ WriteHarvestState \/ WriteHarvestNode
           \/ WriteConfig \/ WriteOwner
    PROVE  ProjectionInv'
<1>1. RefusalIsDue' /\ RowIsCurrent'
  BY AnswerGone
     DEF WriteKamiState, WriteStats, WriteHarvestState, WriteHarvestNode, WriteConfig, WriteOwner
<1>2. CASE WriteKamiState \/ WriteStats \/ WriteHarvestState \/ WriteOwner
  BY <1>1, <1>2
     DEF ProjectionInv, CachesAgree, cacheVars,
         WriteKamiState, WriteStats, WriteHarvestState, WriteOwner
<1>3. CASE WriteHarvestNode
  <2>1. movedAge' = 0 /\ nodeAge' = nodeAge /\ UNCHANGED <<cachedConfig, config>>
    BY <1>3 DEF WriteHarvestNode, cacheVars
  <2> QED
    BY <1>1, <2>1, ProjectionAssumption DEF ProjectionInv, CachesAgree, ProjectionAssumption
<1>4. CASE WriteConfig
  BY <1>1, <1>4 DEF ProjectionInv, CachesAgree, WriteConfig, ConfigCacheAfterWrite
<1> QED
  BY <1>2, <1>3, <1>4

LEMMA SecondKeeps == ProjectionInv /\ SecondPasses => ProjectionInv'
<1> SUFFICES ASSUME ProjectionInv, SecondPasses PROVE ProjectionInv'
  OBVIOUS
<1>1. RefusalIsDue' /\ RowIsCurrent'
  BY AnswerGone DEF SecondPasses
<1>2. /\ nodeAge' = Older(nodeAge) /\ movedAge' = Older(movedAge)
      /\ UNCHANGED <<harvestNode, config, cachedNode, cachedConfig>>
  BY DEF SecondPasses
<1>3. /\ nodeAge' \in 0..AgeCap /\ movedAge' \in 0..AgeCap
      /\ movedAge <= nodeAge => movedAge' <= nodeAge'
  BY <1>2, ProjectionAssumption DEF ProjectionInv, Older, ProjectionAssumption
<1> QED
  BY <1>1, <1>2, <1>3 DEF ProjectionInv, CachesAgree

LEMMA NextKeepsRows == ProjectionInv /\ [ProjectionNext]_projectionVars => ProjectionInv'
<1> SUFFICES ASSUME ProjectionInv, [ProjectionNext]_projectionVars PROVE ProjectionInv'
  OBVIOUS
<1>1. CASE UNCHANGED projectionVars
  BY <1>1 DEF projectionVars, mirrorVars, cacheVars, ProjectionInv, CachesAgree,
              RefusalIsDue, RowIsCurrent, Recently
<1> QED
  BY <1>1, ReadRowKeeps, WriteKeeps, SecondKeeps DEF ProjectionNext

LEMMA ProjectionInvariant == ProjectionSpec => []ProjectionInv
BY InitProjection, NextKeepsRows, PTL DEF ProjectionSpec

(* A query refuses only for what the mirror lacks (the node: or lacked     *)
(* until the window before), for any window, nodes and values and however  *)
(* queries and writes follow each other (queries/build.ts projectKami).    *)
THEOREM ProjectionRefusalIsDue == ProjectionSpec => []RefusalIsDue
<1>1. ProjectionInv => RefusalIsDue
  BY DEF ProjectionInv
<1> QED
  BY <1>1, ProjectionInvariant, PTL

(* A row is the mirror's: no cache of the application layer stands in for  *)
(* a later write, but the harvest's node within the window                 *)
(* (app/cache/kami, app/cache/config, app/cache/harvest).                  *)
THEOREM ProjectionRowIsCurrent == ProjectionSpec => []RowIsCurrent
<1>1. ProjectionInv => RowIsCurrent
  BY DEF ProjectionInv
<1> QED
  BY <1>1, ProjectionInvariant, PTL

=============================================================================
