------------------------------ MODULE Projection ------------------------------
(***************************************************************************)
(* One kami's row as a query answers with it: what projectKami and vitalsOf *)
(* (src/queries/build.ts) make of the mirror through the caches of the      *)
(* application layer (src/app/cache), which remember what earlier queries   *)
(* read.  A query is one synchronous step; the mirror is written one        *)
(* component at a time, so a query may come between two writes of one       *)
(* transaction.                                                             *)
(*                                                                          *)
(* A value is the number of its write, 0 standing for none.  A freshness    *)
(* stamp is modelled by its age in seconds, counted up to AgeCap.           *)
(***************************************************************************)
EXTENDS Naturals

CONSTANTS
    Nodes,         \* the nodes a kami may harvest on
    NoNode,
    NodeWindow,    \* the harvest's node is read again when older, in seconds
    AgeCap,        \* bound: ages are not told apart beyond it
    MaxVersion     \* bound: values a component takes

ASSUME ProjectionAssumption ==
    /\ NoNode \notin Nodes
    /\ NodeWindow \in Nat /\ AgeCap \in Nat /\ NodeWindow < AgeCap
    /\ MaxVersion \in Nat

VARIABLES
    kamiState,      \* the kami's State: "RESTING" or "HARVESTING"
    stats,          \* its stats (and level)
    harvestState,   \* its harvest entity's State: "", "ACTIVE" or "INACTIVE"
    harvestNode,    \* the node its harvest is on (SourceID)
    config,         \* the kami config
    owner,          \* its owner's account: index and name
    stampAge,       \* age of the stamps of the kami's sub-objects
    cachedNode,     \* HarvestCache: the node of the harvest
    nodeAge,        \* age of that read (NodeUpdateTs)
    cachedConfig,   \* ArrayCache and ValueCache
    cachedOwner,    \* AccountCache
    movedAge,       \* ghost: how long ago harvestNode was written
    served          \* what the query that just ran answered

mirrorVars == <<kamiState, stats, harvestState, harvestNode, config, owner, movedAge>>
cacheVars  == <<stampAge, cachedNode, nodeAge, cachedConfig, cachedOwner>>
projectionVars == <<mirrorVars, cacheVars, served>>

Nothing == [is |-> "nothing"]

ProjectionInit ==
    /\ kamiState = "RESTING" /\ stats = 0 /\ harvestState = "" /\ harvestNode = NoNode
    /\ config = 0 /\ owner = 0 /\ movedAge = AgeCap
    /\ stampAge = AgeCap /\ cachedNode = NoNode /\ nodeAge = AgeCap
    /\ cachedConfig = 0 /\ cachedOwner = 0
    /\ served = Nothing

-----------------------------------------------------------------------------
RefreshedWhenOlder == stampAge > 0    \* mutant: a window of 0

(* The sub-objects of a kami are read again at every query: KAMI_REFRESH's *)
(* window of -1 is below every age.  KamiCache is cleared before, so one   *)
(* that is not read again is not there.                                    *)
Refreshed == TRUE

(* The harvest's live fields are always read; its node when its stamp is   *)
(* older than the window (getKamiHarvest asks for {live: 2, node: 2}).     *)
HarvestExists == harvestState # "" \/ harvestNode # NoNode

NodeIsRead == HarvestExists /\ nodeAge > NodeWindow

NodeAsRead == IF NodeIsRead THEN harvestNode ELSE cachedNode

(* A read of the node stamps it. *)
NodeAgeAfter == IF NodeIsRead THEN 0 ELSE nodeAge

(* getArray and getValue: what is not real is not cached. *)
ConfigAsRead == IF cachedConfig # 0 THEN cachedConfig ELSE config

(* getAccount without options: cached once, for good. *)
OwnerAsRead == IF cachedOwner # 0 THEN cachedOwner ELSE owner

-----------------------------------------------------------------------------
(* projectKami: the joins this projection lacks. *)
Missing ==
    {join \in {"stats", "harvest", "node"} :
        \/ join = "stats" /\ (~ Refreshed \/ stats = 0)
        \/ /\ join = "harvest" /\ kamiState = "HARVESTING"
           /\ ~ Refreshed \/ harvestState # "ACTIVE"
        \/ /\ join = "node" /\ kamiState = "HARVESTING"
           /\ Refreshed /\ harvestState = "ACTIVE" /\ NodeAsRead = NoNode}

(* vitalsOf: the row of a complete kami. *)
Row == [is     |-> "row",
        state  |-> kamiState,
        stats  |-> stats,
        config |-> ConfigAsRead,
        node   |-> IF harvestState = "ACTIVE" THEN NodeAsRead ELSE NoNode,
        owner  |-> OwnerAsRead]

(* buildKamiVitals, kamiRow and the rows of nodeQuery: an incomplete kami is *)
(* refused or flagged, a config that is not there refuses.                   *)
ReadRow ==
    /\ cachedConfig' = ConfigAsRead
    /\ IF Refreshed
       THEN stampAge' = 0 /\ nodeAge' = NodeAgeAfter /\ cachedNode' = NodeAsRead
       ELSE UNCHANGED <<stampAge, nodeAge, cachedNode>>
    /\ IF Missing # {}
       THEN served' = [is |-> "incomplete", missing |-> Missing] /\ UNCHANGED cachedOwner
       ELSE IF ConfigAsRead = 0
       THEN served' = [is |-> "no config"] /\ UNCHANGED cachedOwner
       ELSE served' = Row /\ cachedOwner' = OwnerAsRead
    /\ UNCHANGED mirrorVars

-----------------------------------------------------------------------------
ConfigCacheKept == cachedConfig    \* mutant: cached for the life of the process

(* A config write drops what is cached from its entity (watchConfigWrites). *)
ConfigCacheAfterWrite == 0

(* applyNetworkUpdates, one component at a time; a query's answer is gone *)
(* with the next step.                                                    *)
WriteKamiState ==
    /\ kamiState' \in {"RESTING", "HARVESTING"} \ {kamiState}
    /\ served' = Nothing
    /\ UNCHANGED <<stats, harvestState, harvestNode, config, owner, movedAge, cacheVars>>

WriteStats ==
    /\ stats' \in (0..MaxVersion) \ {stats}
    /\ served' = Nothing
    /\ UNCHANGED <<kamiState, harvestState, harvestNode, config, owner, movedAge, cacheVars>>

WriteHarvestState ==
    /\ harvestState' \in {"ACTIVE", "INACTIVE"} \ {harvestState}
    /\ served' = Nothing
    /\ UNCHANGED <<kamiState, stats, harvestNode, config, owner, movedAge, cacheVars>>

WriteHarvestNode ==
    /\ harvestNode' \in Nodes \ {harvestNode}
    /\ movedAge' = 0
    /\ served' = Nothing
    /\ UNCHANGED <<kamiState, stats, harvestState, config, owner, cacheVars>>

WriteConfig ==
    /\ config' \in (0..MaxVersion) \ {config}
    /\ cachedConfig' = ConfigCacheAfterWrite
    /\ served' = Nothing
    /\ UNCHANGED <<kamiState, stats, harvestState, harvestNode, owner, movedAge,
                   stampAge, cachedNode, nodeAge, cachedOwner>>

WriteOwner ==
    /\ owner < MaxVersion /\ owner' = owner + 1
    /\ served' = Nothing
    /\ UNCHANGED <<kamiState, stats, harvestState, harvestNode, config, movedAge, cacheVars>>

Older(age) == IF age < AgeCap THEN age + 1 ELSE age

(* A second of the monotonic clock. *)
SecondPasses ==
    /\ stampAge' = Older(stampAge) /\ nodeAge' = Older(nodeAge) /\ movedAge' = Older(movedAge)
    /\ served' = Nothing
    /\ UNCHANGED <<kamiState, stats, harvestState, harvestNode, config, owner,
                   cachedNode, cachedConfig, cachedOwner>>

ProjectionNext ==
    \/ ReadRow
    \/ WriteKamiState \/ WriteStats \/ WriteHarvestState \/ WriteHarvestNode
    \/ WriteConfig \/ WriteOwner
    \/ SecondPasses

ProjectionSpec == ProjectionInit /\ [][ProjectionNext]_projectionVars

-----------------------------------------------------------------------------
Recently == movedAge <= NodeWindow

(* A refusal is due: what a row is said to lack, the mirror does not hold   *)
(* (the node: or did not until two seconds ago), however close two queries  *)
(* of one kami follow each other and whatever came before the config did    *)
(* (src/queries/build.ts projectKami, src/app/cache/config/base.ts).        *)
RefusalIsDue ==
    /\ served.is = "no config" => config = 0
    /\ served.is = "incomplete" =>
         /\ "stats" \in served.missing => stats = 0
         /\ "harvest" \in served.missing => harvestState # "ACTIVE"
         /\ "node" \in served.missing => harvestNode = NoNode \/ Recently

(* A row's state, stats and config are those of the mirror: no cache stands *)
(* in for a later write, an admin's change of the config included           *)
(* (src/app/cache/kami/base.ts, src/app/cache/config/base.ts B4); and its   *)
(* node is where the kami harvests, unless it moved within the last two     *)
(* seconds: reads in quick succession do not put the next read of the node  *)
(* off (src/app/cache/harvest/base.ts).                                     *)
RowIsCurrent ==
    served.is = "row" =>
        /\ served.state = kamiState /\ served.stats = stats /\ served.config = config
        /\ harvestState = "ACTIVE" /\ ~ Recently => served.node = harvestNode

=============================================================================
