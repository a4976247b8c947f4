------------------------------ MODULE Entities ------------------------------
(***************************************************************************)
(* The store the mirror is kept in (src/engine/recs): the world's table of  *)
(* entities, the values of its components, the reverse index of an indexed  *)
(* component and the queries that read it.  Every call is synchronous, so a *)
(* call is a step; the index is kept by a subscriber of the component's     *)
(* update stream, within the call that writes.                              *)
(*                                                                          *)
(* An entity's index is its place in the table, from 1.  A value of the     *)
(* model is a component value; NoValue stands for none.                      *)
(***************************************************************************)
EXTENDS Naturals, Sequences

CONSTANTS
    Ids,          \* entity identifiers
    Components,   \* the components of the world
    Indexed,      \* those defined with `indexed`
    Values,       \* component values
    NoValue,
    MaxEntities   \* bound: entities of the world

ASSUME EntitiesAssumption ==
    /\ Indexed \subseteq Components
    /\ NoValue \notin Values
    /\ MaxEntities \in Nat

VARIABLES
    entities,          \* World.entities: the identifier at each index
    values,            \* component -> index -> value
    valueToEntities,   \* indexed component -> value -> set of indices
    result             \* the set the last query returned

entityVars == <<entities, values, valueToEntities, result>>

Indices == 1..MaxEntities
Registered == 1..Len(entities)

EntitiesInit ==
    /\ entities = <<>>
    /\ values = [c \in Components |-> [i \in Indices |-> NoValue]]
    /\ valueToEntities = [c \in Indexed |-> [v \in Values |-> {}]]
    /\ result = {}

-----------------------------------------------------------------------------
(* World.registerEntity: an identifier keeps the index it has. *)
RegistersAt(id, i) ==
    \/ i \in Registered /\ entities[i] = id /\ UNCHANGED entities
    \/ /\ \A j \in Registered : entities[j] # id
       /\ i = Len(entities) + 1
       /\ entities' = Append(entities, id)

ReindexedAddFirst(index, i, value, prevValue) ==    \* mutant: adds, then removes
    LET added == [v \in Values |-> IF v = value THEN index[v] \cup {i} ELSE index[v]]
    IN  [v \in Values |-> IF v = prevValue THEN added[v] \ {i} ELSE added[v]]

(* The index's subscriber: the entity leaves the set of its previous value *)
(* and joins that of its new one; an absent value has no set.              *)
Reindexed(index, i, value, prevValue) ==
    LET removed == [v \in Values |-> IF v = prevValue THEN index[v] \ {i} ELSE index[v]]
    IN  [v \in Values |-> IF v = value THEN removed[v] \cup {i} ELSE removed[v]]

(* setComponent, or removeComponent where the value is NoValue: the value is *)
(* in place before the update stream speaks.                                *)
Write(c, i, value) ==
    /\ values' = [values EXCEPT ![c][i] = value]
    /\ valueToEntities' =
         IF c \in Indexed
         THEN [valueToEntities EXCEPT ![c] = Reindexed(@, i, value, values[c][i])]
         ELSE valueToEntities

(* One update of applyNetworkUpdates: its entity is registered if need be. *)
ApplyUpdate ==
    \E id \in Ids, c \in Components, value \in Values \cup {NoValue}, i \in Indices :
        RegistersAt(id, i) /\ Write(c, i, value) /\ UNCHANGED result

-----------------------------------------------------------------------------
(* Fragments; Has and HasValue are positive, Not and NotValue negative. *)
Fragments == [type : {"Has", "HasValue", "Not", "NotValue"}, component : Components,
              value : Values]

IsNegative(f) == f.type \in {"Not", "NotValue"}

HasComponent(c, i)      == values[c][i] # NoValue
HasTheValue(c, i, v)    == values[c][i] = v

PassesQueryFragment(i, f) ==
    \/ f.type = "Has"      /\ HasComponent(f.component, i)
    \/ f.type = "HasValue" /\ HasTheValue(f.component, i, f.value)
    \/ f.type = "Not"      /\ ~ HasComponent(f.component, i)
    \/ f.type = "NotValue" /\ ~ HasTheValue(f.component, i, f.value)

(* The index where there is one, a scan where there is none. *)
GetEntitiesWithValue(c, v) ==
    IF c \in Indexed THEN valueToEntities[c][v]
    ELSE {i \in Indices : HasTheValue(c, i, v)}

FirstResult(f) ==
    IF f.type = "Has" THEN {i \in Indices : HasComponent(f.component, i)}
    ELSE GetEntitiesWithValue(f.component, f.value)

(* runQuery with two fragments: the second narrows the first's result. *)
QueryResult(f, g) == {i \in FirstResult(f) : PassesQueryFragment(i, g)}

(* The result is narrowed in place, in a set of the query's own. *)
IndexAfterQuery(f, g) == valueToEntities

RunQuery ==
    \E f, g \in Fragments :
        /\ ~ IsNegative(f)
        /\ result' = QueryResult(f, g)
        /\ valueToEntities' = IndexAfterQuery(f, g)
        /\ UNCHANGED <<entities, values>>

EntitiesNext == ApplyUpdate \/ RunQuery

EntitiesSpec == EntitiesInit /\ [][EntitiesNext]_entityVars

-----------------------------------------------------------------------------
EntitiesTypeOK ==
    /\ entities \in Seq(Ids)
    /\ values \in [Components -> [Indices -> Values \cup {NoValue}]]
    /\ valueToEntities \in [Indexed -> [Values -> SUBSET Indices]]
    /\ result \subseteq Indices

(* The reverse index of a component is the inverse of its values, whatever  *)
(* was written over what, removed, or asked (src/engine/recs/Indexer.ts):   *)
(* every query by owner, holder or type reads the index instead of the      *)
(* values.                                                                  *)
IndexIsInverse ==
    \A c \in Indexed, v \in Values :
        valueToEntities[c][v] = {i \in Indices : values[c][i] = v}

(* An identifier has one index, and only an index that was given out has a  *)
(* value (src/engine/recs/World.ts registerEntity): two indices of an       *)
(* entity would share its components between them.                          *)
OneIndexPerEntity ==
    /\ \A i, j \in Registered : entities[i] = entities[j] => i = j
    /\ \A c \in Components : \A i \in Indices \ Registered : values[c][i] = NoValue

(* A query answers with the entities that pass all its fragments, through   *)
(* an index or without (src/engine/recs/Query.ts runQuery).                 *)
QueryIsConjunction ==
    \A f, g \in Fragments : ~ IsNegative(f) =>
        QueryResult(f, g) =
            {i \in Indices : PassesQueryFragment(i, f) /\ PassesQueryFragment(i, g)}

=============================================================================
