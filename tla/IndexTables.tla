----------------------------- MODULE IndexTables -----------------------------
(***************************************************************************)
(* The state cache keys a value by two indices of the snapshot service's   *)
(* own tables, and carries copies of those tables to name it again         *)
(* (src/workers/sync/state/cache.ts).  Values and table arrive in separate *)
(* streams; events that follow name their entity and extend the copy by    *)
(* themselves.  Here is who ends up under which name.  What the values are *)
(* and which block they claim is in Boot.                                  *)
(*                                                                         *)
(* An entity is a number.  A row is kept under its component and its index *)
(* and remembers the entity the writer meant.  The table of components is  *)
(* kept in the same way and left out; index 0 is its primer and no one's.  *)
(***************************************************************************)
EXTENDS Naturals, Sequences, FiniteSets, SequencesExt

CONSTANTS
    Fields,          \* the components
    NEntities,       \* bound: the entities of the world
    Orders,          \* under each nonce, the order the service numbers them in
    MaxIndexLoads,   \* bound: the loads of one behaviour
    MaxMerged        \* bound: the events merged into one image

World == 1..NEntities

ASSUME IndexAssumption ==
    /\ NEntities \in Nat \ {0} /\ MaxIndexLoads \in Nat /\ MaxMerged \in Nat
    /\ Orders # <<>> /\ Orders \in Seq([World -> World])
    /\ \A n \in DOMAIN Orders : Cardinality(Range(Orders[n])) = NEntities

VARIABLES
    nonce,       \* the numbering the service is in
    registered,  \* how many entities it has numbered
    copy,        \* the state cache of the load at hand
    onDisk,      \* the saved one
    phase,       \* what the load does next
    loader,      \* who loads: the worker, its bridge, or the checkpoint child
    imageSize,   \* the entities of the CDN image that is being applied
    deltaNonce,  \* the nonce of the delta's state block
    deltaLost,   \* the bridge's delta failed
    indexLoads   \* the loads begun

indexVars == <<nonce, registered, copy, onDisk, phase, loader, imageSize,
               deltaNonce, deltaLost, indexLoads>>

NoRows    == [key \in {} |-> 0]
EmptyCopy == [entities |-> <<>>, state |-> NoRows, last |-> 0, nonce |-> 0]

IndexInit ==
    /\ nonce = 1 /\ registered = 1
    /\ copy = EmptyCopy /\ onDisk = EmptyCopy
    /\ phase = "down" /\ loader = "worker"
    /\ imageSize = 0 /\ deltaNonce = 0 /\ deltaLost = FALSE
    /\ indexLoads = 0

-----------------------------------------------------------------------------
(* The service numbers one more entity, or all of them anew.               *)
Registers ==
    /\ registered < NEntities
    /\ registered' = registered + 1
    /\ UNCHANGED <<nonce, copy, onDisk, phase, loader, imageSize, deltaNonce,
                   deltaLost, indexLoads>>

Renumbered ==
    /\ nonce < Len(Orders)
    /\ nonce' = nonce + 1
    /\ UNCHANGED <<registered, copy, onDisk, phase, loader, imageSize, deltaNonce,
                   deltaLost, indexLoads>>

Meant(n, i) == Orders[n][i]

-----------------------------------------------------------------------------
(* storeEntities: an entity is taken only at the tail of the table.        *)
AppendedAnyway(table, n, i) == Append(table, Meant(n, i))  \* mutant: no tail check

Appended(table, n, i) ==
    IF i = Len(table) + 1 THEN Append(table, Meant(n, i)) ELSE table

(* storeValues, of a value of field c that the writer meant for e. *)
WithRow(state, c, i, e) ==
    [key \in DOMAIN state \cup {<<c, i>>} |-> IF key = <<c, i>> THEN e ELSE state[key]]

(* removeValues *)
WithoutRow(state, c, i) == Restrict(state, DOMAIN state \ {<<c, i>>})

(* A process begins a load: from the disk, or from nothing if the saved    *)
(* cache is released.  Whatever was under way before is lost.              *)
BeginLoad(who, from) ==
    /\ indexLoads < MaxIndexLoads
    /\ indexLoads' = indexLoads + 1
    /\ loader' = who
    /\ copy' = from
    /\ phase' = "plan"
    /\ imageSize' = 0 /\ deltaNonce' = 0 /\ deltaLost' = FALSE
    /\ UNCHANGED <<nonce, registered, onDisk>>

WorkerLoads == BeginLoad("worker", onDisk) \/ BeginLoad("worker", EmptyCopy)
ChildLoads  == phase = "live" /\ BeginLoad("child", onDisk)

(* fetchFromCdn: the values and the entities of one export, written when   *)
(* the service was at the nonce it names, are applied concurrently.        *)
CdnBegins ==
    /\ phase = "plan" /\ loader = "worker" /\ copy = EmptyCopy
    /\ copy' = [EmptyCopy EXCEPT !.nonce = nonce]
    /\ imageSize' = registered
    /\ phase' = "image"
    /\ UNCHANGED <<nonce, registered, onDisk, loader, deltaNonce, deltaLost, indexLoads>>

ImageRow(c, i) ==
    /\ phase = "image" /\ i <= imageSize
    /\ copy' = [copy EXCEPT !.state = WithRow(@, c, i, Meant(copy.nonce, i))]
    /\ UNCHANGED <<nonce, registered, onDisk, phase, loader, imageSize, deltaNonce,
                   deltaLost, indexLoads>>

(* applyEntitiesInOrder *)
ImageEntity ==
    /\ phase = "image" /\ Len(copy.entities) < imageSize
    /\ copy' = [copy EXCEPT !.entities = Appended(@, copy.nonce, Len(@) + 1)]
    /\ UNCHANGED <<nonce, registered, onDisk, phase, loader, imageSize, deltaNonce,
                   deltaLost, indexLoads>>

ImageDone ==
    /\ phase = "image" /\ Len(copy.entities) = imageSize
    /\ copy' = [copy EXCEPT !.last = imageSize]
    /\ phase' = "save" /\ loader' = "bridge"
    /\ UNCHANGED <<nonce, registered, onDisk, imageSize, deltaNonce, deltaLost, indexLoads>>

-----------------------------------------------------------------------------
(* fetchSnapshot: another nonce means another numbering, and a fresh cache.*)
DeltaBegins ==
    /\ phase = "plan" \/ phase = "bridge"
    /\ copy' = IF copy.nonce = nonce THEN copy ELSE EmptyCopy
    /\ deltaNonce' = nonce
    /\ phase' = "values"
    /\ UNCHANGED <<nonce, registered, onDisk, loader, imageSize, deltaLost, indexLoads>>

(* fetchStateValues and fetchStateRemovals, from replicas that know any of *)
(* the entities.                                                           *)
DeltaRow(c, i) ==
    /\ phase = "values" /\ i <= registered
    /\ \/ copy' = [copy EXCEPT !.state = WithRow(@, c, i, Meant(nonce, i))]
       \/ <<c, i>> \in DOMAIN copy.state /\ copy' = [copy EXCEPT !.state = WithoutRow(@, c, i)]
    /\ UNCHANGED <<nonce, registered, onDisk, phase, loader, imageSize, deltaNonce,
                   deltaLost, indexLoads>>

(* fetchEntities begins by dropping what is past its pointer. *)
ValuesEnd ==
    /\ phase = "values"
    /\ copy' = [copy EXCEPT !.entities = SubSeq(@, 1, Min({Len(@), copy.last}))]
    /\ phase' = "entities"
    /\ UNCHANGED <<nonce, registered, onDisk, loader, imageSize, deltaNonce, deltaLost, indexLoads>>

(* A stream that is opened again serves from the pointer on, the entity at *)
(* the pointer included; each replica serves what it knows.                *)
DeltaEntity(i) ==
    /\ phase = "entities"
    /\ copy.last <= i /\ i <= registered
    /\ LET table == Appended(copy.entities, nonce, i)
       IN  copy' = [copy EXCEPT !.entities = table, !.last = Len(table)]
    /\ UNCHANGED <<nonce, registered, onDisk, phase, loader, imageSize, deltaNonce,
                   deltaLost, indexLoads>>

DeltaEnds ==
    /\ phase = "entities"
    /\ copy' = [copy EXCEPT !.nonce = deltaNonce]
    /\ phase' = IF loader = "bridge" THEN "events" ELSE "save"
    /\ UNCHANGED <<nonce, registered, onDisk, loader, imageSize, deltaNonce, deltaLost, indexLoads>>

(* bridgeBoot goes on without its delta, keeping what that applied; the    *)
(* fresh cache of another nonce is dropped with it.                        *)
DeltaFails ==
    /\ loader = "bridge" /\ phase \in {"bridge", "values", "entities"}
    /\ copy' = IF phase = "bridge" \/ deltaNonce = onDisk.nonce THEN copy ELSE onDisk
    /\ deltaLost' = TRUE
    /\ phase' = "events"
    /\ UNCHANGED <<nonce, registered, onDisk, loader, imageSize, deltaNonce, indexLoads>>

-----------------------------------------------------------------------------
(* saveStateCacheToStore *)
SaveTables ==
    /\ phase = "save"
    /\ onDisk' = copy
    /\ phase' = CASE loader = "child"  -> "live"
                  [] loader = "bridge" -> "bridge"
                  [] OTHER             -> "events"
    /\ UNCHANGED <<nonce, registered, copy, loader, imageSize, deltaNonce, deltaLost, indexLoads>>

(* storeEvent: a fill's or a buffered frame's event names its entity by    *)
(* identity; an entity that the table lacks gets the next index.           *)
IndexIn(table, e) ==
    IF e \in Range(table) THEN Max({i \in DOMAIN table : table[i] = e})
                          ELSE Len(table) + 1

Stored(tables, ev) ==
    LET i == IndexIn(tables.entities, ev.entity)
    IN  [tables EXCEPT
           !.entities = IF i > Len(@) THEN Append(@, ev.entity) ELSE @,
           !.state = IF ev.gone THEN WithoutRow(@, ev.field, i)
                                ELSE WithRow(@, ev.field, i, ev.entity)]

Events == [field : Fields, entity : World, gone : BOOLEAN]

(* The fill's and the buffered events are merged, and every row goes out   *)
(* under the name its index has (getEntries); an index without a name      *)
(* fails the output, and the worker begins again.                          *)
Output(events) ==
    /\ phase = "events"
    /\ copy' = FoldLeft(Stored, copy, events)
    /\ phase' = IF \A key \in DOMAIN copy'.state : key[2] <= Len(copy'.entities)
                THEN "live" ELSE "down"
    /\ UNCHANGED <<nonce, registered, onDisk, loader, imageSize, deltaNonce,
                   deltaLost, indexLoads>>

IndexNext ==
    \/ Registers \/ Renumbered
    \/ WorkerLoads \/ ChildLoads
    \/ CdnBegins \/ ImageEntity \/ ImageDone
    \/ DeltaBegins \/ ValuesEnd \/ DeltaEnds \/ DeltaFails
    \/ SaveTables
    \/ \E c \in Fields, i \in World : ImageRow(c, i) \/ DeltaRow(c, i)
    \/ \E i \in World : DeltaEntity(i)
    \/ \E n \in 0..MaxMerged : \E events \in [1..n -> Events] : Output(events)

IndexSpec == IndexInit /\ [][IndexNext]_indexVars

-----------------------------------------------------------------------------
(* The row under each index was meant for the entity the index names. *)
NamesWhatWasMeant(tables) ==
    \A key \in DOMAIN tables.state :
        key[2] <= Len(tables.entities) => tables.entities[key[2]] = tables.state[key]

(* A saved cache whose nonce the service still has names every row it can  *)
(* name as the service meant it, however the streams of values, removals   *)
(* and entities were cut, retried, served by lagging replicas or           *)
(* interleaved, and whatever was merged or lost between two saves: a delta *)
(* over it is safe.                                                        *)
SavedRowsAreNamed == onDisk.nonce = nonce => NamesWhatWasMeant(onDisk)

(* "If the delta THROWS, the gap-fill covers the whole window instead —    *)
(* slow [...] but chain-authoritative" (bridge.ts line 78): the image that *)
(* goes out after a lost delta has every value under its own entity.       *)
BridgeIsAuthoritative == phase = "live" /\ deltaLost => NamesWhatWasMeant(copy)

=============================================================================
