----------------------------- MODULE StoreProofs -----------------------------
(***************************************************************************)
(* What is saved, and how: what is saved names its rows as the service     *)
(* meant them, for any number of entities, numberings, loads and merged    *)
(* events; the commit order is crash safe for any number of writers and    *)
(* processes; and a resolved set() is written, for any number of calls.    *)
(***************************************************************************)
EXTENDS IndexTables, StateStore, StoreFlush, TLAPS

-----------------------------------------------------------------------------
(* The tables of the state cache.  The load at hand is true to the         *)
(* numbering it believes in until its fill's events are merged; only what  *)
(* is true is saved.                                                       *)
Rows    == UNION {[D -> World] : D \in SUBSET (Fields \X World)}
Tables  == [entities : Seq(World), state : Rows, last : Nat, nonce : Nat]
LoadPhases == {"plan", "image", "save", "bridge", "values", "entities"}

(* The numbering the load at hand is in: that of its delta, once there is  *)
(* one, and before that that of the cache it started from.                 *)
Believed == IF phase \in {"values", "entities"} THEN deltaNonce ELSE copy.nonce

(* Rows and names are both the service's. *)
TrueTo(tables, n) ==
    /\ \A i \in 1..Len(tables.entities) : i \in World /\ tables.entities[i] = Meant(n, i)
    /\ \A key \in DOMAIN tables.state : tables.state[key] = Meant(n, key[2])

IndexTypeOK ==
    /\ nonce \in DOMAIN Orders
    /\ registered \in World
    /\ onDisk \in Tables /\ onDisk.nonce <= nonce
    /\ phase \in LoadPhases \cup {"down", "events", "live"}
    /\ loader \in {"worker", "bridge", "child"}
    /\ imageSize \in 0..NEntities
    /\ phase \in LoadPhases => copy \in Tables /\ Believed \in Nat /\ Believed <= nonce
    /\ phase = "image" => copy.nonce \in DOMAIN Orders

LoadIsTrue == phase \in LoadPhases /\ Believed = nonce => TrueTo(copy, nonce)
DiskIsTrue == onDisk.nonce = nonce => TrueTo(onDisk, nonce)

IndexInv == IndexTypeOK /\ LoadIsTrue /\ DiskIsTrue

-----------------------------------------------------------------------------
LEMMA Numbering ==
    /\ Orders \in Seq([World -> World]) /\ Len(Orders) \in Nat
    /\ DOMAIN Orders = 1..Len(Orders) /\ NEntities \in Nat
    /\ \A n \in DOMAIN Orders, i \in World : Meant(n, i) \in World
BY IndexAssumption DEF Meant

LEMMA EmptyIsTrue == EmptyCopy \in Tables /\ \A n : TrueTo(EmptyCopy, n)
<1>1. NoRows \in [{} -> World] /\ DOMAIN NoRows = {}
  BY DEF NoRows
<1>2. NoRows \in Rows
  BY <1>1, {} \in SUBSET (Fields \X World) DEF Rows
<1> QED BY <1>1, <1>2 DEF EmptyCopy, Tables, TrueTo

(* A row that is the writer's keeps a cache true; one less does too. *)
LEMMA RowKeepsTrue ==
    ASSUME NEW t \in Tables, NEW n \in DOMAIN Orders, NEW c \in Fields, NEW i \in World
    PROVE  LET u == [t EXCEPT !.state = WithRow(t.state, c, i, Meant(n, i))]
               w == [t EXCEPT !.state = WithoutRow(t.state, c, i)]
           IN  /\ u \in Tables /\ u.nonce = t.nonce
               /\ w \in Tables /\ w.nonce = t.nonce
               /\ \A m : TrueTo(t, m) => TrueTo(w, m)
               /\ TrueTo(t, n) => TrueTo(u, n)
<1> DEFINE more == WithRow(t.state, c, i, Meant(n, i))
           less == WithoutRow(t.state, c, i)
           u    == [t EXCEPT !.state = more]
           w    == [t EXCEPT !.state = less]
<1>1. PICK D \in SUBSET (Fields \X World) : t.state \in [D -> World]
  BY DEF Tables, Rows
<1>2. DOMAIN t.state = D
  BY <1>1
<1>3. more \in [D \cup {<<c, i>>} -> World] /\ D \cup {<<c, i>>} \in SUBSET (Fields \X World)
  BY <1>1, <1>2, Numbering DEF WithRow
<1>4. less \in [D \ {<<c, i>>} -> World] /\ D \ {<<c, i>>} \in SUBSET (Fields \X World)
  BY <1>1, <1>2 DEF WithoutRow, Restrict
<1>5. more \in Rows
  BY <1>3 DEF Rows
<1>6. less \in Rows
  BY <1>4 DEF Rows
<1> HIDE DEF more, less
<1>7. u \in Tables /\ u.nonce = t.nonce /\ u.entities = t.entities /\ u.state = more
  BY <1>5 DEF Tables
<1>8. w \in Tables /\ w.nonce = t.nonce /\ w.entities = t.entities /\ w.state = less
  BY <1>6 DEF Tables
<1>9. \A m : TrueTo(t, m) => TrueTo(w, m)
  <2> SUFFICES ASSUME NEW m, TrueTo(t, m) PROVE TrueTo(w, m)
    OBVIOUS
  <2>1. \A key \in DOMAIN less : key \in DOMAIN t.state /\ less[key] = t.state[key]
    BY <1>1, <1>2 DEF less, WithoutRow, Restrict
  <2> QED BY <1>8, <2>1 DEF TrueTo
<1>10. ASSUME TrueTo(t, n) PROVE TrueTo(u, n)
  <2>1. \A key \in DOMAIN more :
           \/ key = <<c, i>> /\ more[key] = Meant(n, i)
           \/ key \in DOMAIN t.state /\ more[key] = t.state[key]
    BY <1>1, <1>2 DEF more, WithRow
  <2> QED BY <1>7, <1>10, <2>1 DEF TrueTo
<1> QED BY <1>7, <1>8, <1>9, <1>10 DEF more, less

(* storeEntities keeps a table a prefix of the service's. *)
LEMMA EntityKeepsTrue ==
    ASSUME NEW t \in Tables, NEW n \in DOMAIN Orders, NEW i \in Nat, i <= NEntities,
           NEW l \in Nat
    PROVE  LET table == Appended(t.entities, n, i)
               u     == [t EXCEPT !.entities = table, !.last = l]
           IN  /\ table \in Seq(World) /\ Len(table) \in Nat
               /\ u \in Tables /\ u.nonce = t.nonce
               /\ TrueTo(t, n) => TrueTo(u, n)
<1> DEFINE table == Appended(t.entities, n, i)
           u     == [t EXCEPT !.entities = table, !.last = l]
<1>1. t.entities \in Seq(World) /\ Len(t.entities) \in Nat
  BY DEF Tables
<1>2. CASE i = Len(t.entities) + 1
  <2> HIDE DEF table, u
  <2>1. i \in World /\ Meant(n, i) \in World
    <3>1. 1 <= i
      BY <1>1, <1>2
    <3>2. i \in World
      BY <3>1, Numbering DEF World
    <3> QED BY <3>2, Numbering
  <2>2. /\ table = Append(t.entities, Meant(n, i)) /\ table \in Seq(World)
        /\ Len(table) = i
        /\ table[i] = Meant(n, i)
        /\ \A j \in 1..Len(t.entities) : table[j] = t.entities[j]
    BY <1>1, <1>2, <2>1 DEF Appended, table
  <2>3. u \in Tables /\ u.nonce = t.nonce /\ u.entities = table /\ u.state = t.state
    BY <2>2 DEF Tables, u
  <2>4. ASSUME TrueTo(t, n) PROVE TrueTo(u, n)
    BY <1>1, <1>2, <2>1, <2>2, <2>3, <2>4 DEF TrueTo
  <2> QED BY <2>2, <2>3, <2>4 DEF table, u
<1>3. CASE i # Len(t.entities) + 1
  <2>1. table = t.entities
    BY <1>3 DEF Appended
  <2>2. u \in Tables /\ u.nonce = t.nonce /\ u.entities = t.entities /\ u.state = t.state
    BY <1>1, <2>1 DEF Tables
  <2> QED BY <1>1, <2>1, <2>2 DEF TrueTo
<1> QED BY <1>2, <1>3

-----------------------------------------------------------------------------
LEMMA InitIndex == IndexInit => IndexInv
<1> SUFFICES ASSUME IndexInit PROVE IndexInv
  OBVIOUS
<1>1. 1 \in DOMAIN Orders
  BY IndexAssumption
<1>2. 1 \in World
  BY IndexAssumption DEF World
<1>3. EmptyCopy.nonce = 0
  BY DEF EmptyCopy
<1> QED
  BY <1>1, <1>2, <1>3, EmptyIsTrue, IndexAssumption
     DEF IndexInit, IndexInv, IndexTypeOK, LoadIsTrue, DiskIsTrue, LoadPhases

LEMMA StutterIndex == IndexInv /\ UNCHANGED indexVars => IndexInv'
BY DEF IndexInv, IndexTypeOK, LoadIsTrue, DiskIsTrue, Believed, indexVars

(* A step that leaves the service and the disk alone owes the load at hand.*)
LEMMA LoadStep ==
    ASSUME IndexInv, UNCHANGED <<nonce, registered, onDisk>>,
           loader' \in {"worker", "bridge", "child"}, imageSize' \in 0..NEntities,
           phase' \in LoadPhases \cup {"down", "events", "live"},
           phase' \in LoadPhases =>
               /\ copy' \in Tables /\ Believed' \in Nat /\ Believed' <= nonce
               /\ Believed' = nonce => TrueTo(copy', nonce),
           phase' = "image" => copy'.nonce \in DOMAIN Orders
    PROVE  IndexInv'
<1>1. DiskIsTrue'
  BY DEF IndexInv, DiskIsTrue, TrueTo
<1>2. LoadIsTrue'
  BY DEF LoadIsTrue
<1>3. IndexTypeOK'
  BY DEF IndexInv, IndexTypeOK
<1> QED BY <1>1, <1>2, <1>3 DEF IndexInv

LEMMA ServiceKeeps == IndexInv /\ (Registers \/ Renumbered) => IndexInv'
<1>1. ASSUME IndexInv, Registers PROVE IndexInv'
  <2>1. registered' \in World
    BY <1>1, IndexAssumption DEF IndexInv, IndexTypeOK, Registers, World
  <2> QED
    BY <1>1, <2>1 DEF IndexInv, IndexTypeOK, Registers, LoadIsTrue, DiskIsTrue, Believed
<1>2. ASSUME IndexInv, Renumbered PROVE IndexInv'
  <2>1. /\ nonce' = nonce + 1 /\ nonce \in Nat /\ nonce' \in DOMAIN Orders
        /\ UNCHANGED <<registered, copy, onDisk, phase, loader, imageSize, deltaNonce>>
    BY <1>2, Numbering DEF Renumbered, IndexInv, IndexTypeOK
  <2>2. Believed' = Believed
    BY <2>1 DEF Believed
  <2>3. onDisk.nonce \in Nat /\ onDisk.nonce <= nonce
    BY <1>2 DEF IndexInv, IndexTypeOK, Tables
  <2>4. phase \in LoadPhases => Believed' # nonce'
    BY <1>2, <2>1, <2>2 DEF IndexInv, IndexTypeOK
  <2>5. DiskIsTrue'
    BY <2>1, <2>3 DEF DiskIsTrue
  <2>6. LoadIsTrue'
    BY <2>1, <2>4 DEF LoadIsTrue
  <2>7. IndexTypeOK'
    BY <1>2, <2>1, <2>2, <2>3 DEF IndexInv, IndexTypeOK
  <2> QED BY <2>5, <2>6, <2>7 DEF IndexInv
<1> QED BY <1>1, <1>2

LEMMA BeginKeeps ==
    ASSUME IndexInv, NEW from \in {onDisk, EmptyCopy},
           NEW who \in {"worker", "child"}, BeginLoad(who, from)
    PROVE  IndexInv'
<1>1. EmptyCopy.nonce = 0 /\ nonce \in Nat
  BY Numbering DEF EmptyCopy, IndexInv, IndexTypeOK
<1>2. copy' \in Tables /\ copy'.nonce \in Nat /\ copy'.nonce <= nonce
  BY <1>1, EmptyIsTrue DEF BeginLoad, IndexInv, IndexTypeOK, Tables
<1>3. copy'.nonce = nonce => TrueTo(copy', nonce)
  BY EmptyIsTrue DEF BeginLoad, IndexInv, DiskIsTrue
<1>4. phase' = "plan" /\ Believed' = copy'.nonce
  BY DEF BeginLoad, Believed
<1>5. imageSize' \in 0..NEntities /\ loader' \in {"worker", "bridge", "child"}
  BY IndexAssumption DEF BeginLoad
<1> QED
  BY <1>2, <1>3, <1>4, <1>5, LoadStep DEF BeginLoad, LoadPhases

LEMMA ImageKeeps ==
    ASSUME IndexInv,
           \/ CdnBegins \/ ImageEntity \/ ImageDone
           \/ \E c \in Fields, i \in World : ImageRow(c, i)
    PROVE  IndexInv'
<1> USE DEF IndexInv, IndexTypeOK
<1>1. nonce \in Nat /\ nonce \in DOMAIN Orders /\ registered \in 0..NEntities
  BY Numbering DEF World
<1>2. CASE CdnBegins
  <2> DEFINE fresh == [EmptyCopy EXCEPT !.nonce = nonce]
  <2>1. fresh \in Tables /\ fresh.nonce = nonce /\ TrueTo(fresh, nonce)
    BY <1>1, EmptyIsTrue DEF Tables, TrueTo, EmptyCopy
  <2>2. copy' = fresh /\ phase' = "image" /\ imageSize' = registered
        /\ UNCHANGED <<nonce, registered, onDisk, loader>>
    BY <1>2 DEF CdnBegins
  <2> HIDE DEF fresh
  <2> QED BY <1>1, <2>1, <2>2, LoadStep DEF LoadPhases, Believed
<1>3. CASE \E c \in Fields, i \in World : ImageRow(c, i)
  <2>1. PICK c \in Fields, i \in World : ImageRow(c, i)
    BY <1>3
  <2> DEFINE u == [copy EXCEPT !.state = WithRow(copy.state, c, i, Meant(copy.nonce, i))]
  <2>2. /\ phase = "image" /\ phase' = "image" /\ copy' = u
        /\ UNCHANGED <<nonce, registered, onDisk, loader, imageSize>>
    BY <2>1 DEF ImageRow
  <2>3. copy \in Tables /\ copy.nonce \in DOMAIN Orders /\ copy.nonce \in Nat
        /\ copy.nonce <= nonce
    BY <2>2 DEF LoadPhases, Believed
  <2>4. u \in Tables /\ u.nonce = copy.nonce
        /\ (TrueTo(copy, copy.nonce) => TrueTo(u, copy.nonce))
    <3>1. PICK n \in DOMAIN Orders : n = copy.nonce
      BY <2>3
    <3> DEFINE x == [copy EXCEPT !.state = WithRow(copy.state, c, i, Meant(n, i))]
    <3>2. copy \in Tables
      BY <2>3
    <3>3. x \in Tables /\ (TrueTo(copy, n) => TrueTo(x, n))
      BY <3>2, RowKeepsTrue
    <3>4. x.nonce = copy.nonce
      BY <3>2 DEF Tables
    <3>5. u = x
      BY <3>1
    <3> HIDE DEF u, x
    <3> QED BY <3>1, <3>3, <3>4, <3>5
  <2>5. copy.nonce = nonce => TrueTo(copy, nonce)
    BY <2>2 DEF LoadIsTrue, LoadPhases, Believed
  <2> HIDE DEF u
  <2> QED BY <2>2, <2>3, <2>4, <2>5, LoadStep DEF LoadPhases, Believed
<1>4. CASE ImageEntity
  <2> DEFINE i == Len(copy.entities) + 1
             table == Appended(copy.entities, copy.nonce, i)
             u == [copy EXCEPT !.entities = table]
             v == [copy EXCEPT !.entities = table, !.last = copy.last]
  <2>2. /\ phase = "image" /\ phase' = "image" /\ copy' = u
        /\ Len(copy.entities) < imageSize
        /\ UNCHANGED <<nonce, registered, onDisk, loader, imageSize>>
    BY <1>4 DEF ImageEntity
  <2>3. copy \in Tables /\ copy.nonce \in DOMAIN Orders /\ copy.nonce \in Nat
        /\ copy.nonce <= nonce
    BY <2>2 DEF LoadPhases, Believed
  <2>4. u = v
    BY <2>3 DEF Tables
  <2>5. i \in Nat /\ i <= NEntities /\ copy.last \in Nat
    BY <2>2, <2>3, Numbering DEF Tables
  <2> HIDE DEF i
  <2>6. v \in Tables /\ v.nonce = copy.nonce
        /\ (TrueTo(copy, copy.nonce) => TrueTo(v, copy.nonce))
    <3>1. PICK n \in DOMAIN Orders : n = copy.nonce
      BY <2>3
    <3> DEFINE x == [copy EXCEPT !.entities = Appended(copy.entities, n, i),
                                 !.last = copy.last]
    <3>2. copy \in Tables
      BY <2>3
    <3>3. x \in Tables /\ (TrueTo(copy, n) => TrueTo(x, n))
      BY <3>2, <2>5, EntityKeepsTrue
    <3>4. x.nonce = copy.nonce
      BY <3>2 DEF Tables
    <3>5. v = x
      BY <3>1
    <3> HIDE DEF u, v, table, x
    <3> QED BY <3>1, <3>3, <3>4, <3>5
  <2>7. copy.nonce = nonce => TrueTo(copy, nonce)
    BY <2>2 DEF LoadIsTrue, LoadPhases, Believed
  <2> HIDE DEF u, v
  <2> QED BY <2>2, <2>3, <2>4, <2>6, <2>7, LoadStep DEF LoadPhases, Believed
<1>5. CASE ImageDone
  <2> DEFINE u == [copy EXCEPT !.last = imageSize]
  <2>1. /\ phase = "image" /\ phase' = "save" /\ copy' = u /\ loader' = "bridge"
        /\ UNCHANGED <<nonce, registered, onDisk, imageSize>>
    BY <1>5 DEF ImageDone
  <2>2. copy \in Tables /\ copy.nonce \in Nat /\ copy.nonce <= nonce
        /\ (copy.nonce = nonce => TrueTo(copy, nonce))
    BY <2>1 DEF LoadPhases, Believed, LoadIsTrue
  <2>3. u \in Tables /\ u.nonce = copy.nonce
        /\ u.entities = copy.entities /\ u.state = copy.state
    BY <2>2 DEF Tables
  <2>4. TrueTo(copy, nonce) => TrueTo(u, nonce)
    BY <2>3 DEF TrueTo
  <2> HIDE DEF u
  <2> QED BY <2>1, <2>2, <2>3, <2>4, LoadStep DEF LoadPhases, Believed
<1> QED BY <1>2, <1>3, <1>4, <1>5

LEMMA DeltaKeeps ==
    ASSUME IndexInv,
           \/ DeltaBegins \/ ValuesEnd \/ DeltaEnds \/ DeltaFails
           \/ \E c \in Fields, i \in World : DeltaRow(c, i)
           \/ \E i \in World : DeltaEntity(i)
    PROVE  IndexInv'
<1> USE DEF IndexInv, IndexTypeOK
<1>1. nonce \in Nat /\ nonce \in DOMAIN Orders /\ registered \in 0..NEntities
  BY Numbering DEF World
<1>2. phase \in {"values", "entities"} =>
         /\ copy \in Tables /\ deltaNonce \in Nat /\ deltaNonce <= nonce
         /\ deltaNonce = nonce => TrueTo(copy, nonce)
  BY DEF LoadPhases, Believed, LoadIsTrue
<1>3. CASE DeltaBegins
  <2>1. /\ phase \in {"plan", "bridge"} /\ phase' = "values" /\ deltaNonce' = nonce
        /\ copy' = IF copy.nonce = nonce THEN copy ELSE EmptyCopy
        /\ UNCHANGED <<nonce, registered, onDisk, loader, imageSize>>
    BY <1>3 DEF DeltaBegins
  <2>2. copy' \in Tables /\ TrueTo(copy', nonce)
    BY <2>1, EmptyIsTrue DEF LoadPhases, Believed, LoadIsTrue
  <2> QED BY <1>1, <2>1, <2>2, LoadStep DEF LoadPhases, Believed
<1>4. CASE \E c \in Fields, i \in World : DeltaRow(c, i)
  <2>1. PICK c \in Fields, i \in World : DeltaRow(c, i)
    BY <1>4
  <2> DEFINE u == [copy EXCEPT !.state = WithRow(copy.state, c, i, Meant(nonce, i))]
             w == [copy EXCEPT !.state = WithoutRow(copy.state, c, i)]
  <2>2. /\ phase = "values" /\ phase' = "values" /\ copy' \in {u, w}
        /\ UNCHANGED <<nonce, registered, onDisk, loader, imageSize, deltaNonce>>
    BY <2>1 DEF DeltaRow
  <2>3. /\ u \in Tables /\ w \in Tables
        /\ TrueTo(copy, nonce) => TrueTo(u, nonce) /\ TrueTo(w, nonce)
    BY <1>1, <1>2, <2>2, RowKeepsTrue
  <2> HIDE DEF u, w
  <2> QED BY <1>2, <2>2, <2>3, LoadStep DEF LoadPhases, Believed
<1>5. CASE ValuesEnd
  <2> DEFINE n == Min({Len(copy.entities), copy.last})
             u == [copy EXCEPT !.entities = SubSeq(copy.entities, 1, n)]
  <2>1. /\ phase = "values" /\ phase' = "entities" /\ copy' = u
        /\ UNCHANGED <<nonce, registered, onDisk, loader, imageSize, deltaNonce>>
    BY <1>5 DEF ValuesEnd
  <2>2. copy.entities \in Seq(World) /\ Len(copy.entities) \in Nat /\ copy.last \in Nat
    BY <1>2, <2>1 DEF Tables
  <2>3. n \in 0..Len(copy.entities)
    BY <2>2 DEF Min
  <2> HIDE DEF n
  <2>4. /\ SubSeq(copy.entities, 1, n) \in Seq(World)
        /\ Len(SubSeq(copy.entities, 1, n)) = n
        /\ \A i \in 1..n : SubSeq(copy.entities, 1, n)[i] = copy.entities[i]
    BY <2>2, <2>3
  <2>5. u \in Tables /\ u.entities = SubSeq(copy.entities, 1, n) /\ u.state = copy.state
    BY <1>2, <2>1, <2>4 DEF Tables
  <2>6. TrueTo(copy, nonce) => TrueTo(u, nonce)
    BY <2>2, <2>3, <2>4, <2>5 DEF TrueTo
  <2> HIDE DEF u
  <2> QED BY <1>2, <2>1, <2>5, <2>6, LoadStep DEF LoadPhases, Believed
<1>6. CASE \E i \in World : DeltaEntity(i)
  <2>1. PICK i \in World : DeltaEntity(i)
    BY <1>6
  <2> DEFINE table == Appended(copy.entities, nonce, i)
             u == [copy EXCEPT !.entities = table, !.last = Len(table)]
  <2>2. /\ phase = "entities" /\ phase' = "entities" /\ copy' = u
        /\ UNCHANGED <<nonce, registered, onDisk, loader, imageSize, deltaNonce>>
    BY <2>1 DEF DeltaEntity
  <2>3. i \in Nat /\ i <= NEntities
    BY Numbering DEF World
  <2>4. Len(table) \in Nat
    BY <1>1, <1>2, <2>2, <2>3, EntityKeepsTrue
  <2>5. u \in Tables /\ (TrueTo(copy, nonce) => TrueTo(u, nonce))
    BY <1>1, <1>2, <2>2, <2>3, <2>4, EntityKeepsTrue
  <2> HIDE DEF u
  <2> QED BY <1>2, <2>2, <2>5, LoadStep DEF LoadPhases, Believed
<1>7. CASE DeltaEnds
  <2> DEFINE u == [copy EXCEPT !.nonce = deltaNonce]
  <2>1. /\ phase = "entities" /\ phase' \in {"events", "save"} /\ copy' = u
        /\ UNCHANGED <<nonce, registered, onDisk, loader, imageSize, deltaNonce>>
    BY <1>7 DEF DeltaEnds
  <2>2. u \in Tables /\ u.nonce = deltaNonce
        /\ u.entities = copy.entities /\ u.state = copy.state
    BY <1>2, <2>1 DEF Tables
  <2>3. TrueTo(copy, nonce) => TrueTo(u, nonce)
    BY <2>2 DEF TrueTo
  <2> HIDE DEF u
  <2> QED BY <1>2, <2>1, <2>2, <2>3, LoadStep DEF LoadPhases, Believed
<1>8. CASE DeltaFails
  BY <1>8, LoadStep DEF DeltaFails, LoadPhases
<1> QED BY <1>3, <1>4, <1>5, <1>6, <1>7, <1>8

(* What is saved is the load as it stands before any event is merged. *)
LEMMA SaveKeeps == IndexInv /\ SaveTables => IndexInv'
<1> SUFFICES ASSUME IndexInv, SaveTables PROVE IndexInv'
  OBVIOUS
<1> USE DEF IndexInv, IndexTypeOK
<1>1. /\ phase = "save" /\ onDisk' = copy /\ phase' \in {"live", "bridge", "events"}
      /\ UNCHANGED <<nonce, registered, copy, loader, imageSize, deltaNonce>>
  BY DEF SaveTables
<1>2. copy \in Tables /\ copy.nonce \in Nat /\ copy.nonce <= nonce
      /\ (copy.nonce = nonce => TrueTo(copy, nonce))
  BY <1>1 DEF LoadPhases, Believed, LoadIsTrue
<1>3. DiskIsTrue'
  BY <1>1, <1>2 DEF DiskIsTrue, TrueTo
<1>4. LoadIsTrue'
  BY <1>1, <1>2 DEF LoadIsTrue, Believed, LoadPhases, TrueTo
<1>5. IndexTypeOK'
  BY <1>1, <1>2 DEF Believed, LoadPhases
<1> QED BY <1>3, <1>4, <1>5

LEMMA OutputKeeps ==
    ASSUME IndexInv, NEW events, Output(events)
    PROVE  IndexInv'
BY LoadStep DEF Output, IndexInv, IndexTypeOK, LoadPhases

LEMMA StepIndex == IndexInv /\ [IndexNext]_indexVars => IndexInv'
<1> SUFFICES ASSUME IndexInv, [IndexNext]_indexVars PROVE IndexInv'
  OBVIOUS
<1>1. CASE UNCHANGED indexVars
  BY <1>1, StutterIndex
<1>2. CASE IndexNext
  <2>1. CASE Registers \/ Renumbered
    BY <2>1, ServiceKeeps
  <2>2. CASE WorkerLoads
    BY <2>2, BeginKeeps DEF WorkerLoads
  <2>3. CASE ChildLoads
    BY <2>3, BeginKeeps DEF ChildLoads
  <2>4. CASE \/ CdnBegins \/ ImageEntity \/ ImageDone
             \/ \E c \in Fields, i \in World : ImageRow(c, i)
    BY <2>4, ImageKeeps
  <2>5. CASE \/ DeltaBegins \/ ValuesEnd \/ DeltaEnds \/ DeltaFails
             \/ \E c \in Fields, i \in World : DeltaRow(c, i)
             \/ \E i \in World : DeltaEntity(i)
    BY <2>5, DeltaKeeps
  <2>6. CASE SaveTables
    BY <2>6, SaveKeeps
  <2>7. CASE \E n \in 0..MaxMerged : \E events \in [1..n -> Events] : Output(events)
    BY <2>7, OutputKeeps
  <2> QED BY <1>2, <2>1, <2>2, <2>3, <2>4, <2>5, <2>6, <2>7 DEF IndexNext
<1> QED BY <1>1, <1>2

(* The saved cache names its rows as the service meant them, whatever was  *)
(* cut, retried, lost, interleaved or renumbered on the way, for any       *)
(* numbering and any number of entities.                                   *)
THEOREM IndexSavedRowsAreNamed == IndexSpec => []SavedRowsAreNamed
<1>1. IndexInv => SavedRowsAreNamed
  <2> SUFFICES ASSUME IndexInv, onDisk.nonce = nonce,
                      NEW key \in DOMAIN onDisk.state, key[2] <= Len(onDisk.entities)
               PROVE  onDisk.entities[key[2]] = onDisk.state[key]
    BY DEF SavedRowsAreNamed, NamesWhatWasMeant
  <2>1. onDisk \in Tables /\ TrueTo(onDisk, nonce)
    BY DEF IndexInv, IndexTypeOK, DiskIsTrue
  <2>2. key \in Fields \X World /\ Len(onDisk.entities) \in Nat
    BY <2>1 DEF Tables, Rows
  <2>3. key[2] \in 1..Len(onDisk.entities)
    BY <2>2 DEF World
  <2> QED BY <2>1, <2>3 DEF TrueTo
<1> QED BY <1>1, InitIndex, StepIndex, PTL DEF IndexSpec

-----------------------------------------------------------------------------
(* The files of the store. *)
(* The primary is unreadable only while no commit has replaced it; as long *)
(* as the previous generation is the only good one, no store that could    *)
(* commit would rotate, and a load past the primary will find it.          *)
SoleCopyIsKept ==
    primary = "broken" /\ prev = "good" =>
        \A w \in Writers : stage[w] \in Loaded \cup Committing => ~rotate[w]

RetryWillFind ==
    \A w \in Writers : owed[w] =>
        /\ stage[w] = "opened" => Readable
        /\ stage[w] = "retry" => prev = "good"
        /\ stage[w] # "empty"

StoreInv == StoreTypeOK /\ SoleCopyIsKept /\ RetryWillFind

(* Nothing is held at the start. *)
LEMMA StoreInitInv == Init => StoreInv
  BY StoreAssumption DEF Init, StoreInv, StoreTypeOK, SoleCopyIsKept, RetryWillFind,
     Contents, Stages, Loading, Loaded, Committing

(* Every file system call keeps the invariant. *)
LEMMA StoreStepInv == StoreInv /\ [Next]_vars => StoreInv'
<1> SUFFICES ASSUME StoreInv, [Next]_vars PROVE StoreInv'
  OBVIOUS
<1> USE StoreAssumption DEF StoreInv, StoreTypeOK, SoleCopyIsKept, RetryWillFind,
        Readable, Contents, Stages, Loading, Loaded, Committing, Goes, files
<1>1. CASE UNCHANGED vars
  BY <1>1 DEF vars
<1>2. ASSUME NEW p \in Pids, Start(p) PROVE StoreInv'
  BY <1>2 DEF Start
<1>3. ASSUME NEW p \in Pids, Exit(p) PROVE StoreInv'
  BY <1>3 DEF Exit
<1>4. ASSUME NEW w \in Writers, Open(w) PROVE StoreInv'
  BY <1>4 DEF Open, Swept
<1>5. ASSUME NEW w \in Writers, ReadPrimary(w) PROVE StoreInv'
  BY <1>5 DEF ReadPrimary
<1>6. ASSUME NEW w \in Writers, ReadPrev(w) PROVE StoreInv'
  BY <1>6 DEF ReadPrev, RotateAfter
<1>7. ASSUME NEW w \in Writers, Drop(w) PROVE StoreInv'
  BY <1>7 DEF Drop
<1>8. ASSUME NEW w \in Writers, OpenTemp(w) PROVE StoreInv'
  BY <1>8 DEF OpenTemp
<1>9. ASSUME NEW w \in Writers, SyncTemp(w) PROVE StoreInv'
  BY <1>9 DEF SyncTemp
<1>10. ASSUME NEW w \in Writers, FailWrite(w) PROVE StoreInv'
  BY <1>10 DEF FailWrite
<1>11. ASSUME NEW w \in Writers, Rotate(w) PROVE StoreInv'
  BY <1>11 DEF Rotate
<1>12. ASSUME NEW w \in Writers, Rename(w) PROVE StoreInv'
  BY <1>12 DEF Rename
<1> QED
  BY <1>1, <1>2, <1>3, <1>4, <1>5, <1>6, <1>7, <1>8, <1>9, <1>10, <1>11, <1>12
  DEF Next, Process, Load, Commit

(* A load that begins while a generation can be read comes back with one.  *)
THEOREM StoreLoadFindsIt == Spec => []LoadFindsIt
<1>1. StoreInv => LoadFindsIt
  BY DEF StoreInv, RetryWillFind, LoadFindsIt
<1> QED
  BY StoreInitInv, StoreStepInv, <1>1, PTL DEF Spec

(* Crash safety: a readable generation is never lost, by any interleaving  *)
(* of commits, loads and kills.                                            *)
THEOREM StoreStaysReadable == Spec => StaysReadable
<1>1. StoreInv /\ [Next]_vars => [Readable => Readable']_vars
  <2> SUFFICES ASSUME StoreInv, Next, Readable PROVE Readable'
    BY DEF vars
  <2> USE DEF Readable, files
  <2>1. ASSUME NEW w \in Writers, Rotate(w) PROVE Readable'
    BY <2>1 DEF Rotate, Goes, StoreInv, SoleCopyIsKept, StoreTypeOK, Contents, Committing
  <2>2. ASSUME NEW w \in Writers, Rename(w) PROVE Readable'
    BY <2>2 DEF Rename
  <2>3. CASE UNCHANGED files
    BY <2>3
  <2> QED
    BY <2>1, <2>2, <2>3 DEF Next, Process, Load, Commit, Start, Exit, Open, ReadPrimary,
       ReadPrev, Drop, OpenTemp, SyncTemp, FailWrite
<1> QED
  BY StoreInitInv, StoreStepInv, <1>1, PTL DEF Spec, StaysReadable

(* The commit in progress keeps its temp file, whoever sweeps: the pid of  *)
(* a store that is doing anything is alive.                                *)
TempInv ==
    /\ TempIsSafe
    /\ \A w \in Writers : stage[w] # "closed" => PidOf[w] \in alive

THEOREM StoreTempIsSafe == Spec => []TempIsSafe
<1>1. Init => TempInv
  BY DEF Init, TempInv, TempIsSafe, Committing
<1>2. StoreInv /\ TempInv /\ [Next]_vars => TempInv'
  <2> SUFFICES ASSUME StoreInv, TempInv, [Next]_vars PROVE TempInv'
    OBVIOUS
  <2> USE StoreAssumption DEF StoreInv, StoreTypeOK, TempInv, TempIsSafe, Stages, Loading, Loaded,
          Committing, Goes
  <2>1. CASE UNCHANGED vars
    BY <2>1 DEF vars
  <2>2. ASSUME NEW p \in Pids, Start(p) \/ Exit(p) PROVE TempInv'
    BY <2>2 DEF Start, Exit
  <2>3. ASSUME NEW w \in Writers, Open(w) PROVE TempInv'
    BY <2>3 DEF Open, Swept
  <2>4. ASSUME NEW w \in Writers, ReadPrimary(w) \/ ReadPrev(w) \/ Drop(w) PROVE TempInv'
    BY <2>4 DEF ReadPrimary, ReadPrev, Drop
  <2>5. ASSUME NEW w \in Writers, OpenTemp(w) \/ SyncTemp(w) \/ FailWrite(w) PROVE TempInv'
    BY <2>5 DEF OpenTemp, SyncTemp, FailWrite
  <2>6. ASSUME NEW w \in Writers, Rotate(w) \/ Rename(w) PROVE TempInv'
    BY <2>6 DEF Rotate, Rename
  <2> QED
    BY <2>1, <2>2, <2>3, <2>4, <2>5, <2>6 DEF Next, Process, Load, Commit
<1>3. TempInv => TempIsSafe
  BY DEF TempInv
<1> QED
  BY <1>1, <1>2, <1>3, StoreInitInv, StoreStepInv, PTL DEF Spec


-----------------------------------------------------------------------------
(* The flushes. *)
QueuedIsBoolean == flushQueued \in BOOLEAN

FlushTypeOK ==
    /\ sets \in 0..MaxSets
    /\ flushing \in {"none", "tick", "writing"}
    /\ serial \in Nat /\ written \in Nat
    /\ caller \in [Calls -> CallState]

(* Only calls that were made wait or settled, and they wait only while     *)
(* there is a flush.                                                       *)
OnlyMade ==
    \A c \in Calls : /\ c > sets => caller[c] = "unmade"
                     /\ caller[c] \in Waiting => flushing # "none"

(* The write in progress holds every call it will resolve: its own, and    *)
(* those that joined it as long as none of them was late.  What it holds   *)
(* was made, and includes what is written.                                    *)
SerialHolds ==
    /\ written <= sets
    /\ flushing = "writing" =>
           /\ written <= serial
           /\ \A c \in Calls : caller[c] = "flush" => c <= serial
           /\ ~ flushQueued => \A c \in Calls : caller[c] = "joined" => c <= serial
           /\ serial <= sets

FlushInv == QueuedIsBoolean /\ FlushTypeOK /\ OnlyMade /\ SerialHolds /\ ResolvedIsOnDisk

(* Nothing has been asked for at the start. *)
LEMMA FlushInitInv == FlushInit => FlushInv
<1> SUFFICES ASSUME FlushInit PROVE FlushInv
  OBVIOUS
<1> USE FlushAssumption DEF FlushInit, Calls, CallState, Waiting
<1>0. QueuedIsBoolean
  BY Zenon DEF QueuedIsBoolean
<1>1. FlushTypeOK
  BY DEF FlushTypeOK
<1>2. OnlyMade
  BY DEF OnlyMade
<1>3. SerialHolds
  BY DEF SerialHolds
<1>4. ResolvedIsOnDisk
  BY DEF ResolvedIsOnDisk
<1> QED
  BY <1>0, <1>1, <1>2, <1>3, <1>4 DEF FlushInv

(* Every step keeps the flag a Boolean. *)
LEMMA FlushStepBoolean == QueuedIsBoolean /\ [FlushNext]_flushVars => QueuedIsBoolean'
  BY Zenon DEF QueuedIsBoolean, FlushNext, flushVars, Set, Serialize, FlushWritten, FlushFails

(* Every step keeps the rest of the invariant. *)
LEMMA FlushStepInv == FlushInv /\ [FlushNext]_flushVars => FlushInv'
<1> SUFFICES ASSUME FlushInv, [FlushNext]_flushVars
             PROVE (FlushTypeOK /\ OnlyMade /\ SerialHolds /\ ResolvedIsOnDisk)'
  BY FlushStepBoolean DEF FlushInv
<1> USE FlushAssumption DEF FlushInv, FlushTypeOK, OnlyMade, SerialHolds, ResolvedIsOnDisk,
        Calls, CallState, Waiting
<1>1. CASE UNCHANGED flushVars
  BY <1>1 DEF flushVars
<1>2. CASE Set
  BY <1>2 DEF Set
<1>3. CASE Serialize
  BY <1>3 DEF Serialize
<1>4. CASE FlushWritten
  BY <1>4 DEF FlushWritten, FlushOver, SettledCalls, Joined
<1>5. CASE FlushFails
  BY <1>5 DEF FlushFails
<1> QED
  BY <1>1, <1>2, <1>3, <1>4, <1>5 DEF FlushNext

(* The promise of scheduleFlush: a set() resolves only when the snapshot   *)
(* on written holds it, however calls, ticks, writes and failures fall.       *)
THEOREM FlushKeepsPromise == FlushSpec => []ResolvedIsOnDisk
<1>1. FlushInv => ResolvedIsOnDisk
  BY DEF FlushInv
<1> QED
  BY FlushInitInv, FlushStepInv, <1>1, PTL DEF FlushSpec


=============================================================================
