-------------------------------- MODULE Feed --------------------------------
(***************************************************************************)
(* The Kamiden feed (src/kamiden.ts): the supervised subscription, the     *)
(* buffer of its events, and readers that page through it with the feed    *)
(* query (src/queries/feeds.ts).                                           *)
(*                                                                         *)
(* An event is its sequence number; kinds holds the type of every one that *)
(* was ever ingested.  Payloads and the account filter are left out.       *)
(***************************************************************************)
EXTENDS Naturals, Sequences, FiniteSets, FiniteSetsExt

CONSTANTS
    FeedTypes,     \* the event types
    Readers,       \* who pages through the feed
    Wanted,        \* the types a reader asks for
    Limit,         \* how many events a reader takes at once
    Capacity,      \* bufferCapacity
    MaxFeedEvents  \* bound: events of one behaviour

ASSUME FeedAssumption ==
    /\ Wanted \in [Readers -> SUBSET FeedTypes]
    /\ Limit \in [Readers -> Nat \ {0}]
    /\ Capacity \in Nat \ {0}
    /\ MaxFeedEvents \in Nat

VARIABLES
    feedState,   \* state: stopped, connecting, live, retrying
    feedOn,      \* abort is set: started and not stopped
    kinds,       \* history: the type of each event, by sequence number
    buffer,      \* the sequence numbers in the buffer
    evicted,
    reader       \* what each reader knows

feedVars   == <<feedState, feedOn, kinds, buffer, evicted, reader>>

Seqs      == 1..MaxFeedEvents
NewestSeq == Len(kinds)

(* since: the cursor it pages on with, 0 before the first answer with an   *)
(* event in it.  from, through: the span it believes to have read.  got:   *)
(* the events it was served.  told: the evictions its last answer reported.*)
NewReader == [since |-> 0, from |-> 0, through |-> 0, got |-> {}, told |-> 0]

FeedInit ==
    /\ feedState = "stopped" /\ feedOn = FALSE
    /\ kinds = <<>> /\ buffer = {} /\ evicted = 0
    /\ reader = [r \in Readers |-> NewReader]

FeedStart ==
    /\ ~ feedOn
    /\ feedOn' = TRUE
    /\ feedState' = "connecting"
    /\ UNCHANGED <<kinds, buffer, evicted, reader>>

FeedStop ==
    /\ feedOn
    /\ feedOn' = FALSE
    /\ feedState' = "stopped"
    /\ UNCHANGED <<kinds, buffer, evicted, reader>>

Newest(S, n) == {s \in S : Cardinality({t \in S : t >= s}) <= n}
Oldest(S, n) == {s \in S : Cardinality({t \in S : t <= s}) <= n}

Evict(all) ==
    /\ buffer' = Newest(all, Capacity)
    /\ evicted' = evicted + Cardinality(all \ buffer')

(* A frame with the given events, or with none. *)
IngestFrame(types) ==
    /\ feedState \in {"connecting", "live"}
    /\ NewestSeq + Len(types) <= MaxFeedEvents
    /\ feedState' = "live"
    /\ kinds' = kinds \o types
    /\ Evict(buffer \cup (NewestSeq + 1)..(NewestSeq + Len(types)))
    /\ UNCHANGED <<feedOn, reader>>

CleanEndIsFinal ==      \* mutant: only an error is retried
    /\ feedState \in {"connecting", "live"}
    /\ feedState' \in {"retrying", "ended"}
    /\ UNCHANGED <<feedOn, kinds, buffer, evicted, reader>>

(* The server ends the stream, or it fails: run it again after a delay. *)
FeedEnds ==
    /\ feedState \in {"connecting", "live"}
    /\ feedState' = "retrying"
    /\ UNCHANGED <<feedOn, kinds, buffer, evicted, reader>>

FeedRetry ==
    /\ feedState = "retrying"
    /\ feedOn
    /\ feedState' = "connecting"
    /\ UNCHANGED <<feedOn, kinds, buffer, evicted, reader>>

-----------------------------------------------------------------------------
Matches(r)  == {s \in buffer : s > reader[r].since /\ kinds[s] \in Wanted[r]}

NewestServed(r) == Newest(Matches(r), Limit[r])    \* mutant: the cursor's order is ignored

(* select: with a cursor the oldest of the matching events, else the newest. *)
Served(r) == IF reader[r].since = 0 THEN Newest(Matches(r), Limit[r])
                                    ELSE Oldest(Matches(r), Limit[r])

(* The feed query, and what its reader makes of the answer: it pages on    *)
(* with the last event served, and eventsMatched = eventsServed says that  *)
(* there was no other.  A first answer that was cut starts at its oldest.  *)
FeedQuery(r) ==
    LET served == Served(r)
        cut    == served # Matches(r)
    IN  /\ reader' = [reader EXCEPT ![r] =
              [since   |-> Max(served \cup {@.since}),
               from    |-> IF @.since = 0 /\ cut THEN Min(served) - 1 ELSE @.from,
               through |-> IF cut THEN Max(served) ELSE NewestSeq,
               got     |-> @.got \cup served,
               told    |-> evicted]]
        /\ UNCHANGED <<feedState, feedOn, kinds, buffer, evicted>>

Frames == {<<>>} \cup {<<t>> : t \in FeedTypes} \cup (FeedTypes \X FeedTypes)

FeedNext ==
    \/ FeedStart \/ FeedStop \/ FeedEnds \/ FeedRetry
    \/ \E types \in Frames : IngestFrame(types)
    \/ \E r \in Readers : FeedQuery(r)

-----------------------------------------------------------------------------
(* A reader that pages on with the last event served misses no event of    *)
(* its types between its first answer and what it believes to have read,   *)
(* except the ones buffer.evicted told it of: however much is ingested and *)
(* evicted between its reads, and whether or not its answers were cut.     *)
NothingSkippedSilently ==
    \A r \in Readers : \A s \in 1..NewestSeq :
        (/\ kinds[s] \in Wanted[r]
         /\ s > reader[r].from /\ s <= reader[r].through)
        => s \in reader[r].got \/ s <= reader[r].told

(* A started feed is always subscribed again, or stopped, whether the      *)
(* server ended the stream cleanly or it failed.                           *)
Subscribed == feedState \in {"connecting", "live"}
FeedComesBack == (feedOn /\ ~ Subscribed) ~> (Subscribed \/ ~ feedOn)

=============================================================================
