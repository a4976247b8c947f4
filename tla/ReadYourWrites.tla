--------------------------- MODULE ReadYourWrites ---------------------------
(***************************************************************************)
(* The --at-least read: a connection's requests are answered in order      *)
(* (src/server.ts), each held until the mirror has applied the caller's    *)
(* block (waitApplied in src/daemon.ts).  A wait nudges the stream for     *)
(* proven catch-up reads, which MirrorSync.tla models in full; here a read *)
(* is its range and how far it came back proven.                           *)
(*                                                                         *)
(* A query reads the mirror and may then await a read of its own (the gas   *)
(* balance of the account query, src/queries/build.ts); its answer is       *)
(* stamped with the two bounds (serveQuery, buildEnvelope), one taken       *)
(* before that await and one after it.  A query without an await is one     *)
(* whose answer follows at once.                                            *)
(*                                                                         *)
(* The stream itself may deliver nothing at all.                           *)
(***************************************************************************)
EXTENDS Naturals, Sequences, FiniteSetsExt

CONSTANTS
    Conns,          \* the client connections
    Asks,           \* the requests a client may send, in order: each the
                    \* block it asks for, 0 for a read without --at-least
    MaxTip,         \* bound: the chain's last block
    CatchUpBlocks   \* CATCHUP_MAX_BLOCKS

ASSUME WaitAssumption ==
    /\ MaxTip \in Nat
    /\ Asks \in [Conns -> Seq(0..(MaxTip - 1))]
    /\ CatchUpBlocks \in Nat \ {0}

VARIABLES
    chainHead,   \* the chain's head
    tipSample,   \* headSample, 0 before the first
    mark,        \* appliedThrough
    verified,    \* reconciledThrough
    bootFrontier,\* trackingState.frontier: see FrontierAllows in MirrorSync
    catchUpRead, \* the catch-up read in flight
    sent,        \* how many requests each client has sent
    answered,    \* how many of them were answered
    waiting,     \* the connections whose current request is a wait
    nudging,     \* the connections whose wait still has its nudge interval
    building,    \* the query each connection is being answered by: what it
                 \* saw of the mirror and what it stamped at its dispatch
    closed       \* the connections that are gone

chainVars  == <<chainHead, tipSample, bootFrontier>>
clientVars == <<sent, answered, waiting, nudging, building, closed>>
marks      == <<mark, verified>>
waitVars   == <<chainVars, marks, catchUpRead, clientVars>>

Nothing == [from |-> 1, to |-> 0]    \* no read in flight
NoQuery == [holds |-> 0, appliedThrough |-> 0, open |-> FALSE]

Current(c) == Asks[c][answered[c] + 1]
Reached(c) == mark >= Current(c)

(* LIVE: the mirror is applied through some block, and holds position-less *)
(* values of up to a catch-up's length beyond it.                          *)
WaitInit ==
    /\ chainHead \in 0..MaxTip /\ mark \in 0..chainHead
    /\ bootFrontier \in mark..Min({chainHead, mark + CatchUpBlocks})
    /\ verified = mark
    /\ tipSample = 0
    /\ catchUpRead = Nothing
    /\ sent = [c \in Conns |-> 0] /\ answered = [c \in Conns |-> 0]
    /\ waiting = {} /\ nudging = {} /\ closed = {}
    /\ building = [c \in Conns |-> NoQuery]

MineBlock ==
    /\ chainHead < MaxTip
    /\ chainHead' = chainHead + 1
    /\ UNCHANGED <<tipSample, bootFrontier, marks, catchUpRead, clientVars>>

(* The background sampler. *)
SampleTip ==
    /\ tipSample' = chainHead
    /\ UNCHANGED <<chainHead, bootFrontier, marks, catchUpRead, clientVars>>

Send(c) ==
    /\ c \notin closed
    /\ sent[c] < Len(Asks[c])
    /\ sent' = [sent EXCEPT ![c] = @ + 1]
    /\ UNCHANGED <<chainVars, marks, catchUpRead, answered, waiting, nudging, building, closed>>

Answer(c) == answered' = [answered EXCEPT ![c] = @ + 1]

EnvelopeAtEnd(c) ==    \* mutant: both bounds are read when the envelope is built
    [appliedThrough |-> mark, reconciledThrough |-> verified]

(* serveQuery at its dispatch: the stamp of the applied bound, and the      *)
(* builder up to its await, which has read the mirror as it is then.        *)
Dispatched(b) == [holds |-> b, appliedThrough |-> b, open |-> TRUE]

(* buildEnvelope once the builder is done: the bound taken at the dispatch, *)
(* and the reconciled one as it is now.                                     *)
Envelope(c) ==
    [appliedThrough |-> building[c].appliedThrough, reconciledThrough |-> verified]

(* The request before it was answered: the next one on the connection is    *)
(* dispatched at once, or waits.                                            *)
Handle(c) ==
    /\ c \notin closed \cup waiting
    /\ answered[c] < sent[c] /\ ~ building[c].open
    /\ IF Reached(c)
       THEN building' = [building EXCEPT ![c] = Dispatched(mark)] /\ UNCHANGED <<waiting, nudging>>
       ELSE /\ waiting' = waiting \cup {c}
            /\ nudging' = nudging \cup {c}
            /\ UNCHANGED building
    /\ UNCHANGED <<chainVars, marks, catchUpRead, sent, answered, closed>>

(* The builder is done and the answer goes out. *)
Respond(c) ==
    /\ building[c].open
    /\ building' = [building EXCEPT ![c] = NoQuery]
    /\ Answer(c)
    /\ UNCHANGED <<chainVars, marks, catchUpRead, sent, waiting, nudging, closed>>

(* finish(): the wait is over, and its listener and its timers with it. *)
FinishWaits(cs) ==
    /\ waiting' = waiting \ cs
    /\ nudging' = nudging \ cs

(* The applied mark moves to b: every wait it satisfies is woken, and its  *)
(* read is dispatched on the mirror as it now is.                          *)
Wakes(b) ==
    LET woken == {c \in waiting : b >= Current(c)}
    IN  /\ mark' = b
        /\ FinishWaits(woken)
        /\ building' = [c \in Conns |-> IF c \in woken THEN Dispatched(b) ELSE building[c]]

StreamAdvances(b) ==
    /\ b > mark /\ b < chainHead
    /\ Wakes(b)
    /\ UNCHANGED <<chainVars, verified, catchUpRead, sent, answered, closed>>

(* A reconcile pass that came back proven through b. *)
ReconcileAdvances(b) ==
    /\ b > verified /\ b < chainHead
    /\ verified' = b
    /\ IF b > mark THEN Wakes(b) ELSE UNCHANGED <<mark, waiting, nudging, building>>
    /\ UNCHANGED <<chainVars, catchUpRead, sent, answered, closed>>

(* --max-wait is over: NOT_APPLIED. *)
TimeOut(c) ==
    /\ c \in waiting
    /\ FinishWaits({c})
    /\ Answer(c)
    /\ UNCHANGED <<chainVars, marks, catchUpRead, sent, building, closed>>

(* The client goes away: its wait is released and nothing else of it runs. *)
Close(c) ==
    /\ c \notin closed
    /\ closed' = closed \cup {c}
    /\ FinishWaits({c})
    /\ building' = [building EXCEPT ![c] = NoQuery]
    /\ UNCHANGED <<chainVars, marks, catchUpRead, sent, answered>>

(* The proof covers the blocks below the head. *)
NudgeAllowed(c) == tipSample >= Current(c) + 1

(* Every CATCH_UP_AFTER_MS of a wait that is still short. *)
Nudge(c) ==
    /\ c \in nudging
    /\ ~ Reached(c) /\ NudgeAllowed(c)
    /\ catchUpRead = Nothing
    /\ catchUpRead' = [from |-> mark + 1, to |-> Min({Current(c), mark + CatchUpBlocks})]
    /\ UNCHANGED <<chainVars, marks, clientVars>>

CatchUpLandsWhole(p) ==     \* mutant: only a read proven to its end is used
    p = catchUpRead.to /\ catchUpRead.from > bootFrontier

(* The read came back proven through p. *)
CatchUpLands(p) ==
    /\ p >= catchUpRead.from
    /\ catchUpRead.from > bootFrontier \/ p >= bootFrontier

(* Its marker anchors on the block the read started from, which the mark   *)
(* has not left unless it moved past it.                                   *)
CatchUpReturns(p) ==
    /\ catchUpRead # Nothing
    /\ p \in (catchUpRead.from - 1)..catchUpRead.to /\ p < chainHead
    /\ IF CatchUpLands(p) /\ p > mark
       THEN Wakes(p)
       ELSE UNCHANGED <<mark, waiting, nudging, building>>
    /\ catchUpRead' = Nothing
    /\ UNCHANGED <<chainVars, verified, sent, answered, closed>>

WaitNext ==
    \/ MineBlock \/ SampleTip
    \/ \E c \in Conns : \/ Send(c) \/ Handle(c) \/ TimeOut(c) \/ Close(c) \/ Nudge(c)
                        \/ Respond(c)
    \/ \E b \in 0..MaxTip : StreamAdvances(b) \/ CatchUpReturns(b) \/ ReconcileAdvances(b)

(* A read that proves at least one more block. *)
ProvingReturn == \E p \in 0..MaxTip :
    p >= catchUpRead.from /\ p >= Min({bootFrontier, catchUpRead.to}) /\ CatchUpReturns(p)

-----------------------------------------------------------------------------
(* What an answer claims of the mirror it was read from: it holds every     *)
(* block the stamp says was applied when it began building, and the block   *)
(* an --at-least read asked for is one of them (serveQuery's capture at     *)
(* dispatch, src/queries/index.ts; handle, src/server.ts), however long     *)
(* the builder then awaits its own reads.                                   *)
AnswerKeepsItsStamp ==
    \A c \in Conns : building[c].open =>
        /\ Envelope(c).appliedThrough <= building[c].holds
        /\ Current(c) <= Envelope(c).appliedThrough

(* appliedThrough is "Always >= `reconciledThrough` when both are set"      *)
(* (src/queries/envelope.ts line 136): an answer claims no block as read    *)
(* again from the chain that it does not claim as applied.                  *)
StampsAreOrdered ==
    \A c \in Conns : building[c].open =>
        Envelope(c).reconciledThrough <= Envelope(c).appliedThrough

(* A wait for a block the boot's position-less values do not reach into    *)
(* always ends, though the stream may have died and --max-wait may never   *)
(* come: its nudges and the catch-up reads bring the mirror to its block   *)
(* (CATCH_UP_AFTER_MS, requestCatchUp), however many waits share them.     *)
WaitsComeTrue ==
    \A c \in Conns :
        (c \in waiting /\ (Current(c) >= bootFrontier \/ mark >= bootFrontier))
            ~> (c \notin waiting)

=============================================================================
