-------------------------------- MODULE Clock --------------------------------
(***************************************************************************)
(* Which block's header calibrates the chain clock after LIVE              *)
(* (src/daemon.ts: the status tap, startClockSync, syncClock).             *)
(*                                                                         *)
(* A sample is asked for at LIVE, by every tick, by the first event after  *)
(* a stall and by the follow-up timer.  It is taken by a worker batch that *)
(* delivers a newer block than any before, whose header is then read; the  *)
(* read may fail, and reads may overlap.  The time itself is left out: how *)
(* fresh a sample is follows from which block it is taken on.              *)
(***************************************************************************)
EXTENDS Naturals, FiniteSets, FiniteSetsExt

CONSTANT MaxLive    \* bound: the blocks delivered in one behaviour

ASSUME ClockAssumption == MaxLive \in Nat

VARIABLES
    live,        \* liveBlockNumber
    sampled,     \* lastClockSampleBlock
    armed,       \* clockAwaitingLiveSample
    owed,        \* clockFollowUpOwed
    followUp,    \* clockFollowUpTimer is pending
    reads,       \* the blocks whose headers are being read
    asked        \* history: the newest block when a sample was last asked for

clockVars == <<live, sampled, armed, owed, followUp, reads, asked>>

LiveBlocks == 0..MaxLive

Ask == armed' = TRUE /\ asked' = live

(* LIVE: startClockSync.  The boot block counts as sampled; the seed may   *)
(* have sampled the chain's head.                                          *)
ClockInit ==
    /\ live \in LiveBlocks
    /\ \E seed \in LiveBlocks : sampled = Max({seed, live})
    /\ armed = TRUE /\ asked = live
    /\ owed = TRUE /\ followUp = FALSE
    /\ reads = {}

Tick ==
    /\ Ask
    /\ UNCHANGED <<live, sampled, owed, followUp, reads>>

(* One batch of the worker, n its newest block: new ones from the stream,  *)
(* or re-read writes of blocks long delivered.  Its first event may be the *)
(* first after a stall, which asks for a sample before it is looked at.    *)
Batch(n, stalled) ==
    LET wanted == armed \/ stalled
        taken  == wanted /\ n > live /\ n > sampled
    IN  /\ live' = Max({live, n})
        /\ armed' = (wanted /\ ~ taken)
        /\ asked' = IF stalled THEN live ELSE asked
        /\ owed' = (owed \/ stalled)
        /\ reads' = IF taken THEN reads \cup {n} ELSE reads
        /\ UNCHANGED <<sampled, followUp>>

NoHeaderGivesUp(b) ==       \* mutant: only an error re-arms, not a missing header
    /\ reads' = reads \ {b}
    /\ UNCHANGED <<live, sampled, armed, owed, followUp, asked>>

(* The read of b's header finds none, fails or takes too long.             *)
NoHeader(b) ==
    /\ armed' = TRUE
    /\ reads' = reads \ {b}
    /\ UNCHANGED <<live, sampled, owed, followUp, asked>>

(* The header is there.  A read overtaken by one of a newer block is not   *)
(* observed.  The first sample after LIVE or a stall starts the follow-up. *)
Header(b) ==
    /\ reads' = reads \ {b}
    /\ IF b > sampled
       THEN /\ sampled' = b
            /\ followUp' = (followUp \/ owed)
            /\ owed' = FALSE
       ELSE UNCHANGED <<sampled, followUp, owed>>
    /\ UNCHANGED <<live, armed, asked>>

FollowUp ==
    /\ followUp
    /\ followUp' = FALSE
    /\ Ask
    /\ UNCHANGED <<live, sampled, owed, reads>>

ClockNext ==
    \/ Tick \/ FollowUp
    \/ \E n \in LiveBlocks, stalled \in BOOLEAN : Batch(n, stalled)
    \/ \E b \in reads : Header(b) \/ NoHeader(b)

ClockSpec == ClockInit /\ [][ClockNext]_clockVars

-----------------------------------------------------------------------------
(* No request for a sample is lost: until a block delivered after it has   *)
(* been sampled, the next new block will be taken, or one that came after  *)
(* it is being read, whatever reads fail, hang or overtake each other      *)
(* (the re-arming of syncClock).                                           *)
NoSampleLost ==
    \/ armed
    \/ sampled > asked
    \/ \E b \in reads : b > asked

=============================================================================
