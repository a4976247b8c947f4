------------------------------ MODULE RangeRead ------------------------------
(***************************************************************************)
(* How a range is read from the chain: healRange                           *)
(* (src/workers/sync/stream/heal.ts) over the proven batch reads of        *)
(* createFetchWorldEventsInBlockRange (src/workers/sync/utils.ts).         *)
(*                                                                         *)
(* The RPC endpoint is a pool of backends, each with a head of its own and *)
(* a log index that may trail it by one block.  A block is its logs: what  *)
(* a read collects is a set of blocks.                                     *)
(***************************************************************************)
EXTENDS Integers, FiniteSetsExt

CONSTANTS
    ChunkBlocks,   \* HEAL_CHUNK_BLOCKS
    LastBlock      \* bound: the chain's last block

ASSUME RangeAssumption == ChunkBlocks \in Nat \ {0} /\ LastBlock \in Nat

VARIABLES
    tip,        \* the chain's head
    range,      \* the options of the read: from, to, partial
    next,       \* the first block of the chunk being read; 0: no read
    waited,     \* awaitRpcHead has returned
    got,        \* the blocks whose logs were collected
    answer      \* what the last read returned

rangeVars == <<tip, range, next, waited, got, answer>>

Heights   == 0..LastBlock
NoRange   == [from |-> 1, to |-> 0, partial |-> FALSE]
NoAnswer  == [through |-> -1, blocks |-> {}]
ChunkEnd  == Min({next + ChunkBlocks - 1, range.to})

RangeInit ==
    /\ tip \in Heights
    /\ range = NoRange /\ next = 0 /\ waited = FALSE
    /\ got = {} /\ answer = NoAnswer

RangeMine ==
    /\ tip < LastBlock
    /\ tip' = tip + 1
    /\ UNCHANGED <<range, next, waited, got, answer>>

StartRead(f, t, partial) ==
    /\ next = 0
    /\ f <= t
    /\ range' = [from |-> f, to |-> t, partial |-> partial]
    /\ next' = f
    /\ waited' = partial
    /\ got' = {} /\ answer' = NoAnswer
    /\ UNCHANGED tip

Ends(a) == next' = 0 /\ answer' = a

(* defer: nothing of the range is handed over. *)
DeferRead == ~ range.partial /\ Ends(NoAnswer)

(* Some backend's head is at the end of the range, or none gets there in   *)
(* time.  Only a whole read waits for it.                                  *)
AwaitHead ==
    /\ next # 0 /\ ~ waited
    /\ \/ tip >= range.to /\ waited' = TRUE /\ UNCHANGED <<next, answer>>
       \/ DeferRead /\ UNCHANGED waited
    /\ UNCHANGED <<tip, range, got>>

-----------------------------------------------------------------------------
(* One batch [eth_blockNumber, eth_getLogs, eth_blockNumber]: the heads h1 *)
(* and h2, and the log index the logs were read from.  A backend's index   *)
(* is at most one block behind its head; a batch that was split between    *)
(* backends is assumed to show it in its heads.                            *)
Batches == {b \in [h1 : Heights, index : Heights, h2 : Heights] :
                /\ b.h1 <= tip /\ b.index <= tip /\ b.h2 <= tip
                /\ b.index >= b.h1 - 1 \/ b.h2 < b.h1}

LogsOf(b)  == {x \in next..ChunkEnd : x <= b.index}
IsSplit(b) == b.h1 > b.h2 \/ \E x \in LogsOf(b) : x > b.h1

ProofWithoutMargin(b) ==    \* mutant: PROOF_MARGIN_BLOCKS = 0
    IF IsSplit(b) THEN next - 1 ELSE Min({ChunkEnd, b.h1})

(* provenThrough: one block below the batch's first head. *)
Proof(b) == IF IsSplit(b) THEN next - 1 ELSE Min({ChunkEnd, b.h1 - 1})

(* The chunk is proven to its end: its logs are kept, the next one is read *)
(* or the read is whole.                                                   *)
ChunkDone(b) ==
    /\ next # 0 /\ waited
    /\ Proof(b) >= ChunkEnd
    /\ got' = got \cup LogsOf(b)
    /\ IF ChunkEnd = range.to
       THEN Ends([through |-> range.to, blocks |-> got'])
       ELSE next' = ChunkEnd + 1 /\ UNCHANGED answer
    /\ UNCHANGED <<tip, range, waited>>

(* It is proven only in part: a partial read keeps that part and ends; a   *)
(* whole one reads the chunk again, until its deadline.                    *)
ChunkShort(b) ==
    /\ next # 0 /\ waited
    /\ Proof(b) < ChunkEnd
    /\ IF range.partial
       THEN /\ got' = got \cup {x \in LogsOf(b) : x <= Proof(b)}
            /\ Ends([through |-> Max({next - 1, Proof(b)}), blocks |-> got'])
       ELSE /\ UNCHANGED got
            /\ DeferRead \/ UNCHANGED <<next, answer>>
    /\ UNCHANGED <<tip, range, waited>>

(* Every attempt at the batch failed, or the reader was torn down before   *)
(* the chunk: a partial read ends with what it has.                        *)
ChunkFails ==
    /\ next # 0 /\ waited
    /\ \/ range.partial /\ Ends([through |-> next - 1, blocks |-> got])
       \/ DeferRead
    /\ UNCHANGED <<tip, range, waited, got>>

RangeNext ==
    \/ RangeMine \/ AwaitHead \/ ChunkFails
    \/ \E f, t \in Heights \ {0}, partial \in BOOLEAN : StartRead(f, t, partial)
    \/ \E b \in Batches : ChunkDone(b) \/ ChunkShort(b)

RangeSpec == RangeInit /\ [][RangeNext]_rangeVars

-----------------------------------------------------------------------------
Promise == INSTANCE ProvenRead WITH
    tip <- tip, answer <- answer, request <- IF next = 0 THEN NoRange ELSE range

(* A range read keeps its promise: what it hands over is every log of the  *)
(* range up to the block it claims, and nothing beyond it, though it is    *)
(* put together from chunks of different backends, retried and cut short   *)
(* (healRange, "either every event in the range or none").                 *)
ReadKeepsPromise == Promise!Spec

=============================================================================
