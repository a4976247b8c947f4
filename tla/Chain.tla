------------------------------- MODULE Chain -------------------------------
(***************************************************************************)
(* The World contract's log, as every reader of this program sees it: a    *)
(* fixed sequence of component writes, each in a block.  A write is named  *)
(* by its number in chain order, so "older" is "<" on write numbers; the   *)
(* number stands for the triple (block, transaction index, log index) that *)
(* orders writes, and the value a key holds is the number of the write     *)
(* that produced it (0: the key was never written).                        *)
(*                                                                         *)
(* What the program is told about a write is less than that: a stream      *)
(* frame names its block and IndexOf, the log's index inside its own       *)
(* TRANSACTION.  IndexOf therefore restarts within a block, and two writes *)
(* of one block may carry the same one.                                    *)
(***************************************************************************)
EXTENDS Integers, FiniteSets, FiniteSetsExt

CONSTANTS
    Keys,       \* the (component, entity) pairs of the mirror
    NoKey,      \* the key of an entry that is a frame without an event
    NLogs,      \* how many entries the chain holds
    MaxBlock,   \* the last block of the bounded chain
    BlockOf,    \* the block of each entry; entry 0 stands for genesis
    IndexOf,    \* the log index a frame reports for each entry
    KeyOf       \* what each entry writes

Logs   == 1..NLogs
Blocks == 0..MaxBlock

ASSUME ChainAssumption ==
    /\ NLogs \in Nat
    /\ MaxBlock \in Nat
    /\ NoKey \notin Keys
    /\ BlockOf \in [0..NLogs -> Blocks]
    /\ BlockOf[0] = 0
    /\ \A i \in Logs : BlockOf[i] >= 1
    /\ \A i, j \in Logs : i < j => BlockOf[i] <= BlockOf[j]
    /\ IndexOf \in [0..NLogs -> Int]
    /\ KeyOf \in [Logs -> Keys \cup {NoKey}]

(***************************************************************************)
(* Writes of a key, and the newest one of a range of blocks: what a        *)
(* complete read of that range, collapsed to one write per key, returns.   *)
(***************************************************************************)
Writes(k)         == {i \in Logs : KeyOf[i] = k}
WritesIn(k, f, t) == {i \in Writes(k) : f <= BlockOf[i] /\ BlockOf[i] <= t}
Touched(f, t)     == {k \in Keys : WritesIn(k, f, t) # {}}
Collapsed(f, t)   == [k \in Touched(f, t) |-> Max(WritesIn(k, f, t))]

(***************************************************************************)
(* v is at least as new as every write of k up to and including block b.   *)
(***************************************************************************)
UpToDate(k, v, b) == \A i \in Writes(k) : BlockOf[i] <= b => i <= v

=============================================================================
