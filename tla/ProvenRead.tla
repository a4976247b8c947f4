----------------------------- MODULE ProvenRead -----------------------------
(***************************************************************************)
(* What a range read of the chain promises its callers (MirrorSync.tla):   *)
(* one answer, which holds the logs of every block of the range up to one  *)
(* it is proven through, and no other; or none at all.                     *)
(***************************************************************************)
EXTENDS Integers

VARIABLES
    tip,      \* the chain's head
    request,  \* the range that is being read, or NoRequest
    answer    \* the last answer: the blocks whose logs it holds

promiseVars == <<tip, request, answer>>

NoRequest == [from |-> 1, to |-> 0, partial |-> FALSE]
Requests  == [from : Nat \ {0}, to : Nat, partial : BOOLEAN]
NoAnswer  == [through |-> -1, blocks |-> {}]

Init ==
    /\ tip \in Nat
    /\ request = NoRequest
    /\ answer = NoAnswer

Mine ==
    /\ tip' = tip + 1
    /\ UNCHANGED <<request, answer>>

Ask ==
    /\ request = NoRequest
    /\ request' \in {r \in Requests : r.from <= r.to}
    /\ answer' = NoAnswer
    /\ UNCHANGED tip

(* Proven through a block below the head, or from - 1 for nothing; only a  *)
(* partial read may end before the range does.                             *)
Answer ==
    /\ request # NoRequest
    /\ \E c \in (request.from - 1)..request.to :
          /\ c < request.from \/ c < tip
          /\ c = request.to \/ request.partial
          /\ answer' = [through |-> c, blocks |-> request.from..c]
    /\ request' = NoRequest
    /\ UNCHANGED tip

Defer ==
    /\ request # NoRequest
    /\ ~ request.partial
    /\ request' = NoRequest
    /\ answer' = NoAnswer
    /\ UNCHANGED tip

Next == Mine \/ Ask \/ Answer \/ Defer

Spec == Init /\ [][Next]_promiseVars

=============================================================================
