--------------------------- MODULE MCMirrorSync ---------------------------
(* Chains and boots for the live synchronisation.                          *)
EXTENDS MirrorSync

CONSTANTS a, b, none

MCKeys    == {a, b}

(* Five blocks of entries.  Block 3 holds three: with the cursor on its    *)
(* first, a proven read lands its last write of key a before the frame of  *)
(* the one before it arrives.  The gap between entries 3 and 7 can hide a  *)
(* write of each key; entry 7 is a frame without an event.                 *)
MCNLogs   == 8
Chain8    == <<1, 1, 2, 3, 3, 3, 4, 5>>
MCBlockOf == [i \in 0..MCNLogs |-> IF i = 0 THEN 0 ELSE Chain8[i]]
MCKeyOf   == <<a, b, b, b, a, a, none, a>>

(* every log of a block has an index of its own *)
MCIndexOf == [i \in 0..MCNLogs |-> i]
(* every log is the first of its transaction *)
MCSameIndexOf == [i \in 0..MCNLogs |-> 0]

(* Every boot whose gap fill covered its window; the ones whose stream     *)
(* starts at or after the image's block; three of those for liveness:      *)
(* nothing to fill, a filled window, and a window below the frontier; and  *)
(* for safety also an image ahead of the stream's start.                   *)
AllBoots     == {x \in Boot : /\ x.frontier >= Max({x.baseline, x.start})
                              /\ x.filled = Max({x.baseline, x.start})}
OrderedBoots == {x \in AllBoots : x.start >= x.baseline}
Named(S)     == {x \in AllBoots : <<x.baseline, x.start, x.frontier>> \in S}
LiveBoots    == Named({<<0, 0, 0>>, <<0, 1, 2>>, <<1, 2, 2>>})
SafetyBoots  == Named({<<0, 0, 0>>, <<0, 1, 2>>, <<2, 1, 2>>})

=============================================================================
