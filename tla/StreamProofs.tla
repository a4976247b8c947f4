---------------------------- MODULE StreamProofs ----------------------------
(***************************************************************************)
(* What surrounds the live stream.  A range read implements its promise,   *)
(* the worker's output is a channel, and the unhealed list is exact: for   *)
(* chunks, batches and caps of every size and chains of every height.      *)
(*                                                                         *)
(* Two of these flatten a sequence of sequences.  What the community       *)
(* module's recursion does is proved here for every sequence, by the first *)
(* place where it would do something else.                                 *)
(***************************************************************************)
EXTENDS RangeRead, Plumbing, Unhealed, WellFoundedInduction, TLAPS

-----------------------------------------------------------------------------
(* The range read. *)

(* What the community module's Min and Max make of two numbers.            *)
LEMMA MinOfTwo ==
    ASSUME NEW x \in Int, NEW y \in Int
    PROVE  Min({x, y}) = IF x <= y THEN x ELSE y
<1>1. \E m \in {x, y} : \A z \in {x, y} : m <= z
  OBVIOUS
<1> QED
  BY <1>1 DEF Min

(* The greater of two.                                                     *)
LEMMA MaxOfTwo ==
    ASSUME NEW x \in Int, NEW y \in Int
    PROVE  Max({x, y}) = IF x >= y THEN x ELSE y
<1>1. \E m \in {x, y} : \A z \in {x, y} : m >= z
  OBVIOUS
<1> QED
  BY <1>1 DEF Max

Ranges == [from : Heights \ {0}, to : Heights, partial : BOOLEAN]

RangeTypeOK ==
    /\ tip \in Nat
    /\ next \in Nat
    /\ next # 0 => range \in Ranges

(* While a range is read, everything before the chunk at hand was          *)
(* collected, and lies below the chain's head.                             *)
CollectedSoFar ==
    next # 0 =>
        /\ range.from <= next /\ next <= range.to
        /\ got = range.from..(next - 1)
        /\ next = range.from \/ next - 1 < tip

RangeInv == RangeTypeOK /\ CollectedSoFar

(* Where the chunk at hand ends. *)
LEMMA ChunkEndBounds ==
    ASSUME RangeInv, next # 0
    PROVE  ChunkEnd \in next..range.to
  BY MinOfTwo, RangeAssumption
  DEF RangeInv, RangeTypeOK, CollectedSoFar, ChunkEnd, Ranges, Heights

(* A batch holds the logs of every block of the chunk that it proves, and  *)
(* those blocks lie below the chain's head.                                *)
LEMMA ProofIsTrue ==
    ASSUME RangeInv, next # 0, NEW b \in Batches
    PROVE  /\ Proof(b) \in Int
           /\ \A x \in next..ChunkEnd : x <= Proof(b) => x \in LogsOf(b) /\ x < tip
<1>1. ChunkEnd \in Int /\ next \in Nat /\ tip \in Nat
  BY ChunkEndBounds, RangeAssumption DEF RangeInv, RangeTypeOK, Ranges, Heights
<1>2. /\ b.h1 \in Int /\ b.index \in Int /\ b.h1 <= tip
      /\ b.index >= b.h1 - 1 \/ b.h1 > b.h2
  BY RangeAssumption DEF Batches, Heights
<1>3. CASE IsSplit(b)
  BY <1>1, <1>3 DEF Proof
<1>4. CASE ~ IsSplit(b)
  <2>1. Proof(b) = IF ChunkEnd <= b.h1 - 1 THEN ChunkEnd ELSE b.h1 - 1
    BY <1>1, <1>2, <1>4, MinOfTwo DEF Proof
  <2> QED
    BY <1>1, <1>2, <1>4, <2>1 DEF IsSplit, LogsOf
<1> QED
  BY <1>3, <1>4

(* No read is under way at the start. *)
LEMMA RangeInitInv == RangeInit => RangeInv
  BY RangeAssumption DEF RangeInit, RangeInv, RangeTypeOK, CollectedSoFar, Heights

(* A chunk that is proven to its end extends what was collected. *)
LEMMA ChunkDoneInv ==
    ASSUME RangeInv, NEW b \in Batches, ChunkDone(b)
    PROVE  /\ RangeInv'
           /\ got' = range.from..ChunkEnd
           /\ ChunkEnd < tip
<1>1. next # 0 /\ Proof(b) >= ChunkEnd
  BY DEF ChunkDone
<1>2. ChunkEnd \in next..range.to
  BY <1>1, ChunkEndBounds
<1>3. /\ next \in Nat \ {0} /\ tip \in Nat /\ range \in Ranges
      /\ range.from \in Nat /\ range.to \in Nat
      /\ range.from <= next /\ got = range.from..(next - 1)
  BY <1>1, RangeAssumption DEF RangeInv, RangeTypeOK, CollectedSoFar, Ranges, Heights
<1>4. LogsOf(b) = next..ChunkEnd /\ ChunkEnd < tip
  <2>1. \A x \in next..ChunkEnd : x \in LogsOf(b) /\ x < tip
    BY <1>1, <1>2, <1>3, ProofIsTrue
  <2>2. ChunkEnd \in next..ChunkEnd
    BY <1>2, <1>3
  <2> QED
    BY <2>1, <2>2 DEF LogsOf
<1>5. got' = range.from..ChunkEnd
  BY <1>2, <1>3, <1>4 DEF ChunkDone
<1>6. tip' = tip /\ range' = range
  BY DEF ChunkDone
<1>7. CASE ChunkEnd = range.to
  <2>1. next' = 0
    BY <1>7 DEF ChunkDone, Ends
  <2> QED
    BY <1>3, <1>4, <1>5, <1>6, <2>1 DEF RangeInv, RangeTypeOK, CollectedSoFar
<1>8. CASE ChunkEnd # range.to
  <2>1. next' = ChunkEnd + 1
    BY <1>8 DEF ChunkDone
  <2> QED
    BY <1>2, <1>3, <1>4, <1>5, <1>6, <1>8, <2>1 DEF RangeInv, RangeTypeOK, CollectedSoFar
<1> QED
  BY <1>4, <1>5, <1>7, <1>8

(* Every step keeps the invariant. *)
LEMMA RangeStepInv == RangeInv /\ [RangeNext]_rangeVars => RangeInv'
<1> SUFFICES ASSUME RangeInv, [RangeNext]_rangeVars PROVE RangeInv'
  OBVIOUS
<1> USE RangeAssumption
<1>1. CASE UNCHANGED rangeVars
  BY <1>1 DEF rangeVars, RangeInv, RangeTypeOK, CollectedSoFar
<1>2. CASE RangeMine
  BY <1>2 DEF RangeMine, RangeInv, RangeTypeOK, CollectedSoFar, Ranges, Heights
<1>3. CASE AwaitHead
  BY <1>3 DEF AwaitHead, DeferRead, Ends, RangeInv, RangeTypeOK, CollectedSoFar
<1>4. CASE ChunkFails
  BY <1>4 DEF ChunkFails, DeferRead, Ends, RangeInv, RangeTypeOK, CollectedSoFar
<1>5. ASSUME NEW f \in Heights \ {0}, NEW t \in Heights \ {0}, NEW p \in BOOLEAN,
             StartRead(f, t, p)
      PROVE  RangeInv'
  BY <1>5 DEF StartRead, RangeInv, RangeTypeOK, CollectedSoFar, Ranges, Heights
<1>6. ASSUME NEW b \in Batches, ChunkDone(b) PROVE RangeInv'
  BY <1>6, ChunkDoneInv
<1>7. ASSUME NEW b \in Batches, ChunkShort(b) PROVE RangeInv'
  BY <1>7 DEF ChunkShort, DeferRead, Ends, RangeInv, RangeTypeOK, CollectedSoFar
<1> QED
  BY <1>1, <1>2, <1>3, <1>4, <1>5, <1>6, <1>7 DEF RangeNext

Idle == IF next = 0 THEN NoRange ELSE range

(* Nothing is read and nothing was answered at the start. *)
LEMMA InitKeepsPromise == RangeInit => Promise!Init
  BY RangeAssumption DEF RangeInit, Promise!Init, Heights, NoRange, NoAnswer,
     Promise!NoRequest, Promise!NoAnswer

(* While a range is read, it is the request. *)
LEMMA ReadIsRequest ==
    ASSUME RangeInv, next # 0
    PROVE  /\ Idle = range /\ range # NoRange
           /\ range.from \in Nat \ {0} /\ range.to \in Nat /\ range.from <= range.to
<1>1. range \in Ranges /\ range.from <= next /\ next <= range.to /\ next \in Nat
  BY DEF RangeInv, RangeTypeOK, CollectedSoFar
<1>2. range.from \in Nat \ {0} /\ range.to \in Nat
  BY <1>1, RangeAssumption DEF Ranges, Heights
<1> QED
  BY <1>1, <1>2 DEF Idle, NoRange

(* A read that ends proven through c, with the blocks up to it collected,  *)
(* is an answer of the promise.                                            *)
LEMMA EndIsAnswer ==
    ASSUME RangeInv, next # 0,
           NEW c \in (range.from - 1)..range.to,
           c < range.from \/ c < tip,
           c = range.to \/ range.partial,
           Ends([through |-> c, blocks |-> range.from..c]),
           UNCHANGED <<tip, range>>
    PROVE  Promise!Answer
<1>1. Idle = range /\ range # NoRange
  BY ReadIsRequest
<1>2. Idle' = NoRange
  BY DEF Idle, Ends, NoRange
<1> QED
  BY <1>1, <1>2 DEF Promise!Answer, Promise!NoRequest, Ends, Idle, NoRange

(* A whole read that gives up is deferred. *)
LEMMA DeferIsDefer ==
    ASSUME RangeInv, next # 0, DeferRead, UNCHANGED <<tip, range>>
    PROVE  Promise!Defer
<1>1. Idle = range /\ range # NoRange
  BY ReadIsRequest
<1>2. Idle' = NoRange
  BY DEF Idle, DeferRead, Ends, NoRange
<1> QED
  BY <1>1, <1>2 DEF Promise!Defer, Promise!NoRequest, Promise!NoAnswer, DeferRead, Ends,
     Idle, NoRange, NoAnswer

(* A step inside a read leaves the promise where it is. *)
LEMMA ReadGoesOn ==
    ASSUME next # 0, next' # 0, UNCHANGED <<tip, range, answer>>
    PROVE  UNCHANGED Promise!promiseVars
  BY DEF Promise!promiseVars

(* A chunk read to its end is an answer of the promise, or goes on.         *)
LEMMA DoneKeepsPromise ==
    ASSUME RangeInv, NEW b \in Batches, ChunkDone(b)
    PROVE  Promise!Answer \/ UNCHANGED Promise!promiseVars
<1>1. next # 0 /\ UNCHANGED <<tip, range>>
  BY DEF ChunkDone
<1>2. ChunkEnd \in next..range.to /\ next \in Nat
  BY <1>1, ChunkEndBounds DEF RangeInv, RangeTypeOK
<1>3. CASE ChunkEnd = range.to
  <2>1. range.to \in (range.from - 1)..range.to /\ range.to < tip
    BY <1>1, <1>3, ReadIsRequest, ChunkDoneInv
  <2>2. Ends([through |-> range.to, blocks |-> range.from..range.to])
    BY <1>3, ChunkDoneInv DEF ChunkDone
  <2> QED
    BY <1>1, <2>1, <2>2, EndIsAnswer
<1>4. CASE ChunkEnd # range.to
  <2>1. next' # 0 /\ UNCHANGED answer
    BY <1>2, <1>4 DEF ChunkDone
  <2> QED
    BY <1>1, <2>1, ReadGoesOn
<1> QED
  BY <1>3, <1>4

(* A chunk proven short of its end is an answer, a deferral, or goes on.    *)
LEMMA ShortKeepsPromise ==
    ASSUME RangeInv, NEW b \in Batches, ChunkShort(b)
    PROVE  Promise!Answer \/ Promise!Defer \/ UNCHANGED Promise!promiseVars
<1>1. next # 0 /\ Proof(b) < ChunkEnd /\ UNCHANGED <<tip, range>>
  BY DEF ChunkShort
<1>2. /\ ChunkEnd \in next..range.to /\ Proof(b) \in Int
      /\ next \in Nat \ {0} /\ tip \in Nat
      /\ range.from \in Nat /\ range.to \in Nat
      /\ range.from <= next /\ got = range.from..(next - 1)
      /\ next = range.from \/ next - 1 < tip
  BY <1>1, ChunkEndBounds, ReadIsRequest, ProofIsTrue
  DEF RangeInv, RangeTypeOK, CollectedSoFar
<1>3. CASE range.partial
  <2> DEFINE c == Max({next - 1, Proof(b)})
  <2>1. c = IF next - 1 >= Proof(b) THEN next - 1 ELSE Proof(b)
    BY <1>2, MaxOfTwo
  <2>2. c \in (range.from - 1)..range.to
    BY <1>1, <1>2, <2>1
  <2>3. \A x \in next..ChunkEnd : x <= Proof(b) => x \in LogsOf(b) /\ x < tip
    BY <1>1, ProofIsTrue
  <2>4. c < range.from \/ c < tip
    <3>1. CASE next - 1 >= Proof(b)
      BY <1>2, <2>1, <3>1
    <3>2. CASE next - 1 < Proof(b)
      BY <1>1, <1>2, <2>1, <2>3, <3>2
    <3> QED
      BY <1>2, <3>1, <3>2
  <2>5. {x \in LogsOf(b) : x <= Proof(b)} = next..Proof(b)
    BY <1>1, <1>2, <2>3 DEF LogsOf
  <2>6. got \cup (next..Proof(b)) = range.from..c
    BY <1>2, <2>1
  <2>7. Ends([through |-> c, blocks |-> range.from..c])
    BY <1>3, <2>5, <2>6 DEF ChunkShort
  <2> QED
    BY <1>1, <1>3, <2>2, <2>4, <2>7, EndIsAnswer
<1>4. CASE ~ range.partial
  BY <1>1, <1>4, DeferIsDefer, ReadGoesOn DEF ChunkShort
<1> QED
  BY <1>3, <1>4

(* A chunk that fails ends the read as the promise allows.                  *)
LEMMA FailKeepsPromise ==
    ASSUME RangeInv, ChunkFails
    PROVE  Promise!Answer \/ Promise!Defer
<1>1. next # 0 /\ UNCHANGED <<tip, range>>
  BY DEF ChunkFails
<1>2. CASE range.partial
  <2>1. /\ next \in Nat /\ tip \in Nat /\ range.from \in Nat /\ range.to \in Nat
        /\ range.from <= next /\ next <= range.to /\ got = range.from..(next - 1)
        /\ next = range.from \/ next - 1 < tip
    BY <1>1, ReadIsRequest DEF RangeInv, RangeTypeOK, CollectedSoFar
  <2>2. next - 1 \in (range.from - 1)..range.to /\ (next - 1 < range.from \/ next - 1 < tip)
    BY <2>1
  <2>3. Ends([through |-> next - 1, blocks |-> range.from..(next - 1)])
    BY <1>2, <2>1 DEF ChunkFails, DeferRead
  <2> QED
    BY <1>1, <1>2, <2>2, <2>3, EndIsAnswer
<1>3. CASE ~ range.partial
  BY <1>1, <1>3, DeferIsDefer DEF ChunkFails
<1> QED
  BY <1>2, <1>3

(* A read that starts is a question asked of the promise.                   *)
LEMMA StartKeepsPromise ==
    ASSUME NEW f \in Heights \ {0}, NEW t \in Heights \ {0}, NEW p \in BOOLEAN,
           StartRead(f, t, p)
    PROVE  Promise!Ask
<1>1. /\ f \in Nat \ {0} /\ t \in Nat /\ f <= t
      /\ next = 0 /\ next' = f /\ tip' = tip
      /\ range' = [from |-> f, to |-> t, partial |-> p] /\ answer' = NoAnswer
  BY RangeAssumption DEF StartRead, Heights
<1>2. Idle = NoRange /\ Idle' = range'
  BY <1>1 DEF Idle
<1> QED
  BY <1>1, <1>2 DEF Promise!Ask, Promise!Requests, Promise!NoRequest, Promise!NoAnswer,
     Idle, NoRange, NoAnswer

(* Every step of a read is a step of the promise, or none. *)
LEMMA StepKeepsPromise ==
    RangeInv /\ [RangeNext]_rangeVars => [Promise!Next]_(Promise!promiseVars)
<1> SUFFICES ASSUME RangeInv, [RangeNext]_rangeVars
             PROVE  Promise!Next \/ UNCHANGED Promise!promiseVars
  OBVIOUS
<1> USE DEF Promise!Next
<1>1. CASE UNCHANGED rangeVars
  BY <1>1 DEF rangeVars, Promise!promiseVars
<1>2. CASE RangeMine
  BY <1>2 DEF RangeMine, Promise!Mine
<1>3. CASE AwaitHead
  <2>1. next # 0 /\ UNCHANGED <<tip, range>>
    BY <1>3 DEF AwaitHead
  <2>2. DeferRead \/ UNCHANGED <<next, answer>>
    BY <1>3 DEF AwaitHead
  <2> QED
    BY <2>1, <2>2, DeferIsDefer, ReadGoesOn
<1>4. CASE ChunkFails
  BY <1>4, FailKeepsPromise
<1>5. ASSUME NEW f \in Heights \ {0}, NEW t \in Heights \ {0}, NEW p \in BOOLEAN,
             StartRead(f, t, p)
      PROVE  Promise!Next
  BY <1>5, StartKeepsPromise
<1>6. ASSUME NEW b \in Batches, ChunkDone(b)
      PROVE  Promise!Next \/ UNCHANGED Promise!promiseVars
  BY <1>6, DoneKeepsPromise
<1>7. ASSUME NEW b \in Batches, ChunkShort(b)
      PROVE  Promise!Next \/ UNCHANGED Promise!promiseVars
  BY <1>7, ShortKeepsPromise
<1> QED
  BY <1>1, <1>2, <1>3, <1>4, <1>5, <1>6, <1>7 DEF RangeNext

(* A range read keeps its promise, put together from as many chunks, of    *)
(* as many backends, as it may take.                                       *)
THEOREM ReadImplementsPromise == RangeSpec => ReadKeepsPromise
<1>1. RangeSpec => []RangeInv
  BY RangeInitInv, RangeStepInv, PTL DEF RangeSpec
<1>2. RangeInit => Promise!Init
  BY InitKeepsPromise
<1>3. RangeInv /\ [RangeNext]_rangeVars => [Promise!Next]_(Promise!promiseVars)
  BY StepKeepsPromise
<1> QED
  BY <1>1, <1>2, <1>3, PTL DEF RangeSpec, ReadKeepsPromise, Promise!Spec

-----------------------------------------------------------------------------
(* Sequences of sequences. *)

(* A non-empty set of naturals has a least member: where a claim about a   *)
(* sequence is proved by its first counterexample.                         *)
LEMMA LeastNatural ==
    ASSUME NEW S \in SUBSET Nat, S # {}
    PROVE  \E x \in S : \A y \in S : x <= y
<1>1. PICK x \in S : \A y \in S : ~ (<<y, x>> \in OpToRel(<, Nat))
  BY NatLessThanWellFounded, WFMin
<1>2. ASSUME NEW y \in S PROVE x <= y
  <2>1. x \in Nat /\ y \in Nat
    OBVIOUS
  <2>2. y < x => <<y, x>> \in {ss \in Nat \X Nat : ss[1] < ss[2]}
    BY <2>1
  <2>3. y < x => <<y, x>> \in OpToRel(<, Nat)
    BY <2>2 DEF OpToRel
  <2>4. ~ (y < x)
    BY <1>1, <2>3
  <2> QED
    BY <2>1, <2>4
<1> QED
  BY <1>2

(* The value of the community module's recursion over a sequence of        *)
(* sequences, up to each of its members.                                   *)
UpTo(s, n, f) ==
    f = [i \in 1..n |-> IF i = 1 THEN s[i] ELSE f[i - 1] \o s[i]]

(* The recursion has a value for every length.                             *)
LEMMA FlattenIsDefined ==
    ASSUME NEW s, NEW N \in Nat
    PROVE  \E f : UpTo(s, N, f)
<1> DEFINE B == {n \in 0..N : ~ \E f : UpTo(s, n, f)}
<1> SUFFICES B = {}
  OBVIOUS
<1> SUFFICES ASSUME B # {} PROVE FALSE
  OBVIOUS
<1>1. PICK n \in B : \A m \in B : n <= m
  <2>1. B \in SUBSET Nat
    OBVIOUS
  <2> HIDE DEF B
  <2> QED
    BY <2>1, LeastNatural
<1>2. n # 0
  <2>1. UpTo(s, 0, [i \in 1..0 |-> s[i]])
    BY DEF UpTo
  <2> QED
    BY <1>1, <2>1
<1>3. n - 1 \in 0..N /\ n - 1 \notin B
  BY <1>1, <1>2
<1>4. PICK f : UpTo(s, n - 1, f)
  BY <1>3
<1> DEFINE g == [i \in 1..n |-> IF i < n THEN f[i]
                                ELSE IF i = 1 THEN s[i] ELSE f[i - 1] \o s[i]]
<1>5. UpTo(s, n, g)
  <2>1. ASSUME NEW i \in 1..n
        PROVE  g[i] = IF i = 1 THEN s[i] ELSE g[i - 1] \o s[i]
    <3>1. CASE i < n
      <4>1. f[i] = IF i = 1 THEN s[i] ELSE f[i - 1] \o s[i]
        <5>1. i \in 1..(n - 1)
          BY <1>1, <3>1
        <5> QED
          BY <1>4, <5>1 DEF UpTo
      <4>2. i # 1 => i - 1 \in 1..n /\ i - 1 < n
        BY <1>1
      <4> QED
        BY <3>1, <4>1, <4>2
    <3>2. CASE i = n
      <4>1. i # 1 => i - 1 \in 1..n /\ i - 1 < n
        BY <1>1, <3>2
      <4> QED
        BY <3>2, <4>1
    <3> QED
      BY <1>1, <3>1, <3>2
  <2> DEFINE h == [i \in 1..n |-> IF i = 1 THEN s[i] ELSE g[i - 1] \o s[i]]
  <2>2. g = h
    <3>1. \A i \in 1..n : g[i] = h[i]
      BY <2>1
    <3>2. g = [i \in 1..n |-> g[i]] /\ h = [i \in 1..n |-> h[i]]
      OBVIOUS
    <3> HIDE DEF g, h
    <3> QED
      BY <3>1, <3>2
  <2> QED
    BY <2>2 DEF UpTo
<1> QED
  BY <1>1, <1>5

(* FlattenSeq is the value of that recursion at the last member.           *)
LEMMA FlattenUnfolds ==
    ASSUME NEW s, Len(s) \in Nat, Len(s) # 0
    PROVE  \E f : UpTo(s, Len(s), f) /\ FlattenSeq(s) = f[Len(s)]
<1>0. PICK f : UpTo(s, Len(s), f)
  BY FlattenIsDefined, Zenon
<1>1. \E g : g = [i \in 1..Len(s) |-> IF i = 1 THEN s[i] ELSE g[i - 1] \o s[i]]
  BY <1>0, Zenon DEF UpTo
<1> DEFINE F == CHOOSE g : g = [i \in 1..Len(s) |->
                                    IF i = 1 THEN s[i] ELSE g[i - 1] \o s[i]]
<1>2. F = [i \in 1..Len(s) |-> IF i = 1 THEN s[i] ELSE F[i - 1] \o s[i]]
  BY <1>1, Zenon
<1>3. FlattenSeq(s) = IF Len(s) = 0 THEN s ELSE F[Len(s)]
  BY Zenon DEF FlattenSeq
<1>5. FlattenSeq(s) = F[Len(s)]
  BY <1>3, Zenon
<1>6. UpTo(s, Len(s), F)
  BY <1>2, Zenon DEF UpTo
<1> HIDE DEF F
<1> QED
  BY <1>5, <1>6

-----------------------------------------------------------------------------
(* The output path.  Counts(s, a) says that s counts on from a; the marks  *)
(* e of Ordered are where each batch ends.                                 *)
Counts(s, a) == \A i \in 1..Len(s) : s[i] = a + i

(* What counts on from a, followed by what counts on from there.           *)
LEMMA CountsOn ==
    ASSUME NEW s \in Seq(Nat), NEW u \in Seq(Nat), NEW a \in Nat,
           Counts(s, a), Counts(u, a + Len(s))
    PROVE  Counts(s \o u, a)
<1>1. /\ Len(s \o u) = Len(s) + Len(u)
      /\ \A i \in 1..Len(s \o u) :
             (s \o u)[i] = IF i <= Len(s) THEN s[i] ELSE u[i - Len(s)]
  OBVIOUS
<1>2. ASSUME NEW i \in 1..Len(s \o u) PROVE (s \o u)[i] = a + i
  <2>1. CASE i <= Len(s)
    BY <1>1, <2>1 DEF Counts
  <2>2. CASE ~ (i <= Len(s))
    <3>1. i - Len(s) \in 1..Len(u)
      BY <1>1, <2>2
    <3>2. u[i - Len(s)] = (a + Len(s)) + (i - Len(s))
      BY <3>1 DEF Counts
    <3> QED
      BY <1>1, <2>2, <3>2
  <2> QED
    BY <2>1, <2>2
<1> QED
  BY <1>2 DEF Counts

PlumbingTypeOK ==
    /\ emissions \in Nat
    /\ window \in Seq(Nat) /\ delivered \in Seq(Nat)
    /\ batches \in Seq(Seq(Nat))
    /\ listening \in BOOLEAN /\ wired \in BOOLEAN

Ordered(e, applied, held, open, last) ==
    /\ e \in [0..Len(held) -> Nat]
    /\ e[0] = Len(applied) /\ Counts(applied, 0)
    /\ \A b \in 1..Len(held) :
           e[b] = e[b - 1] + Len(held[b]) /\ Counts(held[b], e[b - 1])
    /\ Counts(open, e[Len(held)])
    /\ last = e[Len(held)] + Len(open)

(* Batches are held back only while an ack is waited for: else the next    *)
(* would overtake them.                                                    *)
OutputInv ==
    /\ PlumbingTypeOK
    /\ listening \/ batches = <<>>
    /\ \E e : Ordered(e, delivered, batches, window, emissions)

(* Nothing is emitted at the start.                                        *)
LEMMA PlumbingInitInv == PlumbingInit => OutputInv
<1> SUFFICES ASSUME PlumbingInit PROVE OutputInv
  OBVIOUS
<1>1. PlumbingTypeOK
  <2>1. <<>> \in Seq(Nat) /\ <<>> \in Seq(Seq(Nat))
    OBVIOUS
  <2> QED
    BY <2>1 DEF PlumbingInit, PlumbingTypeOK
<1>2. Ordered([n \in 0..0 |-> 0], delivered, batches, window, emissions)
  BY DEF PlumbingInit, Ordered, Counts
<1> QED
  BY <1>1, <1>2 DEF PlumbingInit, OutputInv

(* A batch that counts on from what is held is handed over in its turn.    *)
LEMMA HandOverKeeps ==
    ASSUME OutputInv, NEW u \in Seq(Nat), HandOver(u),
           emissions' \in Nat, window' = <<>>, wired' \in BOOLEAN,
           NEW e, Ordered(e, delivered, batches, window, emissions), Counts(u, e[Len(batches)]),
           emissions' = e[Len(batches)] + Len(u)
    PROVE  OutputInv'
<1> DEFINE n == Len(batches)
<1>0. /\ PlumbingTypeOK
      /\ n \in Nat
      /\ listening \/ batches = <<>>
  BY DEF OutputInv, PlumbingTypeOK
<1>1. CASE listening
  <2> DEFINE d == [b \in 0..(n + 1) |-> IF b <= n THEN e[b] ELSE e[n] + Len(u)]
  <2>1. batches' = Append(batches, u) /\ UNCHANGED <<delivered, listening>>
    BY <1>1 DEF HandOver
  <2>2. /\ Len(batches') = n + 1
        /\ \A b \in 1..n : batches'[b] = batches[b]
        /\ batches'[n + 1] = u
        /\ batches' \in Seq(Seq(Nat))
    BY <1>0, <2>1 DEF PlumbingTypeOK
  <2>3. PlumbingTypeOK'
    BY <1>0, <2>1, <2>2 DEF PlumbingTypeOK
  <2>4. /\ d \in [0..(n + 1) -> Nat]
        /\ d[0] = e[0] /\ d[n + 1] = e[n] + Len(u)
        /\ \A b \in 1..n : d[b] = e[b] /\ d[b - 1] = e[b - 1]
        /\ d[n] = e[n]
    BY <1>0 DEF Ordered
  <2> HIDE DEF d
  <2>5. ASSUME NEW b \in 1..(n + 1)
        PROVE  d[b] = d[b - 1] + Len(batches'[b]) /\ Counts(batches'[b], d[b - 1])
    <3>1. CASE b = n + 1
      BY <1>0, <2>2, <2>4, <3>1
    <3>2. CASE b \in 1..n
      BY <2>2, <2>4, <3>2 DEF Ordered
    <3> QED
      BY <1>0, <3>1, <3>2
  <2>6. Ordered(d, delivered', batches', window', emissions')
    BY <1>0, <2>1, <2>2, <2>4, <2>5 DEF Ordered, Counts
  <2> QED
    BY <1>1, <2>1, <2>3, <2>6 DEF OutputInv
<1>2. CASE ~ listening
  <2> DEFINE d == [b \in 0..0 |-> Len(delivered) + Len(u)]
  <2>1. /\ batches = <<>> /\ n = 0
        /\ delivered' = delivered \o u /\ listening' = TRUE
        /\ batches' = batches
    BY <1>0, <1>2 DEF HandOver, Apply
  <2>2. /\ delivered' \in Seq(Nat)
        /\ Len(delivered') = Len(delivered) + Len(u)
    BY <1>0, <2>1 DEF PlumbingTypeOK
  <2>3. PlumbingTypeOK'
    BY <1>0, <2>1, <2>2 DEF PlumbingTypeOK
  <2>4. Counts(delivered', 0)
    <3>1. Counts(u, 0 + Len(delivered)) /\ Counts(delivered, 0)
      BY <1>0, <2>1 DEF Ordered, PlumbingTypeOK
    <3> QED
      BY <1>0, <2>1, <3>1, CountsOn DEF PlumbingTypeOK
  <2>5. d \in [0..0 -> Nat] /\ d[0] = Len(delivered')
    BY <2>2
  <2>6. Len(batches') = 0 /\ Len(window') = 0 /\ emissions' = Len(delivered')
    BY <2>1, <2>2 DEF Ordered
  <2> HIDE DEF d
  <2>7. Ordered(d, delivered', batches', window', emissions')
    BY <2>2, <2>4, <2>5, <2>6 DEF Ordered, Counts
  <2> QED
    BY <2>1, <2>3, <2>7 DEF OutputInv
<1> QED
  BY <1>0, <1>1, <1>2 DEF PlumbingTypeOK

(* The oldest batch held back is applied when its turn comes.              *)
LEMMA NextBatchKeeps ==
    ASSUME OutputInv, batches # <<>>, Apply(Head(batches)), batches' = Tail(batches),
           UNCHANGED <<emissions, window, wired>>
    PROVE  OutputInv'
<1> DEFINE n == Len(batches)
           u == batches[1]
<1>0. PICK e : Ordered(e, delivered, batches, window, emissions)
  BY DEF OutputInv
<1>1. /\ PlumbingTypeOK
      /\ n \in Nat \ {0} /\ u \in Seq(Nat) /\ Head(batches) = u
  BY DEF OutputInv, PlumbingTypeOK
<1>2. /\ Len(batches') = n - 1
      /\ batches' \in Seq(Seq(Nat))
      /\ \A b \in 1..(n - 1) : batches'[b] = batches[b + 1]
  BY <1>1 DEF PlumbingTypeOK
<1>3. /\ delivered' = delivered \o u /\ listening' = TRUE
      /\ delivered' \in Seq(Nat)
      /\ Len(delivered') = Len(delivered) + Len(u)
  <2>1. delivered' = delivered \o u /\ listening' = TRUE
    BY <1>1, Zenon DEF Apply
  <2>2. delivered \in Seq(Nat) /\ u \in Seq(Nat)
    BY <1>1 DEF PlumbingTypeOK
  <2> HIDE DEF u
  <2>3. delivered \o u \in Seq(Nat) /\ Len(delivered \o u) = Len(delivered) + Len(u)
    BY <2>2
  <2> QED
    BY <2>1, <2>3, Zenon
<1>4. PlumbingTypeOK'
  BY <1>1, <1>2, <1>3 DEF PlumbingTypeOK
<1>5. /\ e[0] = Len(delivered)
      /\ e[1] = Len(delivered) + Len(u)
      /\ Counts(u, Len(delivered)) /\ Counts(delivered, 0)
  <2>1. 1 \in 1..n /\ 1 - 1 = 0
    BY <1>1
  <2> QED
    BY <1>0, <1>1, <2>1 DEF Ordered
<1>6. Counts(delivered', 0)
  <2>1. Counts(u, 0 + Len(delivered))
    BY <1>1, <1>5 DEF PlumbingTypeOK
  <2> QED
    BY <1>1, <1>3, <1>5, <2>1, CountsOn DEF PlumbingTypeOK
<1> DEFINE d == [b \in 0..(n - 1) |-> e[b + 1]]
<1>7. /\ d \in [0..(n - 1) -> Nat]
      /\ d[0] = e[1] /\ d[n - 1] = e[n]
      /\ \A b \in 1..(n - 1) : d[b] = e[b + 1] /\ d[b - 1] = e[b]
  BY <1>0, <1>1 DEF Ordered
<1> HIDE DEF d
<1>8. ASSUME NEW b \in 1..(n - 1)
      PROVE  d[b] = d[b - 1] + Len(batches'[b]) /\ Counts(batches'[b], d[b - 1])
  <2>1. /\ b + 1 \in 1..n /\ (b + 1) - 1 = b
    BY <1>1
  <2>2. e[b + 1] = e[b] + Len(batches[b + 1]) /\ Counts(batches[b + 1], e[b])
    BY <1>0, <2>1 DEF Ordered
  <2> QED
    BY <1>2, <1>7, <2>2
<1>9. Ordered(d, delivered', batches', window', emissions')
  <2>1. Counts(window, e[n]) /\ emissions = e[n] + Len(window)
    BY <1>0 DEF Ordered
  <2> QED
    BY <1>2, <1>3, <1>5, <1>6, <1>7, <1>8, <2>1 DEF Ordered, Counts
<1> QED
  BY <1>3, <1>4, <1>9 DEF OutputInv

(* Emissions, windows, acks and the teardown keep the order.               *)
LEMMA PlumbingStepInv == OutputInv /\ [PlumbingNext]_plumbingVars => OutputInv'
<1> SUFFICES ASSUME OutputInv, [PlumbingNext]_plumbingVars PROVE OutputInv'
  OBVIOUS
<1> DEFINE n == Len(batches)
<1>0. PlumbingTypeOK /\ n \in Nat
  BY DEF OutputInv, PlumbingTypeOK
<1>a. PICK e : Ordered(e, delivered, batches, window, emissions)
  BY DEF OutputInv
<1>b. /\ e[n] \in Nat
      /\ Counts(window, e[n]) /\ emissions = e[n] + Len(window)
  BY <1>0, <1>a DEF Ordered
<1>1. CASE Emit
  <2> DEFINE u == Append(window, emissions + 1)
  <2>1. /\ u \in Seq(Nat) /\ Len(u) = Len(window) + 1
        /\ \A i \in 1..Len(window) : u[i] = window[i]
        /\ u[Len(window) + 1] = emissions + 1
    BY <1>0 DEF PlumbingTypeOK
  <2>2. /\ emissions' = emissions + 1 /\ wired' = wired
        /\ IF Len(u) = BatchMax
           THEN window' = <<>> /\ HandOver(u)
           ELSE window' = u /\ UNCHANGED <<batches, delivered, listening>>
    BY <1>1 DEF Emit
  <2> HIDE DEF u
  <2>3. Counts(u, e[n]) /\ emissions' = e[n] + Len(u) /\ emissions' \in Nat
    <3>1. ASSUME NEW i \in 1..Len(u) PROVE u[i] = e[n] + i
      <4>1. CASE i \in 1..Len(window)
        BY <1>b, <2>1, <4>1 DEF Counts
      <4>2. CASE i = Len(window) + 1
        <5>1. u[i] = (e[n] + Len(window)) + 1 /\ Len(window) \in Nat
          BY <1>0, <1>b, <2>1, <4>2 DEF PlumbingTypeOK
        <5> QED
          BY <1>b, <4>2, <5>1
      <4> QED
        BY <1>0, <2>1, <4>1, <4>2 DEF PlumbingTypeOK
    <3> QED
      BY <1>0, <1>b, <2>1, <2>2, <3>1 DEF Counts, PlumbingTypeOK
  <2>4. CASE window' = <<>> /\ HandOver(u)
    BY <1>0, <1>a, <2>1, <2>2, <2>3, <2>4, HandOverKeeps DEF PlumbingTypeOK
  <2>5. CASE window' = u /\ UNCHANGED <<batches, delivered, listening>>
    <3>1. Ordered(e, delivered', batches', window', emissions')
      BY <1>a, <2>3, <2>5 DEF Ordered
    <3>2. PlumbingTypeOK'
      BY <1>0, <2>1, <2>2, <2>3, <2>5 DEF PlumbingTypeOK
    <3> QED
      BY <2>5, <3>1, <3>2 DEF OutputInv
  <2> QED
    BY <2>2, <2>4, <2>5
<1>2. CASE WindowCloses
  BY <1>0, <1>2, <1>a, <1>b, HandOverKeeps DEF WindowCloses, PlumbingTypeOK
<1>3. CASE TimerAck
  <2>1. CASE batches = <<>>
    BY <1>3, <2>1, <1>0, <1>a DEF TimerAck, OutputInv, PlumbingTypeOK
  <2>2. CASE batches # <<>>
    BY <1>3, <2>2, NextBatchKeeps DEF TimerAck
  <2> QED
    BY <2>1, <2>2
<1>4. CASE Unwire
  BY <1>4, <1>0, <1>a DEF Unwire, OutputInv, PlumbingTypeOK
<1>5. CASE UNCHANGED plumbingVars
  BY <1>5, <1>0, <1>a DEF plumbingVars, OutputInv, PlumbingTypeOK
<1> QED
  BY <1>1, <1>2, <1>3, <1>4, <1>5 DEF PlumbingNext

(* The batches held back, one after the other, count on from what was      *)
(* applied to where the last of them ends.                                 *)
LEMMA HeldCount ==
    ASSUME PlumbingTypeOK, NEW e, Ordered(e, delivered, batches, window, emissions),
           batches # <<>>
    PROVE  /\ FlattenSeq(batches) \in Seq(Nat)
           /\ Counts(FlattenSeq(batches), Len(delivered))
           /\ Len(delivered) + Len(FlattenSeq(batches)) = e[Len(batches)]
<1> DEFINE n == Len(batches)
<1>0. n \in Nat \ {0} /\ Len(delivered) \in Nat /\ batches \in Seq(Seq(Nat))
  BY DEF PlumbingTypeOK
<1>1. PICK f : UpTo(batches, n, f) /\ FlattenSeq(batches) = f[n]
  BY <1>0, FlattenUnfolds
<1> DEFINE Good(b) == /\ f[b] \in Seq(Nat)
                      /\ Counts(f[b], Len(delivered))
                      /\ Len(delivered) + Len(f[b]) = e[b]
           B == {b \in 1..n : ~ Good(b)}
<1>2. ASSUME NEW b \in 1..n, b = 1 \/ Good(b - 1) PROVE Good(b)
  <2>1. /\ batches[b] \in Seq(Nat)
        /\ e[b] = e[b - 1] + Len(batches[b]) /\ Counts(batches[b], e[b - 1])
        /\ f[b] = IF b = 1 THEN batches[b] ELSE f[b - 1] \o batches[b]
        /\ e[0] = Len(delivered)
    <3>1. batches[b] \in Seq(Nat)
      BY <1>0
    <3>2. f[b] = IF b = 1 THEN batches[b] ELSE f[b - 1] \o batches[b]
      <4>1. f = [i \in 1..n |-> IF i = 1 THEN batches[i] ELSE f[i - 1] \o batches[i]]
        BY <1>1 DEF UpTo
      <4> QED
        BY <4>1
    <3>3. /\ e[b] = e[b - 1] + Len(batches[b]) /\ Counts(batches[b], e[b - 1])
          /\ e[0] = Len(delivered)
      BY DEF Ordered
    <3> QED
      BY <3>1, <3>2, <3>3
  <2>2. CASE b = 1
    <3>1. b - 1 = 0
      BY <2>2
    <3> QED
      BY <1>0, <2>1, <2>2, <3>1
  <2>3. CASE b # 1
    <3>1. f[b - 1] \in Seq(Nat) /\ Counts(f[b - 1], Len(delivered))
          /\ Len(delivered) + Len(f[b - 1]) = e[b - 1]
      BY <1>2, <2>3
    <3>2. f[b] = f[b - 1] \o batches[b]
      BY <2>1, <2>3
    <3>3. f[b] \in Seq(Nat) /\ Len(f[b]) = Len(f[b - 1]) + Len(batches[b])
      <4> DEFINE s == f[b - 1]
                 u == batches[b]
      <4>1. s \in Seq(Nat) /\ u \in Seq(Nat)
        BY <2>1, <3>1
      <4> HIDE DEF s, u
      <4>2. s \o u \in Seq(Nat) /\ Len(s \o u) = Len(s) + Len(u)
        BY <4>1
      <4> QED
        BY <3>2, <4>2 DEF s, u
    <3>4. Counts(f[b], Len(delivered))
      BY <1>0, <2>1, <3>1, <3>2, CountsOn
    <3>5. /\ Len(f[b - 1]) \in Nat /\ Len(batches[b]) \in Nat
      BY <2>1, <3>1
    <3>6. Len(delivered) + Len(f[b]) = e[b]
      <4>1. /\ Len(delivered) + Len(f[b - 1]) = e[b - 1]
            /\ e[b] = e[b - 1] + Len(batches[b])
            /\ Len(f[b]) = Len(f[b - 1]) + Len(batches[b])
        BY <2>1, <3>1, <3>3
      <4>2. \A x, y, z \in Nat : x + (y + z) = (x + y) + z
        OBVIOUS
      <4>3. Len(delivered) \in Nat
        BY <1>0
      <4>4. Len(delivered) + (Len(f[b - 1]) + Len(batches[b]))
            = (Len(delivered) + Len(f[b - 1])) + Len(batches[b])
        BY <3>5, <4>2, <4>3
      <4> QED
        BY <4>1, <4>4, Zenon
    <3> QED
      BY <3>3, <3>4, <3>6
  <2> QED
    BY <2>2, <2>3
<1> HIDE DEF Good
<1>3. B = {}
  <2> SUFFICES ASSUME B # {} PROVE FALSE
    OBVIOUS
  <2>1. B \in SUBSET Nat
    BY <1>0
  <2>2. PICK b \in B : \A c \in B : b <= c
    <3> HIDE DEF B
    <3> QED
      BY <2>1, LeastNatural
  <2>3. b # 1 => b - 1 \in 1..n /\ b - 1 \notin B
    BY <1>0, <2>2
  <2>4. b = 1 \/ Good(b - 1)
    BY <2>3
  <2> QED
    BY <1>2, <2>2, <2>4
<1>4. Good(n)
  BY <1>0, <1>3
<1> QED
  BY <1>1, <1>4 DEF Good

(* Batches that end where the next one starts make up one sequence.        *)
LEMMA OutputInvSuffices == OutputInv => OutputIsAChannel
<1> SUFFICES ASSUME OutputInv PROVE OutputIsAChannel
  OBVIOUS
<1> DEFINE held == FlattenSeq(batches)
           all  == delivered \o held \o window
<1>0. /\ PlumbingTypeOK
      /\ Len(delivered) \in Nat /\ delivered \in Seq(Nat) /\ window \in Seq(Nat)
      /\ Len(batches) \in Nat
  BY DEF OutputInv, PlumbingTypeOK
<1>1. PICK e : Ordered(e, delivered, batches, window, emissions)
  BY DEF OutputInv
<1>2. /\ held \in Seq(Nat)
      /\ Counts(held, Len(delivered))
      /\ Len(delivered) + Len(held) = e[Len(batches)]
  <2>1. CASE batches = <<>>
    <3>1. held = <<>> /\ Len(batches) = 0
      BY <2>1 DEF FlattenSeq
    <3> QED
      BY <1>0, <1>1, <3>1 DEF Ordered, Counts
  <2>2. CASE batches # <<>>
    BY <1>0, <1>1, <2>2, HeldCount
  <2> QED
    BY <2>1, <2>2
<1> HIDE DEF held
<1> DEFINE front == delivered \o held
<1>3. /\ front \in Seq(Nat) /\ Len(front) = e[Len(batches)]
  BY <1>0, <1>2
<1>4. Counts(front, 0)
  <2>1. Counts(delivered, 0) /\ Counts(held, 0 + Len(delivered))
    BY <1>0, <1>1, <1>2 DEF Ordered
  <2> QED
    BY <1>0, <1>2, <2>1, CountsOn
<1> HIDE DEF front
<1>5. Counts(front \o window, 0) /\ front \o window \in Seq(Nat)
      /\ Len(front \o window) = emissions
  <2>1. Counts(window, 0 + Len(front)) /\ emissions = Len(front) + Len(window)
    BY <1>1, <1>3 DEF Ordered
  <2> QED
    BY <1>0, <1>3, <1>4, <2>1, CountsOn
<1>6. \A i \in 1..emissions : (front \o window)[i] = i
  BY <1>0, <1>5 DEF Counts, PlumbingTypeOK
<1>7. front \o window = [i \in 1..emissions |-> i]
  <2> DEFINE s == front \o window
  <2>1. s \in Seq(Nat) /\ Len(s) = emissions /\ \A i \in 1..emissions : s[i] = i
    BY <1>5, <1>6
  <2> HIDE DEF s
  <2>2. s = [i \in 1..Len(s) |-> s[i]]
    BY <2>1
  <2> QED
    BY <2>1, <2>2 DEF s
<1> QED
  BY <1>7 DEF OutputIsAChannel, front, held

(* Whatever was emitted is applied, held back or in the open window, each  *)
(* update once and in order, for any number of updates, any size of batch, *)
(* and however windows, acks and the teardown interleave (Worker.ts work,  *)
(* setup/utils.ts applyNetworkUpdates).                                    *)
THEOREM PlumbingOutputIsAChannel == PlumbingSpec => []OutputIsAChannel
BY PlumbingInitInv, PlumbingStepInv, OutputInvSuffices, PTL DEF PlumbingSpec

-----------------------------------------------------------------------------
(* The unhealed list. *)
Elems(s) == {s[i] : i \in 1..Len(s)}

(* What two sequences hold in a row, each of them holds.                   *)
LEMMA ElemsOfBoth ==
    ASSUME NEW S, NEW u \in Seq(S), NEW v \in Seq(S)
    PROVE  u \o v \in Seq(S) /\ Elems(u \o v) = Elems(u) \cup Elems(v)
<1>1. /\ Len(u) \in Nat /\ Len(v) \in Nat
      /\ Len(u \o v) = Len(u) + Len(v) /\ u \o v \in Seq(S)
      /\ \A i \in 1..Len(u \o v) :
             (u \o v)[i] = IF i <= Len(u) THEN u[i] ELSE v[i - Len(u)]
  OBVIOUS
<1>2. ASSUME NEW x \in Elems(u \o v) PROVE x \in Elems(u) \cup Elems(v)
  <2>1. PICK i \in 1..Len(u \o v) : x = (u \o v)[i]
    BY DEF Elems
  <2>2. i <= Len(u) => i \in 1..Len(u) /\ x = u[i]
    BY <1>1, <2>1
  <2>3. ~ (i <= Len(u)) => i - Len(u) \in 1..Len(v) /\ x = v[i - Len(u)]
    BY <1>1, <2>1
  <2> QED
    BY <2>2, <2>3 DEF Elems
<1>3. ASSUME NEW i \in 1..Len(u) PROVE u[i] \in Elems(u \o v)
  <2>1. i \in 1..Len(u \o v) /\ (u \o v)[i] = u[i]
    BY <1>1
  <2> QED
    BY <2>1 DEF Elems
<1>4. ASSUME NEW i \in 1..Len(v) PROVE v[i] \in Elems(u \o v)
  <2>1. i + Len(u) \in 1..Len(u \o v) /\ ~ (i + Len(u) <= Len(u))
    BY <1>1
  <2>2. (i + Len(u)) - Len(u) = i
    BY <1>1
  <2>3. (u \o v)[i + Len(u)] = v[i]
    BY <1>1, <2>1, <2>2
  <2> QED
    BY <2>1, <2>3 DEF Elems
<1> QED
  BY <1>1, <1>2, <1>3, <1>4 DEF Elems

(* What an appended element adds is itself.                                *)
LEMMA ElemsOfOneMore ==
    ASSUME NEW S, NEW s \in Seq(S), NEW x \in S
    PROVE  /\ Append(s, x) \in Seq(S) /\ Append(s, x) # <<>>
           /\ Elems(Append(s, x)) = Elems(s) \cup {x}
<1>1. /\ Append(s, x) \in Seq(S)
      /\ Len(s) \in Nat /\ Len(Append(s, x)) = Len(s) + 1
      /\ \A i \in 1..Len(s) : Append(s, x)[i] = s[i]
      /\ Append(s, x)[Len(s) + 1] = x
  OBVIOUS
<1>2. 1..(Len(s) + 1) = 1..Len(s) \cup {Len(s) + 1}
  BY <1>1
<1>3. Append(s, x) # <<>>
  BY <1>1
<1> QED
  BY <1>1, <1>2, <1>3 DEF Elems

(* A flattened sequence holds what its members hold.                       *)
LEMMA FlattenHolds ==
    ASSUME NEW S, NEW s \in Seq(Seq(S))
    PROVE  /\ FlattenSeq(s) \in Seq(S)
           /\ \A x : x \in Elems(FlattenSeq(s)) <=> \E i \in 1..Len(s) : x \in Elems(s[i])
<1> DEFINE n == Len(s)
<1>0. n \in Nat
  OBVIOUS
<1>1. CASE n = 0
  <2>1. FlattenSeq(s) = <<>> /\ s = <<>>
    BY <1>1 DEF FlattenSeq
  <2> QED
    BY <1>1, <2>1 DEF Elems
<1>2. CASE n # 0
  <2>1. PICK f : UpTo(s, n, f) /\ FlattenSeq(s) = f[n]
    BY <1>0, <1>2, FlattenUnfolds
  <2> DEFINE Good(b) == /\ f[b] \in Seq(S)
                        /\ \A x : x \in Elems(f[b]) <=> \E i \in 1..b : x \in Elems(s[i])
             B == {b \in 1..n : ~ Good(b)}
  <2>2. ASSUME NEW b \in 1..n, b = 1 \/ Good(b - 1) PROVE Good(b)
    <3>1. f[b] = IF b = 1 THEN s[b] ELSE f[b - 1] \o s[b]
      <4>1. f = [i \in 1..n |-> IF i = 1 THEN s[i] ELSE f[i - 1] \o s[i]]
        BY <2>1 DEF UpTo
      <4> QED
        BY <4>1
    <3>2. s[b] \in Seq(S)
      OBVIOUS
    <3>3. CASE b = 1
      <4>1. 1..b = {1} /\ f[b] = s[1]
        BY <3>1, <3>3
      <4> QED
        BY <3>2, <3>3, <4>1
    <3>4. CASE b # 1
      <4> DEFINE u == f[b - 1]
                 v == s[b]
      <4>1. /\ u \in Seq(S) /\ v \in Seq(S) /\ f[b] = u \o v
            /\ \A x : x \in Elems(u) <=> \E i \in 1..(b - 1) : x \in Elems(s[i])
        BY <2>2, <3>1, <3>2, <3>4
      <4>2. 1..b = 1..(b - 1) \cup {b}
        BY <3>4
      <4>3. \A x : (\E i \in 1..b : x \in Elems(s[i]))
                   <=> (\E i \in 1..(b - 1) : x \in Elems(s[i])) \/ x \in Elems(v)
        BY <4>2
      <4> HIDE DEF u, v
      <4>4. u \o v \in Seq(S) /\ Elems(u \o v) = Elems(u) \cup Elems(v)
        BY <4>1, ElemsOfBoth
      <4> QED
        BY <4>1, <4>3, <4>4
    <3> QED
      BY <3>3, <3>4
  <2> HIDE DEF Good
  <2>3. B = {}
    <3> SUFFICES ASSUME B # {} PROVE FALSE
      OBVIOUS
    <3>1. B \in SUBSET Nat
      BY <1>0
    <3>2. PICK b \in B : \A c \in B : b <= c
      <4> HIDE DEF B
      <4> QED
        BY <3>1, LeastNatural
    <3>3. b # 1 => b - 1 \in 1..n /\ b - 1 \notin B
      BY <1>0, <3>2
    <3>4. b = 1 \/ Good(b - 1)
      BY <3>3
    <3> QED
      BY <2>2, <3>2, <3>4
  <2>4. Good(n)
    BY <1>0, <1>2, <2>3
  <2> QED
    BY <2>1, <2>4 DEF Good
<1> QED
  BY <1>1, <1>2

Spans == {r \in Missable \X Missable : r[1] <= r[2]}

Spread(rs) == {b \in Missable : \E r \in Elems(rs) : IsIn(b, r)}

(* What a heal of f..t leaves of a range is the range without f..t.        *)
LEMMA TrimmedIsTheRest ==
    ASSUME NEW r \in Spans, NEW f \in Missable, NEW t \in Missable, f <= t
    PROVE  /\ Trimmed(r, f, t) \in Seq(Spans)
           /\ Spread(Trimmed(r, f, t)) = {b \in Missable : IsIn(b, r)} \ (f..t)
<1>0. /\ r[1] \in Missable /\ r[2] \in Missable /\ r[1] <= r[2]
      /\ UnhealedBlocks \in Nat /\ r = <<r[1], r[2]>>
  BY UnhealedAssumption DEF Spans
<1> DEFINE low  == <<r[1], f - 1>>
           high == <<t + 1, r[2]>>
<1>1. r[1] < f => low \in Spans
  BY <1>0 DEF Spans, Missable
<1>2. r[2] > t => high \in Spans
  BY <1>0 DEF Spans, Missable
<1>3. /\ Elems(<<r>>) = {r} /\ Elems(<<low>>) = {low} /\ Elems(<<high>>) = {high}
      /\ Elems(<<low, high>>) = {low, high} /\ Elems(<<>>) = {}
  BY DEF Elems
<1>4. \A b \in Missable : /\ IsIn(b, low) <=> r[1] <= b /\ b <= f - 1
                          /\ IsIn(b, high) <=> t + 1 <= b /\ b <= r[2]
                          /\ IsIn(b, r) <=> r[1] <= b /\ b <= r[2]
                          /\ b \in f..t <=> f <= b /\ b <= t
                          /\ b \in Nat /\ f \in Nat /\ t \in Nat
  BY UnhealedAssumption DEF IsIn, Missable
<1>5. CASE r[2] < f \/ r[1] > t
  <2>1. Trimmed(r, f, t) = <<r>>
    BY <1>5 DEF Trimmed
  <2>2. Spread(<<r>>) = {b \in Missable : IsIn(b, r)}
    BY <1>3 DEF Spread
  <2>3. \A b \in Missable : IsIn(b, r) => b \notin f..t
    BY <1>0, <1>4, <1>5 DEF Missable
  <2>4. <<r>> \in Seq(Spans)
    OBVIOUS
  <2> QED
    BY <2>1, <2>2, <2>3, <2>4
<1>6. CASE ~ (r[2] < f \/ r[1] > t)
  <2> DEFINE lows  == IF r[1] < f THEN <<low>> ELSE <<>>
             highs == IF r[2] > t THEN <<high>> ELSE <<>>
  <2>1. Trimmed(r, f, t) = lows \o highs
    BY <1>6 DEF Trimmed
  <2>2. /\ lows \in Seq(Spans) /\ highs \in Seq(Spans)
        /\ Elems(lows)  = IF r[1] < f THEN {low} ELSE {}
        /\ Elems(highs) = IF r[2] > t THEN {high} ELSE {}
    <3>1. /\ low \in Spans => <<low>> \in Seq(Spans)
          /\ high \in Spans => <<high>> \in Seq(Spans)
          /\ <<>> \in Seq(Spans)
      <4> HIDE DEF low, high
      <4> QED
        OBVIOUS
    <3>2. /\ Elems(<<low>>) = {low} /\ Elems(<<high>>) = {high} /\ Elems(<<>>) = {}
      BY <1>3
    <3> HIDE DEF low, high
    <3>3. CASE r[1] < f
      <4>1. lows = <<low>>
        BY <3>3
      <4> HIDE DEF lows
      <4>2. CASE r[2] > t
        BY <1>1, <1>2, <3>1, <3>2, <3>3, <4>1, <4>2
      <4>3. CASE ~ (r[2] > t)
        BY <1>1, <3>1, <3>2, <3>3, <4>1, <4>3
      <4> QED
        BY <4>2, <4>3
    <3>4. CASE ~ (r[1] < f)
      <4>1. lows = <<>>
        BY <3>4
      <4> HIDE DEF lows
      <4>2. CASE r[2] > t
        BY <1>2, <3>1, <3>2, <3>4, <4>1, <4>2
      <4>3. CASE ~ (r[2] > t)
        BY <3>1, <3>2, <3>4, <4>1, <4>3
      <4> QED
        BY <4>2, <4>3
    <3> QED
      BY <3>3, <3>4
  <2> HIDE DEF lows, highs
  <2>3. lows \o highs \in Seq(Spans)
    BY <2>2, ElemsOfBoth
  <2>4. Elems(lows \o highs) = (IF r[1] < f THEN {low} ELSE {})
                               \cup (IF r[2] > t THEN {high} ELSE {})
    BY <2>2, ElemsOfBoth
  <2> HIDE DEF low, high
  <2>5. ASSUME NEW b \in Missable
        PROVE  (\E x \in Elems(lows \o highs) : IsIn(b, x)) <=> IsIn(b, r) /\ b \notin f..t
    <3>1. (\E x \in Elems(lows \o highs) : IsIn(b, x))
          <=> (r[1] < f /\ IsIn(b, low)) \/ (r[2] > t /\ IsIn(b, high))
      BY <2>4
    <3> QED
      BY <1>0, <1>4, <1>6, <3>1 DEF Missable
  <2> QED
    BY <2>1, <2>3, <2>5 DEF Spread
<1> QED
  BY <1>5, <1>6

UnhealedTypeOK ==
    /\ ranges \in Seq(Spans)
    /\ clock \in 0..MaxClock
    /\ missingAt \in [Missable -> 0..Never]

(* Beside what is claimed of the list: its alarm was not set ahead.        *)
UnhealedInv ==
    /\ UnhealedTypeOK
    /\ since = Never \/ since \in 0..clock
    /\ UnhealedIsExact

(* The blocks on the list are those its ranges spread over.                *)
LEMMA ListedIsSpread == ranges \in Seq(Spans) => Listed = Spread(ranges)
  BY DEF Listed, Spread, Elems

(* Nothing is missing at the start.                                        *)
LEMMA UnhealedInitInv == UnhealedInit => UnhealedInv
<1> SUFFICES ASSUME UnhealedInit PROVE UnhealedInv
  OBVIOUS
<1>1. ranges \in Seq(Spans) /\ clock \in 0..MaxClock
  BY UnhealedAssumption DEF UnhealedInit
<1>2. missingAt \in [Missable -> 0..Never]
  BY UnhealedAssumption DEF UnhealedInit, Never
<1>3. Listed = {} /\ Missing = {}
  BY DEF UnhealedInit, Listed, Missing
<1> QED
  BY <1>1, <1>2, <1>3 DEF UnhealedInit, UnhealedInv, UnhealedTypeOK, UnhealedIsExact

(* A range that covers or touches f..t becomes what the two cover.         *)
LEMMA MergedCoversBoth ==
    ASSUME NEW r \in Spans, NEW f \in Missable, NEW t \in Missable, f <= t,
           Touches(r, f, t)
    PROVE  /\ Merged(r, f, t) \in Spans
           /\ \A b \in Missable : IsIn(b, Merged(r, f, t)) <=> IsIn(b, r) \/ b \in f..t
<1>1. /\ r[1] \in Missable /\ r[2] \in Missable /\ r[1] <= r[2]
      /\ f <= r[2] + 1 /\ t + 1 >= r[1]
  BY DEF Spans, Touches
<1> DEFINE lo == IF f < r[1] THEN f ELSE r[1]
           hi == IF t > r[2] THEN t ELSE r[2]
<1>2. lo \in Missable /\ hi \in Missable /\ lo <= hi
  BY <1>1, UnhealedAssumption DEF Missable
<1>3. \A b \in Missable : (lo <= b /\ b <= hi) <=> (r[1] <= b /\ b <= r[2]) \/ b \in f..t
  BY <1>1, UnhealedAssumption DEF Missable
<1> HIDE DEF lo, hi
<1>4. Merged(r, f, t) = <<lo, hi>>
  BY DEF Merged, lo, hi
<1> QED
  BY <1>2, <1>3, <1>4 DEF Spans, IsIn

(* What a failed heal does to the list: f..t is on it, and what is not on  *)
(* it any more was in the oldest range, pushed out by the cap.             *)
LEMMA RecordedSpread ==
    ASSUME UnhealedInv, NEW f \in Missable, NEW t \in Missable, RecordUnhealed(f, t)
    PROVE  /\ ranges' \in Seq(Spans) /\ ranges' # <<>>
           /\ Spread(ranges') \subseteq Spread(ranges) \cup (f..t)
           /\ f..t \subseteq Spread(ranges')
           /\ \A b \in Spread(ranges) :
                  b \in Spread(ranges') \/ (b \in Missing => b \in dropped')
<1> DEFINE near  == {i \in DOMAIN ranges : Touches(ranges[i], f, t)}
           first == CHOOSE i \in near : \A j \in near : i <= j
           full  == near = {} /\ Len(ranges) >= MaxRanges
<1>0. /\ ranges \in Seq(Spans) /\ f <= t
      /\ f \in Nat /\ t \in Nat /\ Missable \subseteq Nat
      /\ <<f, t>> \in Spans
      /\ \A b \in Missable : IsIn(b, <<f, t>>) <=> b \in f..t
      /\ f..t \subseteq Missable
      /\ \A i \in 1..Len(ranges) : ranges[i] \in Spans
  <2>1. ranges \in Seq(Spans) /\ f <= t
    BY DEF UnhealedInv, UnhealedTypeOK, RecordUnhealed
  <2>2. /\ f \in Nat /\ t \in Nat /\ Missable \subseteq Nat
        /\ f..t \subseteq Missable
    BY UnhealedAssumption DEF Missable
  <2> QED
    BY <2>1, <2>2 DEF Spans, IsIn
<1>1. CASE near # {}
  <2>1. first \in near
    <3>1. near \in SUBSET Nat
      BY <1>0
    <3>2. \E i \in near : \A j \in near : i <= j
      <4> HIDE DEF near
      <4> QED
        BY <1>1, <3>1, LeastNatural
    <3> QED
      BY <3>2
  <2>2. ranges' = [ranges EXCEPT ![first] = Merged(ranges[first], f, t)]
    BY <1>1 DEF RecordUnhealed
  <2>3. first \in 1..Len(ranges) /\ Touches(ranges[first], f, t)
    BY <1>0, <2>1
  <2> HIDE DEF first, near
  <2>4. /\ Merged(ranges[first], f, t) \in Spans
        /\ \A b \in Missable : IsIn(b, Merged(ranges[first], f, t))
                               <=> IsIn(b, ranges[first]) \/ b \in f..t
    BY <1>0, <2>3, MergedCoversBoth
  <2>5. /\ ranges' \in Seq(Spans) /\ Len(ranges') = Len(ranges)
        /\ \A i \in 1..Len(ranges) :
               ranges'[i] = IF i = first THEN Merged(ranges[first], f, t) ELSE ranges[i]
    BY <1>0, <2>2, <2>3, <2>4
  <2>6. ranges' # <<>>
    BY <2>3, <2>5
  <2>7. Spread(ranges') = Spread(ranges) \cup (f..t)
    <3>1. ASSUME NEW b \in Missable
          PROVE  (\E i \in 1..Len(ranges') : IsIn(b, ranges'[i]))
                 <=> (\E i \in 1..Len(ranges) : IsIn(b, ranges[i])) \/ b \in f..t
      BY <2>3, <2>4, <2>5
    <3> QED
      BY <1>0, <3>1 DEF Spread, Elems
  <2> QED
    BY <2>5, <2>6, <2>7
<1>2. CASE near = {}
  <2> DEFINE kept == IF full THEN Tail(ranges) ELSE ranges
  <2>1. /\ ranges' = Append(kept, <<f, t>>)
        /\ dropped' = (IF full THEN dropped \cup {b \in Missing : IsIn(b, ranges[1])}
                               ELSE dropped) \ (f..t)
    BY <1>2 DEF RecordUnhealed
  <2>2. full => Len(ranges) \in Nat \ {0}
    BY <1>0, UnhealedAssumption
  <2>3. /\ kept \in Seq(Spans) /\ Elems(kept) \subseteq Elems(ranges)
        /\ \A r \in Elems(ranges) : r \in Elems(kept) \/ (full /\ r = ranges[1])
    <3>1. CASE full
      <4>1. /\ Tail(ranges) \in Seq(Spans) /\ Len(Tail(ranges)) = Len(ranges) - 1
            /\ \A i \in 1..(Len(ranges) - 1) : Tail(ranges)[i] = ranges[i + 1]
        BY <1>0, <2>2, <3>1
      <4>2. ASSUME NEW i \in 1..Len(ranges)
            PROVE  ranges[i] \in Elems(Tail(ranges)) \/ i = 1
        <5>1. i # 1 => i - 1 \in 1..Len(Tail(ranges)) /\ ranges[i] = Tail(ranges)[i - 1]
          BY <1>0, <2>2, <3>1, <4>1
        <5> QED
          BY <5>1 DEF Elems
      <4>3. ASSUME NEW i \in 1..Len(Tail(ranges))
            PROVE  Tail(ranges)[i] \in Elems(ranges)
        <5>1. i + 1 \in 1..Len(ranges) /\ Tail(ranges)[i] = ranges[i + 1]
          BY <1>0, <2>2, <3>1, <4>1
        <5> QED
          BY <5>1 DEF Elems
      <4>4. kept = Tail(ranges)
        BY <3>1
      <4> HIDE DEF kept, full
      <4>5. ASSUME NEW r \in Elems(ranges) PROVE r \in Elems(kept) \/ r = ranges[1]
        BY <4>2, <4>4 DEF Elems
      <4> QED
        BY <3>1, <4>1, <4>3, <4>4, <4>5 DEF Elems
    <3>2. CASE ~ full
      BY <1>0, <3>2
    <3> QED
      BY <3>1, <3>2
  <2> HIDE DEF kept
  <2>4. /\ ranges' \in Seq(Spans) /\ ranges' # <<>>
        /\ Elems(ranges') = Elems(kept) \cup {<<f, t>>}
    <3> DEFINE new == <<f, t>>
    <3>1. ranges' = Append(kept, new)
      BY <2>1
    <3>2. kept \in Seq(Spans) /\ new \in Spans
      BY <1>0, <2>3
    <3> HIDE DEF new
    <3>3. /\ Append(kept, new) \in Seq(Spans) /\ Append(kept, new) # <<>>
          /\ Elems(Append(kept, new)) = Elems(kept) \cup {new}
      BY <3>2, ElemsOfOneMore
    <3>4. ranges' \in Seq(Spans) /\ ranges' # <<>>
          /\ Elems(ranges') = Elems(kept) \cup {new}
      BY <3>1, <3>3
    <3> QED
      BY <3>4 DEF new
  <2>5. ASSUME NEW b \in Spread(ranges), b \notin Spread(ranges'), b \in Missing
        PROVE  b \in dropped'
    <3>1. PICK r \in Elems(ranges) : IsIn(b, r)
      BY DEF Spread
    <3>2. full /\ r = ranges[1] /\ b \notin f..t
      BY <1>0, <2>3, <2>4, <2>5, <3>1 DEF Spread
    <3> QED
      BY <2>1, <2>5, <3>1, <3>2
  <2> QED
    BY <1>0, <2>3, <2>4, <2>5 DEF Spread
<1> QED
  BY <1>1, <1>2

(* A heal takes f..t, and nothing else, from the list.                     *)
LEMMA ClearedSpread ==
    ASSUME UnhealedInv, NEW f \in Missable, NEW t \in Missable, ClearUnhealed(f, t)
    PROVE  /\ ranges' \in Seq(Spans)
           /\ Spread(ranges') = Spread(ranges) \ (f..t)
           /\ ranges = <<>> => ranges' = <<>>
<1> DEFINE left == [i \in DOMAIN ranges |-> Trimmed(ranges[i], f, t)]
<1>0. /\ ranges \in Seq(Spans) /\ f <= t
      /\ ranges' = FlattenSeq(left)
      /\ Len(ranges) \in Nat /\ DOMAIN ranges = 1..Len(ranges)
      /\ \A i \in 1..Len(ranges) : ranges[i] \in Spans
  <2>1. ranges \in Seq(Spans) /\ f <= t /\ ranges' = FlattenSeq(left)
    BY DEF UnhealedInv, UnhealedTypeOK, ClearUnhealed
  <2> QED
    BY <2>1
<1>1. ASSUME NEW i \in 1..Len(ranges)
      PROVE  /\ left[i] \in Seq(Spans)
             /\ Spread(left[i]) = {b \in Missable : IsIn(b, ranges[i])} \ (f..t)
  BY <1>0, TrimmedIsTheRest
<1>2. left \in Seq(Seq(Spans)) /\ Len(left) = Len(ranges)
  <2>1. left = [i \in 1..Len(ranges) |-> left[i]]
    BY <1>0
  <2> HIDE DEF left
  <2> QED
    BY <1>0, <1>1, <2>1
<1> HIDE DEF left
<1>3. /\ FlattenSeq(left) \in Seq(Spans)
      /\ \A x : x \in Elems(FlattenSeq(left))
                <=> \E i \in 1..Len(left) : x \in Elems(left[i])
  BY <1>2, FlattenHolds
<1>4. ASSUME NEW b \in Missable
      PROVE  b \in Spread(ranges') <=> b \in Spread(ranges) /\ b \notin f..t
  <2>1. b \in Spread(ranges') <=> \E i \in 1..Len(ranges) : b \in Spread(left[i])
    BY <1>0, <1>2, <1>3 DEF Spread
  <2>2. (\E i \in 1..Len(ranges) : b \in Spread(left[i]))
        <=> (\E i \in 1..Len(ranges) : IsIn(b, ranges[i])) /\ b \notin f..t
    BY <1>1
  <2>3. b \in Spread(ranges) <=> \E i \in 1..Len(ranges) : IsIn(b, ranges[i])
    BY DEF Spread, Elems
  <2> QED
    BY <2>1, <2>2, <2>3
<1>5. ranges = <<>> => ranges' = <<>>
  <2> SUFFICES ASSUME ranges = <<>> PROVE ranges' = <<>>
    OBVIOUS
  <2>1. Len(left) = 0 /\ left = <<>>
    BY <1>2
  <2> QED
    BY <1>0, <2>1 DEF FlattenSeq
<1>6. Spread(ranges') \subseteq Missable /\ Spread(ranges) \subseteq Missable
  BY DEF Spread
<1> QED
  BY <1>0, <1>3, <1>4, <1>5, <1>6

(* Failed heals, heals and the clock keep the list exact.                  *)
LEMMA UnhealedStepInv == UnhealedInv /\ [UnhealedNext]_unhealedVars => UnhealedInv'
<1> SUFFICES ASSUME UnhealedInv, [UnhealedNext]_unhealedVars PROVE UnhealedInv'
  OBVIOUS
<1>0. /\ UnhealedTypeOK
      /\ since = Never \/ since \in 0..clock
      /\ Spread(ranges) \subseteq Missing
      /\ Missing \subseteq Spread(ranges) \cup dropped
      /\ \A b \in Spread(ranges) : since <= missingAt[b]
      /\ since = Never <=> ranges = <<>>
      /\ Never \in Nat /\ Never = MaxClock + 1 /\ MaxClock \in Nat /\ clock \in 0..MaxClock
      /\ missingAt \in [Missable -> 0..Never]
      /\ \A b \in Missable : b \in Missing <=> missingAt[b] # Never
      /\ Spread(ranges) \subseteq Missable /\ Missing \subseteq Missable
  BY UnhealedAssumption, ListedIsSpread
  DEF UnhealedInv, UnhealedTypeOK, UnhealedIsExact, Never, Missing, Spread
<1>1. ASSUME ClockTicks PROVE UnhealedInv'
  <2>1. UnhealedIsExact'
    BY <1>1 DEF UnhealedInv, ClockTicks, UnhealedIsExact, Listed, Missing
  <2>2. UnhealedTypeOK' /\ (since' = Never \/ since' \in 0..clock')
    <3>1. /\ clock < MaxClock /\ clock' = clock + 1 /\ since' = since
          /\ ranges' = ranges /\ missingAt' = missingAt
      BY <1>1 DEF ClockTicks
    <3>2. clock' \in 0..MaxClock /\ 0..clock \subseteq 0..clock'
      BY <1>0, <3>1
    <3>3. UnhealedTypeOK'
      BY <1>0, <3>1, <3>2 DEF UnhealedTypeOK
    <3> QED
      BY <1>0, <3>1, <3>2, <3>3
  <2> QED
    BY <2>1, <2>2 DEF UnhealedInv
<1>2. ASSUME NEW f \in Missable, NEW t \in Missable, RecordUnhealed(f, t)
      PROVE  UnhealedInv'
  <2>1. /\ ranges' \in Seq(Spans) /\ ranges' # <<>>
        /\ Spread(ranges') \subseteq Spread(ranges) \cup (f..t)
        /\ f..t \subseteq Spread(ranges')
        /\ \A b \in Spread(ranges) :
               b \in Spread(ranges') \/ (b \in Missing => b \in dropped')
    BY <1>2, RecordedSpread
  <2>2. /\ clock' = clock
        /\ since' = IF ranges = <<>> THEN clock ELSE since
        /\ missingAt' = [b \in Missable |->
               IF b \in f..t /\ (b \notin Missing \/ b \in dropped)
               THEN clock ELSE missingAt[b]]
        /\ dropped \ (f..t) \subseteq dropped'
    BY <1>2 DEF RecordUnhealed, SinceRecorded
  <2>3. since' \in 0..clock /\ since' # Never
    <3>1. \A x \in 0..clock : x # Never
      BY <1>0
    <3>2. CASE ranges = <<>>
      <4>1. since' = clock /\ clock \in 0..clock
        BY <1>0, <2>2, <3>2
      <4> QED
        BY <3>1, <4>1
    <3>3. CASE ranges # <<>>
      <4>1. since' = since /\ since \in 0..clock
        BY <1>0, <2>2, <3>3
      <4> QED
        BY <3>1, <4>1
    <3> QED
      BY <3>2, <3>3
  <2>4. missingAt' \in [Missable -> 0..Never]
    BY <1>0, <2>2
  <2>5. Listed' = Spread(ranges')
    BY <2>1 DEF Listed, Spread, Elems
  <2>6. Missing' = Missing \cup (f..t)
    <3>1. f..t \subseteq Missable
      BY UnhealedAssumption DEF Missable
    <3>2. \A b \in Missable : missingAt'[b] # Never <=> b \in Missing \/ b \in f..t
      BY <1>0, <2>2
    <3> QED
      BY <1>0, <3>1, <3>2 DEF Missing
  <2>7. ASSUME NEW b \in Spread(ranges') PROVE since' <= missingAt'[b]
    <3>1. b \in Missable
      BY DEF Spread
    <3>2. CASE b \in f..t /\ (b \notin Missing \/ b \in dropped)
      BY <1>0, <2>2, <2>3, <3>1, <3>2
    <3>3. CASE ~ (b \in f..t /\ (b \notin Missing \/ b \in dropped))
      <4>1. b \in Spread(ranges)
        BY <1>0, <2>1, <3>3
      <4>2. ranges # <<>>
        BY <4>1 DEF Spread, Elems
      <4> QED
        BY <1>0, <2>2, <3>1, <3>3, <4>1, <4>2
    <3> QED
      BY <3>2, <3>3
  <2>8. UnhealedIsExact'
    <3>1. Spread(ranges') \subseteq Missing'
      BY <1>0, <2>1, <2>6
    <3>2. Missing' \subseteq Spread(ranges') \cup dropped'
      BY <1>0, <2>1, <2>2, <2>6
    <3> QED
      BY <2>1, <2>3, <2>5, <2>7, <3>1, <3>2 DEF UnhealedIsExact
  <2> QED
    BY <1>0, <2>1, <2>2, <2>3, <2>4, <2>8 DEF UnhealedInv, UnhealedTypeOK
<1>3. ASSUME NEW f \in Missable, NEW t \in Missable, ClearUnhealed(f, t)
      PROVE  UnhealedInv'
  <2>1. /\ ranges' \in Seq(Spans)
        /\ Spread(ranges') = Spread(ranges) \ (f..t)
        /\ ranges = <<>> => ranges' = <<>>
    BY <1>3, ClearedSpread
  <2>2. /\ clock' = clock
        /\ since' = IF ranges' = <<>> THEN Never ELSE since
        /\ missingAt' = [b \in Missable |-> IF b \in f..t THEN Never ELSE missingAt[b]]
        /\ dropped' = dropped \ (f..t)
    BY <1>3 DEF ClearUnhealed
  <2>3. missingAt' \in [Missable -> 0..Never]
    BY <1>0, <2>2
  <2>4. Listed' = Spread(ranges')
    BY <2>1 DEF Listed, Spread, Elems
  <2>5. Missing' = Missing \ (f..t)
    <3>1. \A b \in Missable : missingAt'[b] # Never <=> b \in Missing /\ b \notin f..t
      BY <1>0, <2>2
    <3> QED
      BY <1>0, <3>1 DEF Missing
  <2>6. ASSUME NEW b \in Spread(ranges') PROVE since' <= missingAt'[b]
    <3>1. ranges' # <<>> /\ b \in Spread(ranges) /\ b \notin f..t /\ b \in Missable
      BY <1>0, <2>1 DEF Spread, Elems
    <3> QED
      BY <1>0, <2>2, <3>1
  <2>7. UnhealedIsExact'
    BY <1>0, <2>1, <2>2, <2>4, <2>5, <2>6 DEF UnhealedIsExact
  <2> QED
    BY <1>0, <2>1, <2>2, <2>3, <2>7 DEF UnhealedInv, UnhealedTypeOK
<1>4. CASE UNCHANGED unhealedVars
  BY <1>4 DEF unhealedVars, UnhealedInv, UnhealedTypeOK, UnhealedIsExact, Listed, Missing
<1> QED
  BY <1>1, <1>2, <1>3, <1>4 DEF UnhealedNext

(* The list names what is missing, and nothing else, but for the blocks the *)
(* cap pushed out, and its alarm runs from before the oldest of them, for   *)
(* any cap and chain and however ranges overlap, merge and are split        *)
(* (sync-health.ts, recordUnhealed and clearUnhealed).                      *)
THEOREM UnhealedListIsExact == UnhealedSpec => []UnhealedIsExact
<1>1. UnhealedInv => UnhealedIsExact
  BY DEF UnhealedInv
<1> QED
  BY <1>1, UnhealedInitInv, UnhealedStepInv, PTL DEF UnhealedSpec
=============================================================================
