------------------------- MODULE FrameHandoffProofs -------------------------
(***************************************************************************)
(* The hand-off gate for any set of streaming threads and any bound: the   *)
(* places taken are the frames held, so no more than the bound are held.   *)
(***************************************************************************)
EXTENDS FrameHandoff, FiniteSetTheorems, TLAPS

IInv == TypeOK /\ IsFiniteSet(Posting) /\ Paired

Bounded == Held <= kMaxInFlight

LEMMA InitInv == Init => IInv
PROOF
<1> SUFFICES ASSUME Init PROVE IInv
  OBVIOUS
<1>1. Posting = {}
  BY DEF Init, Posting
<1>2. IsFiniteSet(Posting) /\ Cardinality(Posting) = 0
  BY <1>1, FS_EmptySet
<1>3. kMaxInFlight \in Nat /\ 0 \in 0 .. kMaxInFlight
  BY MaxAssumption
<1>4. pc \in [Threads -> {"out", "exchange", "post"}] /\ \A t \in Threads : pc[t] = "out"
  BY DEF Init
<1>5. TypeOK
  BY <1>3, <1>4 DEF Init, TypeOK
<1> QED
  BY <1>2, <1>5 DEF IInv, Paired, Held, Init

\* Nobody posts but those who did.
LEMMA SamePosting ==
    ASSUME IInv, NEW t \in Threads, pc[t] # "post",
           NEW p \in {"out", "exchange"}, pc' = [pc EXCEPT ![t] = p]
    PROVE  Posting' = Posting
PROOF
BY DEF Posting, IInv, TypeOK

\* A load, a failed exchange included, changes no place.
LEMMA SeenKeeps ==
    ASSUME IInv, NEW t \in Threads, pc[t] # "post", Seen(t, inFlight),
           UNCHANGED <<inFlight, queue, feeding>>
    PROVE  IInv'
PROOF
<1>1. TypeOK'
  BY MaxAssumption DEF IInv, TypeOK, Seen
<1>2. Posting' = Posting
  BY DEF IInv, TypeOK, Posting, Seen
<1> QED
  BY <1>1, <1>2 DEF IInv, Paired, Held

LEMMA StepInv == IInv /\ [Next]_vars => IInv'
PROOF
<1> SUFFICES ASSUME IInv, [Next]_vars PROVE IInv'
  OBVIOUS
<1> USE MaxAssumption
<1>1. ASSUME NEW t \in Threads, Load(t) PROVE IInv'
  BY <1>1, SeenKeeps DEF Load
<1>2. ASSUME NEW t \in Threads, Exchange(t) PROVE IInv'
  <2>1. CASE Seen(t, inFlight) /\ UNCHANGED inFlight
    BY <1>2, <2>1, SeenKeeps DEF Exchange
  <2>2. CASE /\ inFlight = cur[t] /\ inFlight' = cur[t] + 1
             /\ pc' = [pc EXCEPT ![t] = "post"] /\ UNCHANGED cur
    <3>1. TypeOK'
      BY <1>2, <2>2 DEF IInv, TypeOK, Exchange
    <3>2. Posting' = Posting \cup {t} /\ t \notin Posting
      BY <1>2, <2>2 DEF IInv, TypeOK, Exchange, Posting
    <3>3. /\ IsFiniteSet(Posting')
          /\ Cardinality(Posting') = Cardinality(Posting) + 1
      BY <3>2, FS_AddElement DEF IInv
    <3>4. Cardinality(Posting) \in Nat
      BY FS_CardinalityType DEF IInv
    <3> QED
      BY <1>2, <2>2, <3>1, <3>3, <3>4 DEF IInv, TypeOK, Paired, Held, Exchange
  <2> QED
    BY <1>2, <2>1, <2>2 DEF Exchange
<1>3. ASSUME NEW t \in Threads, Post(t) PROVE IInv'
  <2>1. TypeOK'
    BY <1>3 DEF IInv, TypeOK, Post
  <2>2. Posting' = Posting \ {t} /\ t \in Posting
    BY <1>3 DEF IInv, TypeOK, Post, Posting
  <2>3. /\ IsFiniteSet(Posting')
        /\ Cardinality(Posting') = Cardinality(Posting) - 1
    BY <2>2, FS_RemoveElement DEF IInv
  <2>4. Cardinality(Posting) \in Nat
    BY FS_CardinalityType DEF IInv
  <2> QED
    BY <1>3, <2>1, <2>3, <2>4 DEF IInv, TypeOK, Paired, Held, Post
<1>4. CASE Feed
  <2>1. Posting' = Posting
    BY <1>4 DEF Feed, Posting
  <2>2. Cardinality(Posting) \in Nat
    BY FS_CardinalityType DEF IInv
  <2> QED
    BY <1>4, <2>1, <2>2 DEF Feed, IInv, TypeOK, Paired, Held
<1>5. CASE release
  <2>1. Posting' = Posting
    BY <1>5 DEF release, Posting
  <2>2. Cardinality(Posting) \in Nat
    BY FS_CardinalityType DEF IInv
  <2>3. inFlight > 0
    BY <1>5, <2>2 DEF release, IInv, TypeOK, Paired, Held
  <2>4. TypeOK'
    <3>1. inFlight' \in 0 .. kMaxInFlight
      BY <1>5, <2>3 DEF release, IInv, TypeOK
    <3>2. feeding' \in BOOLEAN
      BY <1>5 DEF release
    <3> QED
      BY <1>5, <3>1, <3>2 DEF release, IInv, TypeOK
  <2>5. Held = Cardinality(Posting) + queue + 1 /\ Held' = Cardinality(Posting) + queue + 0
    BY <1>5, <2>1 DEF release, Held
  <2>6. Held' = inFlight'
    BY <1>5, <2>2, <2>5 DEF release, IInv, TypeOK, Paired
  <2> QED
    BY <1>5, <2>1, <2>4, <2>6 DEF IInv, Paired
<1>6. CASE UNCHANGED vars
  BY <1>6 DEF vars, IInv, TypeOK, Paired, Held, Posting
<1> QED
  BY <1>1, <1>2, <1>3, <1>4, <1>5, <1>6 DEF Next

LEMMA SpecInv == Spec => []IInv
PROOF
BY InitInv, StepInv, PTL DEF Spec

\* The counter stays between 0 and its bound, whatever threads there are: no
\* release is without its tryAcquire, and a failed exchange is tested again.
THEOREM SpecTypeOK == Spec => []TypeOK
PROOF
BY SpecInv, PTL DEF IInv

\* Every place taken is one frame that is being posted, queued or shown.
THEOREM SpecPaired == Spec => []Paired
PROOF
BY SpecInv, PTL DEF IInv

\* A stream never holds more than kMaxInFlight frames in the hand-off, however
\* far the main thread falls behind.
THEOREM SpecBounded == Spec => []Bounded
PROOF
<1>1. IInv => Bounded
  BY DEF IInv, Bounded, TypeOK, Paired
<1> QED
  BY <1>1, SpecInv, PTL

=============================================================================
