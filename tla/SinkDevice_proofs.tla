------------------------- MODULE SinkDevice_proofs --------------------------
(* Machine-checked proofs about the hold / releaseHold / join protocol, for  *)
(* every set of messages, any number of them and each of the three loops.    *)
EXTENDS SinkDevice, FiniteSetTheorems, TLAPS

(* The flag is set from hold() to releaseHold(). *)
FlagFollowsOwner == hold <=> owner \in {"holding", "running"}

(* The thread runs from its start to its join, and ends only once released. *)
ThreadFollowsOwner ==
  /\ rx = "none" <=> owner \in {"new", "holding", "joined"}
  /\ rx = "exited" => owner \in {"flagged", "joining"}
  /\ rx = "more" => owner \in {"flagged", "joining"} /\ loop = "draining"

IInv == /\ TypeOK
        /\ FlagFollowsOwner
        /\ ThreadFollowsOwner
        /\ NoStuckJoin

LEMMA InitInv == Init => IInv
<1> SUFFICES ASSUME Init PROVE IInv
  OBVIOUS
<1> USE DEF Init
<1>1. TypeOK
  <2>1. hold \in BOOLEAN
    OBVIOUS
  <2>2. loop \in Loops
    OBVIOUS
  <2>3. inQ \in Seq(Messages \cup {Sentinel})
    OBVIOUS
  <2> QED
    BY <2>1, <2>2, <2>3 DEF TypeOK
<1>2. FlagFollowsOwner
  BY DEF FlagFollowsOwner
<1>3. ThreadFollowsOwner /\ NoStuckJoin
  BY DEF ThreadFollowsOwner, NoStuckJoin
<1> QED
  BY <1>1, <1>2, <1>3 DEF IInv

LEMMA StepInv == IInv /\ [Next]_vars => IInv'
<1> SUFFICES ASSUME IInv, [Next]_vars PROVE IInv'
  OBVIOUS
<1> USE DEF IInv, TypeOK, FlagFollowsOwner, ThreadFollowsOwner, NoStuckJoin
<1>1. CASE Hold
  BY <1>1 DEF Hold
<1>2. CASE Start
  BY <1>2 DEF Start
<1>3. CASE ReleaseFlag
  <2>1. TypeOK'
    BY <1>3 DEF ReleaseFlag
  <2>2. FlagFollowsOwner'
    BY <1>3 DEF ReleaseFlag
  <2>3. ThreadFollowsOwner' /\ NoStuckJoin'
    BY <1>3 DEF ReleaseFlag
  <2> QED BY <2>1, <2>2, <2>3
<1>4. CASE ReleaseSentinel
  <2>1. inQ' \in Seq(Messages \cup {Sentinel}) /\ inQ' # <<>>
        /\ Len(inQ') = Len(inQ) + 1
    BY <1>4 DEF ReleaseSentinel
  <2> QED BY <1>4, <2>1 DEF ReleaseSentinel
<1>5. CASE Join
  BY <1>5 DEF Join
<1>6. ASSUME NEW x \in Messages, Push(x) PROVE IInv'
  <2>1. inQ' \in Seq(Messages \cup {Sentinel}) /\ inQ' # <<>>
        /\ Len(inQ') = Len(inQ) + 1
    BY <1>6 DEF Push
  <2> QED BY <1>6, <2>1 DEF Push
<1>7. CASE TestHold
  BY <1>7 DEF TestHold
<1>8. CASE TestMore
  BY <1>8 DEF TestMore
<1>9. CASE Pop
  <2>1. CASE inQ # <<>>
    <3>1. Tail(inQ) \in Seq(Messages \cup {Sentinel}) /\ Len(Tail(inQ)) = Len(inQ) - 1
      BY <2>1
    <3> QED BY <1>9, <2>1, <3>1 DEF Pop
  <2>2. CASE inQ = <<>>
    BY <1>9, <2>2 DEF Pop
  <2> QED BY <2>1, <2>2
<1>10. CASE UNCHANGED vars
  BY <1>10 DEF vars
<1> QED
  BY <1>1, <1>2, <1>3, <1>4, <1>5, <1>6, <1>7, <1>8, <1>9, <1>10
     DEF Next, Owner, Thread, Release

(* The inductive invariant of the protocol. *)
THEOREM Inductive == Spec => []IInv
  BY InitInv, StepInv, PTL DEF Spec

(* The protocol is well typed. *)
THEOREM TypeCorrect == Spec => []TypeOK
  BY Inductive, PTL DEF IInv

(* No thread is left asleep by releaseHold(): clearing the flag first and    *)
(* queueing the empty message second is enough for each of the three loops.  *)
THEOREM JoinIsNeverStuck == Spec => []NoStuckJoin
  BY Inductive, PTL DEF IInv

(* The console's loop hands over all that was queued before its release. *)
THEOREM NothingLeftBehind == Spec => EndsDrained
<1>1. IInv /\ [Next]_vars =>
        [(loop = "draining" /\ rx # "exited" /\ rx' = "exited")
           => inQ = <<>> /\ ~hold]_vars
  <2> SUFFICES ASSUME IInv, Next, loop = "draining", rx # "exited", rx' = "exited"
               PROVE  inQ = <<>> /\ ~hold
    BY DEF vars
  <2>1. TestMore
    BY DEF Next, Owner, Thread, Release, Hold, Start, ReleaseFlag,
           ReleaseSentinel, Join, Push, TestHold, Pop
  <2> QED
    BY <2>1 DEF TestMore, IInv, FlagFollowsOwner, ThreadFollowsOwner
<1> QED
  BY Inductive, <1>1, PTL DEF Spec, EndsDrained

-----------------------------------------------------------------------------
(* The sentinels of a queue, and what push() and pop() do to their number.   *)
SentinelsOf(q) == {i \in DOMAIN q : q[i] = Sentinel}

Count(q) == Cardinality(SentinelsOf(q))

LEMMA CountType ==
  ASSUME NEW S, NEW q \in Seq(S)
  PROVE  IsFiniteSet(SentinelsOf(q)) /\ Count(q) \in Nat
<1>1. IsFiniteSet(1..Len(q))
  BY FS_Interval
<1>2. SentinelsOf(q) \in SUBSET (1..Len(q))
  BY DEF SentinelsOf
<1> QED
  BY <1>1, <1>2, FS_Subset, FS_CardinalityType DEF Count

LEMMA CountEmpty == Count(<<>>) = 0
<1>1. SentinelsOf(<<>>) = {}
  BY DEF SentinelsOf
<1> QED
  BY <1>1, FS_EmptySet DEF Count

LEMMA CountAppend ==
  ASSUME NEW S, NEW q \in Seq(S), NEW x \in S
  PROVE  Count(Append(q, x)) = IF x = Sentinel THEN Count(q) + 1 ELSE Count(q)
<1> DEFINE last == Len(q) + 1
<1>1. SentinelsOf(Append(q, x))
        = IF x = Sentinel THEN SentinelsOf(q) \cup {last} ELSE SentinelsOf(q)
  BY DEF SentinelsOf
<1>2. last \notin SentinelsOf(q)
  BY DEF SentinelsOf
<1>3. IsFiniteSet(SentinelsOf(q))
  BY CountType
<1> HIDE DEF last
<1> QED
  BY <1>1, <1>2, <1>3, FS_AddElement DEF Count

LEMMA CountTail ==
  ASSUME NEW S, NEW q \in Seq(S), q # <<>>
  PROVE  Count(Tail(q)) <= Count(q)
<1> DEFINE later == [i \in SentinelsOf(Tail(q)) |-> i + 1]
<1>1. ASSUME NEW i \in SentinelsOf(Tail(q))
      PROVE  i \in Nat /\ i + 1 \in SentinelsOf(q)
  BY DEF SentinelsOf
<1>2. later \in Injection(SentinelsOf(Tail(q)), SentinelsOf(q))
  <2>1. later \in [SentinelsOf(Tail(q)) -> SentinelsOf(q)]
    BY <1>1
  <2>2. ASSUME NEW i \in SentinelsOf(Tail(q)), NEW j \in SentinelsOf(Tail(q)),
               later[i] = later[j]
        PROVE  i = j
    BY <2>2, <1>1
  <2> QED
    BY <2>1, <2>2 DEF Injection, IsInjective
<1>3. IsFiniteSet(SentinelsOf(q))
  BY CountType
<1> QED
  BY <1>2, <1>3, FS_Injection DEF Count

(* A sentinel is there once the device has been released, and for the        *)
(* console perhaps the last session's.  When its thread ends it has taken    *)
(* all that there were.                                                      *)
CountFollowsOwner ==
  /\ owner \notin {"joining", "joined"} /\ loop # "draining" => Count(inQ) = 0
  /\ owner # "joining" \/ loop # "draining" => Count(inQ) <= 1
  /\ owner = "joining" => Count(inQ) <= 2
  /\ owner = "flagged" /\ rx = "exited" => Count(inQ) = 0
  /\ owner = "joining" /\ rx = "exited" => Count(inQ) <= 1

LEMMA InitCount == Init => CountFollowsOwner
  BY CountEmpty DEF Init, CountFollowsOwner

LEMMA StepCount == IInv /\ CountFollowsOwner /\ [Next]_vars => CountFollowsOwner'
<1> SUFFICES ASSUME IInv, CountFollowsOwner, [Next]_vars PROVE CountFollowsOwner'
  OBVIOUS
<1> DEFINE Queueable == Messages \cup {Sentinel}
<1>a. inQ \in Seq(Queueable) /\ loop \in LoopKinds
  BY LoopsAssumption DEF IInv, TypeOK
<1>b. Count(inQ) \in Nat
  BY <1>a, CountType
<1> USE DEF FlagFollowsOwner, ThreadFollowsOwner, CountFollowsOwner
<1>1. CASE Hold
  BY <1>1, <1>b DEF Hold, IInv
<1>2. CASE Start
  BY <1>2, <1>b DEF Start, IInv
<1>3. CASE ReleaseFlag
  BY <1>3, <1>b DEF ReleaseFlag, IInv
<1>4. CASE ReleaseSentinel
  <2>1. Count(inQ') = Count(inQ) + 1
    BY <1>4, <1>a, CountAppend DEF ReleaseSentinel
  <2> QED
    BY <1>4, <1>b, <2>1 DEF ReleaseSentinel, IInv
<1>5. CASE Join
  BY <1>5, <1>b DEF Join, IInv
<1>6. ASSUME NEW x \in Messages, Push(x) PROVE CountFollowsOwner'
  <2>1. Count(inQ') = Count(inQ)
    BY <1>6, <1>a, CountAppend, SentinelAssumption DEF Push
  <2> QED
    BY <1>6, <1>b, <2>1 DEF Push
<1>7. CASE TestHold
  BY <1>7, <1>b DEF TestHold, IInv
<1>8. CASE TestMore
  BY <1>8, <1>b, CountEmpty DEF TestMore, IInv
<1>9. CASE Pop
  <2>1. CASE inQ # <<>> /\ inQ' = Tail(inQ)
    <3>1. Count(inQ') <= Count(inQ)
      BY <2>1, <1>a, CountTail
    <3>2. Count(inQ') \in Nat
      <4>1. Tail(inQ) \in Seq(Queueable)
        BY <2>1, <1>a
      <4> QED
        BY <2>1, <4>1, CountType
    <3> QED
      BY <1>9, <1>b, <3>1, <3>2 DEF Pop
  <2>2. CASE UNCHANGED inQ
    BY <1>9, <1>b, <2>2 DEF Pop
  <2> QED
    BY <1>9, <2>1, <2>2 DEF Pop
<1>10. CASE UNCHANGED vars
  BY <1>10 DEF vars
<1> QED
  BY <1>1, <1>2, <1>3, <1>4, <1>5, <1>6, <1>7, <1>8, <1>9, <1>10
     DEF Next, Owner, Thread, Release

(* Sentinels that threads leave behind when they end early do not pile up,   *)
(* over any number of sessions.                                              *)
THEOREM SentinelsStayFew == Spec => []FewSentinels
<1>1. IInv /\ CountFollowsOwner => FewSentinels
  <2>1. IInv => Count(inQ) \in Nat
    BY CountType DEF IInv, TypeOK
  <2> QED
    BY <2>1 DEF CountFollowsOwner, FewSentinels, Sentinels, SentinelsOf, Count
<1> QED
  BY InitInv, StepInv, InitCount, StepCount, <1>1, PTL DEF Spec
=============================================================================
