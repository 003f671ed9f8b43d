-------------------------- MODULE SafeQueue_proofs --------------------------
(* Machine-checked proofs about SafeQueue: for every number of producers and *)
(* consumers, every set of items and every bound.                            *)
EXTENDS SafeQueue, FiniteSetTheorems, TLAPS

(* Whoever is on the way to taking an item, or about to signal one. *)
Takers == {t \in Threads :
             pc[t] \in {"notify", "woken", "wait_test", "try_test", "front", "pop"}}

(* The counted form of NoLostWakeup: while a consumer sleeps, the queue is   *)
(* no longer than the threads that will take an item or signal a sleeper.    *)
SleepersCovered == Waiting # {} => Len(data) <= Cardinality(Takers)

IInv == TypeOK /\ MutualExclusion /\ NeverPopsEmpty /\ SleepersCovered

(* Every state of the queue is well typed. *)
LEMMA TypeInit == Init => TypeOK
  BY DEF Init, TypeOK, ProducerPCs, ConsumerPCs, Threads

LEMMA TypeStep == TypeOK /\ NeverPopsEmpty /\ [Next]_vars => TypeOK'
<1> SUFFICES ASSUME TypeOK, NeverPopsEmpty, [Next]_vars PROVE TypeOK'
  OBVIOUS
<1> USE DEF TypeOK, ProducerPCs, ConsumerPCs, Goto, Acquire, Release, Threads
<1> USE ThreadsAssumption
<1>1. ASSUME NEW p \in Producers, NEW x \in Items, PushLock(p, x) PROVE TypeOK'
  BY <1>1 DEF PushLock
<1>2. ASSUME NEW p \in Producers, PushAppend(p) PROVE TypeOK'
  BY <1>2 DEF PushAppend
<1>3. ASSUME NEW p \in Producers, PushNotify(p) PROVE TypeOK'
  BY <1>3 DEF PushNotify, Waiting
<1>4. ASSUME NEW t \in Threads, Unlock(t) PROVE TypeOK'
  BY <1>4 DEF Unlock
<1>5. ASSUME NEW c \in Consumers, WaitLock(c) PROVE TypeOK'
  BY <1>5 DEF WaitLock
<1>6. ASSUME NEW c \in Consumers, WaitTest(c) PROVE TypeOK'
  BY <1>6 DEF WaitTest
<1>7. ASSUME NEW c \in Consumers, Reacquire(c) PROVE TypeOK'
  BY <1>7 DEF Reacquire
<1>8. ASSUME NEW c \in Consumers, SpuriousWakeup(c) PROVE TypeOK'
  BY <1>8 DEF SpuriousWakeup
<1>9. ASSUME NEW c \in Consumers, TryLock(c) PROVE TypeOK'
  BY <1>9 DEF TryLock
<1>10. ASSUME NEW c \in Consumers, TryTest(c) PROVE TypeOK'
  BY <1>10 DEF TryTest
<1>11. ASSUME NEW c \in Consumers, Front(c) PROVE TypeOK'
  <2>1. Head(data) \in Items
    BY <1>11 DEF Front, NeverPopsEmpty
  <2> QED BY <1>11, <2>1 DEF Front
<1>12. ASSUME NEW c \in Consumers, Pop(c) PROVE TypeOK'
  <2>1. Tail(data) \in Seq(Items)
    BY <1>12 DEF Pop, NeverPopsEmpty
  <2> QED BY <1>12, <2>1 DEF Pop
<1>13. CASE UNCHANGED vars
  BY <1>13 DEF vars
<1> QED
  BY <1>1, <1>2, <1>3, <1>4, <1>5, <1>6, <1>7, <1>8, <1>9, <1>10, <1>11,
     <1>12, <1>13 DEF Next, ProducerStep, ConsumerStep

(* The mutex is held by exactly the one thread inside the locked region. *)
LEMMA MutexStep ==
  TypeOK /\ MutualExclusion /\ [Next]_vars => MutualExclusion'
<1> SUFFICES ASSUME TypeOK, MutualExclusion, [Next]_vars
             PROVE  MutualExclusion'
  OBVIOUS
<1> USE DEF TypeOK, MutualExclusion, Unlocked, Goto, Acquire, Release, Threads
<1> USE ThreadsAssumption
<1>1. ASSUME NEW p \in Producers, NEW x \in Items, PushLock(p, x)
      PROVE  MutualExclusion'
  BY <1>1 DEF PushLock
<1>2. ASSUME NEW p \in Producers, PushAppend(p) PROVE MutualExclusion'
  BY <1>2 DEF PushAppend
<1>3. ASSUME NEW p \in Producers, PushNotify(p) PROVE MutualExclusion'
  BY <1>3 DEF PushNotify, Waiting, ProducerPCs, ConsumerPCs
<1>4. ASSUME NEW t \in Threads, Unlock(t) PROVE MutualExclusion'
  BY <1>4 DEF Unlock
<1>5. ASSUME NEW c \in Consumers, WaitTest(c) PROVE MutualExclusion'
  BY <1>5 DEF WaitTest
<1>6. ASSUME NEW c \in Consumers,
             WaitLock(c) \/ Reacquire(c) \/ TryLock(c)
      PROVE  MutualExclusion'
  BY <1>6 DEF WaitLock, Reacquire, TryLock
<1>7. ASSUME NEW c \in Consumers, SpuriousWakeup(c) PROVE MutualExclusion'
  BY <1>7 DEF SpuriousWakeup
<1>8. ASSUME NEW c \in Consumers, TryTest(c) \/ Front(c) \/ Pop(c)
      PROVE  MutualExclusion'
  BY <1>8 DEF TryTest, Front, Pop
<1>9. CASE UNCHANGED vars
  BY <1>9 DEF vars
<1> QED
  BY <1>1, <1>2, <1>3, <1>4, <1>5, <1>6, <1>7, <1>8, <1>9
     DEF Next, ProducerStep, ConsumerStep

(* Nobody else can empty the queue between the test and the pop. *)
LEMMA PopStep ==
  TypeOK /\ MutualExclusion /\ NeverPopsEmpty /\ [Next]_vars => NeverPopsEmpty'
<1> SUFFICES ASSUME TypeOK, MutualExclusion, NeverPopsEmpty, [Next]_vars
             PROVE  NeverPopsEmpty'
  OBVIOUS
<1> USE DEF TypeOK, NeverPopsEmpty, Goto, Threads
<1>1. ASSUME NEW p \in Producers, NEW x \in Items, PushLock(p, x)
      PROVE  NeverPopsEmpty'
  BY <1>1 DEF PushLock
<1>2. ASSUME NEW p \in Producers, PushAppend(p) PROVE NeverPopsEmpty'
  BY <1>2 DEF PushAppend
<1>3. ASSUME NEW p \in Producers, PushNotify(p) PROVE NeverPopsEmpty'
  BY <1>3 DEF PushNotify, Waiting
<1>4. ASSUME NEW t \in Threads, Unlock(t) PROVE NeverPopsEmpty'
  BY <1>4 DEF Unlock
<1>5. ASSUME NEW c \in Consumers,
             WaitLock(c) \/ WaitTest(c) \/ Reacquire(c) \/ SpuriousWakeup(c)
      PROVE  NeverPopsEmpty'
  BY <1>5 DEF WaitLock, WaitTest, Reacquire, SpuriousWakeup
<1>6. ASSUME NEW c \in Consumers, TryLock(c) \/ TryTest(c) \/ Front(c)
      PROVE  NeverPopsEmpty'
  BY <1>6 DEF TryLock, TryTest, Front
<1>7. ASSUME NEW c \in Consumers, Pop(c) PROVE NeverPopsEmpty'
  <2>1. \A d \in Consumers \ {c} : pc[d] \notin {"front", "pop"}
    BY <1>7 DEF Pop, MutualExclusion, Unlocked
  <2> QED BY <1>7, <2>1 DEF Pop
<1>8. CASE UNCHANGED vars
  BY <1>8 DEF vars
<1> QED
  BY <1>1, <1>2, <1>3, <1>4, <1>5, <1>6, <1>7, <1>8
     DEF Next, ProducerStep, ConsumerStep

(* The threads are finitely many, so any of them can be counted. *)
LEMMA CountThreads ==
  ASSUME NEW S, S \subseteq Threads
  PROVE  IsFiniteSet(S) /\ Cardinality(S) \in Nat
  BY ThreadsAssumption, FS_Subset, FS_CardinalityType

(* A step that neither lengthens the queue nor loses a taker, and puts       *)
(* nobody to sleep, keeps every sleeper covered.                             *)
LEMMA MoreTakers ==
  ASSUME TypeOK, TypeOK', SleepersCovered, Len(data') <= Len(data),
         Waiting' \subseteq Waiting, Takers \subseteq Takers'
  PROVE  SleepersCovered'
<1>1. Takers \subseteq Threads /\ Takers' \subseteq Threads
  BY DEF Takers
<1>2. Cardinality(Takers) <= Cardinality(Takers')
  BY <1>1, CountThreads, FS_Subset
<1>3. Cardinality(Takers) \in Nat /\ Cardinality(Takers') \in Nat
  BY <1>1, CountThreads
<1>4. Len(data) \in Nat /\ Len(data') \in Nat
  BY DEF TypeOK
<1> QED
  BY <1>2, <1>3, <1>4 DEF SleepersCovered

(* One step of the counting argument for each action: push() adds an item    *)
(* and a signaller, notify_one() turns the signaller into a woken consumer,  *)
(* and only the pop itself removes a taker, along with an item.              *)
LEMMA SleepersStep == IInv /\ TypeOK' /\ [Next]_vars => SleepersCovered'
<1> SUFFICES ASSUME IInv, TypeOK', [Next]_vars PROVE SleepersCovered'
  OBVIOUS
<1> USE ThreadsAssumption DEF Goto
<1>0. TypeOK /\ MutualExclusion /\ NeverPopsEmpty /\ SleepersCovered
  BY DEF IInv
<1>a. /\ Takers \subseteq Threads /\ Takers' \subseteq Threads
      /\ Cardinality(Takers) \in Nat /\ Cardinality(Takers') \in Nat
      /\ IsFiniteSet(Takers)
  BY CountThreads DEF Takers
<1>b. Len(data) \in Nat /\ Len(data') \in Nat
  BY <1>0 DEF TypeOK
<1>1. ASSUME NEW p \in Producers, NEW x \in Items, PushLock(p, x)
      PROVE  SleepersCovered'
  <2>1. Waiting' \subseteq Waiting /\ Takers \subseteq Takers' /\ data' = data
    BY <1>1, <1>0 DEF PushLock, Waiting, Takers, Threads, TypeOK
  <2> QED BY <2>1, <1>0, <1>b, MoreTakers
<1>2. ASSUME NEW p \in Producers, PushAppend(p) PROVE SleepersCovered'
  <2>1. Takers' = Takers \cup {p} /\ p \notin Takers
    BY <1>2, <1>0 DEF PushAppend, Takers, Threads, TypeOK
  <2>2. Cardinality(Takers') = Cardinality(Takers) + 1
    BY <2>1, <1>a, FS_AddElement
  <2>3. Waiting' = Waiting
    BY <1>2, <1>0 DEF PushAppend, Waiting, Threads, TypeOK
  <2>4. Len(data') = Len(data) + 1
    BY <1>2, <1>0 DEF PushAppend, TypeOK
  <2> QED BY <2>2, <2>3, <2>4, <1>0, <1>a, <1>b DEF SleepersCovered
<1>3. ASSUME NEW p \in Producers, PushNotify(p) PROVE SleepersCovered'
  <2>1. CASE NotifySkip(p)
    BY <1>3, <2>1, <1>0
       DEF PushNotify, NotifySkip, Waiting, SleepersCovered, Threads, TypeOK
  <2>2. CASE ~NotifySkip(p)
    <3>1. PICK c \in Waiting :
            pc' = [pc EXCEPT ![p] = "unlock", ![c] = "woken"]
      BY <1>3, <2>2 DEF PushNotify
    <3>2. c \in Threads /\ c # p /\ pc[c] = "waiting" /\ pc[p] = "notify"
      BY <3>1, <1>3 DEF Waiting, Threads, PushNotify
    <3>3. /\ Takers' = (Takers \ {p}) \cup {c}
          /\ p \in Takers /\ c \notin Takers
      BY <3>1, <3>2, <1>0 DEF Takers, Threads, TypeOK
    <3>4. /\ IsFiniteSet(Takers \ {p})
          /\ Cardinality(Takers \ {p}) = Cardinality(Takers) - 1
      BY <3>3, <1>a, FS_RemoveElement
    <3>5. Cardinality(Takers') = Cardinality(Takers)
      <4> DEFINE Rest == Takers \ {p}
      <4>1. c \notin Rest /\ Takers' = Rest \cup {c}
        BY <3>3
      <4>2. Cardinality(Rest \cup {c}) = Cardinality(Rest) + 1
        BY <3>4, <4>1, FS_AddElement
      <4> QED BY <4>1, <4>2, <3>4, <1>a
    <3>6. Waiting' \subseteq Waiting /\ data' = data
      BY <3>1, <3>2, <1>3, <1>0 DEF PushNotify, Waiting, Threads, TypeOK
    <3> QED BY <3>5, <3>6, <1>0 DEF SleepersCovered
  <2> QED BY <2>1, <2>2
<1>4. ASSUME NEW t \in Threads, Unlock(t) PROVE SleepersCovered'
  <2>1. Waiting' \subseteq Waiting /\ Takers \subseteq Takers' /\ data' = data
    BY <1>4, <1>0 DEF Unlock, Waiting, Takers, Threads, TypeOK
  <2> QED BY <2>1, <1>0, <1>b, MoreTakers
<1>5. ASSUME NEW c \in Consumers, WaitTest(c) PROVE SleepersCovered'
  <2>1. CASE data = <<>>
    BY <1>5, <2>1, <1>a DEF WaitTest, SleepersCovered
  <2>2. CASE data # <<>>
    <3>1. Waiting' \subseteq Waiting /\ Takers \subseteq Takers' /\ data' = data
      BY <1>5, <2>2, <1>0 DEF WaitTest, Waiting, Takers, Threads, TypeOK
    <3> QED BY <3>1, <1>0, <1>b, MoreTakers
  <2> QED BY <2>1, <2>2
<1>6. ASSUME NEW c \in Consumers,
             WaitLock(c) \/ Reacquire(c) \/ TryLock(c) \/ SpuriousWakeup(c)
      PROVE  SleepersCovered'
  <2>1. Waiting' \subseteq Waiting /\ Takers \subseteq Takers' /\ data' = data
    BY <1>6, <1>0 DEF WaitLock, Reacquire, TryLock, SpuriousWakeup, Waiting,
                      Takers, Threads, TypeOK
  <2> QED BY <2>1, <1>0, <1>b, MoreTakers
<1>7. ASSUME NEW c \in Consumers, TryTest(c) PROVE SleepersCovered'
  <2>1. CASE data = <<>>
    BY <1>7, <2>1, <1>a DEF TryTest, SleepersCovered
  <2>2. CASE data # <<>>
    <3>1. Waiting' \subseteq Waiting /\ Takers \subseteq Takers' /\ data' = data
      BY <1>7, <2>2, <1>0 DEF TryTest, Waiting, Takers, Threads, TypeOK
    <3> QED BY <3>1, <1>0, <1>b, MoreTakers
  <2> QED BY <2>1, <2>2
<1>8. ASSUME NEW c \in Consumers, Front(c) PROVE SleepersCovered'
  <2>1. Waiting' \subseteq Waiting /\ Takers \subseteq Takers' /\ data' = data
    BY <1>8, <1>0 DEF Front, Waiting, Takers, Threads, TypeOK
  <2> QED BY <2>1, <1>0, <1>b, MoreTakers
<1>9. ASSUME NEW c \in Consumers, Pop(c) PROVE SleepersCovered'
  <2>1. Takers' = Takers \ {c} /\ c \in Takers
    BY <1>9, <1>0 DEF Pop, Takers, Threads, TypeOK
  <2>2. Cardinality(Takers') = Cardinality(Takers) - 1
    BY <2>1, <1>a, FS_RemoveElement
  <2>3. Waiting' \subseteq Waiting
    BY <1>9, <1>0 DEF Pop, Waiting, Threads, TypeOK
  <2>4. Len(data') = Len(data) - 1
    BY <1>9, <1>0 DEF Pop, TypeOK, NeverPopsEmpty
  <2> QED BY <2>2, <2>3, <2>4, <1>0, <1>a, <1>b DEF SleepersCovered
<1>10. CASE UNCHANGED vars
  <2>1. Waiting' = Waiting /\ Takers = Takers' /\ data' = data
    BY <1>10 DEF vars, Waiting, Takers
  <2> QED BY <2>1, <1>0, <1>b, MoreTakers
<1> QED
  BY <1>1, <1>2, <1>3, <1>4, <1>5, <1>6, <1>7, <1>8, <1>9, <1>10
     DEF Next, ProducerStep, ConsumerStep, Threads

-----------------------------------------------------------------------------
(* The inductive invariant of SafeQueue.h. *)
THEOREM Inductive == Spec => []IInv
<1>1. Init => IInv
  <2> SUFFICES ASSUME Init PROVE IInv
    OBVIOUS
  <2>1. TypeOK
    BY TypeInit
  <2>2. MutualExclusion /\ NeverPopsEmpty /\ SleepersCovered
    BY DEF Init, MutualExclusion, NeverPopsEmpty, SleepersCovered, Unlocked,
           Waiting, Threads
  <2> QED BY <2>1, <2>2 DEF IInv
<1>2. IInv /\ [Next]_vars => IInv'
  BY TypeStep, MutexStep, PopStep, SleepersStep DEF IInv
<1> QED
  BY <1>1, <1>2, PTL DEF Spec

(* The queue is always well typed, whatever threads use it. *)
THEOREM TypeCorrect == Spec => []TypeOK
  BY Inductive, PTL DEF IInv

(* At most one thread is between lock and unlock, and it is the holder. *)
THEOREM Exclusion == Spec => []MutualExclusion
  BY Inductive, PTL DEF IInv

(* front() and pop() never meet an empty std::queue. *)
THEOREM PopsAreSafe == Spec => []NeverPopsEmpty
  BY Inductive, PTL DEF IInv

(* notify_one() once per push() is enough: no consumer sleeps beside an item *)
(* that nobody is on the way to.                                             *)
THEOREM WakeupsSuffice == Spec => []NoLostWakeup
<1>1. IInv => NoLostWakeup
  <2> SUFFICES ASSUME IInv, Waiting # {}, data # <<>>
               PROVE  \E t \in Threads : pc[t] \notin {"idle", "waiting"}
    BY DEF NoLostWakeup
  <2>1. Len(data) > 0
    BY DEF IInv, TypeOK
  <2>2. Takers # {}
    BY <2>1, CountThreads, FS_EmptySet DEF IInv, SleepersCovered, Takers, TypeOK
  <2> QED BY <2>2 DEF Takers
<1> QED
  BY Inductive, <1>1, PTL

(* With the mutex held by somebody else nobody is between front and pop, so  *)
(* the abstract queue is the concrete one.                                   *)
LEMMA NobodyPops ==
  ASSUME TypeOK, MutualExclusion, NEW t \in Threads,
         m = {} \/ (pc[t] \notin Unlocked /\ pc[t] # "pop")
  PROVE  AbstractQueue = data
<1>1. \A c \in Consumers : pc[c] # "pop"
  BY DEF MutualExclusion, Unlocked, Threads
<1> QED
  BY <1>1 DEF AbstractQueue

(* push() takes effect when the item is appended, a pop when front() is      *)
(* copied, an unsuccessful try_pop when it sees the empty queue; every other *)
(* step is invisible.                                                        *)
LEMMA StepRefines ==
  IInv /\ TypeOK' /\ [Next]_vars => [Abstract!FifoNext]_(Abstract!fvars)
<1> SUFFICES ASSUME IInv, TypeOK', [Next]_vars
             PROVE  Abstract!FifoNext \/ UNCHANGED <<AbstractQueue, value>>
  BY DEF Abstract!fvars
<1> USE ThreadsAssumption DEF Goto
<1>0. TypeOK /\ MutualExclusion /\ NeverPopsEmpty
  BY DEF IInv
<1>1. ASSUME NEW t \in Threads, NEW s \in {"append", "notify", "unlock",
               "wait_test", "waiting", "woken", "try_test", "front", "idle"},
             NEW u \in ProducerPCs \cup ConsumerPCs, u # "pop",
             pc[t] = s, pc' = [pc EXCEPT ![t] = u], data' = data
      PROVE  AbstractQueue' = AbstractQueue
  BY <1>0, <1>1 DEF AbstractQueue, TypeOK, Threads
<1>2. ASSUME NEW p \in Producers, NEW x \in Items, PushLock(p, x)
      PROVE  UNCHANGED <<AbstractQueue, value>>
  BY <1>1, <1>2 DEF PushLock, Threads, ProducerPCs
<1>3. ASSUME NEW p \in Producers, PushAppend(p) PROVE Abstract!FifoNext
  <2>1. AbstractQueue = data
    BY <1>3, <1>0, NobodyPops DEF PushAppend, Unlocked, Threads
  <2>2. \A c \in Consumers : pc'[c] # "pop"
    BY <1>3, <1>0 DEF PushAppend, MutualExclusion, Unlocked, Threads, TypeOK
  <2>3. AbstractQueue' = Append(AbstractQueue, item[p]) /\ item[p] \in Items
    BY <1>3, <1>0, <2>1, <2>2 DEF PushAppend, AbstractQueue, TypeOK
  <2> QED BY <1>3, <2>3 DEF PushAppend, Abstract!FifoNext, Abstract!FifoPush
<1>4. ASSUME NEW p \in Producers, PushNotify(p)
      PROVE  UNCHANGED <<AbstractQueue, value>>
  <2>1. \A c \in Consumers : pc'[c] = "pop" <=> pc[c] = "pop"
    BY <1>4, <1>0 DEF PushNotify, Waiting, TypeOK, Threads
  <2> QED BY <1>4, <2>1 DEF PushNotify, AbstractQueue
<1>5. ASSUME NEW t \in Threads, Unlock(t)
      PROVE  UNCHANGED <<AbstractQueue, value>>
  BY <1>1, <1>5 DEF Unlock, ProducerPCs
<1>6. ASSUME NEW c \in Consumers,
             WaitLock(c) \/ WaitTest(c) \/ Reacquire(c) \/ SpuriousWakeup(c)
             \/ TryLock(c)
      PROVE  UNCHANGED <<AbstractQueue, value>>
  BY <1>1, <1>6 DEF WaitLock, WaitTest, Reacquire, SpuriousWakeup, TryLock,
                    Threads, ConsumerPCs
<1>7. ASSUME NEW c \in Consumers, TryTest(c)
      PROVE  Abstract!FifoNext \/ UNCHANGED <<AbstractQueue, value>>
  <2>1. CASE data # <<>>
    BY <1>1, <1>7, <2>1 DEF TryTest, Threads, ConsumerPCs
  <2>2. CASE data = <<>>
    <3>1. AbstractQueue = data
      BY <1>7, <1>0, NobodyPops DEF TryTest, Unlocked, Threads
    <3>2. AbstractQueue' = AbstractQueue
      BY <1>1, <1>7, <2>2 DEF TryTest, Threads, ConsumerPCs
    <3> QED
      BY <1>7, <2>2, <3>1, <3>2 DEF TryTest, Abstract!FifoNext, Abstract!FifoMiss
  <2> QED BY <2>1, <2>2
<1>8. ASSUME NEW c \in Consumers, Front(c) PROVE Abstract!FifoNext
  <2>1. AbstractQueue = data /\ data # <<>>
    BY <1>8, <1>0, NobodyPops DEF Front, Unlocked, Threads, NeverPopsEmpty
  <2>2. AbstractQueue' = Tail(data)
    BY <1>8, <1>0 DEF Front, AbstractQueue, TypeOK, Threads
  <2> QED BY <1>8, <2>1, <2>2 DEF Front, Abstract!FifoNext, Abstract!FifoPop
<1>9. ASSUME NEW c \in Consumers, Pop(c)
      PROVE  UNCHANGED <<AbstractQueue, value>>
  <2>1. AbstractQueue = Tail(data)
    BY <1>9 DEF Pop, AbstractQueue
  <2>2. \A d \in Consumers : pc'[d] # "pop"
    BY <1>9, <1>0 DEF Pop, MutualExclusion, Unlocked, Threads, TypeOK
  <2> QED BY <1>9, <2>1, <2>2 DEF Pop, AbstractQueue
<1>10. CASE UNCHANGED vars
  BY <1>10 DEF vars, AbstractQueue
<1> QED
  BY <1>2, <1>3, <1>4, <1>5, <1>6, <1>7, <1>8, <1>9, <1>10
     DEF Next, ProducerStep, ConsumerStep, Threads

(* SafeQueue.h implements an indivisible first-in first-out queue: nothing   *)
(* is lost, duplicated or reordered by any interleaving of its callers.      *)
THEOREM Refinement == Spec => ImplementsFifo
<1>1. Init => Abstract!FifoInit
  BY DEF Init, Abstract!FifoInit, AbstractQueue, Threads
<1> QED
  BY <1>1, StepRefines, Inductive, TypeCorrect, PTL
     DEF Spec, ImplementsFifo, Abstract!FifoSpec
=============================================================================
