----------------------------- MODULE SafeQueue ------------------------------
(* SafeQueue.h: a std::queue guarded by a mutex, with a condition variable   *)
(* that wait_and_pop() sleeps on and push() signals.  One action per access  *)
(* of a thread to the mutex, the condition variable or the queue.            *)
EXTENDS Integers, Sequences, FiniteSets

CONSTANTS Producers,   \* threads that call push()
          Consumers,   \* threads that call wait_and_pop() and try_pop()
          Items,       \* what is queued
          NoItem,      \* "nothing popped" (try_pop returned false), not an Item
          MaxPending   \* bound of the model: no push starts beyond it

Threads == Producers \cup Consumers

ASSUME ThreadsAssumption == /\ Producers \cap Consumers = {}
                            /\ IsFiniteSet(Threads)
ASSUME NoItemAssumption == NoItem \notin Items
ASSUME MaxPendingAssumption == MaxPending \in Nat \ {0}

VARIABLES data,    \* the std::queue
          m,       \* the threads that hold the mutex (at most one)
          pc,      \* where each thread is
          item,    \* per producer: the argument of its push()
          value    \* per consumer: what its last pop returned

vars == <<data, m, pc, item, value>>

Init ==
  /\ data = <<>>
  /\ m = {}
  /\ pc = [t \in Threads |-> "idle"]
  /\ item \in [Producers -> Items]
  /\ value = [c \in Consumers |-> NoItem]

Goto(t, from, to) == pc[t] = from /\ pc' = [pc EXCEPT ![t] = to]

Acquire(t) == m = {} /\ m' = {t}

Release(t) == m' = m \ {t}

Waiting == {c \in Consumers : pc[c] = "waiting"}

(* push(): lock_guard, data.push(), notify_one() with the mutex still held.  *)
PushLock(p, x) ==
  /\ Len(data) < MaxPending
  /\ Goto(p, "idle", "append")
  /\ Acquire(p)
  /\ item' = [item EXCEPT ![p] = x]
  /\ UNCHANGED <<data, value>>

\* A mutant: the item has been moved away before it is queued.
PushMoved(p) ==
  /\ Goto(p, "append", "notify")
  /\ data' = Append(data, NoItem)
  /\ UNCHANGED <<m, item, value>>

PushAppend(p) ==
  /\ Goto(p, "append", "notify")
  /\ data' = Append(data, item[p])
  /\ UNCHANGED <<m, item, value>>

\* A mutant: signal only when the queue was empty before this push.
NotifySkipUnlessWasEmpty(p) ==
  pc[p] = "notify" /\ (Waiting = {} \/ Len(data) > 1)

\* A mutant: push() does not signal.
NotifySkipAlways(p) == pc[p] = "notify"

(* notify_one(): one sleeping thread becomes runnable; nobody if none sleeps *)
NotifySkip(p) == pc[p] = "notify" /\ Waiting = {}

PushNotify(p) ==
  /\ pc[p] = "notify"
  /\ \/ /\ NotifySkip(p)
        /\ pc' = [pc EXCEPT ![p] = "unlock"]
     \/ /\ ~NotifySkip(p)
        /\ \E c \in Waiting : pc' = [pc EXCEPT ![p] = "unlock", ![c] = "woken"]
  /\ UNCHANGED <<data, m, item, value>>

Unlock(t) ==
  /\ Goto(t, "unlock", "idle")
  /\ Release(t)
  /\ UNCHANGED <<data, item, value>>

(* wait_and_pop(): the predicate is evaluated with the mutex held; a false   *)
(* one releases the mutex and sleeps in one step.                            *)
WaitLock(c) ==
  /\ Goto(c, "idle", "wait_test")
  /\ Acquire(c)
  /\ UNCHANGED <<data, item, value>>

WaitTest(c) ==
  /\ \/ data # <<>> /\ Goto(c, "wait_test", "front") /\ UNCHANGED m
     \/ data = <<>> /\ Goto(c, "wait_test", "waiting") /\ Release(c)
  /\ UNCHANGED <<data, item, value>>

\* A mutant: `if (data.empty()) wait` - the predicate is not tested again.
ReacquireWithoutTest(c) ==
  /\ Goto(c, "woken", "front")
  /\ Acquire(c)
  /\ UNCHANGED <<data, item, value>>

Reacquire(c) ==
  /\ Goto(c, "woken", "wait_test")
  /\ Acquire(c)
  /\ UNCHANGED <<data, item, value>>

\* A condition variable may wake a thread nobody signalled.
SpuriousWakeup(c) ==
  /\ Goto(c, "waiting", "woken")
  /\ UNCHANGED <<data, m, item, value>>

\* A mutant: try_pop() without its lock_guard.
TryWithoutLock(c) ==
  /\ Goto(c, "idle", "try_test")
  /\ UNCHANGED <<data, m, item, value>>

TryLock(c) ==
  /\ Goto(c, "idle", "try_test")
  /\ Acquire(c)
  /\ UNCHANGED <<data, item, value>>

TryTest(c) ==
  /\ \/ /\ data # <<>>
        /\ Goto(c, "try_test", "front")
        /\ UNCHANGED value
     \/ /\ data = <<>>
        /\ Goto(c, "try_test", "unlock")
        /\ value' = [value EXCEPT ![c] = NoItem]
  /\ UNCHANGED <<data, m, item>>

\* Both pops end the same way: value = data.front(), then data.pop().
Front(c) ==
  /\ Goto(c, "front", "pop")
  /\ value' = [value EXCEPT ![c] = Head(data)]
  /\ UNCHANGED <<data, m, item>>

\* A mutant: pop() takes the last item.
PopBack(c) ==
  /\ Goto(c, "pop", "unlock")
  /\ data' = SubSeq(data, 1, Len(data) - 1)
  /\ UNCHANGED <<m, item, value>>

Pop(c) ==
  /\ Goto(c, "pop", "unlock")
  /\ data' = Tail(data)
  /\ UNCHANGED <<m, item, value>>

ProducerStep(p) == \/ \E x \in Items : PushLock(p, x)
                   \/ PushAppend(p) \/ PushNotify(p) \/ Unlock(p)

ConsumerStep(c) == \/ WaitLock(c) \/ WaitTest(c) \/ Reacquire(c)
                   \/ TryLock(c) \/ TryTest(c)
                   \/ Front(c) \/ Pop(c) \/ Unlock(c)

Next == \/ \E p \in Producers : ProducerStep(p)
        \/ \E c \in Consumers : ConsumerStep(c) \/ SpuriousWakeup(c)

Spec == Init /\ [][Next]_vars

(* A thread that can run is scheduled.  Contention for the mutex is fair to  *)
(* a woken consumer only as far as weak fairness goes.                       *)
FairSpec == /\ Spec
            /\ \A p \in Producers :
                 WF_vars(PushAppend(p) \/ PushNotify(p) \/ Unlock(p))
            /\ \A c \in Consumers : WF_vars(ConsumerStep(c))

-----------------------------------------------------------------------------
ProducerPCs == {"idle", "append", "notify", "unlock"}
ConsumerPCs == {"idle", "wait_test", "waiting", "woken", "try_test", "front",
                "pop", "unlock"}

Unlocked == {"idle", "waiting", "woken"}

(* TypeOK: the queue holds pushed items, and every thread is at a place of   *)
(* its own operation.                                                        *)
TypeOK ==
  /\ data \in Seq(Items)
  /\ m \in SUBSET Threads
  /\ pc \in [Threads -> ProducerPCs \cup ConsumerPCs]
  /\ \A p \in Producers : pc[p] \in ProducerPCs
  /\ \A c \in Consumers : pc[c] \in ConsumerPCs
  /\ item \in [Producers -> Items]
  /\ value \in [Consumers -> Items \cup {NoItem}]

(* The threads inside the locked region are exactly the holders of the       *)
(* mutex, and there is at most one.                                          *)
MutualExclusion ==
  /\ m = {t \in Threads : pc[t] \notin Unlocked}
  /\ \A t, u \in m : t = u

(* front() and pop() are never called on an empty std::queue, which would be *)
(* undefined behaviour: the emptiness test of SafeQueue.h:125-147 still      *)
(* holds when its result is used, whatever the other threads do.             *)
NeverPopsEmpty ==
  \A c \in Consumers : pc[c] \in {"front", "pop"} => data # <<>>

(* No lost wakeup: a consumer sleeps beside a non-empty queue only while     *)
(* some other thread is still inside an operation that will take the item or *)
(* has been woken to take it.                                                *)
NoLostWakeup ==
  (/\ Waiting # {}
   /\ data # <<>>) => \E t \in Threads : pc[t] \notin {"idle", "waiting"}

(* Once the producers stop, the queue is emptied again and again: no item    *)
(* stays behind in a queue that somebody waits on.                           *)
QueueDrains ==
  <>[](\A p \in Producers : pc[p] = "idle") => []<>(data = <<>>)

(* The lock-level queue implements the indivisible one: an item leaves the   *)
(* abstract queue when front() copies it, not when pop() erases it.          *)
AbstractQueue == IF \E c \in Consumers : pc[c] = "pop" THEN Tail(data) ELSE data

Abstract == INSTANCE Fifo WITH queue <- AbstractQueue

ImplementsFifo == Abstract!FifoSpec
=============================================================================
