----------------------------- MODULE SinkDevice -----------------------------
(* SinkDevice.cpp: how the main thread keeps a device's thread running and   *)
(* how it stops it.  hold() asks the thread to go on; releaseHold() clears   *)
(* the flag and then queues an empty message, so that a thread asleep in     *)
(* wait_and_pop() wakes up and looks at the flag again.  These are two       *)
(* steps, and so are the thread's test of the flag and its pop.              *)
(*                                                                           *)
(* The queue's operations are indivisible here: module SafeQueue shows that  *)
(* they may be taken so.                                                     *)
EXTENDS Integers, Sequences, FiniteSets

CONSTANTS Messages,     \* what the other devices queue (non-empty messages)
          Sentinel,     \* Message{nullptr, 0}, the empty message
          Loops         \* the kinds of loop considered, see LoopKinds

(* The three loops of the program's device threads:                          *)
(*   blocking  while (wantHold()) wait_and_pop()          Router, Capture,   *)
(*                                                        Tun, Simulator     *)
(*   draining  while (wantHold() || more()) wait_and_pop()         Console   *)
(*   polling   while (wantHold()) try_pop()                         Serial   *)
LoopKinds == {"blocking", "draining", "polling"}

ASSUME SentinelAssumption == Sentinel \notin Messages
ASSUME LoopsAssumption == Loops \subseteq LoopKinds

VARIABLES loop,     \* the loop this device's thread runs
          inQ,      \* the device's input queue
          hold,     \* holdOnRxQueueEmpty
          owner,    \* the thread that calls hold(), releaseHold() and join()
          rx        \* the device's thread

vars == <<loop, inQ, hold, owner, rx>>

Init ==
  /\ loop \in Loops
  /\ inQ = <<>>
  /\ hold = FALSE
  /\ owner = "new"
  /\ rx = "none"

(* Only the console's thread is started again, once per session. *)
Hold ==
  /\ owner = "new" \/ (owner = "joined" /\ loop = "draining")
  /\ owner' = "holding"
  /\ hold' = TRUE
  /\ UNCHANGED <<loop, inQ, rx>>

Start ==
  /\ owner = "holding"
  /\ owner' = "running"
  /\ rx' = "test"
  /\ UNCHANGED <<loop, inQ, hold>>

ReleaseFlag ==
  /\ owner = "running"
  /\ owner' = "flagged"
  /\ hold' = FALSE
  /\ UNCHANGED <<loop, inQ, rx>>

\* A mutant: releaseHold() clears the flag and wakes nobody.
NoSentinel ==
  /\ owner = "flagged"
  /\ owner' = "joining"
  /\ UNCHANGED <<loop, inQ, hold, rx>>

\* A mutant: what is queued is not a Message at all.
NotAMessage ==
  /\ owner = "flagged"
  /\ owner' = "joining"
  /\ inQ' = Append(inQ, <<>>)
  /\ UNCHANGED <<loop, hold, rx>>

ReleaseSentinel ==
  /\ owner = "flagged"
  /\ owner' = "joining"
  /\ inQ' = Append(inQ, Sentinel)
  /\ UNCHANGED <<loop, hold, rx>>

\* A mutant: releaseHold() with its two statements the other way round.
ReleaseSwapped ==
  \/ /\ owner = "running"
     /\ owner' = "flagged"
     /\ inQ' = Append(inQ, Sentinel)
     /\ UNCHANGED <<loop, hold, rx>>
  \/ /\ owner = "flagged"
     /\ owner' = "joining"
     /\ hold' = FALSE
     /\ UNCHANGED <<loop, inQ, rx>>

Release == ReleaseFlag \/ ReleaseSentinel

Join ==
  /\ owner = "joining"
  /\ rx = "exited"
  /\ owner' = "joined"
  /\ rx' = "none"
  /\ UNCHANGED <<loop, inQ, hold>>

(* Another device queues a message for this one. *)
Push(x) ==
  /\ inQ' = Append(inQ, x)
  /\ UNCHANGED <<loop, hold, owner, rx>>

TestHold ==
  /\ rx = "test"
  /\ rx' = IF hold THEN "pop" ELSE IF loop = "draining" THEN "more" ELSE "exited"
  /\ UNCHANGED <<loop, inQ, hold, owner>>

\* A mutant: the draining loop does not look at the queue again.
TestMoreNever ==
  /\ rx = "more"
  /\ rx' = "exited"
  /\ UNCHANGED <<loop, inQ, hold, owner>>

TestMore ==
  /\ rx = "more"
  /\ rx' = IF inQ # <<>> THEN "pop" ELSE "exited"
  /\ UNCHANGED <<loop, inQ, hold, owner>>

(* wait_and_pop() blocks on an empty queue; try_pop() does not. *)
Pop ==
  /\ rx = "pop"
  /\ rx' = "test"
  /\ \/ /\ inQ # <<>>
        /\ inQ' = Tail(inQ)
     \/ /\ inQ = <<>>
        /\ loop = "polling"
        /\ UNCHANGED inQ
  /\ UNCHANGED <<loop, hold, owner>>

\* A mutant: the draining loop's condition as `more() || wantHold()`.
ThreadMoreFirst ==
  \/ loop # "draining" /\ TestHold
  \/ Pop
  \/ /\ loop = "draining"
     /\ \/ rx = "test" /\ rx' = IF inQ # <<>> THEN "pop" ELSE "more"
        \/ rx = "more" /\ rx' = IF hold THEN "pop" ELSE "exited"
     /\ UNCHANGED <<loop, inQ, hold, owner>>

Thread == TestHold \/ TestMore \/ Pop
Owner == Hold \/ Start \/ Release \/ Join
Next == Owner \/ Thread \/ \E x \in Messages : Push(x)

Spec == Init /\ [][Next]_vars

(* The device's thread is scheduled, and so is the main thread once it has   *)
(* begun to stop the device.                                                 *)
Fairness == WF_vars(Thread) /\ WF_vars(ReleaseSentinel \/ Join)

FairSpec == Spec /\ Fairness

-----------------------------------------------------------------------------
(* TypeOK: the states of the two threads, the flag and the queue. *)
TypeOK ==
  /\ loop \in Loops
  /\ inQ \in Seq(Messages \cup {Sentinel})
  /\ hold \in BOOLEAN
  /\ owner \in {"new", "holding", "running", "flagged", "joining", "joined"}
  /\ rx \in {"none", "test", "more", "pop", "exited"}

(* join() cannot get stuck: once releaseHold() has returned, a thread that   *)
(* is going to call wait_and_pop() finds something in its queue, wherever    *)
(* the two statements of releaseHold() fell between the thread's own.        *)
NoStuckJoin ==
  (owner \in {"joining", "joined"} /\ rx = "pop" /\ loop # "polling")
     => inQ # <<>>

(* The console's thread ends only when it has been released and has seen its *)
(* queue empty after that: everything queued before the release is printed   *)
(* (Console.cpp:107-119), whatever is queued in the meantime.                *)
EndsDrained ==
  [][(loop = "draining" /\ rx # "exited" /\ rx' = "exited")
       => inQ = <<>> /\ ~hold]_vars

(* The sentinels still queued.                                               *)
Sentinels == {i \in DOMAIN inQ : inQ[i] = Sentinel}

(* A thread may end between the two statements of releaseHold(); its         *)
(* sentinel then stays behind.  Over any number of sessions they do not      *)
(* pile up: between two sessions there is at most one, and never more than   *)
(* two.                                                                      *)
FewSentinels ==
  /\ Cardinality(Sentinels) <= 2
  /\ owner \in {"joined", "holding"} => Cardinality(Sentinels) <= 1

(* A join returns, for the console only if the messages stop coming: its     *)
(* loop goes on as long as it finds more of them.                            *)
JoinReturns ==
  \/ owner = "joining" ~> owner = "joined"
  \/ loop = "draining" /\ []<><<\E x \in Messages : Push(x)>>_vars
=============================================================================
