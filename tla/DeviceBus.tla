----------------------------- MODULE DeviceBus ------------------------------
(* What the devices of the daemon share: an input queue and a hold flag per  *)
(* device (SinkDevice), the router's input queue as everybody's output queue *)
(* (Device), and the place each thread has reached.                          *)
(*                                                                           *)
(* The queue operations are indivisible (module SafeQueue justifies it), and *)
(* so is an access to a flag (std::atomic_bool).                             *)
EXTENDS Message

VARIABLES inQ,    \* SinkDevice::inQ of each device
          hold,   \* SinkDevice::holdOnRxQueueEmpty of each device
          pc      \* where each thread is

busVars == <<inQ, hold, pc>>

(* The threads: main (which also reads the console's input), the router, the *)
(* console's printer, the serial device, the two of the TUN device, and the  *)
(* capture device.  "con" is the printing thread, "tun" the one that takes   *)
(* messages from tun's queue and "tunrx" the one that reads the interface.   *)
Threads == {"main", "rtr", "con", "ser", "tun", "tunrx", "cap"}

BusInit ==
  /\ inQ = [d \in Devices |-> <<>>]
  /\ hold = [d \in Devices |-> FALSE]

Goto(t, from, to) == pc[t] = from /\ pc' = [pc EXCEPT ![t] = to]

(* SafeQueue::push() on the queue of d. *)
Enqueue(d, x) == inQ' = [inQ EXCEPT ![d] = Append(@, x)]

Dequeue(d) == inQ[d] # <<>> /\ inQ' = [inQ EXCEPT ![d] = Tail(@)]

(* Device::push(): the output queue of every device is the router's input.   *)
Send(x) == Enqueue("rtr", x)

(* while (wantHold()): the loop of every device thread but the console's.    *)
TestHold(t) ==
  /\ Goto(t, "test", IF hold[t] THEN "pop" ELSE "exited")
  /\ UNCHANGED <<inQ, hold>>
=============================================================================
