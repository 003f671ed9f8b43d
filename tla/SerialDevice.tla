---------------------------- MODULE SerialDevice ----------------------------
(* SerialDevice.cpp at the level of whole frames: one thread polls the       *)
(* port's event loop and the input queue in turn.  The SLIP coding of a      *)
(* frame is left to a module of its own.                                     *)
EXTENDS RadioLink

VARIABLES port,     \* frames that wait at the serial port, oldest first
          armed,    \* an async_read_until is outstanding
          errors    \* how many operations on a device have failed

serialVars == <<port, armed, errors, received, sent>>

SerialInit ==
  /\ port = <<>>
  /\ armed = FALSE
  /\ errors = 0
  /\ received = <<>>
  /\ sent = <<>>

(* run() calls runTx(), which starts the first read; then runRx() loops.     *)
SerialStart ==
  /\ Goto("ser", "start", "test")
  /\ armed' = hold["ser"]
  /\ UNCHANGED <<inQ, hold, port, errors, received, sent>>

SerialTestHold ==
  /\ Goto("ser", "test", IF hold["ser"] THEN "poll" ELSE "exited")
  /\ UNCHANGED <<inQ, hold, serialVars>>

FromPort == setSource(Head(port), "ser")

(* handleMessage(): a frame is complete; deliver it, then read the next one. *)
SerialReceive ==
  /\ pc["ser"] = "poll" /\ armed /\ port # <<>>
  /\ Send(FromPort)
  /\ received' = Append(received, FromPort)
  /\ port' = Tail(port)
  /\ armed' = hold["ser"]
  /\ UNCHANGED <<hold, pc, errors, sent>>

(* handleMessage() with an error: no read is started any more. *)
SerialError(maxErrors) ==
  /\ pc["ser"] = "poll" /\ armed /\ errors < maxErrors
  /\ errors' = errors + 1
  /\ armed' = FALSE
  /\ UNCHANGED <<inQ, hold, pc, port, received, sent>>

\* A mutant: the input queue is not looked at while a read is outstanding.
SerialPolledOnly ==
  /\ ~armed \/ port = <<>>
  /\ Goto("ser", "poll", IF armed THEN "test" ELSE "pop")
  /\ UNCHANGED <<inQ, hold, serialVars>>

(* poll() returns when it has no handler left to run. *)
SerialPolled ==
  /\ ~armed \/ port = <<>>
  /\ Goto("ser", "poll", "pop")
  /\ UNCHANGED <<inQ, hold, serialVars>>

\* A mutant: the frame is sent twice.
SerialSendTwice ==
  /\ Goto("ser", "pop", "test")
  /\ IF inQ["ser"] = <<>>
     THEN UNCHANGED <<inQ, sent>>
     ELSE /\ Dequeue("ser")
          /\ sent' = IF NonEmpty(Head(inQ["ser"]))
                     THEN sent \o <<Head(inQ["ser"]), Head(inQ["ser"])>> ELSE sent
  /\ UNCHANGED <<hold, port, armed, errors, received>>

(* try_pop(), then send(): an empty message is not sent. *)
SerialSend ==
  /\ Goto("ser", "pop", "test")
  /\ IF inQ["ser"] = <<>>
     THEN UNCHANGED <<inQ, sent>>
     ELSE /\ Dequeue("ser")
          /\ sent' = IF NonEmpty(Head(inQ["ser"]))
                     THEN Append(sent, Head(inQ["ser"])) ELSE sent
  /\ UNCHANGED <<hold, port, armed, errors, received>>

(* write_some() throws when the port fails.  Nobody catches that in the      *)
(* thread, so the program ends.  (Its queues are gone then, and are left as  *)
(* they were.)                                                               *)
SerialSendFails(maxErrors) ==
  /\ errors < maxErrors
  /\ inQ["ser"] # <<>> /\ NonEmpty(Head(inQ["ser"]))
  /\ Goto("ser", "pop", "terminated")
  /\ errors' = errors + 1
  /\ UNCHANGED <<inQ, hold, port, armed, received, sent>>

SerialStep == SerialStart \/ SerialTestHold \/ SerialReceive \/ SerialPolled
              \/ SerialSend

(* A frame arrives at the port. *)
FrameArrives(front, body) ==
  /\ port' = Append(port, [source |-> Null, front |-> front, body |-> body])
  /\ UNCHANGED <<busVars, armed, errors, received, sent>>
=============================================================================
