------------------------------ MODULE Console -------------------------------
(* Console.cpp and the actions of testmode.yy: the main thread reads one     *)
(* client's commands and turns them into messages for the router; a second   *)
(* thread, started anew for each session, prints what the console receives.  *)
EXTENDS DeviceBus

VARIABLES session,    \* how many clients have been accepted
          givenIn,    \* history: the session in which each command was given
          realQuit,   \* real_quit
          wantReset,  \* want_reset
          issued,     \* history: what the console has handed to the router
          asked,      \* history: the help texts it has queued for itself
          printed     \* history: what it printed, and in which session

consoleVars == <<session, givenIn, realQuit, wantReset, issued, asked, printed>>

ConsoleInit ==
  /\ session = 0
  /\ givenIn = <<>>
  /\ realQuit = FALSE
  /\ wantReset = FALSE
  /\ issued = <<>>
  /\ asked = <<>>
  /\ printed = <<>>

(* Commands are numbered; the number stands for the arguments. *)
lines == Len(givenIn)

NewLine(front) ==
  [source |-> Null, front |-> front, body |-> <<lines + 1>>]

\* A mutant: push() is not overridden, the message has no source.
PushUnsourced(x) ==
  /\ Send(x)
  /\ issued' = Append(issued, x)
  /\ UNCHANGED asked

(* Console::push() stamps the source on whatever is sent. *)
ConsolePush(x) ==
  /\ Send(setSource(x, "con"))
  /\ issued' = Append(issued, setSource(x, "con"))
  /\ UNCHANGED asked

(* compound(), simple(): the first byte of a command is 0x06. *)
Command == ConsolePush(NewLine("other"))

(* last, restart: 0x07 and 0xff; data: any bytes the client likes.  (A first *)
(* byte of 31 never gets to the one device that looks at the size.)          *)
Data == \E f \in Fronts \ {"none", "x31short"} : ConsolePush(NewLine(f))

(* control(): capfile is a message for the capture device. *)
CaptureFile == ConsolePush(NewLine("xED"))

(* selfInput(): the help text goes straight to the console's own queue.      *)
Help ==
  LET x == setSource(NewLine("xED"), "con")
  IN  /\ Enqueue("con", x)
      /\ asked' = Append(asked, x)
      /\ UNCHANGED issued

(* One command of the client that sends something.  `allowed` is which ones  *)
(* the model considers.  (A line with a syntax error, a rejected argument or *)
(* `pause` changes nothing.)                                                 *)
ParseLine(allowed) ==
  /\ pc["main"] = "parse"
  /\ \/ "command" \in allowed /\ Command
     \/ "data" \in allowed /\ Data
     \/ "capfile" \in allowed /\ CaptureFile
     \/ "help" \in allowed /\ Help
  /\ givenIn' = Append(givenIn, session)
  /\ UNCHANGED <<hold, pc, session, realQuit, wantReset, printed>>

(* The end of a session: `quit`, an unreadable character, or the end of the  *)
(* client's stream.                                                          *)
ParseEnd(quits, resets) ==
  /\ realQuit' = CASE quits -> TRUE [] resets -> FALSE [] OTHER -> realQuit
  /\ wantReset' = (wantReset \/ resets)
  /\ UNCHANGED <<session, givenIn, issued, asked, printed>>

(* run(): clear want_reset and start the printing thread. *)
BeginSession ==
  /\ session' = session + 1
  /\ wantReset' = FALSE
  /\ UNCHANGED <<givenIn, realQuit, issued, asked, printed>>

-----------------------------------------------------------------------------
(* runRx(): while (wantHold() || more()) wait_and_pop, print.                *)
ConsoleTestHold ==
  /\ Goto("con", "test", IF hold["con"] THEN "pop" ELSE "more")
  /\ UNCHANGED <<inQ, hold, consoleVars>>

\* A mutant: the loop ends with the hold, like those of the other devices.
ConsoleIgnoresMore ==
  /\ Goto("con", "more", "exited")
  /\ UNCHANGED <<inQ, hold, consoleVars>>

ConsoleTestMore ==
  /\ Goto("con", "more", IF inQ["con"] # <<>> THEN "pop" ELSE "exited")
  /\ UNCHANGED <<inQ, hold, consoleVars>>

\* A mutant: what comes after the release is taken but not printed.
ConsolePrintWhileHeld ==
  /\ Goto("con", "pop", "test")
  /\ Dequeue("con")
  /\ LET x == Head(inQ["con"])
     IN  printed' = IF NonEmpty(x) /\ hold["con"]
                    THEN Append(printed, [msg |-> x, session |-> session])
                    ELSE printed
  /\ UNCHANGED <<hold, session, givenIn, realQuit, wantReset, issued, asked>>

(* decode() prints nothing for an empty message. *)
ConsolePrint ==
  /\ Goto("con", "pop", "test")
  /\ Dequeue("con")
  /\ LET x == Head(inQ["con"])
     IN  printed' = IF NonEmpty(x)
                    THEN Append(printed, [msg |-> x, session |-> session])
                    ELSE printed
  /\ UNCHANGED <<hold, session, givenIn, realQuit, wantReset, issued, asked>>

ConsoleStep == ConsoleTestHold \/ ConsoleTestMore \/ ConsolePrint
=============================================================================
