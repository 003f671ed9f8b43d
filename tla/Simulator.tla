----------------------------- MODULE Simulator ------------------------------
(* Simulator.cpp: the device that takes the radio's place in wisunsimd.  Its *)
(* thread takes a command, looks it up in a table of canned responses, and   *)
(* passes the response on; a command that is not there gets none.            *)
EXTENDS RadioLink, Reply, Filters

CONSTANTS FcieModulus,  \* fcie is a uint32_t: 2^32 in the program
          Typed         \* the commands the clients choose from

ASSUME FcieAssumption == FcieModulus \in Nat \ {0}

VARIABLES typed,        \* which command each of the clients' lines is
          lastMessage,  \* the command to be answered
          fcie          \* receive()'s static counter

simVars == <<typed, lastMessage, fcie>>

\* A mutant: the response of line 197, with the count of line 200.
OneNeighborOfTwo == reply(16, 35, 2, 0)

TwoNeighbors == reply(30, 35, 2, 0)

(* The canned responses, by the name of their command. *)
SimCommands ==
  {"buildid", "state", "mac", "neighbors", "diag 01", "diag 02", "diag 03", "diag 04",
   "diag 05", "diag 06", "diag 07", "diag 08", "diag 09", "diag 0a"}

simCmd ==
  [c \in SimCommands |->
     CASE c = "buildid"   -> reply(29, 34, 74, 97)
       [] c = "state"     -> reply(4, 32, 1, 1)
       [] c = "mac"       -> reply(9, 36, 0, 25)
       [] c = "neighbors" -> TwoNeighbors
       [] c = "diag 01"   -> reply(34, 33, 1, 66)
       [] c = "diag 02"   -> reply(58, 33, 2, 0)
       [] c = "diag 03"   -> reply(46, 33, 3, 55)
       [] c = "diag 04"   -> reply(32, 33, 4, 0)
       [] c = "diag 05"   -> reply(48, 33, 5, 0)
       [] c = "diag 06"   -> reply(43, 33, 6, 10)
       [] c = "diag 07"   -> reply(43, 33, 7, 10)
       [] c = "diag 08"   -> reply(59, 33, 8, 0)
       [] c = "diag 09"   -> reply(45, 33, 9, 122)
       [] c = "diag 0a"   -> reply(34, 33, 10, 72)]

InitialFcie == 600 % FcieModulus

SimInit(n) ==
  /\ typed \in [1..n -> Typed]
  /\ lastMessage = Empty
  /\ fcie = InitialFcie

(* The commands that simCmd.at() finds; the others raise an exception that   *)
(* is caught.                                                                *)
Known(m) == m.front = "other" /\ typed[m.body[1]] \in DOMAIN simCmd

Counted(m) == Known(m) /\ typed[m.body[1]] = "diag 02"

(* The response to m.  Four bytes of that to `diag 02` are made from fcie.   *)
Response(m, count) ==
  [source |-> "ser", front |-> "other",
   body |-> IF Counted(m) THEN <<m.body[1], count>> ELSE m.body]

(* while (wantHold()) { wait_and_pop(m); send(m); ...: send() ignores an     *)
(* empty message.                                                            *)
SimSend ==
  /\ Goto("ser", "pop", "receive")
  /\ Dequeue("ser")
  /\ LET m == Head(inQ["ser"])
     IN  IF NonEmpty(m) THEN lastMessage' = m /\ sent' = Append(sent, m)
         ELSE UNCHANGED <<lastMessage, sent>>
  /\ UNCHANGED <<hold, typed, fcie, received>>

(* ... receive(); }                                                          *)
Receive ==
  LET m == lastMessage
      next == IF Counted(m) THEN (fcie + 1) % FcieModulus ELSE fcie
  IN  IF Known(m)
      THEN /\ Send(Response(m, next))
           /\ received' = Append(received, Response(m, next))
           /\ fcie' = next
      ELSE UNCHANGED <<inQ, received, fcie>>

\* A mutant: "probably pedantic, but clear the last message".
SimReceiveUncleared ==
  /\ Goto("ser", "receive", "test")
  /\ Receive
  /\ UNCHANGED <<hold, typed, sent, lastMessage>>

SimReceive ==
  /\ Goto("ser", "receive", "test")
  /\ Receive
  /\ lastMessage' = [lastMessage EXCEPT !.front = "none", !.body = <<>>]
  /\ UNCHANGED <<hold, typed, sent>>

SimulatorStep ==
  \/ TestHold("ser") /\ UNCHANGED <<simVars, received, sent>>
  \/ SimSend
  \/ SimReceive

-----------------------------------------------------------------------------
(* The commands of `sent` that the simulator should have answered by now. *)
Answerable ==
  LET pending == pc["ser"] = "receive" /\ NonEmpty(lastMessage)
      taken == IF pending THEN SubSeq(sent, 1, Len(sent) - 1) ELSE sent
  IN  Only(taken, {m \in Message : Known(m)})

(* How often the counter has been incremented for the commands in s. *)
CountsFor(s) == Len(Only(s, {m \in Message : Counted(m)}))

(* The simulator answers every command it knows exactly once, in order, and  *)
(* no two answers to `diag 02` are the same before the counter comes round   *)
(* ("the fcie count is incremented on each invocation", doc/design.md:30).   *)
(* The empty message that ends the thread is not answered.                   *)
SimulatorAnswers ==
  received = [k \in DOMAIN Answerable |->
                Response(Answerable[k],
                         (InitialFcie + CountsFor(SubSeq(Answerable, 1, k))) % FcieModulus)]

(* The commands of the clients stand for all those that are treated alike. *)
Alike(command) == {c \in DOMAIN simCmd : (c = "diag 02") = (command = "diag 02")}

PrintedAsJSON == {c \in DOMAIN simCmd : decode(simCmd[c]).text = "json"}

(* Each response the simulator gives, to any command, is printed as JSON by  *)
(* the console of the same program: the two tables of sizes, here and in     *)
(* Reply.cpp, agree.                                                         *)
SimulatedRepliesDecode ==
  \A k \in DOMAIN received :
    Alike(typed[received[k].body[1]]) \subseteq PrintedAsJSON
=============================================================================
