------------------------------- MODULE Wisund -------------------------------
(* wisund.cpp: the daemon.  The router, the console, the serial, TUN and     *)
(* capture devices run in threads of their own; main() accepts one client    *)
(* after the other, and stops the devices one by one when a client quits.    *)
(*                                                                           *)
(* The environment: clients that type commands, a radio behind the serial    *)
(* port that answers each command it gets and sends frames of its own, and   *)
(* a network interface that yields packets.                                  *)
EXTENDS Router, Console, SerialDevice, Simulator, TunDevice, CaptureDevice,
        FiniteSets, Filters

CONSTANTS SIM,          \* build wisunsimd instead of wisund
          Lines,        \* the kinds of command the clients give
          FrameFronts,  \* the first bytes of the frames the radio sends
          Packets,      \* the packets of the interface, [id, ipv6] each
          MaxSessions,  \* bounds of the model: clients accepted (the last one
                        \* quits, so that main() need not wait for another),
          MaxLines,     \* commands given in all,
          MaxFrames,    \* frames the radio sends of its own accord,
          MaxPackets,   \* packets that come from the interface,
          MaxErrors     \* failures of the port and the interface

ASSUME SimAssumption == SIM \in BOOLEAN
ASSUME BoundsAssumption ==
  /\ MaxSessions \in Nat \ {0}
  /\ {MaxLines, MaxFrames, MaxPackets, MaxErrors} \subseteq Nat
ASSUME FrontsAssumption == FrameFronts \subseteq Fronts
ASSUME PacketsAssumption == Packets \subseteq [id : Nat, ipv6 : BOOLEAN]

VARIABLES stopping,   \* the device main() is stopping
          due,        \* history: what the console had printed or queued when
                      \* its session was released
          answered,   \* how many messages written to the port the radio has
                      \* dealt with
          frames      \* how many frames of its own it has sent

serVars == <<serialVars, simVars>>
mainVars == <<stopping, due>>
radioVars == <<answered, frames>>
vars == <<busVars, routerVars, consoleVars, serVars, tunVars, captureVars,
          mainVars, radioVars>>

\* A mutant: the destinations of the first two rules confused.
SwappedRules ==
  << [from |-> "con", to |-> "ser", pred |-> "isControl"],
     [from |-> "con", to |-> "cap", pred |-> "isPlain"],
     [from |-> "tun", to |-> "ser", pred |-> "nullptr"],
     [from |-> "ser", to |-> "tun", pred |-> "isRaw"],
     [from |-> "ser", to |-> "cap", pred |-> "isCap"],
     [from |-> "ser", to |-> "con", pred |-> "isPlain"] >>

(* The rules main() adds, in its order: the daemon's and the simulator's. *)
WisundRules ==
  << [from |-> "con", to |-> "cap", pred |-> "isControl"],
     [from |-> "con", to |-> "ser", pred |-> "isPlain"],
     [from |-> "tun", to |-> "ser", pred |-> "nullptr"],
     [from |-> "ser", to |-> "tun", pred |-> "isRaw"],
     [from |-> "ser", to |-> "cap", pred |-> "isCap"],
     [from |-> "ser", to |-> "con", pred |-> "isPlain"] >>

SimRules ==
  << [from |-> "con", to |-> "ser", pred |-> "isPlain"],
     [from |-> "ser", to |-> "con", pred |-> "isPlain"] >>

Init ==
  /\ BusInit
  /\ pc = [t \in Threads |-> IF t = "main" THEN "start" ELSE "none"]
  /\ rules = IF SIM THEN SimRules ELSE WisundRules
  /\ rtrMsg = Empty /\ cursor = 1 /\ pushed = {}
  /\ ConsoleInit /\ SerialInit /\ SimInit(IF SIM THEN MaxLines ELSE 0) /\ TunInit /\ CaptureInit
  /\ stopping = "con" /\ due = <<>>
  /\ answered = 0 /\ frames = 0

-----------------------------------------------------------------------------
(* main() holds the devices, starts their threads, then does the same for    *)
(* the router.  Threads only meet in queues and flags, so holding or starting *)
(* several in one step hides no order that matters.                          *)
HoldDevices ==
  /\ Goto("main", "start", "threads")
  /\ hold' = [d \in Devices |-> d \in IF SIM THEN {"ser"} ELSE {"ser", "tun", "cap"}]
  /\ UNCHANGED <<inQ, routerVars, consoleVars, serVars, tunVars, captureVars,
                 mainVars, radioVars>>

StartDevices ==
  /\ pc["main"] = "threads"
  /\ IF SIM THEN pc' = [pc EXCEPT !["main"] = "hold router", !["ser"] = "test"]
     ELSE pc' = [pc EXCEPT !["main"] = "hold router", !["ser"] = "start",
                           !["tun"] = "test", !["tunrx"] = "test", !["cap"] = "test"]
  /\ UNCHANGED <<inQ, hold, routerVars, consoleVars, serVars, tunVars,
                 captureVars, mainVars, radioVars>>

HoldRouter ==
  /\ Goto("main", "hold router", "start router")
  /\ hold' = [hold EXCEPT !["rtr"] = TRUE]
  /\ UNCHANGED <<inQ, routerVars, consoleVars, serVars, tunVars, captureVars,
                 mainVars, radioVars>>

StartRouter ==
  /\ pc["main"] = "start router"
  /\ pc' = [pc EXCEPT !["main"] = "loop", !["rtr"] = "test"]
  /\ UNCHANGED <<inQ, hold, routerVars, consoleVars, serVars, tunVars,
                 captureVars, mainVars, radioVars>>

(* while (!con.getQuitValue()) { con.hold(); accept ... }                    *)
HoldConsole ==
  /\ ~realQuit
  /\ Goto("main", "loop", "accept")
  /\ hold' = [hold EXCEPT !["con"] = TRUE]
  /\ UNCHANGED <<inQ, routerVars, consoleVars, serVars, tunVars, captureVars,
                 mainVars, radioVars>>

Accept ==
  /\ pc["main"] = "accept" /\ session < MaxSessions
  /\ BeginSession
  /\ pc' = [pc EXCEPT !["main"] = "parse", !["con"] = "test"]
  /\ UNCHANGED <<inQ, hold, routerVars, serVars, tunVars, captureVars,
                 mainVars, radioVars>>

ParseOneOf(allowed) ==
  /\ lines < MaxLines
  /\ ParseLine(allowed)
  /\ UNCHANGED <<routerVars, serVars, tunVars, captureVars, mainVars, radioVars>>

Parse == ParseOneOf(Lines)

(* A line with a syntax error, a rejected argument or `pause`: nothing is    *)
(* sent.                                                                     *)
Reject ==
  /\ pc["main"] = "parse"
  /\ givenIn' = Append(givenIn, session)
  /\ UNCHANGED <<busVars, routerVars, session, realQuit, wantReset, issued, asked,
                 printed, serVars, tunVars, captureVars, mainVars, radioVars>>

(* The parser returns: quit, an unreadable character, or end of stream. *)
EndSessionBy(quits, resets) ==
  /\ ParseEnd(quits, resets)
  /\ Goto("main", "parse", "release")
  /\ stopping' = "con"
  /\ UNCHANGED <<due, inQ, hold, routerVars, serVars, tunVars, captureVars, radioVars>>

EndSession ==
  \E quits, resets \in BOOLEAN :
    /\ ~(quits /\ resets)
    /\ EndSessionBy(quits, resets)

(* The devices are stopped after the last session, in this order. *)
ShutdownOrder == IF SIM THEN <<"ser", "rtr">> ELSE <<"ser", "rtr", "tun", "cap">>

LastToStop == ShutdownOrder[Len(ShutdownOrder)]

BeginShutdown ==
  /\ realQuit
  /\ Goto("main", "loop", "release")
  /\ stopping' = Head(ShutdownOrder)
  /\ UNCHANGED <<due, inQ, hold, routerVars, consoleVars, serVars, tunVars,
                 captureVars, radioVars>>

\* A mutant: releaseHold() clears the flag and queues nothing.
ReleaseNoSentinel ==
  /\ Goto("main", "sentinel", "join")
  /\ UNCHANGED <<inQ, hold, routerVars, consoleVars, serVars, tunVars,
                 captureVars, mainVars, radioVars>>

(* All that the console has printed, and has yet to print. *)
Printed == [k \in DOMAIN printed |-> printed[k].msg]

ConsoleOutput == Printed \o Only(inQ["con"], {m \in Message : NonEmpty(m)})

(* releaseHold() of the device being stopped: the flag, then the sentinel.   *)
ReleaseFlag ==
  /\ Goto("main", "release", "sentinel")
  /\ hold' = [hold EXCEPT ![stopping] = FALSE]
  /\ due' = IF stopping = "con" THEN ConsoleOutput ELSE due
  /\ UNCHANGED <<stopping, inQ, routerVars, consoleVars, serVars, tunVars,
                 captureVars, radioVars>>

ReleaseSentinel ==
  /\ Goto("main", "sentinel", "join")
  /\ Enqueue(stopping, Empty)
  /\ UNCHANGED <<hold, routerVars, consoleVars, serVars, tunVars,
                 captureVars, mainVars, radioVars>>

(* join(): the TUN device's thread joins its second thread before it ends.   *)
Exited(d) == pc[d] = "exited" /\ (d = "tun" => pc["tunrx"] = "exited")

NextToStop(d) ==
  CHOOSE e \in Devices : \E i \in 2..Len(ShutdownOrder) :
    ShutdownOrder[i - 1] = d /\ ShutdownOrder[i] = e

JoinThread ==
  /\ Exited(stopping)
  /\ IF stopping = "con"
     THEN /\ pc' = [pc EXCEPT !["main"] = "loop", !["con"] = "none"]
          /\ UNCHANGED stopping
     ELSE IF stopping = LastToStop
     THEN Goto("main", "join", "done") /\ UNCHANGED stopping
     ELSE Goto("main", "join", "release") /\ stopping' = NextToStop(stopping)
  /\ pc["main"] = "join"
  /\ UNCHANGED <<due, inQ, hold, routerVars, consoleVars, serVars, tunVars,
                 captureVars, radioVars>>

(* What main() does by itself, and what it does for a client. *)
Lifecycle == \/ HoldDevices \/ StartDevices \/ HoldRouter \/ StartRouter
             \/ HoldConsole
             \/ BeginShutdown \/ ReleaseFlag \/ ReleaseSentinel \/ JoinThread
Serve == Accept \/ Parse \/ Reject \/ EndSession
Main == Lifecycle \/ Serve

-----------------------------------------------------------------------------
(* The device threads, each in the company of the rest of the state. *)
RouterThread ==
  RouterStep /\ UNCHANGED <<consoleVars, serVars, tunVars, captureVars,
                            mainVars, radioVars>>
ConsoleThread ==
  ConsoleStep /\ UNCHANGED <<routerVars, serVars, tunVars, captureVars,
                             mainVars, radioVars>>
SerThread ==
  /\ IF SIM THEN SimulatorStep /\ UNCHANGED <<port, armed, errors>>
     ELSE SerialStep /\ UNCHANGED simVars
  /\ UNCHANGED <<routerVars, consoleVars, tunVars, captureVars, mainVars, radioVars>>
TunThread ==
  TunStep /\ UNCHANGED <<routerVars, consoleVars, serVars, captureVars,
                         mainVars, radioVars>>
TunReadThread ==
  TunReadStep /\ UNCHANGED <<routerVars, consoleVars, serVars, captureVars,
                             mainVars, radioVars>>
CaptureThread ==
  CaptureStep /\ UNCHANGED <<routerVars, consoleVars, serVars, tunVars,
                             mainVars, radioVars>>

-----------------------------------------------------------------------------
(* The environment.  The radio answers the commands (first byte 0x06 or any  *)
(* other that the console sent) one by one, in their order, whenever it      *)
(* likes; it passes packets of the interface on and does not answer them.    *)
Answer ==
  /\ ~SIM
  /\ answered < Len(sent)
  /\ answered' = answered + 1
  /\ LET x == sent[answered + 1]
     IN  IF x.source = "con" THEN FrameArrives("other", x.body)
         ELSE UNCHANGED <<busVars, serialVars>>
  /\ UNCHANGED <<frames, simVars, routerVars, consoleVars, tunVars, captureVars, mainVars>>

(* A frame of its own: over-the-air traffic, a captured frame, a report.     *)
(* Its number does not occur among those of the commands.                    *)
RadioFrame ==
  /\ ~SIM /\ frames < MaxFrames
  /\ frames' = frames + 1
  /\ \E f \in FrameFronts : FrameArrives(f, <<MaxLines + frames + 1>>)
  /\ UNCHANGED <<answered, simVars, routerVars, consoleVars, tunVars, captureVars, mainVars>>

(* A packet of the interface.  Its kind is not looked at without -s, so the  *)
(* model then considers IPv6 packets only.                                   *)
Packet ==
  /\ ~SIM /\ Len(read) + Len(nic) < MaxPackets
  /\ \E p \in Packets : /\ p.id = Len(read) + Len(nic) + 1
                        /\ (p.ipv6 \/ ipv6only)
                        /\ PacketArrives(p)
  /\ UNCHANGED <<routerVars, consoleVars, serVars, captureVars, mainVars,
                 radioVars>>

(* The serial port or the network interface fails. *)
PortFails ==
  /\ ~SIM
  /\ SerialError(MaxErrors) \/ SerialSendFails(MaxErrors)
  /\ UNCHANGED <<simVars, routerVars, consoleVars, tunVars, captureVars, mainVars, radioVars>>

InterfaceFails ==
  /\ errors < MaxErrors
  /\ TunSelectFails \/ TunReadFails
  /\ errors' = errors + 1
  /\ UNCHANGED <<port, armed, received, sent, simVars, routerVars, consoleVars,
                 captureVars, mainVars, radioVars>>

(* An exception nobody catches, or undefined behaviour, ends all threads.    *)
Crashed == "terminated" \in {pc["rtr"], pc["cap"], pc["ser"], pc["tunrx"]}

Finished == (pc["main"] = "done" \/ Crashed) /\ UNCHANGED vars

(* All but main(). *)
Others == \/ RouterThread \/ ConsoleThread \/ SerThread
          \/ TunThread \/ TunReadThread \/ CaptureThread
          \/ Answer \/ RadioFrame \/ Packet \/ PortFails \/ InterfaceFails

Next == (~Crashed /\ (Main \/ Others)) \/ Finished

(* The program among clients of any kind, who may type what they like.       *)
Spec == Init /\ [][Next]_vars

(* What people at a terminal do.  The last of them quits; lines that send    *)
(* nothing are left out, as only the other lines are numbered.               *)
TerminalServe ==
  \/ Accept \/ Parse
  \/ EndSession /\ (session = MaxSessions => realQuit')

TerminalNext == (~Crashed /\ (Lifecycle \/ TerminalServe \/ Others)) \/ Finished

TerminalSpec == Init /\ [][TerminalNext]_vars

(* Every thread of the program is scheduled.  Neither the radio nor the      *)
(* clients owe us anything: a client may stay connected and say nothing.     *)
Fairness ==
  /\ WF_vars(Lifecycle)
  /\ WF_vars(RouterThread) /\ WF_vars(ConsoleThread) /\ WF_vars(SerThread)
  /\ WF_vars(TunThread) /\ WF_vars(TunReadThread) /\ WF_vars(CaptureThread)

-----------------------------------------------------------------------------
MainPCs == {"start", "threads", "hold router", "start router", "loop", "accept",
            "parse", "release", "sentinel", "join", "done"}

(* TypeOK: the queues hold messages, every thread is at a place of its own,  *)
(* and the histories record messages.                                        *)
TypeOK ==
  /\ inQ \in [Devices -> Seq(Message)]
  /\ hold \in [Devices -> BOOLEAN]
  /\ DOMAIN pc = Threads
  /\ pc["main"] \in MainPCs
  /\ pc["con"] \in {"none", "test", "more", "pop", "exited"}
  /\ pc["ser"] \in {"none", "start", "test", "poll", "pop", "receive", "exited",
                    "terminated"}
  /\ pc["tunrx"] \in {"none", "test", "select", "exited", "terminated"}
  /\ \A t \in {"rtr", "tun", "cap"} :
       pc[t] \in {"none", "test", "pop", "rules", "exited", "terminated"}
  /\ RouterTypeOK
  /\ {issued, asked, received, sent, written} \subseteq Seq(Message)
  /\ <<realQuit, wantReset, armed>> \in BOOLEAN \X BOOLEAN \X BOOLEAN
  /\ stopping \in Devices

(* The messages that have one way each through the router.                  *)
From(d) == {m \in Message : m.source = d /\ NonEmpty(m)}
Commands == {m \in From("con") : isPlain(m)}
Replies == {m \in From("ser") : isPlain(m)}
RawFrames == {m \in From("ser") : isRaw(m)}
CapturedFrames == {m \in From("ser") : isCap(m) /\ ~isShort(m)}

(* What the router holds of a kind of message: the one it is about to push,  *)
(* then the ones it has not taken yet.                                       *)
InRouter(kind) ==
  Only(IF pc["rtr"] = "rules" /\ pushed = {} THEN <<rtrMsg>> ELSE <<>>, kind)
  \o Only(inQ["rtr"], kind)

(* Every command given to the console, but for `data` with a first byte of   *)
(* 00 or 31, which no rule takes, is written to the serial port exactly once *)
(* and in the order of the commands, or is still in one of the two queues or *)
(* in the router's hands.  This holds from the first session to the end of   *)
(* the shutdown.  (What a thread leaves in its queue when it is stopped is   *)
(* lost.  It was the last to arrive: nothing behind it has been written.)    *)
CommandsConserved ==
  Only(issued, Commands) = Only(sent \o inQ["ser"], Commands) \o InRouter(Commands)

(* Likewise every answer and report from the radio is printed exactly once   *)
(* and in order, or is on the way; a help text does not get between them     *)
(* and the queue twice.                                                      *)
RepliesConserved ==
  /\ Only(received, Replies) = Only(ConsoleOutput, Replies) \o InRouter(Replies)
  /\ asked = Only(ConsoleOutput, From("con"))

(* Likewise the raw frames from the radio, to the network interface.         *)
RawConserved ==
  Only(received, RawFrames) = Only(written \o inQ["tun"], RawFrames) \o InRouter(RawFrames)

(* Likewise the captured frames, to a capture file: those of more than five  *)
(* bytes.  (doc/design.md:79 says "All incoming messages are translated ...  *)
(* and written"; CaptureDevice.cpp:135 drops the shorter ones, which have no *)
(* byte between the first and the check sequence.)                           *)
CaptureConserved ==
  Only(received, CapturedFrames)
    = Only(captured \o inQ["cap"], CapturedFrames) \o InRouter(CapturedFrames)

(* When a session's printing thread has ended, all that was queued for the   *)
(* console when the session was released has been printed, in that order.    *)
SessionDrained ==
  pc["con"] = "exited" => /\ Len(due) <= Len(printed)
                          /\ SubSeq(Printed, 1, Len(due)) = due

(* A device only gets the kind of message it is there for: the capture       *)
(* device nothing for the radio and the capture file no frame too short, the *)
(* interface nothing but raw frames of the radio, the serial port nothing    *)
(* that came from it.                                                        *)
OnlyItsKind ==
  /\ \A i \in DOMAIN sent :
       sent[i].source = "tun" \/ (sent[i].source = "con" /\ isPlain(sent[i]))
  /\ \A i \in DOMAIN written : written[i].source = "ser" /\ isRaw(written[i])
  /\ \A i \in DOMAIN captured :
       captured[i].source = "ser" /\ isCap(captured[i]) /\ ~isShort(captured[i])
  /\ \A i \in DOMAIN printed :
       isPlain(printed[i].msg) \/ printed[i].msg.source = "con"

(* What the console prints it decodes.  The radio's replies are numbers in   *)
(* the model and can be anything, so decode() must be right for every reply. *)
ReadsWhatItTested ==
  \A k \in DOMAIN printed :
    printed[k].msg.source = "ser" => EveryReplyReadToItsEnd

(* The router is never given a message that nobody has put his name on,      *)
(* which would end the program (Router.cpp:112-115).                         *)
NeverTerminates == pc["rtr"] # "terminated"

(* The devices can be stopped: once a client has quit, whatever is under way, *)
(* main() returns.  (A client that has quit has ended the loop of sessions,  *)
(* and main() returns once: "again and again" says "sooner or later" here,   *)
(* and the checker is faster with it than with ~>.)                          *)
ShutdownCompletes == []<>(realQuit => pc["main"] = "done")

(* Every command gets to the radio, unless the daemon is shut down first.    *)
(* (Likewise: what has been sent stays sent.)                                *)
CommandsAreSent ==
  []<>(\A i \in DOMAIN issued :
         isPlain(issued[i]) =>
           \/ \E j \in DOMAIN sent : sent[j] = issued[i]
           \/ ~hold["ser"])

(* The packets that have left the TUN device, message by message.            *)
TunMessages == Only(sent \o inQ["ser"], From("tun")) \o InRouter(From("tun"))

(* Without -s every packet is forwarded as soon as it is read, at the end    *)
(* of a message of its own; what precedes it there is a run of the packets   *)
(* read just before.                                                         *)
EveryPacketForwarded ==
  ~ipv6only =>
    /\ Len(TunMessages) = Len(read)
    /\ \A k \in DOMAIN TunMessages :
         LET body == TunMessages[k].body
         IN  body = [i \in 1..Len(body) |-> read[k - Len(body) + i].id]

(* With -s what is forwarded is whole IPv6 packets, one per message, none    *)
(* twice and in the order of the interface.                                  *)
WholePackets ==
  LET bodies == [k \in DOMAIN TunMessages |-> TunMessages[k].body]
  IN  ipv6only =>
      /\ \A k \in DOMAIN bodies :
           /\ Len(bodies[k]) = 1
           /\ \E i \in DOMAIN read : read[i].id = bodies[k][1] /\ read[i].ipv6
      /\ \A j, k \in DOMAIN bodies : j < k => bodies[j][1] < bodies[k][1]

-----------------------------------------------------------------------------
(* What the documents say and the code does not do: each of these is         *)
(* violated.                                                                 *)

(* doc/design.md:67, "Messages that come into the input queue are classified *)
(* and sent to exactly one of the other ports", and wisund.cpp:222,          *)
(* "Everything else from the Console goes to the serial port": when the      *)
(* rules have been tried, the message has gone to one device.                *)
OneDestination ==
  pc["rtr"] = "rules" /\ cursor > Len(rules) =>
    Cardinality({rules[i].to : i \in pushed}) = 1

(* doc/design.md:76, "Anything received via tun is sent directly to Router": *)
(* each IPv6 packet read from the interface is part of exactly one message   *)
(* for the radio.                                                            *)
PacketsSentOnce ==
  \A i \in DOMAIN read :
    read[i].ipv6 =>
      Cardinality({k \in DOMAIN TunMessages :
                     \E l \in DOMAIN TunMessages[k].body :
                       TunMessages[k].body[l] = read[i].id}) = 1

(* doc/design.md:73, "Received messages are presumed to be reactions         *)
(* (answers) to sent messages via a 1-to-1 pairing": an answer is printed in *)
(* the session that gave the command.                                        *)
AnswersInTheirSession ==
  \A k \in DOMAIN printed :
    LET x == printed[k].msg
    IN  x.source = "ser" /\ x.body[1] \in DOMAIN givenIn
          => printed[k].session = givenIn[x.body[1]]
=============================================================================
