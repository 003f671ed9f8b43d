-------------------------- MODULE Delivery_proofs ---------------------------
(* What the daemon does with the messages it is given: none is lost, none is *)
(* delivered twice, and each kind keeps its order, whatever the threads do;  *)
(* and every device thread follows the protocol of SinkDevice.               *)
EXTENDS Wisund_proofs

histories == <<issued, asked, received, sent, written, captured, printed>>

(* The messages of a kind that are on their way to d, the oldest first.      *)
OnTheWay(kind, d) == Only(inQ[d], kind) \o InRouter(kind)

(* The router's thread does nothing in this step. *)
RouterRests ==
  /\ UNCHANGED routerVars
  /\ pc'["rtr"] = "rules" <=> pc["rtr"] = "rules"

(* What a step does to the queues and to the histories. *)
Issue(x) ==
  /\ x \in Message /\ x.source = "con"
  /\ Send(x) /\ issued' = Append(issued, x)
  /\ UNCHANGED <<asked, received, sent, written, captured, printed>>

Receipt(x) ==
  /\ x \in Message /\ x.source = "ser"
  /\ Send(x) /\ received' = Append(received, x)
  /\ UNCHANGED <<issued, asked, sent, written, captured, printed>>

Forward(x) ==
  /\ x \in Message /\ x.source = "tun"
  /\ TunRead /\ Send(x)
  /\ UNCHANGED histories

Ask(x) ==
  /\ x \in From("con")
  /\ Enqueue("con", x) /\ asked' = Append(asked, x)
  /\ UNCHANGED <<issued, received, sent, written, captured, printed>>

Rouse(d) == Enqueue(d, Empty) /\ UNCHANGED histories

Idle == UNCHANGED inQ /\ UNCHANGED histories

Added(history, x) == IF NonEmpty(x) THEN Append(history, x) ELSE history

SerTakes ==
  /\ Dequeue("ser") /\ sent' = Added(sent, Head(inQ["ser"]))
  /\ UNCHANGED <<issued, asked, received, written, captured, printed>>

TunTakes ==
  /\ Dequeue("tun") /\ written' = Added(written, Head(inQ["tun"]))
  /\ UNCHANGED <<issued, asked, received, sent, captured, printed>>

CapTakes ==
  /\ Dequeue("cap")
  /\ ~Controls =>
       LET x == Head(inQ["cap"])
       IN  captured' = IF Writable(x) THEN Append(captured, x) ELSE captured
  /\ UNCHANGED <<issued, asked, received, sent, written, printed>>

ConTakes ==
  /\ Dequeue("con")
  /\ LET x == Head(inQ["con"])
     IN  printed' = IF NonEmpty(x)
                    THEN Append(printed, [msg |-> x, session |-> session])
                    ELSE printed
  /\ UNCHANGED <<issued, asked, received, sent, written, captured>>

Delivery ==
  \/ /\ RouterRests
     /\ \/ Idle
        \/ \E x : Issue(x) \/ Receipt(x) \/ Forward(x) \/ Ask(x)
        \/ \E d \in Devices : Rouse(d)
        \/ SerTakes \/ TunTakes \/ CapTakes \/ ConTakes
  \/ RouterStep /\ UNCHANGED histories

-----------------------------------------------------------------------------
(* Every step is one of these. *)

(* A thread that goes on leaves the router's where it is. *)
LEMMA GoingRests ==
  ASSUME IInv, NEW t \in Threads \ {"rtr"}, NEW from, NEW to, Goto(t, from, to),
         UNCHANGED routerVars
  PROVE  RouterRests
  BY DEF IInv, PlacesOK, Goto, RouterRests, Threads

(* The console's thread. *)
LEMMA ConsoleDelivers == ASSUME IInv, ConsoleThread PROVE Delivery
<1>0. "con" \in Threads \ {"rtr"}
  BY DEF Threads
<1>1. CASE ConsoleTestHold \/ ConsoleTestMore
  <2>1. RouterRests
    BY <1>0, <1>1, GoingRests DEF ConsoleThread, ConsoleTestHold, ConsoleTestMore
  <2>2. Idle
    BY <1>1 DEF ConsoleThread, ConsoleTestHold, ConsoleTestMore, Idle, histories,
                consoleVars, serVars, serialVars, tunVars, captureVars
  <2> QED
    BY <2>1, <2>2 DEF Delivery
<1>2. CASE ConsolePrint
  <2>1. RouterRests
    BY <1>0, <1>2, GoingRests DEF ConsoleThread, ConsolePrint
  <2>2. ConTakes
    BY <1>2 DEF ConsoleThread, ConsolePrint, ConTakes, serVars, serialVars, tunVars,
                captureVars
  <2> QED
    BY <2>1, <2>2 DEF Delivery
<1> QED
  BY <1>1, <1>2 DEF ConsoleThread, ConsoleStep

(* The serial device's thread, or the simulator's. *)
LEMMA SerDelivers == ASSUME IInv, SerThread PROVE Delivery
<1>0. "ser" \in Threads \ {"rtr"}
  BY DEF Threads
<1> USE DEF histories, consoleVars, serVars, serialVars, simVars, tunVars, captureVars
<1>1. CASE ~SIM
  <2>0. SerialStep /\ UNCHANGED simVars /\ UNCHANGED <<routerVars, consoleVars, tunVars, captureVars>>
    BY <1>1 DEF SerThread
  <2>1. CASE SerialStart \/ SerialTestHold \/ SerialPolled
    <3>1. RouterRests
      BY <1>0, <2>0, <2>1, GoingRests DEF SerialStart, SerialTestHold, SerialPolled
    <3>2. Idle
      BY <2>0, <2>1 DEF SerialStart, SerialTestHold, SerialPolled, Idle
    <3> QED
      BY <3>1, <3>2 DEF Delivery
  <2>2. CASE SerialReceive
    <3>1. RouterRests
      BY <2>0, <2>2 DEF SerialReceive, RouterRests
    <3>2. FromPort \in Message /\ FromPort.source = "ser"
      <4>1. Head(port) \in Filled
        BY <2>2 DEF SerialReceive, IInv, SerOK
      <4> QED
        BY <1>1, <4>1, StampedMay DEF FromPort, setSource, Filled, Message
    <3>3. Receipt(FromPort)
      BY <2>0, <2>2, <3>2 DEF SerialReceive, Receipt
    <3> QED
      BY <3>1, <3>3 DEF Delivery
  <2>3. CASE SerialSend
    <3>1. RouterRests
      BY <1>0, <2>0, <2>3, GoingRests DEF SerialSend
    <3>2. CASE inQ["ser"] = <<>>
      <4>1. Idle
        BY <2>0, <2>3, <3>2 DEF SerialSend, Idle
      <4> QED
        BY <3>1, <4>1 DEF Delivery
    <3>3. CASE inQ["ser"] # <<>>
      <4>1. SerTakes
        BY <2>0, <2>3, <3>3 DEF SerialSend, SerTakes, Added
      <4> QED
        BY <3>1, <4>1 DEF Delivery
    <3> QED
      BY <3>2, <3>3
  <2> QED
    BY <2>0, <2>1, <2>2, <2>3 DEF SerialStep
<1>2. CASE SIM
  <2>0. /\ SimulatorStep
        /\ UNCHANGED <<routerVars, consoleVars, tunVars, captureVars>>
    BY <1>2 DEF SerThread
  <2>1. CASE TestHold("ser") /\ UNCHANGED <<simVars, received, sent>>
    <3>1. RouterRests
      BY <1>0, <2>0, <2>1, GoingRests DEF TestHold
    <3>2. Idle
      BY <2>0, <2>1 DEF TestHold, Idle
    <3> QED
      BY <3>1, <3>2 DEF Delivery
  <2>2. CASE SimSend
    <3>1. RouterRests
      BY <1>0, <2>0, <2>2, GoingRests DEF SimSend
    <3>2. SerTakes
      BY <2>0, <2>2 DEF SimSend, SerTakes, Added
    <3> QED
      BY <3>1, <3>2 DEF Delivery
  <2>3. CASE SimReceive
    <3>1. RouterRests
      BY <1>0, <2>0, <2>3, GoingRests DEF SimReceive
    <3>2. CASE Known(lastMessage)
      <4> DEFINE next == IF Counted(lastMessage) THEN (fcie + 1) % FcieModulus ELSE fcie
                 x == Response(lastMessage, next)
      <4>1. next \in Nat
        BY FcieAssumption DEF IInv, SerOK
      <4>2. Send(x) /\ received' = Append(received, x)
        BY <2>3, <3>2 DEF SimReceive, Receive
      <4> HIDE DEF next
      <4>3. x \in Message /\ x.source = "ser"
        BY <3>2, <4>1, ResponseMay DEF Response, IInv
      <4> HIDE DEF x
      <4>4. Receipt(x)
        BY <2>0, <2>3, <4>2, <4>3 DEF SimReceive, Receipt
      <4> QED
        BY <3>1, <4>4 DEF Delivery
    <3>3. CASE ~Known(lastMessage)
      <4>1. Idle
        BY <2>0, <2>3, <3>3 DEF SimReceive, Receive, Idle
      <4> QED
        BY <3>1, <4>1 DEF Delivery
    <3> QED
      BY <3>2, <3>3
  <2> QED
    BY <2>0, <2>1, <2>2, <2>3 DEF SimulatorStep
<1> QED
  BY <1>1, <1>2

(* The two threads of the TUN device. *)
LEMMA TunDelivers == ASSUME IInv, TunThread \/ TunReadThread PROVE Delivery
<1>0. {"tun", "tunrx"} \subseteq Threads \ {"rtr"}
  BY DEF Threads
<1> USE DEF histories, consoleVars, serVars, serialVars, tunVars, captureVars
<1>1. CASE TunThread
  <2>0. TunStep /\ UNCHANGED <<routerVars, consoleVars, serVars, captureVars>>
    BY <1>1 DEF TunThread
  <2>1. CASE TestHold("tun") /\ UNCHANGED tunVars
    <3>1. RouterRests
      BY <1>0, <2>0, <2>1, GoingRests DEF TestHold
    <3>2. Idle
      BY <2>0, <2>1 DEF TestHold, Idle
    <3> QED
      BY <3>1, <3>2 DEF Delivery
  <2>2. CASE TunWrite
    <3>1. RouterRests
      BY <1>0, <2>0, <2>2, GoingRests DEF TunWrite
    <3>2. TunTakes
      BY <2>0, <2>2 DEF TunWrite, TunTakes, Added
    <3> QED
      BY <3>1, <3>2 DEF Delivery
  <2> QED
    BY <2>0, <2>1, <2>2 DEF TunStep
<1>2. CASE TunReadThread
  <2>0. TunReadStep /\ UNCHANGED <<routerVars, consoleVars, serVars, captureVars>>
    BY <1>2 DEF TunReadThread
  <2>1. CASE TunReadTest \/ TunTimeout
    <3>1. RouterRests
      BY <1>0, <2>0, <2>1, GoingRests DEF TunReadTest, TunTimeout
    <3>2. Idle
      BY <2>0, <2>1 DEF TunReadTest, TunTimeout, Idle
    <3> QED
      BY <3>1, <3>2 DEF Delivery
  <2>2. CASE TunRead
    <3>1. RouterRests
      BY <2>0, <2>2 DEF TunRead, RouterRests
    <3>2. CASE Complete(tunBuf')
      <4> DEFINE x == TunMessage(tunBuf')
      <4>1. tunBuf' \in Seq(PacketType) /\ tunBuf' # <<>>
        BY <2>2 DEF TunRead, IInv, TunOK
      <4>2. ~SIM
        <5>1. pc["tunrx"] \in Places("tunrx") /\ pc["tunrx"] = "select"
          BY <1>0, <2>2 DEF TunRead, IInv, PlacesOK
        <5> QED
          BY <5>1 DEF Places
      <4>3. x \in Message /\ x.source = "tun"
        BY <4>1, <4>2, TunMessageMay DEF TunMessage, May, Filled
      <4>4. Send(x) /\ UNCHANGED histories
        BY <2>0, <2>2, <3>2 DEF TunRead
      <4> HIDE DEF x
      <4>5. Forward(x)
        BY <2>2, <4>3, <4>4 DEF Forward
      <4> QED
        BY <3>1, <4>5 DEF Delivery
    <3>3. CASE ~Complete(tunBuf')
      <4>1. Idle
        BY <2>0, <2>2, <3>3 DEF TunRead, Idle
      <4> QED
        BY <3>1, <4>1 DEF Delivery
    <3> QED
      BY <3>2, <3>3
  <2> QED
    BY <2>0, <2>1, <2>2 DEF TunReadStep
<1> QED
  BY <1>1, <1>2

(* The capture device's thread. *)
LEMMA CaptureDelivers == ASSUME IInv, CaptureThread PROVE Delivery
<1>0. "cap" \in Threads \ {"rtr"} /\ "cap" \in Devices
  BY DEF Threads, Devices
<1> USE DEF histories, consoleVars, serVars, serialVars, tunVars, captureVars
<1>a. CaptureStep /\ UNCHANGED <<routerVars, consoleVars, serVars, tunVars>>
  BY DEF CaptureThread
<1>1. CASE TestHold("cap") /\ UNCHANGED captureVars
  <2>1. RouterRests
    BY <1>0, <1>a, <1>1, GoingRests DEF TestHold
  <2>2. Idle
    BY <1>a, <1>1 DEF TestHold, Idle
  <2> QED
    BY <2>1, <2>2 DEF Delivery
<1>2. CASE CaptureWrite
  <2> DEFINE x == Head(inQ["cap"])
  <2>1. RouterRests
    BY <1>0, <1>a, <1>2, GoingRests DEF CaptureWrite
  <2>2. x \in May("cap") /\ Dequeue("cap")
    BY <1>0, <1>2, DequeueKeeps DEF CaptureWrite, IInv
  <2>3. ~Controls => captured' = IF Writable(x) THEN Append(captured, x) ELSE captured
    <3>1. ~Controls => capFile = "open" /\ (NonEmpty(x) => ~isControl(x))
      BY <2>2 DEF May, Meant, isCap, isControl, IInv, CaptureOK
    <3>2. CASE ~Writable(x)
      BY <1>2, <3>2 DEF CaptureWrite, ChangeFile
    <3>3. CASE Writable(x) /\ ~isControl(x)
      <4>1. WriteFrame(x)
        BY <1>2, <3>3 DEF CaptureWrite
      <4> QED
        BY <3>1, <3>3, <4>1 DEF WriteFrame
    <3> QED
      BY <3>1, <3>2, <3>3 DEF Writable
  <2>4. CapTakes
    BY <1>a, <2>2, <2>3 DEF CapTakes
  <2> QED
    BY <2>1, <2>4 DEF Delivery
<1>3. CASE CaptureCrash
  <2>1. RouterRests
    BY <1>0, <1>a, <1>3, GoingRests DEF CaptureCrash
  <2>2. Idle
    BY <1>a, <1>3 DEF CaptureCrash, Idle
  <2> QED
    BY <2>1, <2>2 DEF Delivery
<1> QED
  BY <1>a, <1>1, <1>2, <1>3 DEF CaptureStep

(* The environment puts nothing into a queue. *)
LEMMA EnvironmentDelivers ==
  ASSUME IInv, Answer \/ RadioFrame \/ Packet \/ PortFails \/ InterfaceFails
  PROVE  Delivery
<1> USE DEF histories, consoleVars, serVars, serialVars, tunVars, captureVars, busVars
<1>1. CASE Answer
  <2>1. UNCHANGED <<inQ, pc, received, sent>>
    BY <1>1 DEF Answer, FrameArrives
  <2> QED
    BY <1>1, <2>1 DEF Answer, Delivery, RouterRests, Idle
<1>2. CASE RadioFrame
  <2>1. PICK f \in FrameFronts : FrameArrives(f, <<MaxLines + frames + 1>>)
    BY <1>2 DEF RadioFrame
  <2>2. UNCHANGED <<inQ, pc, received, sent>>
    BY <2>1 DEF FrameArrives
  <2> QED
    BY <1>2, <2>2 DEF RadioFrame, Delivery, RouterRests, Idle
<1>3. CASE Packet
  <2>1. PICK p \in Packets : PacketArrives(p)
    BY <1>3 DEF Packet
  <2>2. UNCHANGED <<inQ, pc, written>>
    BY <2>1 DEF PacketArrives
  <2> QED
    BY <1>3, <2>2 DEF Packet, Delivery, RouterRests, Idle
<1>4. CASE PortFails
  <2>1. RouterRests
    <3>1. CASE SerialError(MaxErrors)
      BY <1>4, <3>1 DEF PortFails, SerialError, RouterRests
    <3>2. CASE SerialSendFails(MaxErrors)
      BY <1>4, <3>2, GoingRests DEF PortFails, SerialSendFails, Threads
    <3> QED
      BY <1>4, <3>1, <3>2 DEF PortFails
  <2>2. Idle
    BY <1>4 DEF PortFails, SerialError, SerialSendFails, Idle
  <2> QED
    BY <2>1, <2>2 DEF Delivery
<1>5. CASE InterfaceFails
  <2>1. UNCHANGED routerVars /\ \E to \in {"test", "terminated"} : Goto("tunrx", "select", to)
    BY <1>5 DEF InterfaceFails, TunSelectFails, TunReadFails
  <2>2. RouterRests
    BY <2>1, GoingRests DEF Threads
  <2>3. Idle
    BY <1>5 DEF InterfaceFails, TunSelectFails, TunReadFails, Idle
  <2> QED
    BY <2>2, <2>3 DEF Delivery
<1> QED
  BY <1>1, <1>2, <1>3, <1>4, <1>5

(* main(): holding, starting and releasing devices. *)
LEMMA LifecycleDelivers == ASSUME IInv, Phases, Lifecycle PROVE Delivery
<1>0. "main" \in Threads \ {"rtr"}
  BY DEF Threads
<1> USE DEF histories, consoleVars, serVars, serialVars, tunVars, captureVars
<1>1. CASE HoldDevices \/ HoldRouter \/ HoldConsole \/ BeginShutdown \/ ReleaseFlag
  <2>1. RouterRests
    BY <1>0, <1>1, GoingRests DEF HoldDevices, HoldRouter, HoldConsole, BeginShutdown,
                                  ReleaseFlag
  <2>2. Idle
    BY <1>1 DEF HoldDevices, HoldRouter, HoldConsole, BeginShutdown, ReleaseFlag, Idle
  <2> QED
    BY <2>1, <2>2 DEF Delivery
<1>2. CASE StartDevices
  <2>1. RouterRests
    BY <1>2 DEF StartDevices, RouterRests, IInv, PlacesOK, Threads
  <2>2. Idle
    BY <1>2 DEF StartDevices, Idle
  <2> QED
    BY <2>1, <2>2 DEF Delivery
<1>3. CASE StartRouter
  <2>1. Idle /\ UNCHANGED routerVars /\ pc'["rtr"] # "rules" /\ pc["main"] = "start router"
    BY <1>3 DEF StartRouter, Idle, IInv, PlacesOK, Threads
  <2>2. "rtr" \in Running \ {"con"}
    <3>1. CASE SIM
      BY <3>1 DEF Running, ShutdownOrder
    <3>2. CASE ~SIM
      BY <3>2 DEF Running, ShutdownOrder
    <3> QED
      BY <3>1, <3>2
  <2>3. OwnerTable("rtr") /\ DevicePhase("rtr")
    BY <2>2, OwnersFollow DEF OwnersKnown, Phases
  <2>4. pc["rtr"] = "none"
    BY <2>1, <2>3 DEF OwnerTable, DevicePhase
  <2>5. RouterRests
    BY <2>1, <2>4 DEF RouterRests
  <2> QED
    BY <2>1, <2>5 DEF Delivery
<1>4. CASE ReleaseSentinel
  <2>1. RouterRests
    BY <1>0, <1>4, GoingRests DEF ReleaseSentinel
  <2>2. stopping \in Devices
    BY MainTypes DEF IInv, MainOK
  <2>3. Rouse(stopping)
    BY <1>4 DEF ReleaseSentinel, Rouse
  <2> QED
    BY <2>1, <2>2, <2>3 DEF Delivery
<1>5. CASE JoinThread
  <2>1. RouterRests
    <3>1. CASE stopping = "con"
      BY <1>5, <3>1 DEF JoinThread, RouterRests, IInv, PlacesOK, Threads
    <3>2. CASE stopping # "con"
      BY <1>0, <1>5, <3>2, GoingRests DEF JoinThread
    <3> QED
      BY <3>1, <3>2
  <2>2. Idle
    BY <1>5 DEF JoinThread, Idle
  <2> QED
    BY <2>1, <2>2 DEF Delivery
<1> QED
  BY <1>1, <1>2, <1>3, <1>4, <1>5 DEF Lifecycle

(* main(): serving a client. *)
LEMMA ServeDelivers == ASSUME IInv, Serve PROVE Delivery
<1>0. "main" \in Threads \ {"rtr"}
  BY DEF Threads
<1> USE DEF histories, serVars, serialVars, tunVars, captureVars
<1>1. CASE Accept
  <2>1. RouterRests
    BY <1>1 DEF Accept, RouterRests, IInv, PlacesOK, Threads
  <2>2. Idle
    BY <1>1 DEF Accept, BeginSession, Idle
  <2> QED
    BY <2>1, <2>2 DEF Delivery
<1>2. CASE Parse
  <2>0. ParseLine(Lines) /\ UNCHANGED <<routerVars, serVars, tunVars, captureVars>>
    BY <1>2 DEF Parse, ParseOneOf
  <2>1. RouterRests
    BY <2>0 DEF ParseLine, RouterRests
  <2>2. ASSUME NEW f \in Fronts \ {"none"}, ConsolePush(NewLine(f)) PROVE \E x : Issue(x)
    <3> DEFINE x == setSource(NewLine(f), "con")
    <3>1. x \in Message /\ x.source = "con"
      BY LineFilled DEF IInv, Filled
    <3>2. Send(x) /\ issued' = Append(issued, x) /\ UNCHANGED asked
      BY <2>2 DEF ConsolePush
    <3> HIDE DEF x
    <3>3. Issue(x)
      BY <2>0, <3>1, <3>2 DEF Issue, ParseLine
    <3> QED
      BY <3>3
  <2>3. CASE Command \/ Data \/ CaptureFile
    <3>1. \E x : Issue(x)
      BY <2>2, <2>3 DEF Command, Data, CaptureFile, Fronts
    <3> QED
      BY <2>1, <3>1 DEF Delivery
  <2>4. CASE Help
    <3> DEFINE x == setSource(NewLine("xED"), "con")
    <3>1. x \in From("con")
      <4>1. x \in Filled /\ x.source = "con" /\ x.front = "xED"
        BY LineFilled DEF IInv, Fronts
      <4> QED
        BY <4>1 DEF From, Filled, NonEmpty
    <3>2. Enqueue("con", x) /\ asked' = Append(asked, x) /\ UNCHANGED issued
      BY <2>4 DEF Help
    <3> HIDE DEF x
    <3>3. Ask(x)
      BY <2>0, <3>1, <3>2 DEF Ask, ParseLine
    <3> QED
      BY <2>1, <3>3 DEF Delivery
  <2> QED
    BY <2>0, <2>3, <2>4 DEF ParseLine
<1>3. CASE EndSession
  <2>1. PICK quits \in BOOLEAN, resets \in BOOLEAN : EndSessionBy(quits, resets)
    BY <1>3 DEF EndSession
  <2>2. RouterRests
    BY <1>0, <2>1, GoingRests DEF EndSessionBy
  <2>3. Idle
    BY <2>1 DEF EndSessionBy, ParseEnd, Idle
  <2> QED
    BY <2>2, <2>3 DEF Delivery
<1>4. CASE Reject
  BY <1>4 DEF Reject, busVars, Delivery, RouterRests, Idle
<1> QED
  BY <1>1, <1>2, <1>3, <1>4 DEF Serve

(* All together. *)
LEMMA StepDelivers == ASSUME IInv, Phases, [Next]_vars PROVE Delivery
<1>1. CASE UNCHANGED vars
  BY <1>1 DEF vars, busVars, consoleVars, serVars, serialVars, tunVars, captureVars,
              Delivery, RouterRests, Idle, histories
<1>2. CASE RouterThread
  BY <1>2 DEF RouterThread, consoleVars, serVars, serialVars, tunVars, captureVars,
              Delivery, histories
<1>3. CASE Others /\ ~RouterThread
  BY <1>3, ConsoleDelivers, SerDelivers, TunDelivers, CaptureDelivers,
     EnvironmentDelivers DEF Others
<1> QED
  BY <1>1, <1>2, <1>3, LifecycleDelivers, ServeDelivers DEF Next, Main, Finished
-----------------------------------------------------------------------------
(* A kind of message passes through two queues and the router's hands on its *)
(* way: what is in them, the oldest first.                                   *)
Pipe(q, h, r, T) == Cat(Only(q, T), Cat(Only(h, T), Only(r, T)))

(* All of them are sequences. *)
LEMMA PipeTyped ==
  ASSUME NEW q \in Seq(Message), NEW h \in Seq(Message), NEW r \in Seq(Message), NEW T
  PROVE  /\ Only(q, T) \in Seq(Message) /\ Only(h, T) \in Seq(Message)
         /\ Only(r, T) \in Seq(Message)
         /\ Cat(Only(h, T), Only(r, T)) \in Seq(Message)
         /\ Pipe(q, h, r, T) \in Seq(Message)
<1>1. /\ Only(q, T) \in Seq(Message) /\ Only(h, T) \in Seq(Message)
      /\ Only(r, T) \in Seq(Message)
  BY OnlySeq
<1>2. Cat(Only(h, T), Only(r, T)) \in Seq(Message)
  BY <1>1 DEF Cat
<1>3. Pipe(q, h, r, T) \in Seq(Message)
  BY <1>1, <1>2 DEF Pipe, Cat
<1> QED
  BY <1>1, <1>2, <1>3

(* A message is put in at the far end. *)
LEMMA PipeIn ==
  ASSUME NEW q \in Seq(Message), NEW h \in Seq(Message), NEW r \in Seq(Message),
         NEW x \in Message, NEW T
  PROVE  Pipe(q, h, Add(r, x), T) = Cat(Pipe(q, h, r, T), Only(One(x), T))
<1> DEFINE a == Only(q, T)
           b == Only(h, T)
           c == Only(r, T)
           y == Only(One(x), T)
<1>0. One(x) \in Seq(Message)
  BY DEF One
<1>1. a \in Seq(Message) /\ b \in Seq(Message) /\ c \in Seq(Message) /\ y \in Seq(Message)
  BY <1>0, OnlySeq
<1>2. Only(Add(r, x), T) = Cat(c, y)
  BY OnlyAdd
<1> HIDE DEF a, b, c, y
<1>3. Cat(b, Cat(c, y)) = Cat(Cat(b, c), y) /\ Cat(b, c) \in Seq(Message)
  BY <1>1, CatThree, WordsTyped
<1>4. Cat(a, Cat(Cat(b, c), y)) = Cat(Cat(a, Cat(b, c)), y)
  BY <1>1, <1>3, CatThree
<1> QED
  BY <1>2, <1>3, <1>4 DEF Pipe, a, b, c, y

(* One is taken out at the near end. *)
LEMMA PipeOut ==
  ASSUME NEW q \in Seq(Message), NEW h \in Seq(Message), NEW r \in Seq(Message), NEW T,
         q # None
  PROVE  Pipe(q, h, r, T) = Cat(Only(One(Head(q)), T), Pipe(Rest(q), h, r, T))
<1> DEFINE a == Only(One(Head(q)), T)
           b == Only(Rest(q), T)
           c == Cat(Only(h, T), Only(r, T))
<1>1. Rest(q) \in Seq(Message) /\ One(Head(q)) \in Seq(Message) /\ q = Cat(One(Head(q)), Rest(q))
  BY FirstRest
<1>2. a \in Seq(Message) /\ b \in Seq(Message) /\ c \in Seq(Message)
  BY <1>1, OnlySeq, PipeTyped
<1>3. Only(q, T) = Cat(a, b)
  BY <1>1, OnlyCat
<1> HIDE DEF a, b, c
<1>4. Cat(Cat(a, b), c) = Cat(a, Cat(b, c))
  BY <1>2, CatThree
<1> QED
  BY <1>3, <1>4 DEF Pipe, a, b, c

(* The router takes one into its hands. *)
LEMMA PipeTake ==
  ASSUME NEW q \in Seq(Message), NEW r \in Seq(Message), NEW T, r # None
  PROVE  /\ Pipe(q, None, r, T) = Pipe(q, One(Head(r)), Rest(r), T)
         /\ Head(r) \notin T => Pipe(q, None, r, T) = Pipe(q, None, Rest(r), T)
<1> DEFINE a == Only(One(Head(r)), T)
           c == Only(Rest(r), T)
<1>1. Rest(r) \in Seq(Message) /\ One(Head(r)) \in Seq(Message) /\ r = Cat(One(Head(r)), Rest(r))
  BY FirstRest
<1>2. a \in Seq(Message) /\ c \in Seq(Message)
  BY <1>1, OnlySeq
<1>3. Only(r, T) = Cat(a, c) /\ Only(None, T) = None
  BY <1>1, OnlyCat, OnlyNothing
<1>4. Head(r) \notin T => a = None
  BY OnlySingle
<1> HIDE DEF a, c
<1>5. Cat(a, c) \in Seq(Message)
  BY <1>2 DEF Cat
<1>6. Cat(None, Cat(a, c)) = Cat(a, c) /\ Cat(None, c) = c
  BY <1>2, <1>5, CatNone
<1> QED
  BY <1>3, <1>4, <1>6 DEF Pipe, a, c

(* The router puts the one in its hands into the near queue. *)
LEMMA PipePush ==
  ASSUME NEW q \in Seq(Message), NEW r \in Seq(Message), NEW x \in Message, NEW T
  PROVE  Pipe(q, One(x), r, T) = Pipe(Add(q, x), None, r, T)
<1> DEFINE a == Only(q, T)
           c == Only(r, T)
           y == Only(One(x), T)
<1>0. One(x) \in Seq(Message)
  BY DEF One
<1>1. a \in Seq(Message) /\ c \in Seq(Message) /\ y \in Seq(Message)
  BY <1>0, OnlySeq
<1>2. Only(Add(q, x), T) = Cat(a, y) /\ Only(None, T) = None
  BY OnlyAdd, OnlyNothing
<1> HIDE DEF a, c, y
<1>3. Cat(a, Cat(y, c)) = Cat(Cat(a, y), c) /\ Cat(None, c) = c
  BY <1>1, CatThree, CatNone
<1> QED
  BY <1>2, <1>3 DEF Pipe, a, c, y

(* Messages of another kind do not count. *)
LEMMA PipeMiss ==
  ASSUME NEW q \in Seq(Message), NEW h \in Seq(Message), NEW r \in Seq(Message),
         NEW x \in Message, NEW T, x \notin T
  PROVE  /\ Pipe(q, One(x), r, T) = Pipe(q, None, r, T)
         /\ Pipe(Add(q, x), h, r, T) = Pipe(q, h, r, T)
         /\ Pipe(q, h, Add(r, x), T) = Pipe(q, h, r, T)
<1>1. Only(One(x), T) = None /\ Only(None, T) = None
  BY OnlySingle, OnlyNothing
<1>2. Only(q, T) \in Seq(Message) /\ Only(r, T) \in Seq(Message)
  BY OnlySeq
<1>3. Only(Add(q, x), T) = Only(q, T) /\ Only(Add(r, x), T) = Only(r, T)
  BY <1>1, <1>2, OnlyAdd, CatNone
<1> QED
  BY <1>1, <1>3 DEF Pipe

-----------------------------------------------------------------------------
(* The queues on the way to d, step by step. *)
Hands == IF pc["rtr"] = "rules" /\ pushed = {} THEN One(rtrMsg) ELSE None

Way(T, d) == Pipe(inQ[d], Hands, inQ["rtr"], T)

(* The way to a device is made of sequences. *)
LEMMA WayTyped ==
  ASSUME IInv, NEW d \in Devices
  PROVE  /\ inQ[d] \in Seq(Message) /\ inQ["rtr"] \in Seq(Message)
         /\ Hands \in Seq(Message) /\ rtrMsg \in Message
         /\ DOMAIN inQ = Devices /\ "rtr" \in Devices
<1>1. rtrMsg \in Message
  BY DEF IInv, RouterOK, May, Filled
<1>2. One(rtrMsg) \in Seq(Message) /\ None \in Seq(Message)
  BY <1>1 DEF One, None
<1>3. inQ \in [Devices -> Seq(Message)] /\ "rtr" \in Devices
  BY DEF IInv, QueuesOK, Devices
<1> QED
  BY <1>1, <1>2, <1>3 DEF Hands

(* push() and pop() on the queues. *)
LEMMA Queued ==
  ASSUME IInv, NEW e \in Devices, NEW x, Enqueue(e, x)
  PROVE  inQ'[e] = Add(inQ[e], x) /\ \A d \in Devices \ {e} : inQ'[d] = inQ[d]
  BY WayTyped DEF Enqueue, Add

(* pop() *)
LEMMA Dequeued ==
  ASSUME IInv, NEW e \in Devices, Dequeue(e)
  PROVE  /\ inQ[e] # None /\ inQ'[e] = Rest(inQ[e])
         /\ \A d \in Devices \ {e} : inQ'[d] = inQ[d]
  BY WayTyped DEF Dequeue, None, Rest

(* While the router's thread does nothing its hands hold what they held. *)
LEMMA HandsRest == ASSUME RouterRests PROVE Hands' = Hands
  BY DEF RouterRests, Hands, routerVars

(* A message is handed to the router. *)
LEMMA SendAhead ==
  ASSUME IInv, RouterRests, NEW d \in Devices \ {"rtr"}, NEW x \in Message, NEW T, Send(x)
  PROVE  Way(T, d)' = Cat(Way(T, d), Only(One(x), T))
<1>1. inQ'[d] = inQ[d] /\ inQ'["rtr"] = Add(inQ["rtr"], x)
  BY WayTyped, Queued DEF Send
<1> QED
  BY <1>1, WayTyped, HandsRest, PipeIn DEF Way

(* Something of another kind is put into a queue. *)
LEMMA QueueAhead ==
  ASSUME IInv, RouterRests, NEW d \in Devices \ {"rtr"}, NEW e \in Devices,
         NEW x \in Message, NEW T, x \notin T, Enqueue(e, x)
  PROVE  Way(T, d)' = Way(T, d)
<1>1. /\ inQ'[e] = Add(inQ[e], x)
      /\ \A c \in Devices \ {e} : inQ'[c] = inQ[c]
  BY Queued
<1>2. CASE e = d
  BY <1>1, <1>2, WayTyped, HandsRest, PipeMiss DEF Way
<1>3. CASE e = "rtr"
  BY <1>1, <1>3, WayTyped, HandsRest, PipeMiss DEF Way
<1>4. CASE e # d /\ e # "rtr"
  BY <1>1, <1>4, WayTyped, HandsRest DEF Way
<1> QED
  BY <1>2, <1>3, <1>4

(* The device takes a message. *)
LEMMA TakeAhead ==
  ASSUME IInv, RouterRests, NEW d \in Devices \ {"rtr"}, NEW T, Dequeue(d)
  PROVE  Way(T, d) = Cat(Only(One(Head(inQ[d])), T), Way(T, d)')
<1>1. inQ[d] # None /\ inQ'[d] = Rest(inQ[d]) /\ inQ'["rtr"] = inQ["rtr"]
  BY WayTyped, Dequeued
<1> QED
  BY <1>1, WayTyped, HandsRest, PipeOut DEF Way

(* Another device takes one. *)
LEMMA OtherTakesAhead ==
  ASSUME IInv, RouterRests, NEW d \in Devices \ {"rtr"},
         NEW e \in Devices \ {"rtr", d}, NEW T, Dequeue(e)
  PROVE  Way(T, d)' = Way(T, d)
<1>1. inQ'[d] = inQ[d] /\ inQ'["rtr"] = inQ["rtr"]
  BY WayTyped, Dequeued
<1> QED
  BY <1>1, HandsRest DEF Way

-----------------------------------------------------------------------------
(* The router while it tries its rules: the rules that match and that it has *)
(* passed have pushed the message it holds.                                  *)
Passed == {i \in DOMAIN rules : i < cursor /\ Matches(rules[i], rtrMsg)}

RoutingOK == pc["rtr"] = "rules" => NonEmpty(rtrMsg) /\ pushed = Passed

(* The router has one rule for each message of the kind, and that names d.   *)
Routed(T, d) ==
  \A x \in T \cap May("rtr") :
    \E i \in DOMAIN rules :
      rules[i].to = d /\ \A j \in DOMAIN rules : Matches(rules[j], x) <=> j = i
(* What a rule of the programs is about: one line per rule. *)
LEMMA RulesKnown ==
  ASSUME RouterOK, NEW i \in DOMAIN rules
  PROVE  /\ i \in Nat /\ Len(rules) \in Nat /\ DOMAIN rules = 1..Len(rules)
         /\ rules[i].to \in Devices \ {"rtr"}
         /\ rules[i].to = "con" => rules[i].from = "ser"
         /\ rules[i].pred = "nullptr" =>
              rules[i].from = "tun" /\ \A j \in DOMAIN rules : j > i => rules[j].from # "tun"
<1> USE DEF Devices
<1>1. CASE SIM
  BY <1>1 DEF RouterOK, SimRules
<1>2. CASE ~SIM
  BY <1>2 DEF RouterOK, WisundRules
<1> QED
  BY <1>1, <1>2

(* The loop of the router keeps its record. *)
LEMMA RouterKeepsRecord ==
  ASSUME IInv, IInv', RoutingOK, RouterStep
  PROVE  RoutingOK'
<1>0. "rtr" \in Threads /\ DOMAIN pc = Threads /\ pc'["rtr"] \in Places("rtr")
  BY DEF Threads, IInv, PlacesOK
<1>1. CASE TestHold("rtr") /\ UNCHANGED routerVars
  BY <1>0, <1>1 DEF TestHold, Goto, RoutingOK
<1>2. CASE RouterPop
  <2>1. cursor' = 1 /\ pushed' = {} /\ UNCHANGED rules
    BY <1>2 DEF RouterPop
  <2>2. Passed' = {}
    <3>1. \A i \in DOMAIN rules : i \in Nat /\ i \in 1..Len(rules)
      BY RulesKnown DEF IInv
    <3>2. \A i \in DOMAIN rules : ~(i < 1)
      BY <3>1
    <3> QED
      BY <2>1, <3>2 DEF Passed
  <2>3. pc'["rtr"] = "rules" => NonEmpty(rtrMsg')
    BY <1>0, <1>2 DEF RouterPop, Goto
  <2> QED
    BY <2>1, <2>2, <2>3 DEF RoutingOK, NonEmpty
<1>3. CASE RouterRule
  <2>0. /\ pc["rtr"] = "rules" /\ UNCHANGED <<pc, rules, rtrMsg>>
        /\ cursor \in Nat /\ cursor \in DOMAIN rules
        /\ \A i \in DOMAIN rules : i \in Nat
        /\ Len(rules) \in Nat /\ DOMAIN rules = 1..Len(rules)
    <3>1. cursor \in 1..Len(rules) /\ pc["rtr"] = "rules" /\ UNCHANGED <<pc, rules, rtrMsg>>
      BY <1>3 DEF RouterRule, IInv, RouterOK
    <3>2. RouterOK /\ rules \in Seq(RoutingRules)
      BY RulesTyped DEF IInv
    <3> QED
      BY <3>1, <3>2
  <2>1. CASE Matches(Current, rtrMsg)
    <3>1. pushed' = pushed \cup {cursor}
      BY <1>3, <2>1 DEF RouterRule, RouterPush
    <3>2. CASE Current.pred = "nullptr"
      <4>1. cursor' = Len(rules) + 1
        BY <1>3, <2>1, <3>2 DEF RouterRule, RouterPush
      <4>2. \A j \in DOMAIN rules : j > cursor => ~Matches(rules[j], rtrMsg)
        <5>1. \A j \in DOMAIN rules : j > cursor => rules[j].from # rules[cursor].from
          BY <2>0, <3>2, RulesKnown DEF Current, IInv
        <5> QED
          BY <2>1, <5>1 DEF Matches, Current
      <4>3. Passed' = Passed \cup {cursor}
        BY <2>0, <2>1, <4>1, <4>2 DEF Passed, Current, Matches
      <4> QED
        BY <2>0, <3>1, <4>3 DEF RoutingOK, NonEmpty
    <3>3. CASE Current.pred # "nullptr"
      <4>1. cursor' = cursor + 1
        BY <1>3, <2>1, <3>3 DEF RouterRule, RouterPush
      <4>2. Passed' = Passed \cup {cursor}
        BY <2>0, <2>1, <4>1 DEF Passed, Current, Matches
      <4> QED
        BY <2>0, <3>1, <4>2 DEF RoutingOK, NonEmpty
    <3> QED
      BY <3>2, <3>3
  <2>2. CASE ~Matches(Current, rtrMsg)
    <3>1. cursor' = cursor + 1 /\ pushed' = pushed
      BY <1>3, <2>2 DEF RouterRule, RouterSkip
    <3>2. Passed' = Passed
      BY <2>0, <2>2, <3>1 DEF Passed, Current, Matches
    <3> QED
      BY <2>0, <3>1, <3>2 DEF RoutingOK, NonEmpty
  <2> QED
    BY <2>1, <2>2
<1>4. CASE RouterNextMessage
  BY <1>0, <1>4 DEF RouterNextMessage, Goto, RoutingOK
<1> QED
  BY <1>1, <1>2, <1>3, <1>4 DEF RouterStep

(* The router brings a message of the kind on, from one place on its way to  *)
(* the next.                                                                 *)
LEMMA RouterAhead ==
  ASSUME IInv, IInv', RoutingOK, RouterStep, NEW d \in Devices \ {"rtr"}, NEW T,
         Routed(T, d), \A x \in T : NonEmpty(x)
  PROVE  Way(T, d)' = Way(T, d)
<1>0. "rtr" \in Threads /\ "rtr" \in Devices /\ DOMAIN pc = Threads /\ pc'["rtr"] \in Places("rtr")
  BY DEF Threads, Devices, IInv, PlacesOK
<1>1. CASE TestHold("rtr") /\ UNCHANGED routerVars
  <2>1. Hands' = None /\ Hands = None
    BY <1>0, <1>1 DEF TestHold, Goto, Hands
  <2> QED
    BY <1>1, <2>1 DEF TestHold, Way
<1>2. CASE RouterPop
  <2>1. /\ inQ["rtr"] # None /\ inQ'["rtr"] = Rest(inQ["rtr"]) /\ inQ'[d] = inQ[d]
        /\ rtrMsg' = Head(inQ["rtr"]) /\ pushed' = {}
    BY <1>0, <1>2, Dequeued DEF RouterPop
  <2>2. Hands = None
    BY <1>2 DEF RouterPop, Goto, Hands
  <2>3. CASE NonEmpty(rtrMsg')
    <3>1. pc'["rtr"] = "rules"
      BY <1>0, <1>2, <2>3 DEF RouterPop, Goto, Places
    <3>2. Hands' = One(Head(inQ["rtr"]))
      BY <2>1, <3>1 DEF Hands
    <3> QED
      BY <2>1, <2>2, <3>2, WayTyped, PipeTake DEF Way
  <2>4. CASE ~NonEmpty(rtrMsg')
    <3>1. pc'["rtr"] = "test"
      BY <1>0, <1>2, <2>4 DEF RouterPop, Goto
    <3>2. Hands' = None /\ Head(inQ["rtr"]) \notin T
      BY <2>1, <2>4, <3>1 DEF Hands
    <3> QED
      BY <2>1, <2>2, <3>2, WayTyped, PipeTake DEF Way
  <2> QED
    BY <2>3, <2>4
<1>3. CASE RouterRule
  <2>0. /\ pc["rtr"] = "rules" /\ UNCHANGED <<pc, rules, rtrMsg>> /\ cursor \in DOMAIN rules
        /\ rtrMsg \in May("rtr") /\ pushed = Passed /\ NonEmpty(rtrMsg)
    <3>1. cursor \in 1..Len(rules) /\ pc["rtr"] = "rules" /\ UNCHANGED <<pc, rules, rtrMsg>>
      BY <1>3 DEF RouterRule, IInv, RouterOK
    <3>2. RouterOK /\ rules \in Seq(RoutingRules)
      BY RulesTyped DEF IInv
    <3> QED
      BY <3>1, <3>2 DEF RoutingOK, RouterOK
  <2>1. CASE Matches(Current, rtrMsg)
    <3>1. /\ Enqueue(Current.to, rtrMsg) /\ pushed' = pushed \cup {cursor}
          /\ Current.to \in Devices \ {"rtr"}
      BY <1>3, <2>0, <2>1, RulesKnown DEF RouterRule, RouterPush, Current, IInv
    <3>2. Hands' = None /\ inQ'["rtr"] = inQ["rtr"]
      BY <1>0, <3>1, Queued DEF Hands
    <3>3. CASE rtrMsg \in T
      <4>1. PICK i \in DOMAIN rules :
              rules[i].to = d /\ \A j \in DOMAIN rules : Matches(rules[j], rtrMsg) <=> j = i
        BY <2>0, <3>3 DEF Routed
      <4>2. i = cursor /\ Current.to = d
        BY <2>0, <2>1, <4>1 DEF Current
      <4>3. pushed = {}
        <5>1. \A j \in Passed : j = cursor /\ j < cursor
          BY <4>1, <4>2 DEF Passed
        <5>2. cursor \in Nat
          BY DEF IInv, RouterOK
        <5>3. Passed = {}
          BY <5>1, <5>2
        <5> QED
          BY <2>0, <5>3
      <4>4. Hands = One(rtrMsg)
        BY <2>0, <4>3 DEF Hands
      <4>5. inQ'[d] = Add(inQ[d], rtrMsg)
        BY <3>1, <4>2, Queued
      <4> QED
        BY <3>2, <4>4, <4>5, WayTyped, PipePush DEF Way
    <3>4. CASE rtrMsg \notin T
      <4> DEFINE q == inQ[d]
                 r == inQ["rtr"]
      <4>1. q \in Seq(Message) /\ r \in Seq(Message) /\ rtrMsg \in Message
            /\ None \in Seq(Message)
        BY WayTyped DEF None
      <4>2. inQ'[d] = q \/ inQ'[d] = Add(q, rtrMsg)
        BY <3>1, Queued
      <4>3. Hands = None \/ Hands = One(rtrMsg)
        BY DEF Hands
      <4> HIDE DEF q, r
      <4>4. /\ Pipe(q, One(rtrMsg), r, T) = Pipe(q, None, r, T)
            /\ Pipe(Add(q, rtrMsg), None, r, T) = Pipe(q, None, r, T)
        BY <3>4, <4>1, PipeMiss
      <4>5. Way(T, d)' = Pipe(inQ'[d], None, r, T)
        BY <3>2 DEF Way, r
      <4>6. Way(T, d) = Pipe(q, Hands, r, T)
        BY DEF Way, q, r
      <4> QED
        BY <4>2, <4>3, <4>4, <4>5, <4>6
    <3> QED
      BY <3>3, <3>4
  <2>2. CASE ~Matches(Current, rtrMsg)
    BY <1>3, <2>2 DEF RouterRule, RouterSkip, Way, Hands
  <2> QED
    BY <2>1, <2>2
<1>4. CASE RouterNextMessage
  <2>1. /\ UNCHANGED <<inQ, routerVars>> /\ cursor > Len(rules) /\ pc["rtr"] = "rules"
        /\ pc'["rtr"] = "test"
    BY <1>0, <1>4 DEF RouterNextMessage, Goto
  <2>2. Hands' = None
    BY <2>1 DEF Hands
  <2>3. pushed = {} => rtrMsg \notin T
    <3>1. pushed = Passed /\ rtrMsg \in May("rtr") /\ cursor \in Nat
      BY <2>1 DEF RoutingOK, IInv, RouterOK
    <3>2. \A i \in DOMAIN rules : i < cursor
      <4>1. \A i \in DOMAIN rules : i \in Nat /\ Len(rules) \in Nat /\ i \in 1..Len(rules)
        BY RulesKnown DEF IInv
      <4> QED
        BY <2>1, <3>1, <4>1
    <3> QED
      BY <3>1, <3>2 DEF Routed, Passed
  <2>4. CASE Hands = None
    BY <2>1, <2>2, <2>4 DEF Way
  <2>5. CASE Hands # None
    <3>1. Hands = One(rtrMsg) /\ rtrMsg \notin T
      BY <2>3, <2>5 DEF Hands
    <3> QED
      BY <2>1, <2>2, <3>1, WayTyped, PipeMiss DEF Way
  <2> QED
    BY <2>4, <2>5
<1> QED
  BY <1>1, <1>2, <1>3, <1>4 DEF RouterStep

-----------------------------------------------------------------------------
(* What every step does to the way of a kind of message from one source.     *)
LEMMA StepAhead ==
  ASSUME IInv, IInv', RoutingOK, NEW d \in Devices \ {"rtr"}, NEW src, NEW T,
         T \subseteq From(src), Routed(T, d)
  PROVE  /\ Idle /\ RouterRests => Way(T, d)' = Way(T, d)
         /\ \A e \in Devices : Rouse(e) /\ RouterRests => Way(T, d)' = Way(T, d)
         /\ \A x \in Message :
              Send(x) /\ RouterRests => /\ Way(T, d)' = Cat(Way(T, d), Only(One(x), T))
                                        /\ x.source # src => Way(T, d)' = Way(T, d)
         /\ \A x : Ask(x) /\ RouterRests /\ (d # "con" \/ src # "con")
                     => Way(T, d)' = Way(T, d)
         /\ \A e \in Devices \ {"rtr"} :
              Dequeue(e) /\ RouterRests =>
                /\ e = d => Way(T, d) = Cat(Only(One(Head(inQ[d])), T), Way(T, d)')
                /\ e # d => Way(T, d)' = Way(T, d)
         /\ RouterStep => Way(T, d)' = Way(T, d)
<1>0. {"rtr", "con"} \subseteq Devices /\ Empty \in Message
  BY EmptyMay DEF Devices
<1>a. \A x \in T : NonEmpty(x) /\ x.source = src
  BY DEF From
<1>1. Idle /\ RouterRests => Way(T, d)' = Way(T, d)
  BY HandsRest DEF Idle, Way
<1>2. ASSUME NEW e \in Devices, Rouse(e), RouterRests PROVE Way(T, d)' = Way(T, d)
  <2>1. Empty \notin T
    BY <1>a DEF Empty, NonEmpty
  <2> QED
    BY <1>0, <1>2, <2>1, QueueAhead DEF Rouse
<1>3. ASSUME NEW x \in Message, Send(x), RouterRests
      PROVE  /\ Way(T, d)' = Cat(Way(T, d), Only(One(x), T))
             /\ x.source # src => Way(T, d)' = Way(T, d)
  <2>1. x.source # src => x \notin T
    BY <1>a
  <2> QED
    BY <1>0, <1>3, <2>1, SendAhead, QueueAhead DEF Send
<1>4. ASSUME NEW x, Ask(x), RouterRests, d # "con" \/ src # "con"
      PROVE  Way(T, d)' = Way(T, d)
  <2>1. x \in Message /\ x.source = "con" /\ Enqueue("con", x)
    BY <1>4 DEF Ask, From
  <2>2. CASE src # "con"
    <3>1. x \notin T
      BY <1>a, <2>1, <2>2
    <3> QED
      BY <1>0, <1>4, <2>1, <3>1, QueueAhead
  <2>3. CASE d # "con"
    <3>1. inQ'[d] = inQ[d] /\ inQ'["rtr"] = inQ["rtr"]
      BY <1>0, <2>1, <2>3, Queued
    <3> QED
      BY <1>4, <3>1, HandsRest DEF Way
  <2> QED
    BY <1>4, <2>2, <2>3
<1>5. ASSUME NEW e \in Devices \ {"rtr"}, Dequeue(e), RouterRests
      PROVE  /\ e = d => Way(T, d) = Cat(Only(One(Head(inQ[d])), T), Way(T, d)')
             /\ e # d => Way(T, d)' = Way(T, d)
  BY <1>5, TakeAhead, OtherTakesAhead
<1>6. RouterStep => Way(T, d)' = Way(T, d)
  BY <1>a, RouterAhead
<1> QED
  BY <1>1, <1>2, <1>3, <1>4, <1>5, <1>6

-----------------------------------------------------------------------------
(* What has been given is what has been taken and what is on its way.        *)
LEMMA FlowGiven ==
  ASSUME NEW g \in Seq(Message), NEW t \in Seq(Message), NEW w \in Seq(Message),
         NEW x \in Message, NEW T, Only(g, T) = Cat(Only(t, T), w)
  PROVE  Only(Add(g, x), T) = Cat(Only(t, T), Cat(w, Only(One(x), T)))
<1> DEFINE a == Only(t, T)
           y == Only(One(x), T)
<1>0. One(x) \in Seq(Message)
  BY DEF One
<1>1. a \in Seq(Message) /\ y \in Seq(Message)
  BY <1>0, OnlySeq
<1>2. Only(Add(g, x), T) = Cat(Cat(a, w), y)
  BY OnlyAdd
<1> HIDE DEF a, y
<1>3. Cat(Cat(a, w), y) = Cat(a, Cat(w, y))
  BY <1>1, CatThree
<1> QED
  BY <1>2, <1>3 DEF a, y

(* A message that is taken is no longer on its way. *)
LEMMA FlowTaken ==
  ASSUME NEW t \in Seq(Message), NEW w \in Seq(Message), NEW x \in Message, NEW T
  PROVE  Cat(Only(t, T), Cat(Only(One(x), T), w)) = Cat(Only(Add(t, x), T), w)
<1> DEFINE a == Only(t, T)
           y == Only(One(x), T)
<1>0. One(x) \in Seq(Message)
  BY DEF One
<1>1. a \in Seq(Message) /\ y \in Seq(Message)
  BY <1>0, OnlySeq
<1>2. Only(Add(t, x), T) = Cat(a, y)
  BY OnlyAdd
<1> HIDE DEF a, y
<1>3. Cat(Cat(a, y), w) = Cat(a, Cat(y, w))
  BY <1>1, CatThree
<1> QED
  BY <1>2, <1>3 DEF a, y

(* The message that wakes the thread up is of no kind. *)
LEMMA FlowEmpty ==
  ASSUME NEW w \in Seq(Message), NEW x, NEW T, x \notin T
  PROVE  Cat(Only(One(x), T), w) = w
  BY OnlySingle, CatNone

(* All the histories are of messages. *)
LEMMA HistoriesTyped ==
  ASSUME IInv
  PROVE  /\ issued \in Seq(Message) /\ asked \in Seq(Message) /\ received \in Seq(Message)
         /\ sent \in Seq(Message) /\ written \in Seq(Message) /\ captured \in Seq(Message)
         /\ Printed \in Seq(Message)
<1>1. issued \in Seq(Message) /\ asked \in Seq(Message) /\ received \in Seq(Message)
  BY DEF IInv, ConsoleOK, SerOK
<1>2. sent \in Seq(Message)
  BY DEF IInv, SerOK, Taken, May, Filled
<1>3. written \in Seq(Message)
  BY DEF IInv, TunOK, Taken, May, Filled
<1>4. captured \in Seq(Message)
  BY DEF IInv, CaptureOK, Taken, May, Filled
<1>5. Printed \in Seq(Message)
  <2>1. printed \in Seq(Prints)
    BY DEF IInv, ConsoleOK
  <2>2. \A p \in Prints : p.msg \in Message
    BY DEF Prints, Taken, May, Filled
  <2>3. Len(printed) \in Nat /\ DOMAIN printed = 1..Len(printed)
          /\ \A k \in 1..Len(printed) : printed[k] \in Prints
    BY <2>1
  <2>4. Printed \in [1..Len(printed) -> Message]
    BY <2>2, <2>3 DEF Printed
  <2> QED
    BY <2>3, <2>4
<1> QED
  BY <1>1, <1>2, <1>3, <1>4, <1>5

(* A step that takes from the queue of d and records what it takes, if that  *)
(* is of the kind.                                                           *)
LEMMA FlowTakes ==
  ASSUME IInv, IInv', NEW d \in Devices \ {"rtr"}, NEW x \in Message,
         NEW t \in Seq(Message), NEW T, NEW tt, tt = Added(t, x) \/ (tt = t /\ x \notin T),
         \A y \in T : NonEmpty(y), Way(T, d) = Cat(Only(One(x), T), Way(T, d)'),
         Way(T, d)' \in Seq(Message)
  PROVE  Cat(Only(t, T), Way(T, d)) = Cat(Only(tt, T), Way(T, d)')
<1>1. CASE tt = Append(t, x)
  BY <1>1, FlowTaken DEF Add
<1>2. CASE tt = t /\ x \notin T
  BY <1>2, FlowEmpty
<1> QED
  BY <1>1, <1>2 DEF Added

(* The way after the step is a sequence, too. *)
LEMMA WayNextTyped ==
  ASSUME IInv', NEW d \in Devices, NEW T
  PROVE  Way(T, d)' \in Seq(Message)
<1>1. rtrMsg' \in Message
  BY DEF IInv, RouterOK, May, Filled
<1>2. One(rtrMsg') \in Seq(Message) /\ None \in Seq(Message)
  BY <1>1 DEF One, None
<1>3. inQ' \in [Devices -> Seq(Message)] /\ "rtr" \in Devices
  BY DEF IInv, QueuesOK, Devices
<1>4. inQ'[d] \in Seq(Message) /\ inQ'["rtr"] \in Seq(Message) /\ Hands' \in Seq(Message)
  BY <1>2, <1>3 DEF Hands
<1> QED
  BY <1>4, PipeTyped DEF Way

-----------------------------------------------------------------------------
(* What a source has given to the router, and what a device has taken.       *)
Given(src) == IF src = "con" THEN issued ELSE received

TakenBy(d) == CASE d = "ser" -> sent
                [] d = "tun" -> written
                [] d = "cap" -> captured
                [] d = "con" -> Printed

Ends == {"ser", "tun", "cap", "con"}

Flow(T, src, d) == Only(Given(src), T) = Cat(Only(TakenBy(d), T), Way(T, d))

(* How the histories grow. *)
LEMMA GivenGrows ==
  ASSUME IInv, NEW src \in {"con", "ser"}
  PROVE  /\ Given(src) \in Seq(Message)
         /\ UNCHANGED histories => Given(src)' = Given(src)
         /\ \A x : Issue(x) => Given(src)' = IF src = "con" THEN Add(Given(src), x) ELSE Given(src)
         /\ \A x : Receipt(x) => Given(src)' = IF src = "ser" THEN Add(Given(src), x) ELSE Given(src)
         /\ \A x : Ask(x) => Given(src)' = Given(src)
         /\ SerTakes \/ TunTakes \/ CapTakes \/ ConTakes => Given(src)' = Given(src)
<1>1. Given(src) \in Seq(Message)
  BY HistoriesTyped DEF Given
<1> QED
  BY <1>1, Zenon DEF Given, histories, Issue, Receipt, Ask, SerTakes, TunTakes, CapTakes, ConTakes, Add

(* The console's printing thread takes what it prints. *)
LEMMA PrintedGrows ==
  ASSUME IInv
  PROVE  /\ UNCHANGED printed => Printed' = Printed
         /\ ConTakes => Printed' = Added(Printed, Head(inQ["con"]))
<1>1. UNCHANGED printed => Printed' = Printed
  BY DEF Printed
<1>2. ASSUME ConTakes PROVE Printed' = Added(Printed, Head(inQ["con"]))
  <2> DEFINE x == Head(inQ["con"])
  <2>1. CASE ~NonEmpty(x)
    BY <1>2, <1>1, <2>1 DEF ConTakes, Added
  <2>2. CASE NonEmpty(x)
    <3> DEFINE p == [msg |-> x, session |-> session]
    <3>1. printed' = Append(printed, p)
      BY <1>2, <2>2 DEF ConTakes
    <3>2. printed \in Seq(Prints) /\ p.msg = x
      BY DEF IInv, ConsoleOK
    <3> HIDE DEF p
    <3>3. /\ DOMAIN printed' = 1..(Len(printed) + 1) /\ Len(printed) \in Nat
          /\ DOMAIN printed = 1..Len(printed)
          /\ \A k \in 1..(Len(printed) + 1) :
               printed'[k] = IF k = Len(printed) + 1 THEN p ELSE printed[k]
      BY <3>1, <3>2
    <3>4. Printed \in Seq(Message) /\ Len(Printed) = Len(printed)
      <4>1. Printed \in Seq(Message) /\ DOMAIN Printed = DOMAIN printed
        BY HistoriesTyped DEF Printed
      <4> QED
        BY <3>3, <4>1
    <3>5. Printed' = [k \in 1..(Len(printed) + 1) |->
                        IF k = Len(printed) + 1 THEN x ELSE Printed[k]]
      BY <3>2, <3>3 DEF Printed
    <3> HIDE DEF x
    <3>6. Append(Printed, x) = [k \in 1..(Len(printed) + 1) |->
                                  IF k = Len(printed) + 1 THEN x ELSE Printed[k]]
      <4>1. x \in Message
        BY <1>2, DequeueKeeps DEF ConTakes, IInv, May, Filled, Devices, x
      <4> QED
        BY <3>4, <4>1, AppendAsFunction
    <3> QED
      BY <2>2, <3>5, <3>6 DEF Added, x
  <2> QED
    BY <2>1, <2>2
<1> QED
  BY <1>1, <1>2

(* What each device takes it records. *)
LEMMA TakenGrows ==
  ASSUME IInv, NEW d \in Ends, d = "cap" => ~Controls
  PROVE  /\ TakenBy(d) \in Seq(Message)
         /\ UNCHANGED histories => TakenBy(d)' = TakenBy(d)
         /\ \A x : Issue(x) \/ Receipt(x) \/ Ask(x) => TakenBy(d)' = TakenBy(d)
         /\ SerTakes => TakenBy(d)' = IF d = "ser" THEN Added(sent, Head(inQ[d])) ELSE TakenBy(d)
         /\ TunTakes => TakenBy(d)' = IF d = "tun" THEN Added(written, Head(inQ[d])) ELSE TakenBy(d)
         /\ CapTakes => TakenBy(d)' = IF d = "cap" /\ Writable(Head(inQ[d]))
                                       THEN Append(captured, Head(inQ[d])) ELSE TakenBy(d)
         /\ ConTakes => TakenBy(d)' = IF d = "con" THEN Added(Printed, Head(inQ[d])) ELSE TakenBy(d)
<1> USE PrintedGrows DEF TakenBy, Ends
<1>1. TakenBy(d) \in Seq(Message)
  BY HistoriesTyped
<1>2. UNCHANGED histories => TakenBy(d)' = TakenBy(d)
  BY DEF histories
<1>3. ASSUME NEW x, Issue(x) \/ Receipt(x) \/ Ask(x) PROVE TakenBy(d)' = TakenBy(d)
  BY <1>3 DEF Issue, Receipt, Ask
<1>4. SerTakes => TakenBy(d)' = IF d = "ser" THEN Added(sent, Head(inQ[d])) ELSE TakenBy(d)
  BY DEF SerTakes
<1>5. TunTakes => TakenBy(d)' = IF d = "tun" THEN Added(written, Head(inQ[d])) ELSE TakenBy(d)
  BY DEF TunTakes
<1>6. CapTakes => TakenBy(d)' = IF d = "cap" /\ Writable(Head(inQ[d]))
                                  THEN Append(captured, Head(inQ[d])) ELSE TakenBy(d)
  BY DEF CapTakes
<1>7. ConTakes => TakenBy(d)' = IF d = "con" THEN Added(Printed, Head(inQ[d])) ELSE TakenBy(d)
  BY DEF ConTakes
<1> QED
  BY <1>1, <1>2, <1>3, <1>4, <1>5, <1>6, <1>7

(* No step loses a message of the kind, doubles it or overtakes with it.     *)
LEMMA StepFlows ==
  ASSUME IInv, IInv', RoutingOK, Delivery, NEW src \in {"con", "ser"}, NEW d \in Ends,
         d # "con" \/ src # "con", d = "cap" => ~Controls,
         NEW T, d = "cap" => \A y \in T : ~isShort(y), T \subseteq From(src), Routed(T, d), Flow(T, src, d)
  PROVE  Flow(T, src, d)'
<1> DEFINE w == Way(T, d)
           g == Given(src)
           t == TakenBy(d)
<1>0. d \in Devices \ {"rtr"} /\ d \in Devices /\ Ends \subseteq Devices \ {"rtr"}
  BY DEF Devices, Ends
<1>t. w' \in Seq(Message) /\ w \in Seq(Message) /\ g \in Seq(Message) /\ t \in Seq(Message)
  <2>1. w' \in Seq(Message)
    BY <1>0, WayNextTyped
  <2>2. w \in Seq(Message)
    BY <1>0, WayTyped, PipeTyped DEF Way
  <2> QED
    BY <2>1, <2>2, GivenGrows, TakenGrows
<1>n. \A y \in T : NonEmpty(y)
  BY DEF From
<1>a. ASSUME Given(src)' = g, TakenBy(d)' = t, w' = w PROVE Flow(T, src, d)'
  BY <1>a DEF Flow
<1>b. ASSUME NEW x \in Message, Send(x), RouterRests, Given(src)' = Add(g, x), TakenBy(d)' = t
      PROVE  Flow(T, src, d)'
  <2>1. w' = Cat(w, Only(One(x), T))
    BY <1>0, <1>b, StepAhead
  <2>2. Only(g, T) = Cat(Only(t, T), w)
    BY DEF Flow
  <2> HIDE DEF w, g, t
  <2>3. Only(Add(g, x), T) = Cat(Only(t, T), Cat(w, Only(One(x), T)))
    BY <1>t, <2>2, FlowGiven
  <2> QED
    BY <1>b, <2>1, <2>3 DEF Flow, w, g, t
<1>c. ASSUME Dequeue(d), RouterRests, Given(src)' = g,
             \/ TakenBy(d)' = Added(t, Head(inQ[d]))
             \/ TakenBy(d)' = t /\ Head(inQ[d]) \notin T
      PROVE  Flow(T, src, d)'
  <2> DEFINE x == Head(inQ[d])
             tt == TakenBy(d)'
  <2>1. w = Cat(Only(One(x), T), w')
    BY <1>0, <1>c, StepAhead
  <2>2. x \in Message /\ (tt = Added(t, x) \/ (tt = t /\ x \notin T))
    <3>1. x \in May(d)
      BY <1>0, <1>c, DequeueKeeps DEF IInv
    <3> QED
      BY <1>c, <3>1 DEF May, Filled
  <2>3. Only(g, T) = Cat(Only(t, T), w)
    BY DEF Flow
  <2> HIDE DEF x, tt, t, g
  <2>4. Cat(Only(t, T), Way(T, d)) = Cat(Only(tt, T), Way(T, d)')
    BY <1>0, <1>t, <1>n, <2>1, <2>2, FlowTakes
  <2> QED
    BY <1>c, <2>3, <2>4 DEF Flow, x, tt, t, g
<1>1. CASE RouterStep /\ UNCHANGED histories
  BY <1>0, <1>1, <1>a, StepAhead, GivenGrows, TakenGrows
<1>2. CASE RouterRests /\ (Idle \/ \E e \in Devices : Rouse(e))
  <2>1. UNCHANGED histories
    BY <1>2 DEF Idle, Rouse
  <2> QED
    BY <1>0, <1>2, <2>1, <1>a, StepAhead, GivenGrows, TakenGrows
<1>3. ASSUME NEW x, Issue(x), RouterRests PROVE Flow(T, src, d)'
  <2>1. x \in Message /\ Send(x) /\ x.source = "con" /\ TakenBy(d)' = t
    BY <1>3, TakenGrows DEF Issue
  <2>2. CASE src = "con"
    BY <1>3, <1>b, <2>1, <2>2, GivenGrows
  <2>3. CASE src # "con"
    BY <1>0, <1>3, <1>a, <2>1, <2>3, StepAhead, GivenGrows
  <2> QED
    BY <2>2, <2>3
<1>4. ASSUME NEW x, Receipt(x), RouterRests PROVE Flow(T, src, d)'
  <2>1. x \in Message /\ Send(x) /\ x.source = "ser" /\ TakenBy(d)' = t
    BY <1>4, TakenGrows DEF Receipt
  <2>2. CASE src = "ser"
    BY <1>4, <1>b, <2>1, <2>2, GivenGrows
  <2>3. CASE src # "ser"
    BY <1>0, <1>4, <1>a, <2>1, <2>3, StepAhead, GivenGrows
  <2> QED
    BY <2>2, <2>3
<1>5. ASSUME NEW x, Forward(x), RouterRests PROVE Flow(T, src, d)'
  <2>1. x \in Message /\ Send(x) /\ x.source = "tun" /\ UNCHANGED histories
    BY <1>5 DEF Forward
  <2> QED
    BY <1>0, <1>5, <1>a, <2>1, StepAhead, GivenGrows, TakenGrows
<1>6. ASSUME NEW x, Ask(x), RouterRests PROVE Flow(T, src, d)'
  BY <1>0, <1>6, <1>a, StepAhead, GivenGrows, TakenGrows
<1>7. CASE RouterRests /\ SerTakes
  <2>1. Dequeue("ser")
    BY <1>7 DEF SerTakes
  <2>2. CASE d = "ser"
    BY <1>7, <1>c, <2>1, <2>2, GivenGrows, TakenGrows DEF TakenBy
  <2>3. CASE d # "ser"
    BY <1>0, <1>7, <1>a, <2>1, <2>3, StepAhead, GivenGrows, TakenGrows DEF Ends
  <2> QED
    BY <2>2, <2>3
<1>8. CASE RouterRests /\ TunTakes
  <2>1. Dequeue("tun")
    BY <1>8 DEF TunTakes
  <2>2. CASE d = "tun"
    BY <1>8, <1>c, <2>1, <2>2, GivenGrows, TakenGrows DEF TakenBy
  <2>3. CASE d # "tun"
    BY <1>0, <1>8, <1>a, <2>1, <2>3, StepAhead, GivenGrows, TakenGrows DEF Ends
  <2> QED
    BY <2>2, <2>3
<1>9. CASE RouterRests /\ CapTakes
  <2>1. Dequeue("cap")
    BY <1>9 DEF CapTakes
  <2>2. CASE d = "cap"
    <3> DEFINE x == Head(inQ["cap"])
    <3>1. Given(src)' = g /\ TakenBy(d)' = IF Writable(x) THEN Append(t, x) ELSE t
      BY <1>9, <2>2, GivenGrows, TakenGrows DEF TakenBy
    <3>2. CASE Writable(x)
      BY <1>9, <1>c, <2>1, <2>2, <3>1, <3>2 DEF Writable, Added
    <3>3. CASE ~Writable(x)
      <4>1. x \notin T
        BY <1>n, <2>2, <3>3 DEF Writable
      <4> QED
        BY <1>9, <1>c, <2>1, <2>2, <3>1, <3>3, <4>1
    <3> QED
      BY <3>2, <3>3
  <2>3. CASE d # "cap"
    BY <1>0, <1>9, <1>a, <2>1, <2>3, StepAhead, GivenGrows, TakenGrows DEF Ends
  <2> QED
    BY <2>2, <2>3
<1>10. CASE RouterRests /\ ConTakes
  <2>1. Dequeue("con")
    BY <1>10 DEF ConTakes
  <2>2. CASE d = "con"
    BY <1>10, <1>c, <2>1, <2>2, GivenGrows, TakenGrows DEF TakenBy
  <2>3. CASE d # "con"
    BY <1>0, <1>10, <1>a, <2>1, <2>3, StepAhead, GivenGrows, TakenGrows DEF Ends
  <2> QED
    BY <2>2, <2>3
<1> QED
  BY <1>1, <1>2, <1>3, <1>4, <1>5, <1>6, <1>7, <1>8, <1>9, <1>10 DEF Delivery

-----------------------------------------------------------------------------
(* Which messages each rule of the daemon is about, and whom it names. *)
LEMMA DaemonMatches ==
  ASSUME ~SIM, RouterOK, NEW x
  PROVE  /\ DOMAIN rules = 1..6
         /\ rules[2].to = "ser" /\ rules[3].to = "ser" /\ rules[4].to = "tun"
         /\ rules[5].to = "cap" /\ rules[6].to = "con"
         /\ Matches(rules[1], x) <=> x.source = "con" /\ isControl(x)
         /\ Matches(rules[2], x) <=> x.source = "con" /\ isPlain(x)
         /\ Matches(rules[3], x) <=> x.source = "tun"
         /\ Matches(rules[4], x) <=> x.source = "ser" /\ isRaw(x)
         /\ Matches(rules[5], x) <=> x.source = "ser" /\ isCap(x)
         /\ Matches(rules[6], x) <=> x.source = "ser" /\ isPlain(x)
<1>1. rules = WisundRules
  BY DEF RouterOK
<1>2. /\ DOMAIN rules = 1..6
      /\ rules[1] = [from |-> "con", to |-> "cap", pred |-> "isControl"]
      /\ rules[2] = [from |-> "con", to |-> "ser", pred |-> "isPlain"]
      /\ rules[3] = [from |-> "tun", to |-> "ser", pred |-> "nullptr"]
      /\ rules[4] = [from |-> "ser", to |-> "tun", pred |-> "isRaw"]
      /\ rules[5] = [from |-> "ser", to |-> "cap", pred |-> "isCap"]
      /\ rules[6] = [from |-> "ser", to |-> "con", pred |-> "isPlain"]
  BY <1>1 DEF WisundRules
<1> QED
  BY <1>2 DEF Matches, Satisfies

(* Likewise the simulator's. *)
LEMMA SimulatorMatches ==
  ASSUME SIM, RouterOK, NEW x
  PROVE  /\ DOMAIN rules = 1..2
         /\ rules[1].to = "ser" /\ rules[2].to = "con"
         /\ Matches(rules[1], x) <=> x.source = "con" /\ isPlain(x)
         /\ Matches(rules[2], x) <=> x.source = "ser" /\ isPlain(x)
<1>1. rules = SimRules
  BY DEF RouterOK
<1>2. /\ DOMAIN rules = 1..2
      /\ rules[1] = [from |-> "con", to |-> "ser", pred |-> "isPlain"]
      /\ rules[2] = [from |-> "ser", to |-> "con", pred |-> "isPlain"]
  BY <1>1 DEF SimRules
<1> QED
  BY <1>2 DEF Matches, Satisfies

(* The rules give each kind of message one way. *)
LEMMA KindsRouted ==
  ASSUME IInv
  PROVE  /\ Routed(Commands, "ser") /\ Routed(Replies, "con")
         /\ Routed(RawFrames, "tun") /\ Routed(CapturedFrames, "cap")
         /\ Routed(From("tun"), "ser")
<1>0. RouterOK
  BY DEF IInv
<1>1. CASE SIM
  <2>1. ASSUME NEW x \in May("rtr"), NonEmpty(x)
        PROVE  /\ x.source # "tun"
               /\ x.source = "ser" => isPlain(x)
    BY <1>1, <2>1 DEF May, Meant, isPlain, isRaw, isCap, isControl
  <2>2. Routed(Commands, "ser")
    BY <1>0, <1>1, SimulatorMatches DEF Routed, Commands, From
  <2>3. Routed(Replies, "con")
    BY <1>0, <1>1, SimulatorMatches DEF Routed, Replies, From
  <2>4. Routed(RawFrames, "tun") /\ Routed(CapturedFrames, "cap")
    BY <2>1 DEF Routed, RawFrames, CapturedFrames, From, isPlain
  <2>5. Routed(From("tun"), "ser")
    BY <2>1 DEF Routed, From
  <2> QED
    BY <2>2, <2>3, <2>4, <2>5
<1>2. CASE ~SIM
  <2>1. ASSUME NEW x \in Commands
        PROVE  \A j \in DOMAIN rules : Matches(rules[j], x) <=> j = 2
    BY <1>0, <1>2, DaemonMatches DEF Commands, From, isPlain, isRaw, isCap, isControl
  <2>2. ASSUME NEW x \in Replies
        PROVE  \A j \in DOMAIN rules : Matches(rules[j], x) <=> j = 6
    BY <1>0, <1>2, DaemonMatches DEF Replies, From, isPlain, isRaw, isCap, isControl
  <2>3. ASSUME NEW x \in RawFrames
        PROVE  \A j \in DOMAIN rules : Matches(rules[j], x) <=> j = 4
    BY <1>0, <1>2, DaemonMatches DEF RawFrames, From, isPlain, isRaw, isCap, isControl
  <2>4. ASSUME NEW x \in CapturedFrames
        PROVE  \A j \in DOMAIN rules : Matches(rules[j], x) <=> j = 5
    BY <1>0, <1>2, DaemonMatches DEF CapturedFrames, From, isPlain, isRaw, isCap, isControl
  <2>5. ASSUME NEW x \in From("tun")
        PROVE  \A j \in DOMAIN rules : Matches(rules[j], x) <=> j = 3
    BY <1>0, <1>2, DaemonMatches DEF From, isPlain, isRaw, isCap, isControl
  <2>6. /\ {2, 3, 4, 5, 6} \subseteq DOMAIN rules
        /\ rules[2].to = "ser" /\ rules[3].to = "ser" /\ rules[4].to = "tun"
        /\ rules[5].to = "cap" /\ rules[6].to = "con"
    BY <1>0, <1>2, DaemonMatches
  <2> QED
    BY <2>1, <2>2, <2>3, <2>4, <2>5, <2>6 DEF Routed
<1> QED
  BY <1>1, <1>2

(* The start of the program. *)
LEMMA FlowsBegin ==
  ASSUME Init, NEW src, NEW d \in Ends, NEW T
  PROVE  Flow(T, src, d)
<1>1. /\ issued = None /\ received = None /\ sent = None /\ written = None
      /\ captured = None /\ printed = None
      /\ \A e \in Devices : inQ[e] = None
  BY DEF Init, ConsoleInit, SerialInit, TunInit, CaptureInit, BusInit, None
<1>2. Printed = None
  BY <1>1 DEF Printed, None
<1>3. Given(src) = None /\ TakenBy(d) = None
  BY <1>1, <1>2 DEF Given, TakenBy, Ends
<1>4. Hands = None /\ inQ[d] = None /\ inQ["rtr"] = None
  BY <1>1 DEF Init, Hands, Threads, Ends, Devices
<1>5. Cat(None, None) = None
  BY DEF Cat, None
<1> QED
  BY <1>3, <1>4, <1>5, OnlyNothing DEF Flow, Way, Pipe

(* The router's record is right, and no kind of message is lost, doubled or  *)
(* reordered on its way.  (A capture device that is told to change its file  *)
(* may miss frames: then there is nothing to say about them.)                *)
Conserved ==
  /\ RoutingOK
  /\ Flow(Commands, "con", "ser") /\ Flow(Replies, "ser", "con")
  /\ Flow(RawFrames, "ser", "tun")
  /\ ~Controls => Flow(CapturedFrames, "ser", "cap")

(* From the first step to the last. *)
THEOREM FlowsConserved == Spec => []Conserved
<1>1. Init => Conserved
  <2> SUFFICES ASSUME Init PROVE Conserved
    OBVIOUS
  <2>1. RoutingOK
    BY DEF Init, RoutingOK, Threads
  <2> QED
    BY <2>1, FlowsBegin DEF Conserved, Ends
<1>2. IInv /\ IInv' /\ Phases /\ Conserved /\ [Next]_vars => Conserved'
  <2> SUFFICES ASSUME IInv, IInv', Phases, Conserved, [Next]_vars PROVE Conserved'
    OBVIOUS
  <2>1. Delivery
    BY StepDelivers
  <2>2. RoutingOK'
    <3>1. CASE RouterStep
      BY <3>1, RouterKeepsRecord DEF Conserved
    <3>2. CASE RouterRests
      BY <3>2 DEF RouterRests, routerVars, Conserved, RoutingOK, Passed
    <3> QED
      BY <2>1, <3>1, <3>2 DEF Delivery
  <2>3. /\ Commands \subseteq From("con") /\ Replies \subseteq From("ser")
        /\ RawFrames \subseteq From("ser") /\ CapturedFrames \subseteq From("ser")
        /\ Ends = {"ser", "tun", "cap", "con"}
        /\ \A y \in CapturedFrames : ~isShort(y)
    BY DEF Commands, Replies, RawFrames, CapturedFrames, Ends
  <2>4. Flow(Commands, "con", "ser")'
    BY <2>1, <2>3, KindsRouted, StepFlows DEF Conserved
  <2>5. Flow(Replies, "ser", "con")'
    BY <2>1, <2>3, KindsRouted, StepFlows DEF Conserved
  <2>6. Flow(RawFrames, "ser", "tun")'
    BY <2>1, <2>3, KindsRouted, StepFlows DEF Conserved
  <2>7. ~Controls => Flow(CapturedFrames, "ser", "cap")'
    BY <2>1, <2>3, KindsRouted, StepFlows DEF Conserved
  <2> QED
    BY <2>2, <2>4, <2>5, <2>6, <2>7 DEF Conserved
<1> QED
  BY <1>1, <1>2, Inductive, PhasesInductive, PTL DEF Spec

(* What the runs state of the queues, in the words of the proofs. *)
LEMMA FlowMeans ==
  ASSUME IInv, NEW src, NEW d \in Ends, NEW T, Flow(T, src, d)
  PROVE  Only(Given(src), T) = Only(TakenBy(d) \o inQ[d], T) \o InRouter(T)
<1>0. d \in Devices /\ (d = "cap" => TakenBy(d) \in Seq(Message)) /\ TakenBy(d) \in Seq(Message)
  BY HistoriesTyped DEF Devices, Ends, TakenBy
<1> DEFINE t == TakenBy(d)
           q == inQ[d]
           r == InRouter(T)
<1>1. t \in Seq(Message) /\ q \in Seq(Message)
  BY <1>0, WayTyped
<1>2. r = Cat(Only(Hands, T), Only(inQ["rtr"], T))
  BY DEF InRouter, Hands, Cat, One, None
<1>3. r \in Seq(Message)
  BY <1>0, <1>2, WayTyped, PipeTyped
<1>4. Only(Given(src), T) = Cat(Only(t, T), Cat(Only(q, T), r))
  BY <1>2 DEF Flow, Way, Pipe
<1> HIDE DEF t, q, r
<1>5. Only(t, T) \in Seq(Message) /\ Only(q, T) \in Seq(Message)
  BY <1>1, OnlySeq
<1>6. Only(Given(src), T) = Cat(Cat(Only(t, T), Only(q, T)), r)
  BY <1>3, <1>4, <1>5, CatThree
<1>7. Only(Cat(t, q), T) = Cat(Only(t, T), Only(q, T))
  BY <1>1, OnlyCat
<1>8. Only(Given(src), T) = Cat(Only(Cat(t, q), T), r)
  BY <1>6, <1>7
<1> QED
  BY <1>8 DEF Cat, t, q, r

(* Every command of the clients gets to the serial port once and in order.   *)
THEOREM CommandsArrive == Spec => []CommandsConserved
<1>1. IInv /\ Conserved => CommandsConserved
  BY FlowMeans DEF Conserved, CommandsConserved, Given, TakenBy, Ends
<1> QED
  BY <1>1, Inductive, FlowsConserved, PTL

(* Every raw frame of the radio gets to the network interface. *)
THEOREM RawFramesArrive == Spec => []RawConserved
<1>1. IInv /\ Conserved => RawConserved
  BY FlowMeans DEF Conserved, RawConserved, Given, TakenBy, Ends
<1> QED
  BY <1>1, Inductive, FlowsConserved, PTL

(* Every captured frame of more than five bytes gets to the capture file,    *)
(* unless the clients may change the file: then frames are lost.  (Nothing   *)
(* is ever written of the shorter ones.)                                     *)
THEOREM CapturedFramesArrive == ASSUME ~Controls PROVE Spec => []CaptureConserved
<1>1. IInv /\ Conserved => CaptureConserved
  BY FlowMeans DEF Conserved, CaptureConserved, Given, TakenBy, Ends
<1> QED
  BY <1>1, Inductive, FlowsConserved, PTL

-----------------------------------------------------------------------------
(* The console's output.  What a step does to the console's queue, to what   *)
(* it has printed and to the help texts that have been asked for.            *)
ConsoleMoves ==
  \/ UNCHANGED <<inQ["con"], Printed, asked>>
  \/ \E x \in Message :
       /\ x \notin From("con") /\ inQ'["con"] = Add(inQ["con"], x)
       /\ UNCHANGED <<Printed, asked>>
  \/ \E x \in From("con") :
       /\ inQ'["con"] = Add(inQ["con"], x) /\ asked' = Add(asked, x)
       /\ UNCHANGED Printed
  \/ /\ inQ["con"] # None /\ inQ'["con"] = Rest(inQ["con"])
     /\ Printed' = Added(Printed, Head(inQ["con"]))
     /\ UNCHANGED asked

(* The router's thread puts replies into the console's queue and no help     *)
(* texts.                                                                    *)
LEMMA RouterMovesConsole ==
  ASSUME IInv, RouterStep, UNCHANGED histories
  PROVE  ConsoleMoves
<1>0. UNCHANGED <<Printed, asked>>
  BY PrintedGrows DEF histories
<1>1. "con" \in Devices /\ "rtr" \in Devices /\ rtrMsg \in Message
  BY WayTyped DEF Devices
<1>2. CASE RouterPop
  BY <1>0, <1>1, <1>2, Dequeued DEF RouterPop, ConsoleMoves
<1>3. CASE RouterRule
  <2>1. CASE Matches(Current, rtrMsg)
    <3>1. cursor \in DOMAIN rules
      <4>1. cursor \in 1..Len(rules)
        BY <1>3 DEF RouterRule, IInv, RouterOK
      <4>2. rules \in Seq(RoutingRules)
        BY RulesTyped DEF IInv
      <4> QED
        BY <4>1, <4>2
    <3>2. /\ Enqueue(Current.to, rtrMsg) /\ Current.to \in Devices \ {"rtr"}
          /\ Current.to = "con" => Current.from = "ser"
      BY <1>3, <2>1, <3>1, RulesKnown DEF RouterRule, RouterPush, Current, IInv
    <3>3. Current.to = "con" => rtrMsg \notin From("con")
      BY <2>1, <3>2 DEF Matches, From
    <3> QED
      BY <1>0, <1>1, <3>2, <3>3, Queued DEF ConsoleMoves
  <2>2. CASE ~Matches(Current, rtrMsg)
    BY <1>0, <1>3, <2>2 DEF RouterRule, RouterSkip, ConsoleMoves
  <2> QED
    BY <2>1, <2>2
<1>4. CASE TestHold("rtr") \/ RouterNextMessage
  BY <1>0, <1>4 DEF TestHold, RouterNextMessage, ConsoleMoves
<1> QED
  BY <1>2, <1>3, <1>4 DEF RouterStep

(* Every step is one of these. *)
LEMMA StepMovesConsole == ASSUME IInv, Delivery PROVE ConsoleMoves
<1>0. /\ {"con", "rtr", "ser", "tun", "cap"} \subseteq Devices /\ Empty \in Message
      /\ Empty \notin From("con")
  BY EmptyMay DEF Devices, From, Empty, Null
<1>a. UNCHANGED printed => UNCHANGED Printed
  BY PrintedGrows
<1>1. CASE Idle
  BY <1>1, <1>a DEF Idle, histories, ConsoleMoves
<1>2. ASSUME NEW x, Issue(x) \/ Receipt(x) \/ Forward(x) PROVE ConsoleMoves
  <2>1. Enqueue("rtr", x) /\ UNCHANGED <<printed, asked>>
    BY <1>2 DEF Issue, Receipt, Forward, histories, Send
  <2> QED
    BY <1>0, <1>a, <2>1, Queued DEF ConsoleMoves
<1>3. ASSUME NEW x, Ask(x) PROVE ConsoleMoves
  <2>1. /\ x \in From("con") /\ Enqueue("con", x) /\ asked' = Add(asked, x)
        /\ UNCHANGED printed
    BY <1>3 DEF Ask, Add
  <2> QED
    BY <1>0, <1>a, <2>1, Queued DEF ConsoleMoves
<1>4. ASSUME NEW d \in Devices, Rouse(d) PROVE ConsoleMoves
  <2>1. Enqueue(d, Empty) /\ UNCHANGED <<printed, asked>>
    BY <1>4 DEF Rouse, histories
  <2> QED
    BY <1>0, <1>a, <2>1, Queued DEF ConsoleMoves
<1>5. CASE SerTakes \/ TunTakes \/ CapTakes
  <2>1. PICK e \in {"ser", "tun", "cap"} : Dequeue(e)
    BY <1>5 DEF SerTakes, TunTakes, CapTakes
  <2>2. UNCHANGED <<printed, asked>>
    BY <1>5 DEF SerTakes, TunTakes, CapTakes
  <2> QED
    BY <1>0, <1>a, <2>1, <2>2, Dequeued DEF ConsoleMoves
<1>6. CASE ConTakes
  <2>1. Dequeue("con") /\ UNCHANGED asked
    BY <1>6 DEF ConTakes
  <2> QED
    BY <1>0, <1>6, <2>1, Dequeued, PrintedGrows DEF ConsoleMoves
<1> QED
  BY <1>1, <1>2, <1>3, <1>4, <1>5, <1>6, RouterMovesConsole DEF Delivery

(* Of a kind of message: what has been printed and what is to be printed.    *)
Output(T) == Cat(Only(Printed, T), Only(inQ["con"], T))

(* What is printed was queued before, so a step at most adds to the output.  *)
LEMMA OutputGrows ==
  ASSUME IInv, ConsoleMoves, NEW T, \A y \in T : NonEmpty(y)
  PROVE  \/ Output(T)' = Output(T) /\ asked' = asked
         \/ \E x \in Message : /\ x \notin From("con") /\ asked' = asked
                               /\ Output(T)' = Cat(Output(T), Only(One(x), T))
         \/ \E x \in From("con") : /\ asked' = Add(asked, x)
                                   /\ Output(T)' = Cat(Output(T), Only(One(x), T))
<1> DEFINE P == Printed
           q == inQ["con"]
<1>0. P \in Seq(Message) /\ q \in Seq(Message)
  BY HistoriesTyped, WayTyped DEF Devices
<1>1. UNCHANGED <<q, P, asked>> => Output(T)' = Output(T)
  BY DEF Output
<1>2. ASSUME NEW x \in Message, q' = Add(q, x), UNCHANGED P
      PROVE  Output(T)' = Cat(Output(T), Only(One(x), T))
  <2>1. Output(T)' = Cat(Only(P, T), Only(Add(q, x), T)) /\ Output(T) = Cat(Only(P, T), Only(q, T))
    BY <1>2 DEF Output
  <2> DEFINE a == Only(P, T)
             b == Only(q, T)
             y == Only(One(x), T)
  <2>2. One(x) \in Seq(Message)
    BY DEF One
  <2>3. a \in Seq(Message) /\ b \in Seq(Message) /\ y \in Seq(Message)
    BY <1>0, <2>2, OnlySeq
  <2> HIDE DEF P, q
  <2>4. Only(Add(q, x), T) = Cat(b, y)
    BY <1>0, OnlyAdd
  <2> HIDE DEF a, b, y
  <2>5. Cat(a, Cat(b, y)) = Cat(Cat(a, b), y)
    BY <2>3, CatThree
  <2>6. Output(T)' = Cat(a, Cat(b, y)) /\ Output(T) = Cat(a, b)
    BY <2>1, <2>4 DEF a, b
  <2>7. Output(T)' = Cat(Output(T), y)
    BY <2>5, <2>6
  <2> QED
    BY <2>7 DEF y
<1>3. ASSUME q # None, q' = Rest(q), P' = Added(P, Head(q))
      PROVE  Output(T)' = Output(T)
  <2> DEFINE x == Head(q)
             r == Rest(q)
  <2>1. x \in Message /\ r \in Seq(Message) /\ One(x) \in Seq(Message) /\ q = Cat(One(x), r)
    BY <1>0, <1>3, FirstRest
  <2>2. Output(T) = Cat(Only(P, T), Only(q, T)) /\ Output(T)' = Cat(Only(Added(P, x), T), Only(r, T))
    BY <1>3 DEF Output
  <2>6. Only(r, T) \in Seq(Message) /\ Only(One(x), T) \in Seq(Message)
    BY <2>1, OnlySeq
  <2> HIDE DEF P, q, x, r
  <2>3. Only(q, T) = Cat(Only(One(x), T), Only(r, T))
    BY <2>1, OnlyCat
  <2>4. CASE NonEmpty(x)
    <3>1. Added(P, x) = Add(P, x)
      BY <2>4 DEF Added, Add
    <3>2. Cat(Only(P, T), Cat(Only(One(x), T), Only(r, T))) = Cat(Only(Add(P, x), T), Only(r, T))
      BY <1>0, <2>1, <2>6, FlowTaken
    <3> QED
      BY <2>2, <2>3, <3>1, <3>2
  <2>5. CASE ~NonEmpty(x)
    <3>1. Added(P, x) = P /\ x \notin T
      BY <2>5 DEF Added
    <3>2. Cat(Only(One(x), T), Only(r, T)) = Only(r, T)
      BY <2>6, <3>1, FlowEmpty
    <3> QED
      BY <2>2, <2>3, <3>1, <3>2
  <2> QED
    BY <2>4, <2>5
<1>4. From("con") \subseteq Message
  BY DEF From
<1> QED
  BY <1>1, <1>2, <1>3, <1>4 DEF ConsoleMoves

(* Messages that are not empty. *)
Full == {m \in Message : NonEmpty(m)}

(* The output of the console, in the words of the proofs. *)
LEMMA OutputMeans == ASSUME IInv PROVE ConsoleOutput = Output(Full)
<1>1. Printed \in Seq(Full)
  <2>1. printed \in Seq(Prints)
    BY DEF IInv, ConsoleOK
  <2>2. \A p \in Prints : p.msg \in Full
    BY DEF Prints, Taken, May, Filled, Full
  <2>3. Len(printed) \in Nat /\ DOMAIN printed = 1..Len(printed)
          /\ \A k \in 1..Len(printed) : printed[k] \in Prints
    BY <2>1
  <2>4. Printed \in [1..Len(printed) -> Full]
    BY <2>2, <2>3 DEF Printed
  <2> QED
    BY <2>3, <2>4
<1>2. Only(Printed, Full) = Printed
  BY <1>1, OnlyAll
<1> QED
  BY <1>2 DEF ConsoleOutput, Output, Cat, Full

(* The help texts asked for are in the output, each once and in order.       *)
HelpOK == asked = Output(From("con"))

(* From the first step to the last. *)
THEOREM HelpConserved == Spec => []HelpOK
<1>1. Init => HelpOK
  <2> SUFFICES ASSUME Init PROVE HelpOK
    OBVIOUS
  <2>1. asked = None /\ printed = None /\ inQ["con"] = None
    BY DEF Init, ConsoleInit, BusInit, Devices, None
  <2>2. Printed = None
    BY <2>1 DEF Printed, None
  <2>3. Cat(None, None) = None
    BY DEF Cat, None
  <2> QED
    BY <2>1, <2>2, <2>3, OnlyNothing DEF HelpOK, Output
<1>2. IInv /\ Phases /\ HelpOK /\ [Next]_vars => HelpOK'
  <2> SUFFICES ASSUME IInv, Phases, HelpOK, [Next]_vars PROVE HelpOK'
    OBVIOUS
  <2> DEFINE F == From("con")
  <2>1. ConsoleMoves
    BY StepDelivers, StepMovesConsole
  <2>2. \A y \in F : NonEmpty(y) /\ y \in Message
    BY DEF From
  <2>a. asked \in Seq(Message)
    BY HistoriesTyped
  <2> HIDE DEF F
  <2>3. \/ Output(F)' = Output(F) /\ asked' = asked
        \/ \E x \in Message : /\ x \notin F /\ asked' = asked
                              /\ Output(F)' = Cat(Output(F), Only(One(x), F))
        \/ \E x \in F : /\ asked' = Add(asked, x)
                        /\ Output(F)' = Cat(Output(F), Only(One(x), F))
    BY <2>1, <2>2, OutputGrows DEF F
  <2>4. asked = Output(F)
    BY DEF HelpOK, F
  <2>5. asked' = Output(F)'
    <3>1. \A x \in Message : x \notin F => Cat(asked, Only(One(x), F)) = asked
      BY <2>a, OnlySingle, CatNone
    <3>2. \A x \in F : Cat(asked, Only(One(x), F)) = Add(asked, x)
      BY <2>2, <2>a, OnlySingle, AddOne
    <3> QED
      BY <2>3, <2>4, <3>1, <3>2
  <2> QED
    BY <2>5 DEF HelpOK, F
<1> QED
  BY <1>1, <1>2, Inductive, PhasesInductive, PTL DEF Spec

(* Every answer and report of the radio is printed once and in order, and so *)
(* is every help text.                                                       *)
THEOREM RepliesArrive == Spec => []RepliesConserved
<1>1. IInv /\ Conserved /\ HelpOK => RepliesConserved
  <2> SUFFICES ASSUME IInv, Conserved, HelpOK PROVE RepliesConserved
    OBVIOUS
  <2> DEFINE q == inQ["con"]
             P == Printed
  <2>1. P \in Seq(Message) /\ q \in Seq(Message)
    BY HistoriesTyped, WayTyped DEF Devices
  <2>2. Only(received, Replies) = Only(Printed \o inQ["con"], Replies) \o InRouter(Replies)
    <3>1. Flow(Replies, "ser", "con") /\ "con" \in Ends /\ "ser" # "con"
      BY DEF Conserved, Ends
    <3>2. Given("ser") = received /\ TakenBy("con") = Printed
      BY DEF Given, TakenBy
    <3> QED
      BY <3>1, <3>2, FlowMeans
  <2>3. ConsoleOutput = Cat(P, Only(q, Full))
    BY DEF ConsoleOutput, Cat, Full
  <2> HIDE DEF P, q
  <2>4. Only(q, Full) \in Seq(Message)
    BY <2>1, OnlySeq
  <2>5. ASSUME NEW T, T \subseteq Full
        PROVE  Only(ConsoleOutput, T) = Only(Cat(P, q), T)
    <3>1. Full \cap T = T
      BY <2>5
    <3>2. Only(Only(q, Full), T) = Only(q, T)
      BY <2>1, <3>1, OnlyOnly
    <3> QED
      BY <2>1, <2>3, <2>4, <3>2, OnlyCat
  <2>6. Replies \subseteq Full /\ From("con") \subseteq Full
    BY DEF Replies, From, Full
  <2>7. Only(received, Replies) = Only(ConsoleOutput, Replies) \o InRouter(Replies)
    BY <2>2, <2>5, <2>6 DEF Cat, P, q
  <2>8. asked = Only(ConsoleOutput, From("con"))
    <3>1. asked = Cat(Only(P, From("con")), Only(q, From("con")))
      BY DEF HelpOK, Output, P, q
    <3> QED
      BY <2>1, <2>5, <2>6, <3>1, OnlyCat
  <2> QED
    BY <2>7, <2>8 DEF RepliesConserved
<1> QED
  BY <1>1, Inductive, FlowsConserved, HelpConserved, PTL

-----------------------------------------------------------------------------
(* The end of a session.  The console's thread ends when its queue is empty. *)
LEMMA ExitsEmpty ==
  ASSUME IInv, [Next]_vars, pc'["con"] = "exited", pc["con"] # "exited"
  PROVE  UNCHANGED <<inQ, Printed, due>> /\ inQ["con"] = None
<1>0. DOMAIN pc = Threads /\ {"con", "main", "rtr", "ser", "tun", "tunrx", "cap"} \subseteq Threads
  BY DEF IInv, PlacesOK, Threads
<1>a. ASSUME NEW t \in Threads \ {"con"}, NEW from, NEW to, Goto(t, from, to) PROVE FALSE
  BY <1>0, <1>a DEF Goto
<1>1. CASE UNCHANGED vars
  BY <1>1 DEF vars, busVars
<1>2. CASE Main
  <2>1. CASE StartDevices \/ StartRouter
    BY <1>0, <2>1 DEF StartDevices, StartRouter
  <2>2. CASE Accept
    BY <1>0, <2>2 DEF Accept
  <2>3. CASE Parse \/ Reject
    BY <2>3 DEF Parse, ParseOneOf, ParseLine, Reject, busVars
  <2>4. CASE EndSession
    <3>1. PICK quits \in BOOLEAN, resets \in BOOLEAN : EndSessionBy(quits, resets)
      BY <2>4 DEF EndSession
    <3> QED
      BY <1>0, <1>a, <3>1 DEF EndSessionBy
  <2>5. CASE JoinThread
    BY <1>0, <1>a, <2>5 DEF JoinThread
  <2>6. CASE HoldDevices \/ HoldRouter \/ HoldConsole \/ BeginShutdown \/ ReleaseFlag
             \/ ReleaseSentinel
    BY <1>0, <1>a, <2>6 DEF HoldDevices, HoldRouter, HoldConsole, BeginShutdown, ReleaseFlag,
                            ReleaseSentinel
  <2> QED
    BY <1>2, <2>1, <2>2, <2>3, <2>4, <2>5, <2>6 DEF Main, Lifecycle, Serve
<1>3. CASE RouterThread
  BY <1>0, <1>3, <1>a DEF RouterThread, RouterStep, RouterPop, RouterRule, RouterNextMessage,
                          TestHold
<1>4. CASE ConsoleThread
  <2>1. CASE ConsoleTestHold
    BY <1>0, <2>1 DEF ConsoleTestHold, Goto
  <2>2. CASE ConsoleTestMore
    <3>1. inQ["con"] = None /\ UNCHANGED <<inQ, printed, due>>
      BY <1>0, <1>4, <2>2 DEF ConsoleThread, ConsoleTestMore, Goto, None, consoleVars, mainVars
    <3> QED
      BY <3>1 DEF Printed
  <2>3. CASE ConsolePrint
    BY <1>0, <2>3 DEF ConsolePrint, Goto
  <2> QED
    BY <1>4, <2>1, <2>2, <2>3 DEF ConsoleThread, ConsoleStep
<1>5. CASE SerThread
  <2>1. CASE SimulatorStep
    BY <1>0, <1>a, <2>1 DEF SimulatorStep, SimSend, SimReceive, TestHold
  <2>2. CASE SerialStep
    BY <1>0, <1>a, <2>2 DEF SerialStep, SerialStart, SerialTestHold, SerialReceive,
                            SerialPolled, SerialSend
  <2> QED
    BY <1>5, <2>1, <2>2 DEF SerThread
<1>6. CASE TunThread \/ TunReadThread
  BY <1>0, <1>6, <1>a DEF TunThread, TunStep, TunWrite, TestHold, TunReadThread, TunReadStep,
                          TunReadTest, TunRead, TunTimeout
<1>7. CASE CaptureThread
  BY <1>0, <1>7, <1>a DEF CaptureThread, CaptureStep, CaptureWrite, CaptureCrash, TestHold
<1>8. CASE Answer \/ RadioFrame \/ Packet
  BY <1>8 DEF Answer, RadioFrame, Packet, FrameArrives, PacketArrives, busVars
<1>9. CASE PortFails \/ InterfaceFails
  BY <1>0, <1>9, <1>a DEF PortFails, SerialError, SerialSendFails, InterfaceFails,
                          TunSelectFails, TunReadFails
<1> QED
  BY <1>1, <1>2, <1>3, <1>4, <1>5, <1>6, <1>7, <1>8, <1>9 DEF Next, Finished, Others

(* What was due at the release is the first part of the output, and when the *)
(* thread has ended it is the first part of what has been printed.           *)
Begins(s, t) == \E w \in Seq(Message) : t = Cat(s, w)

DueOK ==
  /\ due \in Seq(Message)
  /\ Begins(due, Output(Full))
  /\ pc["con"] = "exited" => Begins(due, Printed)

(* More output does not change what it begins with. *)
LEMMA BeginsStill ==
  ASSUME NEW s \in Seq(Message), NEW t \in Seq(Message), NEW u \in Seq(Message),
         Begins(s, t)
  PROVE  Begins(s, Cat(t, u))
<1>1. PICK w \in Seq(Message) : t = Cat(s, w)
  BY DEF Begins
<1>2. Cat(t, u) = Cat(s, Cat(w, u)) /\ Cat(w, u) \in Seq(Message)
  BY <1>1, CatThree, WordsTyped
<1> QED
  BY <1>2 DEF Begins

(* When nothing is queued all the output is printed. *)
LEMMA OutputPrinted ==
  ASSUME IInv, inQ["con"] = None
  PROVE  Output(Full) = Printed
<1>1. Output(Full) = Cat(Printed, Only(inQ["con"], Full))
  BY OutputMeans DEF ConsoleOutput, Cat, Full
<1> QED
  BY <1>1, OnlyNothing, CatNone, HistoriesTyped

(* Which step changes what is due. *)
LEMMA DueChanges ==
  ASSUME IInv, Phases, [Next]_vars
  PROVE  \/ due' = due
         \/ /\ due' = ConsoleOutput /\ UNCHANGED <<inQ, Printed, pc["con"]>>
            /\ pc["con"] # "exited"
<1>1. CASE ReleaseFlag /\ stopping = "con"
  <2>1. due' = ConsoleOutput /\ UNCHANGED <<inQ, printed>> /\ pc["main"] = "release"
    BY <1>1 DEF ReleaseFlag, Goto, consoleVars
  <2>2. hold["con"]
    BY <1>1, <2>1 DEF Phases, ConsolePhase
  <2>3. pc["con"] # "exited"
    BY <2>2 DEF Phases, ConsolePhase
  <2>4. pc'["con"] = pc["con"]
    BY <1>1 DEF ReleaseFlag, Goto, IInv, PlacesOK, Threads
  <2> QED
    BY <2>1, <2>3, <2>4 DEF Printed
<1>2. CASE ReleaseFlag /\ stopping # "con"
  BY <1>2 DEF ReleaseFlag
<1>3. CASE Lifecycle /\ ~ReleaseFlag
  BY <1>3 DEF Lifecycle, HoldDevices, StartDevices, HoldRouter, StartRouter, HoldConsole,
              BeginShutdown, ReleaseSentinel, JoinThread, mainVars
<1>4. CASE Serve
  BY <1>4 DEF Serve, Accept, Parse, ParseOneOf, Reject, EndSession, EndSessionBy, mainVars
<1>5. CASE Others
  BY <1>5 DEF Others, RouterThread, ConsoleThread, SerThread, TunThread, TunReadThread,
              CaptureThread, Answer, RadioFrame, Packet, PortFails, InterfaceFails,
              mainVars
<1>6. CASE UNCHANGED vars
  BY <1>6 DEF vars, mainVars
<1> QED
  BY <1>1, <1>2, <1>3, <1>4, <1>5, <1>6 DEF Next, Main, Finished

(* From the first step to the last. *)
THEOREM DueInductive == Spec => []DueOK
<1>1. Init => DueOK
  <2> SUFFICES ASSUME Init PROVE DueOK
    OBVIOUS
  <2>1. printed = None /\ inQ["con"] = None /\ due = None /\ None \in Seq(Message)
    BY DEF Init, ConsoleInit, BusInit, Devices, None
  <2>2. Printed = None
    BY <2>1 DEF Printed, None
  <2>3. Cat(None, None) = None
    BY DEF Cat, None
  <2>4. Output(Full) = None
    BY <2>1, <2>2, <2>3, OnlyNothing DEF Output
  <2> QED
    BY <2>1, <2>2, <2>3, <2>4 DEF DueOK, Begins
<1>2. IInv /\ IInv' /\ Phases /\ DueOK /\ [Next]_vars => DueOK'
  <2> SUFFICES ASSUME IInv, IInv', Phases, DueOK, [Next]_vars PROVE DueOK'
    OBVIOUS
  <2>0. /\ Printed \in Seq(Message) /\ inQ["con"] \in Seq(Message) /\ Output(Full) \in Seq(Message)
        /\ None \in Seq(Message)
    <3>1. Printed \in Seq(Message) /\ inQ["con"] \in Seq(Message)
      BY HistoriesTyped, WayTyped DEF Devices
    <3>2. Only(Printed, Full) \in Seq(Message) /\ Only(inQ["con"], Full) \in Seq(Message)
      BY <3>1, OnlySeq
    <3>3. Output(Full) \in Seq(Message)
      BY <3>2 DEF Output, Cat
    <3> QED
      BY <3>1, <3>3 DEF None
  <2>1. CASE due' = due
    <3>1. ConsoleMoves
      BY StepDelivers, StepMovesConsole
    <3>2. PICK u \in Seq(Message) : Output(Full)' = Cat(Output(Full), u)
      <4>1. \A y \in Full : NonEmpty(y)
        BY DEF Full
      <4>2. \/ Output(Full)' = Output(Full)
            \/ \E x \in Message : Output(Full)' = Cat(Output(Full), Only(One(x), Full))
        BY <3>1, <4>1, OutputGrows DEF From
      <4>3. \A x \in Message : Only(One(x), Full) \in Seq(Message)
        <5>1. \A x \in Message : One(x) \in Seq(Message)
          BY DEF One
        <5> QED
          BY <5>1, OnlySeq
      <4>4. Output(Full) = Cat(Output(Full), None)
        BY <2>0, CatNone
      <4> QED
        BY <2>0, <4>2, <4>3, <4>4
    <3>3. Begins(due', Output(Full)')
      BY <2>0, <2>1, <3>2, BeginsStill DEF DueOK
    <3>4. pc["con"] = "exited" => Begins(due', Printed')
      <4>1. PICK v \in Seq(Message) : Printed' = Cat(Printed, v)
        <5>1. Printed' = Printed \/ \E x \in Message : Printed' = Add(Printed, x)
          <6>1. inQ["con"] # None => Head(inQ["con"]) \in Message
            BY <2>0, FirstRest
          <6> QED
            BY <3>1, <6>1 DEF ConsoleMoves, Added, Add
        <5>2. Printed = Cat(Printed, None)
          BY <2>0, CatNone
        <5>3. \A x \in Message : Add(Printed, x) = Cat(Printed, One(x)) /\ One(x) \in Seq(Message)
          <6>1. \A x \in Message : One(x) \in Seq(Message)
            BY DEF One
          <6> QED
            BY <2>0, <6>1, AddOne
        <5> QED
          BY <2>0, <5>1, <5>2, <5>3
      <4> QED
        BY <2>0, <2>1, <4>1, BeginsStill DEF DueOK
    <3>5. pc'["con"] = "exited" /\ pc["con"] # "exited" => Begins(due', Printed')
      <4> SUFFICES ASSUME pc'["con"] = "exited", pc["con"] # "exited" PROVE Begins(due', Printed')
        OBVIOUS
      <4>1. inQ["con"] = None /\ UNCHANGED Printed
        BY ExitsEmpty
      <4> QED
        BY <2>1, <4>1, OutputPrinted DEF DueOK
    <3> QED
      BY <2>1, <3>3, <3>4, <3>5 DEF DueOK
  <2>2. CASE due' = ConsoleOutput /\ UNCHANGED <<inQ, Printed, pc["con"]>> /\ pc["con"] # "exited"
    <3>1. due' = Output(Full) /\ Output(Full)' = Output(Full)
      BY <2>2, OutputMeans DEF Output
    <3>2. Output(Full) = Cat(Output(Full), None)
      BY <2>0, CatNone
    <3> QED
      BY <2>0, <2>2, <3>1, <3>2 DEF DueOK, Begins
  <2> QED
    BY <2>1, <2>2, DueChanges
<1> QED
  BY <1>1, <1>2, Inductive, PhasesInductive, PTL DEF Spec

(* When the printing thread of a session has ended it has printed all that   *)
(* was printed or queued when the session was released, in that order.       *)
THEOREM SessionsDrain == Spec => []SessionDrained
<1>1. IInv /\ DueOK => SessionDrained
  <2> SUFFICES ASSUME IInv, DueOK, pc["con"] = "exited"
               PROVE  Len(due) <= Len(printed) /\ SubSeq(Printed, 1, Len(due)) = due
    BY DEF SessionDrained
  <2>1. PICK w \in Seq(Message) : Printed = due \o w
    BY DEF DueOK, Begins, Cat
  <2>2. due \in Seq(Message) /\ Printed \in Seq(Message)
    BY HistoriesTyped DEF DueOK
  <2>3. Len(Printed) = Len(printed)
    <3>1. printed \in Seq(Prints) /\ DOMAIN Printed = DOMAIN printed
      BY DEF IInv, ConsoleOK, Printed
    <3>2. DOMAIN printed = 1..Len(printed) /\ Len(printed) \in Nat
      BY <3>1
    <3>3. DOMAIN Printed = 1..Len(Printed) /\ Len(Printed) \in Nat
      BY <2>2
    <3> QED
      BY <3>1, <3>2, <3>3
  <2>4. SubSeq(due \o w, 1, Len(due)) = due /\ Len(due) <= Len(due \o w)
    BY <2>2
  <2> QED
    BY <2>1, <2>3, <2>4
<1> QED
  BY <1>1, Inductive, DueInductive, PTL

-----------------------------------------------------------------------------
(* The packets of the interface.  What has left the TUN device, in the words *)
(* of the proofs.                                                            *)
Ours == From("tun")

LeftTun == Cat(Only(sent, Ours), Way(Ours, "ser"))

(* The two say the same. *)
LEMMA LeftTunMeans ==
  ASSUME IInv
  PROVE  TunMessages = LeftTun /\ LeftTun \in Seq(Message)
<1> DEFINE s == Only(sent, Ours)
           q == Only(inQ["ser"], Ours)
           r == InRouter(Ours)
<1>0. "ser" \in Devices
  BY DEF Devices
<1>1. /\ sent \in Seq(Message) /\ inQ["ser"] \in Seq(Message) /\ inQ["rtr"] \in Seq(Message)
      /\ Hands \in Seq(Message)
  BY <1>0, HistoriesTyped, WayTyped
<1>2. r = Cat(Only(Hands, Ours), Only(inQ["rtr"], Ours))
  BY DEF InRouter, Hands, Cat, One, None
<1>3. s \in Seq(Message) /\ q \in Seq(Message) /\ r \in Seq(Message)
  BY <1>1, <1>2, PipeTyped
<1>4. Only(Cat(sent, inQ["ser"]), Ours) = Cat(s, q)
  BY <1>1, OnlyCat
<1>5. TunMessages = Cat(Cat(s, q), r)
  BY <1>4 DEF TunMessages, Cat, Ours
<1>6. LeftTun = Cat(s, Cat(q, r))
  BY <1>2 DEF LeftTun, Way, Pipe
<1> HIDE DEF s, q, r
<1>7. Cat(Cat(s, q), r) = Cat(s, Cat(q, r))
  BY <1>3, CatThree
<1>8. Cat(q, r) \in Seq(Message)
  BY <1>3 DEF Cat
<1>9. Cat(s, Cat(q, r)) \in Seq(Message)
  BY <1>3, <1>8 DEF Cat
<1> QED
  BY <1>5, <1>6, <1>7, <1>9

(* What the threads leave of the TUN device's state, except the one that     *)
(* reads the interface, or fails to.                                         *)
LEMMA InterfaceWaits ==
  ASSUME IInv, [Next]_vars, ~TunReadThread, ~InterfaceFails
  PROVE  /\ UNCHANGED <<ipv6only, tunBuf, read>>
         /\ \/ UNCHANGED nic
            \/ \E p \in PacketType : /\ p.id = Len(read) + Len(nic) + 1
                                     /\ nic' = Append(nic, p)
<1>1. CASE UNCHANGED vars
  BY <1>1 DEF vars, tunVars
<1>2. CASE Main
  BY <1>2 DEF Main, Lifecycle, Serve, HoldDevices, StartDevices, HoldRouter, StartRouter,
              HoldConsole, BeginShutdown, ReleaseFlag, ReleaseSentinel, JoinThread,
              Accept, Parse, ParseOneOf, Reject, EndSession, EndSessionBy, tunVars
<1>3. CASE RouterThread \/ ConsoleThread \/ SerThread \/ CaptureThread
           \/ Answer \/ RadioFrame \/ PortFails
  BY <1>3 DEF RouterThread, ConsoleThread, SerThread, CaptureThread, Answer, RadioFrame,
              PortFails, tunVars
<1>4. CASE TunThread
  BY <1>4 DEF TunThread, TunStep, TunWrite, tunVars
<1>5. CASE Packet
  <2>1. PICK p \in Packets : p.id = Len(read) + Len(nic) + 1 /\ PacketArrives(p)
    BY <1>5 DEF Packet
  <2>2. p \in PacketType
    BY PacketsAssumption DEF PacketType
  <2> QED
    BY <2>1, <2>2 DEF PacketArrives
<1> QED
  BY <1>1, <1>2, <1>3, <1>4, <1>5 DEF Next, Others, Finished

(* Only a packet that is read can leave the TUN device: no other step        *)
(* changes what has left it.                                                 *)
LEMMA PacketsRest ==
  ASSUME IInv, IInv', Phases, RoutingOK, [Next]_vars, ~TunReadThread, ~InterfaceFails
  PROVE  LeftTun' = LeftTun
<1> DEFINE W == Way(Ours, "ser")
<1>0. /\ "ser" \in Devices \ {"rtr"} /\ {"tun", "cap", "con"} \subseteq Devices \ {"rtr", "ser"}
      /\ Ours = From("tun") /\ Routed(Ours, "ser")
  BY KindsRouted DEF Devices, Ours
<1>1. Delivery
  BY StepDelivers
<1>a. UNCHANGED sent /\ W' = W => LeftTun' = LeftTun
  BY DEF LeftTun
<1>2. CASE Idle /\ RouterRests
  BY <1>0, <1>2, <1>a, StepAhead DEF Idle, histories
<1>3. ASSUME NEW x, Issue(x) \/ Receipt(x), RouterRests PROVE LeftTun' = LeftTun
  <2>1. x \in Message /\ Send(x) /\ x.source # "tun" /\ UNCHANGED sent
    BY <1>3 DEF Issue, Receipt
  <2> QED
    BY <1>0, <1>3, <1>a, <2>1, StepAhead
<1>4. ASSUME NEW x, Forward(x) PROVE FALSE
  <2>1. UNCHANGED read /\ read' = Append(read, Head(nic))
    BY <1>4, InterfaceWaits DEF Forward, TunRead
  <2>2. read \in Seq(PacketType)
    BY DEF IInv, TunOK
  <2>3. Len(Append(read, Head(nic))) = Len(read) + 1 /\ Len(read) \in Nat
    BY <2>2
  <2> QED
    BY <2>1, <2>3
<1>5. ASSUME NEW x, Ask(x), RouterRests PROVE LeftTun' = LeftTun
  <2>1. UNCHANGED sent
    BY <1>5 DEF Ask
  <2> QED
    BY <1>0, <1>5, <1>a, <2>1, StepAhead
<1>6. ASSUME NEW e \in Devices, Rouse(e), RouterRests PROVE LeftTun' = LeftTun
  <2>1. UNCHANGED sent
    BY <1>6 DEF Rouse, histories
  <2> QED
    BY <1>0, <1>6, <1>a, <2>1, StepAhead
<1>7. CASE SerTakes /\ RouterRests
  <2>1. Dequeue("ser") /\ sent' = Added(sent, Head(inQ["ser"]))
    BY <1>7 DEF SerTakes
  <2>2. Way(Ours, "ser") = Cat(Only(One(Head(inQ["ser"])), Ours), Way(Ours, "ser")')
    BY <1>0, <1>7, <2>1, StepAhead
  <2>3. Head(inQ["ser"]) \in Message /\ sent \in Seq(Message) /\ Way(Ours, "ser")' \in Seq(Message)
    <3>1. inQ["ser"] # None /\ inQ["ser"] \in Seq(Message)
      BY <1>0, <2>1, Dequeued, WayTyped
    <3> QED
      BY <1>0, <3>1, FirstRest, HistoriesTyped, WayNextTyped
  <2>4. \A y \in Ours : NonEmpty(y)
    BY DEF Ours, From
  <2>5. Cat(Only(sent, Ours), Way(Ours, "ser")) = Cat(Only(sent', Ours), Way(Ours, "ser")')
    BY <1>0, <2>1, <2>2, <2>3, <2>4, FlowTakes
  <2> QED
    BY <2>5 DEF LeftTun, Ours, From
<1>8. CASE (TunTakes \/ CapTakes \/ ConTakes) /\ RouterRests
  <2>1. UNCHANGED sent /\ \E e \in Devices \ {"rtr", "ser"} : Dequeue(e)
    BY <1>0, <1>8 DEF TunTakes, CapTakes, ConTakes
  <2> QED
    BY <1>0, <1>8, <1>a, <2>1, StepAhead
<1>9. CASE RouterStep /\ UNCHANGED histories
  BY <1>0, <1>9, <1>a, StepAhead DEF histories
<1> QED
  BY <1>1, <1>2, <1>3, <1>4, <1>5, <1>6, <1>7, <1>8, <1>9 DEF Delivery

(* The packet that is read leaves at the end of what has been read, if that  *)
(* is complete.                                                              *)
LEMMA PacketsRead ==
  ASSUME IInv, IInv', Phases, RoutingOK, TunReadThread, TunRead
  PROVE  /\ Complete(tunBuf') => LeftTun' = Add(LeftTun, TunMessage(tunBuf'))
         /\ Complete(tunBuf') => TunMessage(tunBuf') \in Message
         /\ ~Complete(tunBuf') => LeftTun' = LeftTun
<1>0. /\ "ser" \in Devices \ {"rtr"} /\ Ours = From("tun") /\ Routed(Ours, "ser")
      /\ sent \in Seq(Message)
  BY KindsRouted, HistoriesTyped DEF Devices, Ours
<1>1. RouterRests /\ UNCHANGED sent
  BY DEF TunReadThread, TunRead, RouterRests, serVars, serialVars
<1>2. CASE ~Complete(tunBuf')
  <2>1. Idle
    BY <1>2 DEF TunReadThread, TunRead, Idle, histories, consoleVars, serVars, serialVars,
                captureVars
  <2> QED
    BY <1>0, <1>1, <1>2, <2>1, StepAhead DEF LeftTun
<1>3. CASE Complete(tunBuf')
  <2> DEFINE x == TunMessage(tunBuf')
  <2>1. tunBuf' \in Seq(PacketType) /\ tunBuf' # <<>>
    <3>1. tunBuf \in Seq(PacketType) /\ tunBuf' \in Seq(PacketType)
      BY DEF IInv, TunOK
    <3>2. tunBuf' = Append(tunBuf, Head(nic))
      BY DEF TunRead
    <3> QED
      BY <3>1, <3>2
  <2>2. ~SIM
    <3>1. pc["tunrx"] \in Places("tunrx") /\ pc["tunrx"] = "select"
      BY DEF TunRead, IInv, PlacesOK, Threads
    <3> QED
      BY <3>1 DEF Places
  <2>3. x \in Message /\ x.source = "tun" /\ NonEmpty(x)
    BY <2>1, <2>2, TunMessageMay DEF TunMessage, May, Filled, NonEmpty
  <2>4. Send(x)
    BY <1>3 DEF TunRead
  <2> HIDE DEF x
  <2>5. Way(Ours, "ser")' = Cat(Way(Ours, "ser"), Only(One(x), Ours))
    BY <1>0, <1>1, <2>3, <2>4, StepAhead
  <2>6. Only(One(x), Ours) = One(x) /\ One(x) \in Seq(Message)
    <3>1. x \in Ours
      BY <2>3 DEF Ours, From
    <3> QED
      BY <2>3, <3>1, OnlySingle DEF One
  <2>7. /\ Only(sent, Ours) \in Seq(Message) /\ Way(Ours, "ser") \in Seq(Message)
        /\ LeftTun \in Seq(Message)
    <3>1. /\ inQ["ser"] \in Seq(Message) /\ inQ["rtr"] \in Seq(Message)
          /\ Hands \in Seq(Message)
      BY <1>0, WayTyped
    <3> QED
      BY <1>0, <3>1, OnlySeq, PipeTyped, LeftTunMeans DEF Way
  <2>8. LeftTun' = Cat(LeftTun, One(x))
    <3>1. Cat(Only(sent, Ours), Cat(Way(Ours, "ser"), One(x)))
            = Cat(Cat(Only(sent, Ours), Way(Ours, "ser")), One(x))
      BY <2>6, <2>7, CatThree
    <3> QED
      BY <1>1, <2>5, <2>6, <3>1 DEF LeftTun, Ours, From
  <2>9. LeftTun' = Add(LeftTun, x)
    BY <2>3, <2>7, <2>8, AddOne
  <2> QED
    BY <1>3, <2>3, <2>9 DEF x
<1> QED
  BY <1>2, <1>3

(* Packets are numbered as they come from the interface, and the buffer      *)
(* holds those read last.                                                    *)
Numbered ==
  /\ \A i \in DOMAIN read : read[i].id = i
  /\ \A i \in DOMAIN nic : nic[i].id = Len(read) + i

LastRead ==
  /\ Len(tunBuf) <= Len(read)
  /\ \A i \in DOMAIN tunBuf : tunBuf[i] = read[Len(read) - Len(tunBuf) + i]

(* Without -s: message k ends with packet k, and is a run of packets. *)
RunOf(body, k, packets) ==
  /\ Len(body) <= k
  /\ \A i \in DOMAIN body : body[i] = packets[k - Len(body) + i].id

RunsOK ==
  ~ipv6only => /\ Len(LeftTun) = Len(read)
               /\ \A k \in DOMAIN LeftTun : RunOf(LeftTun[k].body, k, read)

(* With -s: a message is one IPv6 packet, later than those before it.        *)
WholeOne(body, packets) ==
  /\ Len(body) = 1 /\ body[1] \in DOMAIN packets
  /\ packets[body[1]].ipv6

InOrder(messages) ==
  \A j, k \in DOMAIN messages : j < k => messages[j].body[1] < messages[k].body[1]

WholesOK ==
  ipv6only => /\ \A k \in DOMAIN LeftTun : WholeOne(LeftTun[k].body, read)
              /\ InOrder(LeftTun)

PacketsOK == Numbered /\ LastRead /\ RunsOK /\ WholesOK

(* The entries of a sequence that gets one more. *)
LEMMA AddEntries ==
  ASSUME NEW S, NEW s \in Seq(S), NEW x \in S
  PROVE  /\ Len(s) \in Nat /\ DOMAIN s = 1..Len(s)
         /\ Len(Add(s, x)) = Len(s) + 1 /\ DOMAIN Add(s, x) = 1..(Len(s) + 1)
         /\ \A k \in 1..Len(s) : Add(s, x)[k] = s[k]
         /\ Add(s, x)[Len(s) + 1] = x
  BY DEF Add

(* What reading a packet does to the device's state. *)
LEMMA ReadingOne ==
  ASSUME IInv, TunRead
  PROVE  /\ Head(nic) \in PacketType /\ Len(nic) \in Nat \ {0}
         /\ read' = Add(read, Head(nic)) /\ tunBuf' = Add(tunBuf, Head(nic))
         /\ read \in Seq(PacketType) /\ tunBuf \in Seq(PacketType) /\ nic \in Seq(PacketType)
         /\ nic[1] = Head(nic) /\ 1 \in DOMAIN nic
         /\ UNCHANGED ipv6only
         /\ Len(nic') = Len(nic) - 1 /\ DOMAIN nic' = 1..(Len(nic) - 1)
         /\ \A i \in 1..(Len(nic) - 1) : nic'[i] = nic[i + 1] /\ i + 1 \in DOMAIN nic
<1>1. nic \in Seq(PacketType) /\ nic # <<>> /\ nic' = Tail(nic)
  BY DEF TunRead, IInv, TunOK
<1>2. read' = Append(read, Head(nic)) /\ tunBuf' = Append(tunBuf, Head(nic)) /\ UNCHANGED ipv6only
  BY DEF TunRead
<1>3. read \in Seq(PacketType) /\ tunBuf \in Seq(PacketType)
  BY DEF IInv, TunOK
<1>4. Len(nic) \in Nat \ {0} /\ DOMAIN nic = 1..Len(nic) /\ Head(nic) = nic[1] /\ nic[1] \in PacketType
  BY <1>1
<1>5. /\ Len(nic') = Len(nic) - 1 /\ DOMAIN nic' = 1..(Len(nic) - 1)
      /\ \A i \in 1..(Len(nic) - 1) : nic'[i] = nic[i + 1]
  BY <1>1
<1>6. \A i \in 1..(Len(nic) - 1) : i + 1 \in DOMAIN nic
  BY <1>4
<1> QED
  BY <1>1, <1>2, <1>3, <1>4, <1>5, <1>6 DEF Add

(* The numbers, and the packets in the buffer. *)
LEMMA ReadingNumbers ==
  ASSUME IInv, Numbered, LastRead, TunRead
  PROVE  Numbered' /\ LastRead' /\ Head(nic).id = Len(read) + 1
<1> DEFINE p == Head(nic)
<1>0. /\ p \in PacketType /\ Len(nic) \in Nat \ {0}
      /\ read' = Add(read, p) /\ tunBuf' = Add(tunBuf, p)
      /\ read \in Seq(PacketType) /\ tunBuf \in Seq(PacketType) /\ nic \in Seq(PacketType)
      /\ nic[1] = p /\ 1 \in DOMAIN nic
      /\ Len(nic') = Len(nic) - 1 /\ DOMAIN nic' = 1..(Len(nic) - 1)
      /\ \A i \in 1..(Len(nic) - 1) : nic'[i] = nic[i + 1] /\ i + 1 \in DOMAIN nic
  BY ReadingOne
<1> HIDE DEF p
<1>1. /\ Len(read) \in Nat /\ DOMAIN read = 1..Len(read)
      /\ Len(read') = Len(read) + 1 /\ DOMAIN read' = 1..(Len(read) + 1)
      /\ \A k \in 1..Len(read) : read'[k] = read[k]
      /\ read'[Len(read) + 1] = p
  BY <1>0, AddEntries
<1>2. /\ Len(tunBuf) \in Nat /\ DOMAIN tunBuf = 1..Len(tunBuf)
      /\ Len(tunBuf') = Len(tunBuf) + 1 /\ DOMAIN tunBuf' = 1..(Len(tunBuf) + 1)
      /\ \A k \in 1..Len(tunBuf) : tunBuf'[k] = tunBuf[k]
      /\ tunBuf'[Len(tunBuf) + 1] = p
  BY <1>0, AddEntries
<1>3. p.id = Len(read) + 1
  BY <1>0, <1>1 DEF Numbered
<1>4. Numbered'
  <2>1. \A i \in DOMAIN read' : read'[i].id = i
    BY <1>1, <1>3 DEF Numbered
  <2>2. \A i \in DOMAIN nic' : nic'[i].id = Len(read') + i
    <3> SUFFICES ASSUME NEW i \in 1..(Len(nic) - 1) PROVE nic'[i].id = Len(read') + i
      BY <1>0
    <3>1. nic[i + 1].id = Len(read) + (i + 1)
      BY <1>0 DEF Numbered
    <3> QED
      BY <1>0, <1>1, <3>1
  <2> QED
    BY <2>1, <2>2 DEF Numbered
<1>5. LastRead'
  <2>1. Len(tunBuf') <= Len(read')
    BY <1>1, <1>2 DEF LastRead
  <2>2. ASSUME NEW i \in 1..(Len(tunBuf) + 1)
        PROVE  tunBuf'[i] = read'[Len(read') - Len(tunBuf') + i]
    <3>1. Len(read') - Len(tunBuf') + i = Len(read) - Len(tunBuf) + i
      BY <1>1, <1>2
    <3>2. CASE i = Len(tunBuf) + 1
      BY <1>1, <1>2, <3>1, <3>2
    <3>3. CASE i \in 1..Len(tunBuf)
      <4>1. tunBuf[i] = read[Len(read) - Len(tunBuf) + i]
        BY <1>2, <3>3 DEF LastRead
      <4>2. Len(read) - Len(tunBuf) + i \in 1..Len(read)
        BY <1>1, <1>2, <3>3 DEF LastRead
      <4> QED
        BY <1>1, <1>2, <3>1, <3>3, <4>1, <4>2
    <3> QED
      BY <1>2, <3>2, <3>3
  <2> QED
    BY <1>2, <2>1, <2>2 DEF LastRead
<1> QED
  BY <1>3, <1>4, <1>5 DEF p

(* What is forwarded when it is complete. *)
LEMMA ForwardedBody ==
  ASSUME IInv, IInv', TunRead
  PROVE  LET body == TunMessage(tunBuf').body
         IN  /\ Len(body) = Len(tunBuf') /\ DOMAIN body = DOMAIN tunBuf'
             /\ \A i \in DOMAIN body : body[i] = tunBuf'[i].id
             /\ body \in Seq(Nat)
<1> DEFINE b == tunBuf'
<1>1. b \in Seq(PacketType)
  BY DEF IInv, TunOK
<1> DEFINE body == [i \in DOMAIN b |-> b[i].id]
<1>2. TunMessage(tunBuf').body = body
  BY DEF TunMessage
<1> HIDE DEF b
<1>3. Len(b) \in Nat /\ DOMAIN b = 1..Len(b) /\ \A i \in 1..Len(b) : b[i].id \in Nat
  <2>1. Len(b) \in Nat /\ DOMAIN b = 1..Len(b) /\ \A i \in 1..Len(b) : b[i] \in PacketType
    BY <1>1
  <2> QED
    BY <2>1 DEF PacketType
<1>4. /\ body \in Seq(Nat) /\ DOMAIN body = 1..Len(b)
      /\ \A i \in 1..Len(b) : body[i] = b[i].id
  BY <1>3
<1>5. Len(body) = Len(b)
  BY <1>3, <1>4
<1> QED
  BY <1>2, <1>3, <1>4, <1>5 DEF b

(* Without -s. *)
LEMMA RunsGrow ==
  ASSUME NEW L \in Seq(Message), NEW x \in Message, NEW R \in Seq(PacketType),
         NEW p \in PacketType, Len(L) = Len(R), \A k \in DOMAIN L : RunOf(L[k].body, k, R),
         RunOf(x.body, Len(R) + 1, Add(R, p))
  PROVE  /\ Len(Add(L, x)) = Len(Add(R, p))
         /\ \A k \in DOMAIN Add(L, x) : RunOf(Add(L, x)[k].body, k, Add(R, p))
<1> DEFINE M == Add(L, x)
           Q == Add(R, p)
<1>1. /\ Len(L) \in Nat /\ DOMAIN L = 1..Len(L)
      /\ Len(M) = Len(L) + 1 /\ DOMAIN M = 1..(Len(L) + 1)
      /\ \A k \in 1..Len(L) : M[k] = L[k]
      /\ M[Len(L) + 1] = x
  BY AddEntries
<1>2. /\ Len(R) \in Nat /\ Len(Q) = Len(R) + 1 /\ \A k \in 1..Len(R) : Q[k] = R[k]
  BY AddEntries
<1> HIDE DEF M, Q
<1>3. ASSUME NEW k \in 1..Len(L) PROVE RunOf(M[k].body, k, Q)
  <2> DEFINE body == L[k].body
  <2>1. M[k].body = body /\ RunOf(body, k, R) /\ body \in Seq(Nat)
    <3>1. L[k] \in Message
      OBVIOUS
    <3> QED
      BY <1>1, <3>1 DEF Message
  <2> HIDE DEF body
  <2>2. DOMAIN body = 1..Len(body) /\ Len(body) \in Nat /\ Len(body) <= k
    BY <2>1 DEF RunOf
  <2>3. \A i \in DOMAIN body : k - Len(body) + i \in 1..Len(R)
    BY <1>1, <1>2, <2>2
  <2> QED
    BY <1>2, <2>1, <2>3 DEF RunOf
<1> QED
  BY <1>1, <1>2, <1>3 DEF M, Q

(* Of the steps of the thread that reads. *)
LEMMA ReadingRuns ==
  ASSUME IInv, IInv', Phases, RoutingOK, TunReadThread, TunRead, LastRead', RunsOK
  PROVE  RunsOK'
<1> SUFFICES ASSUME ~ipv6only'
             PROVE  /\ Len(LeftTun') = Len(read')
                    /\ \A k \in DOMAIN LeftTun' : RunOf(LeftTun'[k].body, k, read')
  BY DEF RunsOK
<1> DEFINE x == TunMessage(tunBuf')
           p == Head(nic)
<1>0. /\ p \in PacketType /\ read' = Add(read, p) /\ read \in Seq(PacketType)
      /\ UNCHANGED ipv6only
  BY ReadingOne
<1>1. LeftTun \in Seq(Message) /\ Complete(tunBuf')
  BY <1>0, LeftTunMeans DEF Complete
<1>2. x \in Message /\ LeftTun' = Add(LeftTun, x)
  BY <1>1, PacketsRead
<1>3. /\ Len(x.body) = Len(tunBuf') /\ DOMAIN x.body = DOMAIN tunBuf'
      /\ \A i \in DOMAIN x.body : x.body[i] = tunBuf'[i].id
  BY ForwardedBody
<1>4. Len(LeftTun) = Len(read) /\ \A k \in DOMAIN LeftTun : RunOf(LeftTun[k].body, k, read)
  BY <1>0 DEF RunsOK
<1> HIDE DEF x, p
<1>5. Len(read') = Len(read) + 1
  BY <1>0, AddEntries
<1>6. RunOf(x.body, Len(read) + 1, Add(read, p))
  BY <1>0, <1>3, <1>5 DEF LastRead, RunOf
<1>7. /\ Len(Add(LeftTun, x)) = Len(Add(read, p))
      /\ \A k \in DOMAIN Add(LeftTun, x) : RunOf(Add(LeftTun, x)[k].body, k, Add(read, p))
  BY <1>0, <1>1, <1>2, <1>4, <1>6, RunsGrow
<1> QED
  BY <1>0, <1>2, <1>7

(* A position in a sequence that has grown by one member. *)
LEMMA OneMore ==
  ASSUME NEW n \in Nat, NEW k \in 1..(n + 1)
  PROVE  k \in 1..n \/ k = n + 1
OBVIOUS

(* With -s. *)
LEMMA WholesGrow ==
  ASSUME NEW L \in Seq(Message), NEW x \in Message, NEW R \in Seq(PacketType),
         NEW p \in PacketType, \A k \in DOMAIN L : WholeOne(L[k].body, R), InOrder(L),
         Len(x.body) = 1, x.body[1] = Len(R) + 1, p.ipv6
  PROVE  /\ \A k \in DOMAIN Add(L, x) : WholeOne(Add(L, x)[k].body, Add(R, p))
         /\ InOrder(Add(L, x))
<1> DEFINE M == Add(L, x)
           Q == Add(R, p)
<1>1. /\ Len(L) \in Nat /\ DOMAIN L = 1..Len(L)
      /\ Len(M) = Len(L) + 1 /\ DOMAIN M = 1..(Len(L) + 1)
      /\ \A k \in 1..Len(L) : M[k] = L[k]
      /\ M[Len(L) + 1] = x
  BY AddEntries
<1>2. /\ Len(R) \in Nat /\ DOMAIN R = 1..Len(R) /\ DOMAIN Q = 1..(Len(R) + 1)
      /\ \A k \in 1..Len(R) : Q[k] = R[k]
      /\ Q[Len(R) + 1] = p
  BY AddEntries
<1> HIDE DEF M, Q
<1>3. ASSUME NEW k \in 1..Len(L) PROVE WholeOne(M[k].body, Q)
  BY <1>1, <1>2 DEF WholeOne
<1>4. WholeOne(M[Len(L) + 1].body, Q)
  BY <1>1, <1>2 DEF WholeOne
<1>5. InOrder(M)
  <2> SUFFICES ASSUME NEW j \in 1..(Len(L) + 1), NEW k \in 1..(Len(L) + 1), j < k
               PROVE  M[j].body[1] < M[k].body[1]
    BY <1>1 DEF InOrder
  <2>1. j \in 1..Len(L)
    BY <1>1
  <2>2. CASE k \in 1..Len(L)
    BY <1>1, <2>1, <2>2 DEF InOrder
  <2>3. CASE k = Len(L) + 1
    <3>1. M[j].body[1] \in 1..Len(R)
      BY <1>1, <1>2, <2>1 DEF WholeOne
    <3> QED
      BY <1>1, <1>2, <2>3, <3>1
  <2>4. k \in 1..Len(L) \/ k = Len(L) + 1
    BY <1>1, OneMore
  <2> QED
    BY <2>2, <2>3, <2>4
<1> QED
  BY <1>1, <1>3, <1>4, <1>5 DEF M, Q

(* A packet more has been read, which is not forwarded. *)
LEMMA WholesStay ==
  ASSUME NEW L \in Seq(Message), NEW R \in Seq(PacketType), NEW p \in PacketType,
         \A k \in DOMAIN L : WholeOne(L[k].body, R)
  PROVE  \A k \in DOMAIN L : WholeOne(L[k].body, Add(R, p))
<1>1. /\ Len(R) \in Nat /\ DOMAIN R = 1..Len(R) /\ DOMAIN Add(R, p) = 1..(Len(R) + 1)
      /\ \A k \in 1..Len(R) : Add(R, p)[k] = R[k]
  BY AddEntries
<1> QED
  BY <1>1 DEF WholeOne

(* Of the steps of the thread that reads. *)
LEMMA ReadingWholes ==
  ASSUME IInv, IInv', Phases, RoutingOK, TunReadThread, TunRead, Numbered, LastRead, WholesOK
  PROVE  WholesOK'
<1> SUFFICES ASSUME ipv6only'
             PROVE  /\ \A k \in DOMAIN LeftTun' : WholeOne(LeftTun'[k].body, read')
                    /\ InOrder(LeftTun')
  BY DEF WholesOK, InOrder
<1> DEFINE x == TunMessage(tunBuf')
           p == Head(nic)
<1>0. /\ p \in PacketType /\ read' = Add(read, p) /\ tunBuf' = Add(tunBuf, p)
      /\ read \in Seq(PacketType) /\ tunBuf \in Seq(PacketType) /\ UNCHANGED ipv6only
      /\ p.id = Len(read) + 1
  BY ReadingOne, ReadingNumbers
<1>1. /\ LeftTun \in Seq(Message) /\ InOrder(LeftTun)
      /\ \A k \in DOMAIN LeftTun : WholeOne(LeftTun[k].body, read)
  BY <1>0, LeftTunMeans DEF WholesOK
<1>2. /\ Complete(tunBuf') => x \in Message /\ LeftTun' = Add(LeftTun, x)
      /\ ~Complete(tunBuf') => LeftTun' = LeftTun
  BY PacketsRead
<1>3. /\ Len(x.body) = Len(tunBuf') /\ DOMAIN x.body = DOMAIN tunBuf'
      /\ \A i \in DOMAIN x.body : x.body[i] = tunBuf'[i].id
  BY ForwardedBody
<1> HIDE DEF x, p
<1>4. CASE ~Complete(tunBuf')
  BY <1>0, <1>1, <1>2, <1>4, WholesStay
<1>5. CASE Complete(tunBuf')
  <2>1. Len(tunBuf') = 1 /\ tunBuf'[1].ipv6
    BY <1>0, <1>5 DEF Complete
  <2>2. /\ Len(tunBuf') = Len(tunBuf) + 1 /\ Len(tunBuf) \in Nat
        /\ tunBuf'[Len(tunBuf) + 1] = p /\ DOMAIN tunBuf' = 1..(Len(tunBuf) + 1)
    BY <1>0, AddEntries
  <2>3. Len(tunBuf) = 0 /\ tunBuf'[1] = p /\ 1 \in DOMAIN tunBuf'
    BY <2>1, <2>2
  <2>4. Len(x.body) = 1 /\ x.body[1] = Len(read) + 1 /\ p.ipv6
    BY <1>0, <1>3, <2>1, <2>3
  <2> QED
    BY <1>0, <1>1, <1>2, <1>5, <2>4, WholesGrow
<1> QED
  BY <1>4, <1>5

(* From the first step to the last. *)
THEOREM PacketsInductive == Spec => []PacketsOK
<1>1. Init => PacketsOK
  <2> SUFFICES ASSUME Init PROVE PacketsOK
    OBVIOUS
  <2>1. read = <<>> /\ nic = <<>> /\ tunBuf = <<>> /\ sent = None
    BY DEF Init, TunInit, SerialInit, None
  <2>2. LeftTun = None
    <3>1. Hands = None /\ inQ["ser"] = None /\ inQ["rtr"] = None
      BY DEF Init, Hands, Threads, BusInit, Devices, None
    <3>2. Cat(None, None) = None
      BY DEF Cat, None
    <3> QED
      BY <2>1, <3>1, <3>2, OnlyNothing DEF LeftTun, Way, Pipe
  <2>3. LeftTun = <<>>
    BY <2>2 DEF None
  <2>4. Len(LeftTun) = 0 /\ DOMAIN LeftTun = {} /\ Len(read) = 0 /\ DOMAIN read = {}
        /\ DOMAIN nic = {} /\ Len(tunBuf) = 0 /\ DOMAIN tunBuf = {}
    BY <2>1, <2>3
  <2> QED
    BY <2>4 DEF PacketsOK, Numbered, LastRead, RunsOK, WholesOK, InOrder
<1>2. IInv /\ IInv' /\ Phases /\ Conserved /\ PacketsOK /\ [Next]_vars => PacketsOK'
  <2> SUFFICES ASSUME IInv, IInv', Phases, RoutingOK, PacketsOK, [Next]_vars
               PROVE  PacketsOK'
    BY DEF Conserved
  <2>1. CASE ~TunReadThread /\ ~InterfaceFails
    <3>1. LeftTun' = LeftTun /\ UNCHANGED <<ipv6only, tunBuf, read>>
      BY <2>1, PacketsRest, InterfaceWaits
    <3>2. Numbered'
      <4>1. CASE UNCHANGED nic
        BY <3>1, <4>1 DEF PacketsOK, Numbered
      <4>2. CASE \E p \in PacketType : /\ p.id = Len(read) + Len(nic) + 1
                                       /\ nic' = Append(nic, p)
        <5>1. PICK p \in PacketType : p.id = Len(read) + Len(nic) + 1 /\ nic' = Add(nic, p)
          BY <4>2 DEF Add
        <5>2. nic \in Seq(PacketType) /\ read \in Seq(PacketType)
          BY DEF IInv, TunOK
        <5>3. /\ Len(nic) \in Nat /\ DOMAIN nic = 1..Len(nic) /\ Len(read) \in Nat
              /\ DOMAIN nic' = 1..(Len(nic) + 1)
              /\ \A k \in 1..Len(nic) : nic'[k] = nic[k]
              /\ nic'[Len(nic) + 1] = p
          BY <5>1, <5>2, AddEntries
        <5>4. \A i \in 1..(Len(nic) + 1) : nic'[i].id = Len(read) + i
          BY <5>1, <5>3 DEF PacketsOK, Numbered
        <5> QED
          BY <3>1, <5>3, <5>4 DEF PacketsOK, Numbered
      <4> QED
        BY <2>1, <4>1, <4>2, InterfaceWaits
    <3> QED
      BY <3>1, <3>2 DEF PacketsOK, LastRead, RunsOK, WholesOK, InOrder
  <2>2. CASE TunReadThread /\ TunRead
    BY <2>2, ReadingNumbers, ReadingRuns, ReadingWholes DEF PacketsOK
  <2>3. CASE (TunReadThread /\ ~TunRead) \/ InterfaceFails
    <3>1. tunBuf' \in {<<>>, tunBuf} /\ UNCHANGED <<inQ, nic, read, ipv6only>>
      BY <2>3 DEF TunReadThread, TunReadStep, TunReadTest, TunTimeout, InterfaceFails,
                  TunSelectFails, TunReadFails, tunVars
    <3>2. RouterRests /\ UNCHANGED sent
      <4>1. PICK from, to : Goto("tunrx", from, to)
        BY <2>3 DEF TunReadThread, TunReadStep, TunReadTest, TunTimeout, InterfaceFails,
                    TunSelectFails, TunReadFails
      <4>2. UNCHANGED routerVars /\ UNCHANGED sent
        BY <2>3 DEF TunReadThread, InterfaceFails, serVars, serialVars
      <4> QED
        BY <4>1, <4>2, GoingRests DEF Threads
    <3>3. LeftTun' = LeftTun
      BY <3>1, <3>2, HandsRest DEF LeftTun, Way, Ours, From
    <3>4. CASE tunBuf' = tunBuf
      BY <3>1, <3>3, <3>4 DEF PacketsOK, Numbered, LastRead, RunsOK, WholesOK, InOrder
    <3>5. CASE tunBuf' = <<>>
      <4>1. read \in Seq(PacketType) /\ Len(tunBuf') = 0 /\ DOMAIN tunBuf' = {}
        BY <3>5 DEF IInv, TunOK
      <4>2. Len(read) \in Nat
        BY <4>1
      <4> QED
        BY <3>1, <3>3, <4>1, <4>2 DEF PacketsOK, Numbered, LastRead, RunsOK, WholesOK, InOrder
    <3> QED
      BY <3>1, <3>4, <3>5
  <2> QED
    BY <2>1, <2>2, <2>3
<1> QED
  BY <1>1, <1>2, Inductive, PhasesInductive, FlowsConserved, PTL DEF Spec

(* Without -s every packet is forwarded as soon as it is read. *)
THEOREM PacketsForwarded == Spec => []EveryPacketForwarded
<1>1. IInv /\ PacketsOK => EveryPacketForwarded
  <2> SUFFICES ASSUME IInv, PacketsOK, ~ipv6only
               PROVE  /\ Len(TunMessages) = Len(read)
                      /\ \A k \in DOMAIN TunMessages :
                           LET body == TunMessages[k].body
                           IN  body = [i \in 1..Len(body) |-> read[k - Len(body) + i].id]
    BY DEF EveryPacketForwarded
  <2>1. TunMessages = LeftTun /\ LeftTun \in Seq(Message)
    BY LeftTunMeans
  <2>2. Len(LeftTun) = Len(read) /\ \A k \in DOMAIN LeftTun : RunOf(LeftTun[k].body, k, read)
    BY DEF PacketsOK, RunsOK
  <2>3. ASSUME NEW k \in DOMAIN LeftTun
        PROVE  LET body == LeftTun[k].body
               IN  body = [i \in 1..Len(body) |-> read[k - Len(body) + i].id]
    <3> DEFINE body == LeftTun[k].body
    <3>1. body \in Seq(Nat) /\ RunOf(body, k, read)
      <4>1. LeftTun[k] \in Message
        BY <2>1
      <4> QED
        BY <2>2, <4>1 DEF Message
    <3> HIDE DEF body
    <3>2. body = [i \in 1..Len(body) |-> read[k - Len(body) + i].id]
      BY <3>1 DEF RunOf
    <3> QED
      BY <3>2 DEF body
  <2> QED
    BY <2>1, <2>2, <2>3
<1> QED
  BY <1>1, Inductive, PacketsInductive, PTL

(* With -s what is forwarded is whole IPv6 packets, each once and in order.  *)
THEOREM PacketsWhole == Spec => []WholePackets
<1>1. IInv /\ PacketsOK => WholePackets
  <2> SUFFICES ASSUME IInv, PacketsOK, ipv6only PROVE WholePackets
    BY DEF WholePackets
  <2>1. TunMessages = LeftTun /\ LeftTun \in Seq(Message)
    BY LeftTunMeans
  <2>2. InOrder(LeftTun) /\ \A k \in DOMAIN LeftTun : WholeOne(LeftTun[k].body, read)
    BY DEF PacketsOK, WholesOK
  <2> DEFINE bodies == [k \in DOMAIN LeftTun |-> LeftTun[k].body]
  <2>3. \A k \in DOMAIN bodies :
          /\ Len(bodies[k]) = 1
          /\ \E i \in DOMAIN read : read[i].id = bodies[k][1] /\ read[i].ipv6
    BY <2>2 DEF WholeOne, PacketsOK, Numbered
  <2>4. \A j, k \in DOMAIN bodies : j < k => bodies[j][1] < bodies[k][1]
    BY <2>2 DEF InOrder
  <2> HIDE DEF bodies
  <2>5. [k \in DOMAIN TunMessages |-> TunMessages[k].body] = bodies
    BY <2>1 DEF bodies
  <2> QED
    BY <2>3, <2>4, <2>5 DEF WholePackets
<1> QED
  BY <1>1, Inductive, PacketsInductive, PTL

-----------------------------------------------------------------------------
(* Each device is a SinkDevice.  The queue of the protocol: it tells the     *)
(* sentinel from the other messages only.                                    *)
Letter(x) == IF x = Empty THEN "sentinel" ELSE "message"

Letters == {"message"} \cup {"sentinel"}

(* What queueing and taking do to it. *)
LEMMA AbstractedQueues ==
  ASSUME NEW q \in Seq(Message)
  PROVE  /\ Abstracted(q) = <<>> <=> q = <<>>
         /\ \A x \in Message : Abstracted(Append(q, x)) = Append(Abstracted(q), Letter(x))
         /\ q # <<>> => Abstracted(Tail(q)) = Tail(Abstracted(q))
<1> DEFINE a == Abstracted(q)
<1>1. /\ Len(q) \in Nat /\ DOMAIN q = 1..Len(q)
      /\ a = [i \in 1..Len(q) |-> Letter(q[i])]
  BY DEF Abstracted, Letter
<1>2. a \in Seq(Letters) /\ Len(a) = Len(q) /\ DOMAIN a = 1..Len(q)
      /\ \A i \in 1..Len(q) : a[i] = Letter(q[i])
  <2>1. \A i \in 1..Len(q) : Letter(q[i]) \in Letters
    BY DEF Letter, Letters
  <2>2. a \in [1..Len(q) -> Letters]
    BY <1>1, <2>1
  <2>3. a \in Seq(Letters)
    BY <1>1, <2>2
  <2> QED
    BY <1>1, <2>2, <2>3
<1>3. a = <<>> <=> q = <<>>
  <2>1. a = <<>> <=> Len(a) = 0
    BY <1>2
  <2>2. q = <<>> <=> Len(q) = 0
    OBVIOUS
  <2> QED
    BY <1>2, <2>1, <2>2
<1>4. ASSUME NEW x \in Message PROVE Abstracted(Append(q, x)) = Append(a, Letter(x))
  <2> DEFINE p == Append(q, x)
             n == Len(q)
  <2>1. /\ DOMAIN p = 1..(n + 1) /\ \A i \in 1..n : p[i] = q[i]
        /\ p[n + 1] = x
    OBVIOUS
  <2>2. Abstracted(p) = [i \in 1..(n + 1) |-> IF i = n + 1 THEN Letter(x) ELSE a[i]]
    <3>1. Abstracted(p) = [i \in 1..(n + 1) |-> Letter(p[i])]
      BY <2>1 DEF Abstracted, Letter
    <3>2. \A i \in 1..(n + 1) : Letter(p[i]) = IF i = n + 1 THEN Letter(x) ELSE a[i]
      <4>1. \A i \in 1..(n + 1) : i = n + 1 \/ i \in 1..n
        BY <1>1
      <4>2. \A i \in 1..n : i # n + 1 /\ Letter(p[i]) = a[i]
        BY <1>1, <1>2, <2>1
      <4> QED
        BY <2>1, <4>1, <4>2
    <3> HIDE DEF p
    <3> QED
      BY <3>1, <3>2
  <2>3. Letter(x) \in Letters
    BY DEF Letter, Letters
  <2> HIDE DEF a, p
  <2>4. Append(a, Letter(x)) = [i \in 1..(n + 1) |-> IF i = n + 1 THEN Letter(x) ELSE a[i]]
    BY <1>2, <2>3, AppendAsFunction
  <2> QED
    BY <2>2, <2>4 DEF p
<1>5. ASSUME q # <<>> PROVE Abstracted(Tail(q)) = Tail(a)
  <2> DEFINE n == Len(q)
             t == Tail(q)
             u == Tail(a)
  <2>1. n \in Nat \ {0} /\ a # <<>>
    BY <1>1, <1>3, <1>5
  <2>2. DOMAIN t = 1..(n - 1) /\ \A i \in 1..(n - 1) : t[i] = q[i + 1]
    BY <1>5
  <2>3. /\ u = [i \in DOMAIN u |-> u[i]] /\ DOMAIN u = 1..(n - 1)
        /\ \A i \in 1..(n - 1) : u[i] = a[i + 1]
    <3>1. Len(a) = n /\ a \in Seq(Letters) /\ u \in Seq(Letters)
      BY <1>2, <2>1
    <3>2. u = [i \in DOMAIN u |-> u[i]]
      <4>1. \A w \in Seq(Letters) : w = [i \in DOMAIN w |-> w[i]]
        OBVIOUS
      <4> HIDE DEF u
      <4> QED
        BY <3>1, <4>1
    <3> HIDE DEF a
    <3>3. DOMAIN u = 1..(Len(a) - 1) /\ \A i \in 1..(Len(a) - 1) : u[i] = a[i + 1]
      BY <2>1, <3>1
    <3> QED
      BY <3>1, <3>2, <3>3
  <2>4. \A i \in 1..(n - 1) : a[i + 1] = Letter(q[i + 1])
    <3>1. \A i \in 1..(n - 1) : i + 1 \in 1..n
      BY <2>1
    <3> QED
      BY <1>2, <3>1
  <2>5. Abstracted(t) = [i \in DOMAIN t |-> Letter(t[i])]
    BY DEF Abstracted, Letter
  <2> HIDE DEF n, t, u, a
  <2> QED
    <3>1. Abstracted(t) = u
      BY <2>2, <2>3, <2>4, <2>5
    <3> QED
      BY <3>1 DEF t, u, a
<1> QED
  BY <1>3, <1>4, <1>5

(* The steps of the protocol, in the words of the daemon. *)
QueueOf(d) == Abstracted(inQ[d])

LEMMA ProtocolSteps ==
  ASSUME NEW d
  PROVE  /\ UNCHANGED <<QueueOf(d), hold[d], Owner(d), Rx(d)>> => SinkStep(d)
         /\ /\ Owner(d) = "new" \/ (Owner(d) = "joined" /\ d = "con")
            /\ Owner(d)' = "holding" /\ hold'[d] = TRUE
            /\ UNCHANGED <<QueueOf(d), Rx(d)>>
            => SinkStep(d)
         /\ /\ Owner(d) = "holding" /\ Owner(d)' = "running" /\ Rx(d)' = "test"
            /\ UNCHANGED <<QueueOf(d), hold[d]>>
            => SinkStep(d)
         /\ /\ Owner(d) = "running" /\ Owner(d)' = "flagged" /\ hold'[d] = FALSE
            /\ UNCHANGED <<QueueOf(d), Rx(d)>>
            => SinkStep(d)
         /\ /\ Owner(d) = "flagged" /\ Owner(d)' = "joining"
            /\ QueueOf(d)' = Append(QueueOf(d), "sentinel")
            /\ UNCHANGED <<hold[d], Rx(d)>>
            => SinkStep(d)
         /\ /\ Owner(d) = "joining" /\ Rx(d) = "exited"
            /\ Owner(d)' = "joined" /\ Rx(d)' = "none"
            /\ UNCHANGED <<QueueOf(d), hold[d]>>
            => SinkStep(d)
         /\ /\ QueueOf(d)' = Append(QueueOf(d), "message")
            /\ UNCHANGED <<hold[d], Owner(d), Rx(d)>>
            => SinkStep(d)
<1> USE DEF SinkStep, QueueOf, Sink!vars, Sink!Next, Sink!Owner, Sink!Thread, Sink!Release
<1>0. LoopOf(d)' = LoopOf(d) /\ (d = "con" => LoopOf(d) = "draining")
  BY DEF LoopOf
<1>1. UNCHANGED <<QueueOf(d), hold[d], Owner(d), Rx(d)>> => SinkStep(d)
  BY <1>0
<1>2. /\ Owner(d) = "new" \/ (Owner(d) = "joined" /\ d = "con")
      /\ Owner(d)' = "holding" /\ hold'[d] = TRUE
      /\ UNCHANGED <<QueueOf(d), Rx(d)>>
      => SinkStep(d)
  BY <1>0 DEF Sink!Hold
<1>3. /\ Owner(d) = "holding" /\ Owner(d)' = "running" /\ Rx(d)' = "test"
      /\ UNCHANGED <<QueueOf(d), hold[d]>>
      => SinkStep(d)
  BY <1>0 DEF Sink!Start
<1>4. /\ Owner(d) = "running" /\ Owner(d)' = "flagged" /\ hold'[d] = FALSE
      /\ UNCHANGED <<QueueOf(d), Rx(d)>>
      => SinkStep(d)
  BY <1>0 DEF Sink!ReleaseFlag
<1>5. /\ Owner(d) = "flagged" /\ Owner(d)' = "joining"
      /\ QueueOf(d)' = Append(QueueOf(d), "sentinel")
      /\ UNCHANGED <<hold[d], Rx(d)>>
      => SinkStep(d)
  BY <1>0 DEF Sink!ReleaseSentinel
<1>6. /\ Owner(d) = "joining" /\ Rx(d) = "exited"
      /\ Owner(d)' = "joined" /\ Rx(d)' = "none"
      /\ UNCHANGED <<QueueOf(d), hold[d]>>
      => SinkStep(d)
  BY <1>0 DEF Sink!Join
<1>7. /\ QueueOf(d)' = Append(QueueOf(d), "message")
      /\ UNCHANGED <<hold[d], Owner(d), Rx(d)>>
      => SinkStep(d)
  BY <1>0 DEF Sink!Push
<1> QED
  BY <1>1, <1>2, <1>3, <1>4, <1>5, <1>6, <1>7

(* The steps of the device's own thread. *)
LEMMA ProtocolThread ==
  ASSUME NEW d, UNCHANGED <<hold[d], Owner(d)>>, hold[d] \in BOOLEAN
  PROVE  /\ /\ Rx(d) = "test" /\ UNCHANGED QueueOf(d)
            /\ Rx(d)' = IF hold[d] THEN "pop" ELSE IF d = "con" THEN "more" ELSE "exited"
            => SinkStep(d)
         /\ /\ Rx(d) = "more" /\ UNCHANGED QueueOf(d)
            /\ Rx(d)' = IF QueueOf(d) # <<>> THEN "pop" ELSE "exited"
            => SinkStep(d)
         /\ /\ Rx(d) = "pop" /\ Rx(d)' = "test"
            /\ \/ QueueOf(d) # <<>> /\ QueueOf(d)' = Tail(QueueOf(d))
               \/ QueueOf(d) = <<>> /\ UNCHANGED QueueOf(d) /\ d = "ser" /\ ~SIM
            => SinkStep(d)
<1> USE DEF SinkStep, QueueOf, Sink!vars, Sink!Next, Sink!Thread
<1>0. /\ LoopOf(d)' = LoopOf(d) /\ (LoopOf(d) = "draining" <=> d = "con")
      /\ d = "ser" /\ ~SIM => LoopOf(d) = "polling"
  BY DEF LoopOf
<1>1. /\ Rx(d) = "test" /\ UNCHANGED QueueOf(d)
      /\ Rx(d)' = IF hold[d] THEN "pop" ELSE IF d = "con" THEN "more" ELSE "exited"
      => SinkStep(d)
  BY <1>0 DEF Sink!TestHold
<1>2. /\ Rx(d) = "more" /\ UNCHANGED QueueOf(d)
      /\ Rx(d)' = IF QueueOf(d) # <<>> THEN "pop" ELSE "exited"
      => SinkStep(d)
  BY <1>0 DEF Sink!TestMore
<1>3. /\ Rx(d) = "pop" /\ Rx(d)' = "test"
      /\ \/ QueueOf(d) # <<>> /\ QueueOf(d)' = Tail(QueueOf(d))
         \/ QueueOf(d) = <<>> /\ UNCHANGED QueueOf(d) /\ d = "ser" /\ ~SIM
      => SinkStep(d)
  BY <1>0 DEF Sink!Pop
<1> QED
  BY <1>1, <1>2, <1>3

-----------------------------------------------------------------------------
(* What the protocol sees of a place. *)
Shown(place) ==
  CASE place = "poll"                         -> "pop"
    [] place \in {"start", "rules", "receive"} -> "test"
    [] OTHER                                  -> place

(* Another message than the sentinel may be put into the queue of d. *)
Quiet(d) == inQ'[d] = inQ[d] \/ \E x \in Message \ {Empty} : inQ'[d] = Append(inQ[d], x)

(* What a thread does to the device d, its own or another's: nothing but a   *)
(* push, a test of the flag or of the queue, or a pop.                       *)
Follows(d) ==
  \/ Shown(pc'[d]) = Shown(pc[d]) /\ Quiet(d)
  \/ /\ pc[d] \notin {"none", "exited"} /\ Shown(pc[d]) = "test" /\ inQ'[d] = inQ[d]
     /\ Shown(pc'[d]) = IF hold[d] THEN "pop" ELSE IF d = "con" THEN "more" ELSE "exited"
  \/ /\ pc[d] = "more" /\ inQ'[d] = inQ[d]
     /\ Shown(pc'[d]) = IF inQ[d] # <<>> THEN "pop" ELSE "exited"
  \/ /\ pc[d] \notin {"none", "exited"} /\ Shown(pc[d]) = "pop" /\ Shown(pc'[d]) = "test"
     /\ \/ inQ[d] # <<>> /\ inQ'[d] = Tail(inQ[d])
        \/ inQ[d] = <<>> /\ inQ'[d] = inQ[d] /\ d = "ser" /\ ~SIM

(* A thread that runs has not been joined. *)
LEMMA Alive ==
  ASSUME IInv, Phases, NEW d \in Running, pc[d] \notin {"none", "exited"}
  PROVE  Owner(d) # "joined"
<1>1. CASE d = "con"
  <2>1. ConsoleUp
    BY <1>1 DEF Phases, ConsolePhase
  <2>2. Owner(d) = ConsoleOwner
    BY <1>1 DEF Owner
  <2> QED
    BY <1>1, <2>1, <2>2 DEF ConsoleOwner, ConsoleUp, StoppingPhase, Halting
<1>2. CASE d # "con"
  BY <1>2 DEF Phases, DevicePhase
<1> QED
  BY <1>1, <1>2

(* So such a step is one of the protocol, or none. *)
LEMMA FollowingSteps ==
  ASSUME IInv, IInv', Phases, Others, NEW d \in Running, Follows(d)
  PROVE  SinkStep(d)
<1>0. d \in Devices /\ inQ[d] \in Seq(Message) /\ hold[d] \in BOOLEAN
  BY MainTypes DEF IInv, QueuesOK, PlacesOK
<1>1. UNCHANGED <<hold[d], Owner(d)>>
  <2>1. UNCHANGED <<hold, stopping, session, realQuit>> /\ pc'["main"] = pc["main"]
    BY OthersLeaveMain, OthersLeaveOwners
  <2>2. CASE d = "con"
    <3>1. pc'["con"] = "none" <=> pc["con"] = "none"
      BY <1>0, <2>2, OthersMove DEF Moves
    <3> QED
      BY <2>1, <2>2, <3>1 DEF Owner, ConsoleOwner, StoppingPhase
  <2>3. CASE d # "con"
    BY <2>1, <2>3, OthersLeaveOwners
  <2> QED
    BY <2>2, <2>3
<1>2. /\ Rx(d) = IF Owner(d) = "joined" THEN "none" ELSE Shown(pc[d])
      /\ Rx(d)' = IF Owner(d)' = "joined" THEN "none" ELSE Shown(pc'[d])
  BY DEF Rx, Shown
<1>3. /\ Shown(pc'[d]) = Shown(pc[d]) => Rx(d)' = Rx(d)
      /\ pc[d] \notin {"none", "exited"} => Rx(d) = Shown(pc[d]) /\ Rx(d)' = Shown(pc'[d])
  BY <1>1, <1>2, Alive
<1>4. /\ inQ'[d] = inQ[d] => UNCHANGED QueueOf(d)
      /\ QueueOf(d) = <<>> <=> inQ[d] = <<>>
      /\ inQ[d] # <<>> /\ inQ'[d] = Tail(inQ[d]) => QueueOf(d)' = Tail(QueueOf(d))
      /\ \A x \in Message \ {Empty} :
           inQ'[d] = Append(inQ[d], x) => QueueOf(d)' = Append(QueueOf(d), "message")
  <2>1. /\ QueueOf(d) = <<>> <=> inQ[d] = <<>>
        /\ \A x \in Message : Abstracted(Append(inQ[d], x)) = Append(QueueOf(d), Letter(x))
        /\ inQ[d] # <<>> => Abstracted(Tail(inQ[d])) = Tail(QueueOf(d))
    BY <1>0, AbstractedQueues DEF QueueOf
  <2>2. \A x \in Message \ {Empty} : Letter(x) = "message"
    BY DEF Letter
  <2>3. QueueOf(d)' = Abstracted(inQ'[d])
    BY DEF QueueOf
  <2>4. inQ'[d] = inQ[d] => UNCHANGED QueueOf(d)
    BY <2>3 DEF QueueOf
  <2>5. inQ[d] # <<>> /\ inQ'[d] = Tail(inQ[d]) => QueueOf(d)' = Tail(QueueOf(d))
    BY <2>1, <2>3
  <2>6. ASSUME NEW x \in Message \ {Empty}, inQ'[d] = Append(inQ[d], x)
        PROVE  QueueOf(d)' = Append(QueueOf(d), "message")
    BY <2>1, <2>2, <2>3, <2>6
  <2> QED
    BY <2>1, <2>4, <2>5, <2>6
<1>5. CASE Shown(pc'[d]) = Shown(pc[d]) /\ Quiet(d)
  BY <1>1, <1>3, <1>4, <1>5, ProtocolSteps DEF Quiet
<1>6. CASE /\ pc[d] \notin {"none", "exited"} /\ Shown(pc[d]) = "test" /\ inQ'[d] = inQ[d]
           /\ Shown(pc'[d]) = IF hold[d] THEN "pop" ELSE IF d = "con" THEN "more" ELSE "exited"
  BY <1>0, <1>1, <1>3, <1>4, <1>6, ProtocolThread
<1>7. CASE /\ pc[d] = "more" /\ inQ'[d] = inQ[d]
           /\ Shown(pc'[d]) = IF inQ[d] # <<>> THEN "pop" ELSE "exited"
  BY <1>0, <1>1, <1>3, <1>4, <1>7, ProtocolThread DEF Shown
<1>8. CASE /\ pc[d] \notin {"none", "exited"} /\ Shown(pc[d]) = "pop" /\ Shown(pc'[d]) = "test"
           /\ \/ inQ[d] # <<>> /\ inQ'[d] = Tail(inQ[d])
              \/ inQ[d] = <<>> /\ inQ'[d] = inQ[d] /\ d = "ser" /\ ~SIM
  BY <1>0, <1>1, <1>3, <1>4, <1>8, ProtocolThread
<1> QED
  BY <1>5, <1>6, <1>7, <1>8 DEF Follows

(* What the operations on the queues do to each of them. *)
LEMMA QueueSteps ==
  ASSUME IInv
  PROVE  /\ UNCHANGED inQ => \A d \in Devices : inQ'[d] = inQ[d] /\ Quiet(d)
         /\ \A e \in Devices, x \in Message \ {Empty} :
              Enqueue(e, x) => \A d \in Devices : Quiet(d) /\ (d # e => inQ'[d] = inQ[d])
         /\ \A e \in Devices :
              Dequeue(e) => /\ inQ[e] # <<>> /\ inQ'[e] = Tail(inQ[e])
                            /\ \A d \in Devices \ {e} : Quiet(d)
<1>1. DOMAIN inQ = Devices
  BY DEF IInv, QueuesOK
<1> QED
  BY <1>1 DEF Enqueue, Dequeue, Quiet

(* A thread that goes on, and no other. *)
LEMMA PlaceSteps ==
  ASSUME IInv, NEW t \in Threads, NEW from, NEW to, Goto(t, from, to)
  PROVE  /\ pc[t] = from /\ pc'[t] = to
         /\ \A d \in Devices \ {t} : pc'[d] = pc[d]
  BY MainTypes DEF IInv, PlacesOK, Goto

(* The loop of every device but the console. *)
LEMMA TestFollows ==
  ASSUME IInv, NEW t \in Devices \ {"con"}, TestHold(t)
  PROVE  \A d \in Running : Follows(d)
<1>0. t \in Threads /\ Running \subseteq Devices
  BY MainTypes
<1>1. /\ pc[t] = "test" /\ pc'[t] = IF hold[t] THEN "pop" ELSE "exited"
      /\ \A d \in Devices \ {t} : pc'[d] = pc[d]
  BY <1>0, PlaceSteps DEF TestHold
<1>2. \A d \in Devices : inQ'[d] = inQ[d] /\ Quiet(d)
  BY QueueSteps DEF TestHold
<1> SUFFICES ASSUME NEW d \in Running PROVE Follows(d)
  OBVIOUS
<1>3. CASE d = t
  BY <1>0, <1>1, <1>2, <1>3 DEF Follows, Shown
<1>4. CASE d # t
  BY <1>0, <1>1, <1>2, <1>4 DEF Follows
<1> QED
  BY <1>3, <1>4

-----------------------------------------------------------------------------
(* A thread that takes from its own queue and goes on. *)
LEMMA TakingFollows ==
  ASSUME IInv, NEW t \in Devices, NEW to, Shown(to) = "test",
         Goto(t, "pop", to), Dequeue(t)
  PROVE  \A d \in Running : Follows(d)
<1>0. t \in Threads /\ Running \subseteq Devices
  BY MainTypes
<1>1. pc[t] = "pop" /\ pc'[t] = to /\ \A d \in Devices \ {t} : pc'[d] = pc[d]
  BY <1>0, PlaceSteps
<1>2. /\ inQ[t] # <<>> /\ inQ'[t] = Tail(inQ[t])
      /\ \A d \in Devices \ {t} : Quiet(d)
  BY QueueSteps
<1> SUFFICES ASSUME NEW d \in Running PROVE Follows(d)
  OBVIOUS
<1>3. CASE d = t
  BY <1>0, <1>1, <1>2, <1>3 DEF Follows, Shown
<1>4. CASE d # t
  BY <1>0, <1>1, <1>2, <1>4 DEF Follows
<1> QED
  BY <1>3, <1>4

(* A thread that goes on, as far as the protocol sees it nowhere. *)
LEMMA PassingFollows ==
  ASSUME IInv, NEW t \in Threads, NEW from, NEW to, Shown(from) = Shown(to),
         Goto(t, from, to), \A d \in Devices : Quiet(d)
  PROVE  \A d \in Running : Follows(d)
<1>1. pc[t] = from /\ pc'[t] = to /\ \A d \in Devices \ {t} : pc'[d] = pc[d]
  BY PlaceSteps
<1> SUFFICES ASSUME NEW d \in Running PROVE Follows(d)
  OBVIOUS
<1>2. Shown(pc'[d]) = Shown(pc[d])
  BY <1>1, MainTypes
<1> QED
  BY <1>2, MainTypes DEF Follows

(* A step that moves no thread. *)
LEMMA StandingFollows ==
  ASSUME UNCHANGED pc, \A d \in Devices : Quiet(d)
  PROVE  \A d \in Running : Follows(d)
  BY MainTypes DEF Follows

(* The router. *)
LEMMA RouterFollows ==
  ASSUME IInv, IInv', RoutingOK, RouterStep
  PROVE  \A d \in Running : Follows(d)
<1>0. "rtr" \in Devices \ {"con"} /\ "rtr" \in Threads
  BY DEF Devices, Threads
<1>1. CASE TestHold("rtr")
  BY <1>0, <1>1, TestFollows
<1>2. CASE RouterPop
  <2>1. Goto("rtr", "pop", pc'["rtr"]) /\ pc'["rtr"] \in {"test", "terminated", "rules"}
    BY <1>0, <1>2, PlaceSteps DEF RouterPop
  <2>2. pc'["rtr"] # "terminated"
    BY <1>0 DEF IInv, PlacesOK, Places
  <2>3. Shown(pc'["rtr"]) = "test"
    BY <2>1, <2>2 DEF Shown
  <2> QED
    BY <1>0, <1>2, <2>1, <2>3, TakingFollows DEF RouterPop
<1>3. CASE RouterRule
  <2>1. rtrMsg \in Message \ {Empty}
    <3>1. NonEmpty(rtrMsg) /\ rtrMsg \in Message
      BY <1>3, WayTyped, <1>0 DEF RouterRule, RoutingOK
    <3> QED
      BY <3>1 DEF NonEmpty, Empty
  <2>2. \A d \in Devices : Quiet(d)
    <3>1. CASE Matches(Current, rtrMsg)
      <4>1. Current.to \in Devices /\ Enqueue(Current.to, rtrMsg)
        BY <1>3, <3>1, RoutedWell DEF RouterRule, RouterPush, IInv
      <4> QED
        BY <2>1, <4>1, QueueSteps
    <3>2. CASE ~Matches(Current, rtrMsg)
      BY <1>3, <3>2, QueueSteps DEF RouterRule, RouterSkip
    <3> QED
      BY <3>1, <3>2
  <2> QED
    BY <1>3, <2>2, StandingFollows DEF RouterRule
<1>4. CASE RouterNextMessage
  <2>1. \A d \in Devices : Quiet(d)
    BY <1>4, QueueSteps DEF RouterNextMessage
  <2>2. Shown("rules") = Shown("test")
    BY DEF Shown
  <2> QED
    BY <1>0, <1>4, <2>1, <2>2, PassingFollows DEF RouterNextMessage
<1> QED
  BY <1>1, <1>2, <1>3, <1>4 DEF RouterStep

(* The console's printing thread. *)
LEMMA ConsoleFollows ==
  ASSUME IInv, ConsoleStep
  PROVE  \A d \in Running : Follows(d)
<1>0. "con" \in Devices /\ "con" \in Threads /\ Running \subseteq Devices
  BY MainTypes
<1>1. CASE ConsoleTestHold
  <2>1. /\ pc["con"] = "test" /\ pc'["con"] = IF hold["con"] THEN "pop" ELSE "more"
        /\ \A d \in Devices \ {"con"} : pc'[d] = pc[d]
    BY <1>0, <1>1, PlaceSteps DEF ConsoleTestHold
  <2>2. \A d \in Devices : inQ'[d] = inQ[d] /\ Quiet(d)
    BY <1>1, QueueSteps DEF ConsoleTestHold
  <2>3. Follows("con")
    BY <1>0, <2>1, <2>2 DEF Follows, Shown
  <2>4. ASSUME NEW d \in Running \ {"con"} PROVE Follows(d)
    BY <1>0, <2>1, <2>2 DEF Follows
  <2> QED
    BY <2>3, <2>4
<1>2. CASE ConsoleTestMore
  <2>1. /\ pc["con"] = "more" /\ pc'["con"] = IF inQ["con"] # <<>> THEN "pop" ELSE "exited"
        /\ \A d \in Devices \ {"con"} : pc'[d] = pc[d]
    BY <1>0, <1>2, PlaceSteps DEF ConsoleTestMore
  <2>2. \A d \in Devices : inQ'[d] = inQ[d] /\ Quiet(d)
    BY <1>2, QueueSteps DEF ConsoleTestMore
  <2>3. Follows("con")
    BY <1>0, <2>1, <2>2 DEF Follows, Shown
  <2>4. ASSUME NEW d \in Running \ {"con"} PROVE Follows(d)
    BY <1>0, <2>1, <2>2 DEF Follows
  <2> QED
    BY <2>3, <2>4
<1>3. CASE ConsolePrint
  <2>1. Shown("test") = "test"
    BY DEF Shown
  <2> QED
    BY <1>0, <1>3, <2>1, TakingFollows DEF ConsolePrint
<1> QED
  BY <1>1, <1>2, <1>3 DEF ConsoleStep

(* The serial device: a turn that finds its queue empty is a pop too. *)
LEMMA SerialFollows ==
  ASSUME IInv, ~SIM, SerialStep
  PROVE  \A d \in Running : Follows(d)
<1>0. /\ "ser" \in Devices /\ "ser" \in Threads /\ Running \subseteq Devices
      /\ "rtr" \in Devices /\ hold["ser"] \in BOOLEAN
  BY MainTypes DEF Devices, IInv, PlacesOK
<1>1. CASE SerialStart
  <2>1. Shown("start") = Shown("test") /\ \A d \in Devices : Quiet(d)
    BY <1>1, QueueSteps DEF SerialStart, Shown
  <2> QED
    BY <1>0, <1>1, <2>1, PassingFollows DEF SerialStart
<1>2. CASE SerialTestHold
  <2>1. /\ pc["ser"] = "test" /\ pc'["ser"] = IF hold["ser"] THEN "poll" ELSE "exited"
        /\ \A d \in Devices \ {"ser"} : pc'[d] = pc[d]
    BY <1>0, <1>2, PlaceSteps DEF SerialTestHold
  <2>2. \A d \in Devices : inQ'[d] = inQ[d] /\ Quiet(d)
    BY <1>2, QueueSteps DEF SerialTestHold
  <2>3. Follows("ser")
    BY <1>0, <2>1, <2>2 DEF Follows, Shown
  <2>4. ASSUME NEW d \in Running \ {"ser"} PROVE Follows(d)
    BY <1>0, <2>1, <2>2 DEF Follows
  <2> QED
    BY <2>3, <2>4
<1>3. CASE SerialReceive
  <2>1. FromPort \in Message \ {Empty}
    <3>1. Head(port) \in Filled
      BY <1>3 DEF SerialReceive, IInv, SerOK
    <3>2. FromPort \in Message
      BY <1>0, <3>1 DEF FromPort, setSource, Filled, Message
    <3>3. FromPort.source = "ser"
      BY <3>1 DEF FromPort, setSource, Filled, Message
    <3> QED
      BY <3>2, <3>3 DEF Empty, Null
  <2>2. \A d \in Devices : Quiet(d)
    BY <1>0, <1>3, <2>1, QueueSteps DEF SerialReceive, Send
  <2> QED
    BY <1>3, <2>2, StandingFollows DEF SerialReceive
<1>4. CASE SerialPolled
  <2>1. Shown("poll") = Shown("pop") /\ \A d \in Devices : Quiet(d)
    BY <1>4, QueueSteps DEF SerialPolled, Shown
  <2> QED
    BY <1>0, <1>4, <2>1, PassingFollows DEF SerialPolled
<1>5. CASE SerialSend
  <2>1. CASE inQ["ser"] = <<>>
    <3>1. /\ pc["ser"] = "pop" /\ pc'["ser"] = "test"
          /\ \A d \in Devices \ {"ser"} : pc'[d] = pc[d]
      BY <1>0, <1>5, PlaceSteps DEF SerialSend
    <3>2. \A d \in Devices : inQ'[d] = inQ[d] /\ Quiet(d)
      BY <1>5, <2>1, QueueSteps DEF SerialSend
    <3>3. Follows("ser")
      BY <1>0, <2>1, <3>1, <3>2 DEF Follows, Shown
    <3>4. ASSUME NEW d \in Running \ {"ser"} PROVE Follows(d)
      BY <1>0, <3>1, <3>2 DEF Follows
    <3> QED
      BY <3>3, <3>4
  <2>2. CASE inQ["ser"] # <<>>
    <3>1. Shown("test") = "test"
      BY DEF Shown
    <3> QED
      BY <1>0, <1>5, <2>2, <3>1, TakingFollows DEF SerialSend
  <2> QED
    BY <2>1, <2>2
<1> QED
  BY <1>1, <1>2, <1>3, <1>4, <1>5 DEF SerialStep

(* The simulator. *)
LEMMA SimulatorFollows ==
  ASSUME IInv, SimulatorStep
  PROVE  \A d \in Running : Follows(d)
<1>0. "ser" \in Devices \ {"con"} /\ "ser" \in Threads /\ "rtr" \in Devices
  BY DEF Devices, Threads
<1>1. CASE TestHold("ser")
  BY <1>0, <1>1, TestFollows
<1>2. CASE SimSend
  <2>1. Shown("receive") = "test"
    BY DEF Shown
  <2> QED
    BY <1>0, <1>2, <2>1, TakingFollows DEF SimSend
<1>3. CASE SimReceive
  <2>1. \A d \in Devices : Quiet(d)
    <3>1. CASE Known(lastMessage)
      <4> DEFINE next == IF Counted(lastMessage) THEN (fcie + 1) % FcieModulus ELSE fcie
      <4>1. next \in Nat
        BY FcieAssumption DEF IInv, SerOK
      <4> HIDE DEF next
      <4>2. Response(lastMessage, next) \in Message
        BY <3>1, <4>1, ResponseMay DEF IInv
      <4>3. Response(lastMessage, next) # Empty
        BY DEF Response, Empty, Null
      <4>4. Enqueue("rtr", Response(lastMessage, next))
        BY <1>3, <3>1 DEF SimReceive, Receive, Send, next
      <4> QED
        BY <1>0, <4>2, <4>3, <4>4, QueueSteps
    <3>2. CASE ~Known(lastMessage)
      BY <1>3, <3>2, QueueSteps DEF SimReceive, Receive
    <3> QED
      BY <3>1, <3>2
  <2>2. Shown("receive") = Shown("test")
    BY DEF Shown
  <2> QED
    BY <1>0, <1>3, <2>1, <2>2, PassingFollows DEF SimReceive
<1> QED
  BY <1>1, <1>2, <1>3 DEF SimulatorStep

(* The TUN device: the thread that reads the interface only pushes. *)
LEMMA TunFollows ==
  ASSUME IInv, TunStep \/ TunReadStep
  PROVE  \A d \in Running : Follows(d)
<1>0. /\ "tun" \in Devices \ {"con"} /\ "tun" \in Threads /\ "rtr" \in Devices
      /\ "tunrx" \in Threads /\ "tunrx" \notin Devices
  BY DEF Devices, Threads
<1>1. CASE TestHold("tun")
  BY <1>0, <1>1, TestFollows
<1>2. CASE TunWrite
  <2>1. Shown("test") = "test"
    BY DEF Shown
  <2> QED
    BY <1>0, <1>2, <2>1, TakingFollows DEF TunWrite
<1>3. CASE TunReadTest \/ TunTimeout
  <2>1. \A d \in Devices : Quiet(d)
    BY <1>3, QueueSteps DEF TunReadTest, TunTimeout
  <2>2. PICK from, to : Goto("tunrx", from, to)
    BY <1>3 DEF TunReadTest, TunTimeout
  <2>3. \A d \in Devices : pc'[d] = pc[d]
    BY <1>0, <2>2, PlaceSteps
  <2> QED
    BY <2>1, <2>3, MainTypes DEF Follows
<1>4. CASE TunRead
  <2>1. \A d \in Devices : Quiet(d)
    <3>1. CASE Complete(tunBuf')
      <4>1. tunBuf' \in Seq(PacketType) /\ tunBuf' # <<>>
        BY <1>4 DEF TunRead, IInv, TunOK
      <4>2. ~SIM
        <5>1. pc["tunrx"] \in Places("tunrx") /\ pc["tunrx"] = "select"
          BY <1>0, <1>4 DEF TunRead, IInv, PlacesOK
        <5> QED
          BY <5>1 DEF Places
      <4>3. TunMessage(tunBuf') \in Message
        BY <4>1, <4>2, TunMessageMay DEF May, Filled
      <4>4. TunMessage(tunBuf') # Empty
        BY DEF TunMessage, Empty, Null
      <4>5. Enqueue("rtr", TunMessage(tunBuf'))
        BY <1>4, <3>1 DEF TunRead, Send
      <4> QED
        BY <1>0, <4>3, <4>4, <4>5, QueueSteps
    <3>2. CASE ~Complete(tunBuf')
      BY <1>4, <3>2, QueueSteps DEF TunRead
    <3> QED
      BY <3>1, <3>2
  <2> QED
    BY <1>4, <2>1, StandingFollows DEF TunRead
<1> QED
  BY <1>1, <1>2, <1>3, <1>4 DEF TunStep, TunReadStep

(* The capture device, unless it ends the program. *)
LEMMA CaptureFollows ==
  ASSUME IInv, CaptureStep, ~Crashed'
  PROVE  \A d \in Running : Follows(d)
<1>0. "cap" \in Devices \ {"con"} /\ "cap" \in Threads
  BY DEF Devices, Threads
<1>1. CASE TestHold("cap")
  BY <1>0, <1>1, TestFollows
<1>2. CASE CaptureWrite
  <2>1. Shown("test") = "test"
    BY DEF Shown
  <2> QED
    BY <1>0, <1>2, <2>1, TakingFollows DEF CaptureWrite
<1>3. CASE CaptureCrash
  <2>1. pc'["cap"] = "terminated"
    BY <1>0, <1>3, PlaceSteps DEF CaptureCrash
  <2> QED
    BY <2>1 DEF Crashed
<1> QED
  BY <1>1, <1>2, <1>3 DEF CaptureStep

(* All threads but main(), and the environment. *)
LEMMA OthersFollow ==
  ASSUME IInv, IInv', RoutingOK, Others, ~Crashed'
  PROVE  \A d \in Running : Follows(d)
<1>1. CASE Answer \/ RadioFrame \/ Packet
  <2>1. UNCHANGED <<inQ, pc>>
    BY <1>1 DEF Answer, RadioFrame, Packet, FrameArrives, PacketArrives, busVars
  <2> QED
    BY <2>1, QueueSteps, StandingFollows
<1>2. CASE SerThread
  BY <1>2, SerialFollows, SimulatorFollows DEF SerThread
<1>3. CASE \/ RouterThread \/ ConsoleThread \/ TunThread \/ TunReadThread
           \/ CaptureThread
  BY <1>3, RouterFollows, ConsoleFollows, TunFollows, CaptureFollows
  DEF RouterThread, ConsoleThread, TunThread, TunReadThread, CaptureThread
<1>4. CASE PortFails
  <2>1. CASE SerialError(MaxErrors)
    BY <2>1, QueueSteps, StandingFollows DEF SerialError
  <2>2. CASE SerialSendFails(MaxErrors)
    <3>1. pc'["ser"] = "terminated"
      BY <2>2, PlaceSteps DEF SerialSendFails, Threads
    <3> QED
      BY <3>1 DEF Crashed
  <2> QED
    BY <1>4, <2>1, <2>2 DEF PortFails
<1>5. CASE InterfaceFails
  <2>1. \A d \in Devices : Quiet(d)
    BY <1>5, QueueSteps DEF InterfaceFails, TunSelectFails, TunReadFails
  <2>2. PICK to : Goto("tunrx", "select", to)
    BY <1>5 DEF InterfaceFails, TunSelectFails, TunReadFails
  <2>3. \A d \in Devices : pc'[d] = pc[d]
    BY <2>2, PlaceSteps DEF Devices, Threads
  <2> QED
    BY <2>1, <2>3, MainTypes DEF Follows
<1> QED
  BY <1>1, <1>2, <1>3, <1>4, <1>5 DEF Others

-----------------------------------------------------------------------------
(* main().  A session has begun while the console is up.                     *)
Begun == ConsoleUp => session # 0

(* Who has the console in his hands, from the place main() has reached. *)
ConsoleTable ==
  /\ pc["main"] = "accept" => Owner("con") = "holding"
  /\ pc["main"] = "parse" => Owner("con") = "running"
  /\ pc["main"] = "release" /\ stopping = "con" => Owner("con") = "running"
  /\ pc["main"] = "sentinel" /\ stopping = "con" => Owner("con") = "flagged"
  /\ pc["main"] = "join" /\ stopping = "con" => Owner("con") = "joining"
  /\ pc["main"] # "accept" /\ ~ConsoleUp
       => Owner("con") = IF session = 0 THEN "new" ELSE "joined"

(* This is what Owner() says of the console. *)
LEMMA ConsoleFollowsMain == Phases => ConsoleTable
<1> SUFFICES ASSUME Phases PROVE ConsoleTable
  OBVIOUS
<1>1. Owner("con") = ConsoleOwner
  BY DEF Owner
<1>2. pc["con"] # "none" <=> ConsoleUp
  BY DEF Phases, ConsolePhase
<1> QED
  BY <1>1, <1>2 DEF ConsoleTable, ConsoleOwner, ConsoleUp, StoppingPhase, Halting

(* The same of the state after a step. *)
LEMMA ConsoleFollowsMainNext == Phases' => ConsoleTable'
  BY ConsoleFollowsMain, PTL

(* What the protocol sees of a device's thread. *)
LEMMA Sight ==
  ASSUME NEW d
  PROVE  /\ Owner(d) = "joined" => Rx(d) = "none"
         /\ Owner(d) # "joined" => Rx(d) = Shown(pc[d])
         /\ Owner(d)' = "joined" => Rx(d)' = "none"
         /\ Owner(d)' # "joined" => Rx(d)' = Shown(pc'[d])
         /\ inQ'[d] = inQ[d] => UNCHANGED QueueOf(d)
         /\ \A p \in {"none", "test", "exited"} : Shown(p) = p
         /\ Shown("start") = "test"
  BY DEF Rx, Shown, QueueOf

(* A device that main() leaves alone, but for a message it may get. *)
LEMMA LeftAlone ==
  ASSUME IInv, NEW d \in Devices, hold'[d] = hold[d], pc'[d] = pc[d],
         UNCHANGED Owner(d), Quiet(d)
  PROVE  SinkStep(d)
<1>1. UNCHANGED Rx(d)
  BY Sight
<1>2. CASE inQ'[d] = inQ[d]
  BY <1>1, <1>2, Sight, ProtocolSteps
<1>3. CASE \E x \in Message \ {Empty} : inQ'[d] = Append(inQ[d], x)
  <2>1. PICK x \in Message \ {Empty} : inQ'[d] = Append(inQ[d], x)
    BY <1>3
  <2>2. inQ[d] \in Seq(Message)
    BY DEF IInv, QueuesOK
  <2>3. QueueOf(d)' = Append(QueueOf(d), Letter(x)) /\ Letter(x) = "message"
    BY <2>1, <2>2, AbstractedQueues DEF QueueOf, Letter
  <2> QED
    BY <1>1, <2>3, ProtocolSteps
<1> QED
  BY <1>2, <1>3 DEF Quiet

(* While main() stops a device, the others stay in the hands they are in. *)
LEMMA BystandersStay ==
  ASSUME IInv, Phases, Phases', IInv', UNCHANGED stopping,
         pc["main"] \in Halting, pc'["main"] \in Halting,
         NEW d \in Running \ {"con", stopping}
  PROVE  UNCHANGED Owner(d)
<1>1. OwnerTable(d) /\ OwnerTable(d)'
  BY OwnersFollow, OwnersFollowNext DEF OwnersKnown, Phases, Running
<1>2. stopping \in Running
  BY DEF IInv, MainOK
<1>3. stopping = "con" \/ Position(stopping) < Position(d) \/ Position(d) < Position(stopping)
  BY <1>2, Positions
<1>4. CASE stopping = "con" \/ Position(stopping) < Position(d)
  <2>1. Owner(d) = "running" /\ Owner(d)' = "running"
    BY <1>1, <1>4 DEF OwnerTable
  <2> QED
    BY <2>1
<1>5. CASE stopping # "con" /\ Position(d) < Position(stopping)
  <2>1. Owner(d) = "joined" /\ Owner(d)' = "joined"
    BY <1>1, <1>5 DEF OwnerTable
  <2> QED
    BY <2>1
<1> QED
  BY <1>3, <1>4, <1>5

(* The devices main() does not look after in a step. *)
LEMMA Unheeded ==
  ASSUME IInv, NEW d \in Devices, pc'[d] = pc[d], hold'[d] = hold[d], inQ'[d] = inQ[d],
         UNCHANGED Owner(d)
  PROVE  SinkStep(d)
  BY LeftAlone DEF Quiet
(* main() starts the program. *)
LEMMA StartingSteps ==
  ASSUME IInv, IInv', Phases, Phases', NEW d \in Running,
         HoldDevices \/ StartDevices \/ HoldRouter \/ StartRouter
  PROVE  SinkStep(d)
<1>0. /\ DOMAIN pc = Threads /\ "main" \in Threads /\ "con" \in Threads
      /\ d \in Threads \ {"main"} /\ d \in Devices /\ DOMAIN hold = Devices
      /\ hold[d] \in BOOLEAN /\ hold'[d] \in BOOLEAN
      /\ SIM => d \in {"con", "ser", "rtr"}
      /\ d \in {"con", "ser", "rtr", "tun", "cap"}
  BY MainTypes DEF IInv, PlacesOK, MainOK, Threads, Devices, Running, ShutdownOrder
<1>1. /\ pc["main"] \in {"start", "threads", "hold router", "start router"}
      /\ pc["main"] = "start" => pc'["main"] = "threads"
      /\ pc["main"] = "threads" => pc'["main"] = "hold router"
      /\ pc["main"] = "hold router" => pc'["main"] = "start router"
      /\ pc["main"] = "start router" => pc'["main"] = "loop"
      /\ UNCHANGED <<inQ, session, stopping>>
  BY <1>0 DEF HoldDevices, StartDevices, HoldRouter, StartRouter, Goto, consoleVars, mainVars
<1>2. CASE d = "con"
  <2>1. ~ConsoleUp /\ ~ConsoleUp' /\ pc["main"] # "accept" /\ pc'["main"] # "accept"
    BY <1>1 DEF ConsoleUp, Halting
  <2>2. UNCHANGED Owner(d)
    BY <1>1, <1>2, <2>1, ConsoleFollowsMain, ConsoleFollowsMainNext DEF ConsoleTable
  <2>3. pc[d] = "none" /\ pc'[d] = "none"
    BY <1>2, <2>1 DEF Phases, ConsolePhase
  <2>4. ~hold[d] /\ ~hold'[d]
    BY <1>1, <1>2 DEF Phases, ConsolePhase
  <2>5. hold'[d] = hold[d]
    BY <1>0, <2>4
  <2> QED
    BY <1>0, <1>1, <2>2, <2>3, <2>5, Unheeded
<1>3. CASE d # "con"
  <2>0. OwnerTable(d) /\ OwnerTable(d)' /\ DevicePhase(d) /\ DevicePhase(d)'
    BY <1>3, OwnersFollow, OwnersFollowNext DEF OwnersKnown, Phases, Running
  <2>1. CASE d = "rtr" /\ pc["main"] \in {"start", "threads"}
    <3>1. Owner(d) = "new" /\ Owner(d)' = "new"
      BY <1>1, <2>0, <2>1 DEF OwnerTable
    <3>2. pc[d] = "none" /\ pc'[d] = "none" /\ ~hold[d] /\ ~hold'[d]
      BY <2>0, <3>1 DEF DevicePhase
    <3>3. hold'[d] = hold[d]
      BY <1>0, <3>2
    <3> QED
      BY <1>0, <1>1, <3>1, <3>2, <3>3, Unheeded
  <2>2. CASE (d = "rtr" /\ HoldRouter) \/ (d # "rtr" /\ HoldDevices)
    <3>1. Owner(d) = "new" /\ Owner(d)' = "holding"
      <4>1. IF d = "rtr" THEN pc["main"] = "hold router" ELSE pc["main"] = "start"
        BY <2>2 DEF HoldRouter, HoldDevices, Goto
      <4> QED
        BY <1>1, <2>0, <4>1 DEF OwnerTable
    <3>2. pc[d] = "none" /\ pc'[d] = "none" /\ hold'[d]
      BY <2>0, <3>1 DEF DevicePhase
    <3>3. hold'[d] = TRUE
      BY <1>0, <3>2
    <3>4. UNCHANGED QueueOf(d) /\ UNCHANGED Rx(d)
      BY <1>1, <3>1, <3>2, Sight
    <3> QED
      BY <3>1, <3>3, <3>4, ProtocolSteps
  <2>3. CASE (d = "rtr" /\ StartRouter) \/ (d # "rtr" /\ StartDevices)
    <3>1. Owner(d) = "holding" /\ Owner(d)' = "running"
      <4>1. IF d = "rtr" THEN pc["main"] = "start router" ELSE pc["main"] = "threads"
        BY <2>3 DEF StartRouter, StartDevices
      <4> QED
        BY <1>1, <2>0, <4>1 DEF OwnerTable
    <3>2. pc'[d] \in {"start", "test"}
      BY <1>0, <1>3, <2>3 DEF StartRouter, StartDevices, Threads
    <3>3. UNCHANGED QueueOf(d) /\ Rx(d)' = "test"
      BY <1>1, <3>1, <3>2, Sight
    <3>4. hold[d] /\ hold'[d]
      BY <2>0, <3>1 DEF DevicePhase
    <3>5. hold'[d] = hold[d]
      BY <1>0, <3>4
    <3> QED
      BY <3>1, <3>3, <3>5, ProtocolSteps
  <2>4. CASE d # "rtr" /\ (HoldRouter \/ StartRouter)
    <3>1. Owner(d) = "running" /\ Owner(d)' = "running"
      BY <1>1, <2>0, <2>4 DEF OwnerTable, HoldRouter, StartRouter, Goto
    <3>2. pc'[d] = pc[d] /\ hold'[d] = hold[d]
      BY <1>0, <2>4 DEF HoldRouter, StartRouter, Goto
    <3> QED
      BY <1>0, <1>1, <3>1, <3>2, Unheeded
  <2>5. /\ HoldDevices => pc["main"] = "start"
        /\ StartDevices => pc["main"] = "threads"
    BY DEF HoldDevices, StartDevices, Goto
  <2> QED
    BY <2>1, <2>2, <2>3, <2>4, <2>5
<1> QED
  BY <1>2, <1>3

(* main() serves a client. *)
LEMMA ServingSteps ==
  ASSUME IInv, IInv', Phases, Phases', NEW d \in Running,
         HoldConsole \/ Accept \/ Parse \/ Reject \/ EndSession \/ BeginShutdown
  PROVE  SinkStep(d)
<1>0. /\ DOMAIN pc = Threads /\ "main" \in Threads /\ "con" \in Threads
      /\ d \in Threads \ {"main"} /\ d \in Devices /\ DOMAIN hold = Devices
  BY MainTypes DEF IInv, PlacesOK, MainOK, Threads, Devices
<1>1. d # "con" => OwnerTable(d) /\ OwnerTable(d)'
  BY OwnersFollow, OwnersFollowNext DEF OwnersKnown, Phases, Running
<1>2. ConsoleTable /\ ConsoleTable'
  BY ConsoleFollowsMain, ConsoleFollowsMainNext
<1>3. CASE HoldConsole
  <2>1. /\ pc["main"] = "loop" /\ pc'["main"] = "accept" /\ UNCHANGED inQ
        /\ pc'[d] = pc[d] /\ hold'[d] = IF d = "con" THEN TRUE ELSE hold[d]
    BY <1>0, <1>3 DEF HoldConsole, Goto
  <2>2. CASE d = "con"
    <3>1. /\ Owner(d) \in {"new", "joined"} /\ Owner(d)' = "holding" /\ pc[d] = "none"
      BY <1>2, <2>1, <2>2 DEF ConsoleTable, ConsoleUp, Phases, ConsolePhase, Halting
    <3>2. UNCHANGED QueueOf(d) /\ UNCHANGED Rx(d)
      BY <2>1, <3>1, Sight
    <3> QED
      BY <2>1, <2>2, <3>1, <3>2, ProtocolSteps
  <2>3. CASE d # "con"
    BY <1>0, <1>1, <2>1, <2>3, Unheeded DEF OwnerTable
  <2> QED
    BY <2>2, <2>3
<1>4. CASE Accept
  <2>1. /\ pc["main"] = "accept" /\ pc'["main"] = "parse" /\ UNCHANGED <<inQ, hold>>
        /\ pc'[d] = IF d = "con" THEN "test" ELSE pc[d]
    BY <1>0, <1>4 DEF Accept
  <2>2. CASE d = "con"
    <3>1. Owner(d) = "holding" /\ Owner(d)' = "running"
      BY <1>2, <2>1, <2>2 DEF ConsoleTable
    <3>2. UNCHANGED QueueOf(d) /\ Rx(d)' = "test"
      BY <2>1, <2>2, <3>1, Sight
    <3> QED
      BY <2>1, <3>1, <3>2, ProtocolSteps
  <2>3. CASE d # "con"
    BY <1>0, <1>1, <2>1, <2>3, Unheeded DEF OwnerTable
  <2> QED
    BY <2>2, <2>3
<1>5. CASE Parse
  <2>1. pc["main"] = "parse" /\ UNCHANGED <<pc, hold>>
    BY <1>5 DEF Parse, ParseOneOf, ParseLine
  <2>2. UNCHANGED Owner(d)
    BY <1>1, <1>2, <2>1 DEF OwnerTable, ConsoleTable
  <2>3. PICK f \in Fronts \ {"none"}, e \in Devices : Enqueue(e, setSource(NewLine(f), "con"))
    BY <1>5 DEF Parse, ParseOneOf, ParseLine, Command, Data, CaptureFile, Help, ConsolePush,
                Send, Fronts, Devices
  <2>4. setSource(NewLine(f), "con") \in Message \ {Empty}
    BY <2>3, LineFilled DEF IInv, Filled, Empty, Null
  <2>5. Quiet(d)
    BY <1>0, <2>3, <2>4, QueueSteps
  <2> QED
    BY <1>0, <2>1, <2>2, <2>5, LeftAlone
<1>8. CASE Reject
  <2>1. pc["main"] = "parse" /\ UNCHANGED <<inQ, pc, hold>>
    BY <1>8 DEF Reject, busVars
  <2>2. UNCHANGED Owner(d)
    BY <1>1, <1>2, <2>1 DEF OwnerTable, ConsoleTable
  <2> QED
    BY <1>0, <2>1, <2>2, Unheeded
<1>6. CASE EndSession
  <2>1. /\ pc["main"] = "parse" /\ pc'["main"] = "release" /\ stopping' = "con"
        /\ UNCHANGED <<inQ, hold>> /\ pc'[d] = pc[d]
    BY <1>0, <1>6 DEF EndSession, EndSessionBy, Goto
  <2>2. UNCHANGED Owner(d)
    BY <1>1, <1>2, <2>1 DEF OwnerTable, ConsoleTable, Halting
  <2> QED
    BY <1>0, <2>1, <2>2, Unheeded
<1>7. CASE BeginShutdown
  <2>1. /\ pc["main"] = "loop" /\ pc'["main"] = "release" /\ stopping' = Head(ShutdownOrder)
        /\ UNCHANGED <<inQ, hold, session>> /\ pc'[d] = pc[d]
    BY <1>0, <1>7 DEF BeginShutdown, Goto, consoleVars
  <2>2. stopping' \in Running \ {"con"}
    BY <2>1, Positions
  <2>3. CASE d = "con"
    <3>1. ~ConsoleUp /\ ~ConsoleUp'
      BY <2>1, <2>2 DEF ConsoleUp, Halting
    <3> QED
      BY <1>0, <1>2, <2>1, <2>3, <3>1, Unheeded DEF ConsoleTable
  <2>4. CASE d # "con"
    <3>1. d = stopping' \/ Position(stopping') < Position(d)
      <4>1. /\ Position(stopping') <= Position(d)
            /\ Position(stopping') \in Nat /\ Position(d) \in Nat
        BY <2>1, <2>2, <2>4, Positions
      <4> QED
        BY <2>2, <2>4, <4>1, Positions
    <3>2. Owner(d) = "running" /\ Owner(d)' = "running"
      BY <1>1, <2>1, <2>4, <3>1 DEF OwnerTable, Halting
    <3> QED
      BY <1>0, <2>1, <3>2, Unheeded
  <2> QED
    BY <2>3, <2>4
<1> QED
  BY <1>3, <1>4, <1>5, <1>6, <1>7, <1>8

(* main() stops a device. *)
LEMMA StoppingSteps ==
  ASSUME IInv, IInv', Phases, Phases', Begun, NEW d \in Running,
         ReleaseFlag \/ ReleaseSentinel \/ JoinThread
  PROVE  SinkStep(d)
<1>0. /\ DOMAIN pc = Threads /\ "main" \in Threads /\ "con" \in Threads
      /\ d \in Threads \ {"main"} /\ d \in Devices /\ DOMAIN hold = Devices
      /\ DOMAIN inQ = Devices /\ inQ[d] \in Seq(Message)
      /\ stopping \in Running /\ stopping \in Devices
      /\ {"release", "sentinel", "join"} \subseteq Halting
  BY MainTypes DEF IInv, QueuesOK, PlacesOK, MainOK, Threads, Devices, Halting
<1>1. d # "con" => OwnerTable(d) /\ OwnerTable(d)' /\ DevicePhase(d)
  BY OwnersFollow, OwnersFollowNext DEF OwnersKnown, Phases, Running
<1>2. ConsoleTable /\ ConsoleTable'
  BY ConsoleFollowsMain, ConsoleFollowsMainNext
<1>3. ASSUME pc["main"] \in Halting, pc'["main"] \in Halting, UNCHANGED <<stopping, session>>,
             d # stopping
      PROVE  UNCHANGED Owner(d)
  <2>1. CASE d = "con"
    <3>1. ~ConsoleUp /\ ~ConsoleUp' /\ pc["main"] # "accept" /\ pc'["main"] # "accept"
      BY <1>3, <2>1 DEF ConsoleUp, Halting
    <3> QED
      BY <1>2, <1>3, <2>1, <3>1 DEF ConsoleTable
  <2>2. CASE d # "con"
    BY <1>3, <2>2, BystandersStay
  <2> QED
    BY <2>1, <2>2
<1>4. CASE ReleaseFlag
  <2>1. /\ pc["main"] = "release" /\ pc'["main"] = "sentinel"
        /\ UNCHANGED <<stopping, session, inQ>> /\ pc'[d] = pc[d]
        /\ hold'[d] = IF d = stopping THEN FALSE ELSE hold[d]
    BY <1>0, <1>4 DEF ReleaseFlag, Goto, consoleVars
  <2>2. CASE d = stopping
    <3>1. Owner(d) = "running" /\ Owner(d)' = "flagged"
      BY <1>1, <1>2, <2>1, <2>2 DEF OwnerTable, ConsoleTable
    <3>2. UNCHANGED QueueOf(d) /\ UNCHANGED Rx(d)
      BY <2>1, <3>1, Sight
    <3> QED
      BY <2>1, <2>2, <3>1, <3>2, ProtocolSteps
  <2>3. CASE d # stopping
    BY <1>0, <1>3, <2>1, <2>3, Unheeded
  <2> QED
    BY <2>2, <2>3
<1>5. CASE ReleaseSentinel
  <2>1. /\ pc["main"] = "sentinel" /\ pc'["main"] = "join"
        /\ UNCHANGED <<stopping, session, hold>> /\ pc'[d] = pc[d]
        /\ inQ'[d] = IF d = stopping THEN Append(inQ[d], Empty) ELSE inQ[d]
    BY <1>0, <1>5 DEF ReleaseSentinel, Goto, Enqueue, consoleVars, mainVars
  <2>2. CASE d = stopping
    <3>1. Owner(d) = "flagged" /\ Owner(d)' = "joining"
      BY <1>1, <1>2, <2>1, <2>2 DEF OwnerTable, ConsoleTable
    <3>2. UNCHANGED Rx(d)
      BY <2>1, <3>1, Sight
    <3>3. QueueOf(d)' = Append(QueueOf(d), "sentinel")
      <4>1. Abstracted(Append(inQ[d], Empty)) = Append(Abstracted(inQ[d]), Letter(Empty))
        BY <1>0, AbstractedQueues, EmptyMay
      <4> QED
        BY <2>1, <2>2, <4>1 DEF QueueOf, Letter
    <3> QED
      BY <2>1, <3>1, <3>2, <3>3, ProtocolSteps
  <2>3. CASE d # stopping
    BY <1>0, <1>3, <2>1, <2>3, Unheeded
  <2> QED
    BY <2>2, <2>3
<1>6. CASE JoinThread
  <2>0. /\ pc["main"] = "join" /\ Exited(stopping) /\ UNCHANGED <<inQ, hold, session>>
        /\ hold'[d] = hold[d]
    BY <1>6 DEF JoinThread, consoleVars
  <2>1. CASE stopping = "con"
    <3>1. /\ pc'["main"] = "loop" /\ UNCHANGED stopping
          /\ d # "con" => pc'[d] = pc[d]
      BY <1>0, <1>6, <2>1 DEF JoinThread
    <3>2. CASE d = "con"
      <4>1. ConsoleUp /\ session # 0
        BY <1>0, <2>0, <2>1 DEF ConsoleUp, Begun
      <4>2. Owner(d) = "joining" /\ Owner(d)' = "joined"
        BY <1>2, <2>0, <2>1, <3>1, <3>2, <4>1 DEF ConsoleTable, ConsoleUp, Halting
      <4>3. Rx(d) = "exited" /\ Rx(d)' = "none" /\ UNCHANGED QueueOf(d)
        BY <2>0, <2>1, <3>2, <4>2, Sight DEF Exited
      <4> QED
        BY <2>0, <4>2, <4>3, ProtocolSteps
    <3>3. CASE d # "con"
      <4>1. Owner(d) = "running" /\ Owner(d)' = "running"
        BY <1>0, <1>1, <2>0, <2>1, <3>1, <3>3 DEF OwnerTable
      <4> QED
        BY <1>0, <2>0, <3>1, <3>3, <4>1, Unheeded
    <3> QED
      BY <3>2, <3>3
  <2>2. CASE stopping # "con"
    <3>1. /\ pc'[d] = pc[d]
          /\ stopping = LastToStop => pc'["main"] = "done" /\ UNCHANGED stopping
          /\ stopping # LastToStop => /\ pc'["main"] = "release"
                                      /\ stopping' = NextToStop(stopping)
      BY <1>0, <1>6, <2>2 DEF JoinThread, Goto
    <3>2. /\ Position(stopping) \in Nat
          /\ stopping # LastToStop => /\ stopping' \in Running \ {"con"}
                                      /\ Position(stopping') = Position(stopping) + 1
      BY <1>0, <2>2, <3>1, Positions
    <3>3. CASE d = "con"
      <4>1. ~ConsoleUp /\ ~ConsoleUp' /\ pc["main"] # "accept" /\ pc'["main"] # "accept"
        BY <2>0, <2>2, <3>1, <3>2 DEF ConsoleUp, Halting
      <4> QED
        BY <1>0, <1>2, <2>0, <3>1, <3>3, <4>1, Unheeded DEF ConsoleTable
    <3>4. CASE d # "con"
      <4>0. /\ Position(d) \in Nat /\ Position(d) <= Position(LastToStop)
            /\ Position(d) = Position(stopping) => d = stopping
            /\ stopping # LastToStop /\ Position(d) = Position(stopping') => d = stopping'
        BY <1>0, <2>2, <3>2, <3>4, Positions
      <4>1. Position(d) <= Position(stopping) => Owner(d)' = "joined"
        <5>1. CASE stopping = LastToStop
          BY <1>1, <3>1, <3>4, <5>1 DEF OwnerTable
        <5>2. CASE stopping # LastToStop /\ Position(d) <= Position(stopping)
          <6>1. Position(d) < Position(stopping')
            BY <3>2, <4>0, <5>2
          <6> QED
            BY <1>0, <1>1, <3>1, <3>2, <3>4, <5>2, <6>1 DEF OwnerTable
        <5> QED
          BY <5>1, <5>2
      <4>2. CASE d = stopping
        <5>1. Owner(d) = "joining" /\ Owner(d)' = "joined"
          <6>1. Position(d) <= Position(stopping)
            BY <4>0, <4>2
          <6> QED
            BY <1>1, <2>0, <3>4, <4>1, <4>2, <6>1 DEF OwnerTable
        <5>2. Rx(d) = "exited" /\ Rx(d)' = "none" /\ UNCHANGED QueueOf(d)
          BY <2>0, <4>2, <5>1, Sight DEF Exited
        <5> QED
          BY <2>0, <5>1, <5>2, ProtocolSteps
      <4>3. CASE Position(d) < Position(stopping)
        <5>1. Owner(d) = "joined" /\ Owner(d)' = "joined"
          <6>1. Position(d) <= Position(stopping)
            BY <3>2, <4>0, <4>3
          <6> QED
            BY <1>0, <1>1, <2>0, <2>2, <3>4, <4>1, <4>3, <6>1 DEF OwnerTable
        <5> QED
          BY <1>0, <2>0, <3>1, <5>1, Unheeded
      <4>4. CASE Position(stopping) < Position(d)
        <5>1. stopping # LastToStop
          BY <3>2, <4>0, <4>4
        <5>2. d = stopping' \/ Position(stopping') < Position(d)
          BY <3>2, <4>0, <4>4, <5>1
        <5>3. Owner(d) = "running" /\ Owner(d)' = "running"
          BY <1>0, <1>1, <2>0, <3>1, <3>4, <4>4, <5>1, <5>2 DEF OwnerTable
        <5> QED
          BY <1>0, <2>0, <3>1, <5>3, Unheeded
      <4> QED
        BY <3>2, <4>0, <4>2, <4>3, <4>4
    <3> QED
      BY <3>3, <3>4
  <2> QED
    BY <2>1, <2>2
<1> QED
  BY <1>4, <1>5, <1>6

-----------------------------------------------------------------------------
(* Every step is one of the protocol for every device, or ends the program. *)
LEMMA StepsOfSinks ==
  ASSUME IInv, IInv', Phases, Phases', RoutingOK, Begun, [Next]_vars
  PROVE  Crashed' \/ \A d \in Running : SinkStep(d)
<1> SUFFICES ASSUME ~Crashed', NEW d \in Running PROVE SinkStep(d)
  OBVIOUS
<1>1. CASE UNCHANGED vars
  <2>1. UNCHANGED <<inQ, pc, hold, stopping, realQuit, session>>
    BY <1>1 DEF vars, busVars, consoleVars, mainVars
  <2>2. UNCHANGED Owner(d)
    BY <2>1 DEF Owner, ConsoleOwner, DeviceOwner, Stopped, StoppingPhase
  <2> QED
    BY <2>1, <2>2, MainTypes, Unheeded
<1>2. CASE Others
  BY <1>2, OthersFollow, FollowingSteps
<1>3. CASE Main
  BY <1>3, StartingSteps, ServingSteps, StoppingSteps DEF Main, Lifecycle, Serve
<1> QED
  BY <1>1, <1>2, <1>3 DEF Next, Finished

(* A session has begun, from the moment its thread is started. *)
LEMMA BegunKept == ASSUME IInv, Phases, Begun, [Next]_vars PROVE Begun'
<1>0. DOMAIN pc = Threads /\ "main" \in Threads /\ "con" \in Threads /\ session \in Nat
  BY MainTypes DEF IInv, PlacesOK, ConsoleOK, Threads
<1>1. CASE UNCHANGED vars
  BY <1>1 DEF vars, busVars, consoleVars, mainVars, Begun, ConsoleUp
<1>2. CASE Others
  BY <1>2, OthersLeaveMain, OthersLeaveOwners DEF Begun, ConsoleUp
<1>3. CASE HoldDevices \/ StartDevices \/ HoldRouter \/ StartRouter \/ HoldConsole
  <2>1. pc'["main"] \notin {"parse"} \cup Halting
    BY <1>0, <1>3 DEF HoldDevices, StartDevices, HoldRouter, StartRouter, HoldConsole, Goto,
                      Halting
  <2> QED
    BY <2>1 DEF Begun, ConsoleUp
<1>4. CASE BeginShutdown
  <2>1. stopping' # "con"
    BY <1>4, Positions DEF BeginShutdown
  <2>2. pc'["main"] # "parse"
    BY <1>0, <1>4 DEF BeginShutdown, Goto
  <2> QED
    BY <2>1, <2>2 DEF Begun, ConsoleUp
<1>5. CASE ReleaseFlag \/ ReleaseSentinel
  <2>1. UNCHANGED <<session, stopping>> /\ pc["main"] \in Halting /\ pc'["main"] # "parse"
    BY <1>0, <1>5 DEF ReleaseFlag, ReleaseSentinel, Goto, consoleVars, mainVars, Halting
  <2> QED
    BY <2>1 DEF Begun, ConsoleUp
<1>6. CASE JoinThread
  <2>1. pc'["main"] # "parse" /\ (stopping = "con" => pc'["main"] = "loop")
    BY <1>0, <1>6 DEF JoinThread, Goto
  <2>2. stopping # "con" => stopping' # "con"
    BY <1>6, Positions DEF JoinThread, IInv, MainOK
  <2>3. stopping = "con" => ~ConsoleUp'
    BY <2>1 DEF ConsoleUp, Halting
  <2> QED
    BY <2>1, <2>2, <2>3 DEF Begun, ConsoleUp
<1>7. CASE Accept
  BY <1>0, <1>7 DEF Accept, BeginSession, Begun
<1>8. CASE Parse \/ Reject
  BY <1>8 DEF Parse, ParseOneOf, ParseLine, Reject, busVars, Begun, ConsoleUp, mainVars
<1>9. CASE EndSession
  BY <1>0, <1>9 DEF EndSession, EndSessionBy, ParseEnd, Goto, Begun, ConsoleUp
<1> QED
  BY <1>1, <1>2, <1>3, <1>4, <1>5, <1>6, <1>7, <1>8, <1>9
  DEF Next, Finished, Main, Lifecycle, Serve

(* The daemon implements one SinkDevice per device, for any number of        *)
(* sessions, commands, frames and packets: what SinkDevice.cpp and           *)
(* wisund.cpp do with a device's flag, its queue and its thread are steps of *)
(* the protocol, in its order, until an exception ends the program.          *)
THEOREM SinksImplemented == Spec => ImplementsSinks
<1>1. Init => \A d \in Running : Sink(d)!Init
  <2> SUFFICES ASSUME Init, NEW d \in Running PROVE Sink(d)!Init
    OBVIOUS
  <2>1. /\ d \in Devices /\ d \in Threads \ {"main"}
        /\ inQ[d] = <<>> /\ hold[d] = FALSE /\ pc[d] = "none" /\ pc["main"] = "start"
        /\ session = 0 /\ stopping = "con"
    BY MainTypes DEF Init, BusInit, ConsoleInit, Devices
  <2>2. Owner(d) = "new"
    <3>1. CASE d = "con"
      BY <2>1, <3>1 DEF Owner, ConsoleOwner
    <3>2. CASE d # "con"
      BY <2>1, <3>2 DEF Owner, DeviceOwner
    <3> QED
      BY <3>1, <3>2
  <2>3. Rx(d) = "none"
    BY <2>1, <2>2, Sight
  <2>4. Abstracted(inQ[d]) = <<>>
    <3>1. inQ[d] \in Seq(Message)
      BY <2>1
    <3> QED
      BY <2>1, <3>1, AbstractedQueues
  <2> QED
    BY <2>1, <2>2, <2>3, <2>4 DEF Sink!Init
<1>2. Init => Begun
  <2> SUFFICES ASSUME Init PROVE Begun
    OBVIOUS
  <2>1. pc["main"] = "start"
    BY MainTypes DEF Init
  <2> QED
    BY <2>1 DEF Begun, ConsoleUp, Halting
<1>3. IInv /\ Phases /\ Begun /\ [Next]_vars => Begun'
  BY BegunKept
<1>4. Conserved => RoutingOK
  BY DEF Conserved
<1>5. IInv /\ IInv' /\ Phases /\ Phases' /\ RoutingOK /\ Begun /\ [Next]_vars
        => [Crashed' \/ \A d \in Running : SinkStep(d)]_vars
  BY StepsOfSinks
<1> QED
  BY <1>1, <1>2, <1>3, <1>4, <1>5, Inductive, PhasesInductive, FlowsConserved, PTL
  DEF Spec, ImplementsSinks
=============================================================================
