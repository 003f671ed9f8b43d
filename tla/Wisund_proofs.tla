--------------------------- MODULE Wisund_proofs ----------------------------
(* Machine-checked proofs about the daemon and the simulator's program, for  *)
(* any number of sessions, commands, frames, packets and failures, all the   *)
(* kinds of them and any interleaving of the threads.                        *)
EXTENDS WisundSinks, Filters_proofs

(* What may stand in the queue of a device: the message that wakes it up,    *)
(* and those that are meant for it.  Only some lines of the clients become   *)
(* control messages, and the simulator has no device for anything but        *)
(* commands and their answers.                                               *)
Controls == Lines \cap {"capfile", "data"} # {}

Meant(d, x) ==
  CASE d = "rtr" -> /\ x.source # Null
                    /\ SIM => x.source = "con" \/ (x.source = "ser" /\ isPlain(x))
                    /\ x.source = "con" /\ isControl(x) => Controls
    [] d = "ser" -> (x.source = "tun" /\ ~SIM) \/ (x.source = "con" /\ isPlain(x))
    [] d = "tun" -> x.source = "ser" /\ isRaw(x)
    [] d = "cap" -> \/ x.source = "con" /\ isControl(x) /\ Controls
                    \/ x.source = "ser" /\ isCap(x)
    [] d = "con" -> (x.source = "ser" /\ isPlain(x)) \/ x.source = "con"

Filled == {x \in Message : NonEmpty(x) => x.body # <<>>}

May(d) == {x \in Filled : NonEmpty(x) => Meant(d, x)}

Taken(d) == {x \in May(d) : NonEmpty(x)}

(* Where a thread may be: the router's is never terminated. *)
Places(t) ==
  CASE t = "main"  -> MainPCs
    [] t = "con"   -> {"none", "test", "more", "pop", "exited"}
    [] t = "ser"   -> IF SIM THEN {"none", "test", "pop", "receive", "exited"}
                      ELSE {"none", "start", "test", "poll", "pop", "exited", "terminated"}
    [] t = "rtr"   -> {"none", "test", "pop", "rules", "exited"}
    [] t = "tunrx" -> IF SIM THEN {"none"}
                      ELSE {"none", "test", "select", "exited", "terminated"}
    [] t \in {"tun", "cap"} ->
         IF SIM THEN {"none"} ELSE {"none", "test", "pop", "exited", "terminated"}

QueuesOK ==
  /\ inQ \in [Devices -> Seq(Message)]
  /\ \A d \in Devices : inQ[d] \in Seq(May(d))

PlacesOK ==
  /\ hold \in [Devices -> BOOLEAN]
  /\ DOMAIN pc = Threads
  /\ \A t \in Threads : pc[t] \in Places(t)

RouterOK ==
  /\ rules = IF SIM THEN SimRules ELSE WisundRules
  /\ rtrMsg \in May("rtr")
  /\ cursor \in Nat \ {0}
  /\ pushed \subseteq DOMAIN rules

Prints == [msg : Taken("con"), session : Nat]

ConsoleOK ==
  /\ session \in Nat
  /\ givenIn \in Seq(Nat)
  /\ realQuit \in BOOLEAN /\ wantReset \in BOOLEAN
  /\ issued \in Seq(Message) /\ asked \in Seq(Message)
  /\ printed \in Seq(Prints)

SerOK ==
  /\ port \in Seq(Filled)
  /\ armed \in BOOLEAN
  /\ received \in Seq(Message)
  /\ sent \in Seq(Taken("ser"))
  /\ lastMessage \in Filled
  /\ fcie \in Nat

PacketType == [id : Nat, ipv6 : BOOLEAN]

TunOK ==
  /\ nic \in Seq(PacketType) /\ tunBuf \in Seq(PacketType)
  /\ read \in Seq(PacketType)
  /\ written \in Seq(Taken("tun"))

CaptureOK ==
  /\ captured \in Seq({x \in Taken("cap") : ~isControl(x) /\ ~isShort(x)})
  /\ ~Controls => capFile = "open"

MainOK == stopping \in Running

RadioOK == answered \in Nat /\ frames \in Nat

IInv == /\ QueuesOK /\ PlacesOK /\ RouterOK /\ ConsoleOK /\ SerOK /\ TunOK
        /\ CaptureOK /\ MainOK /\ RadioOK

-----------------------------------------------------------------------------
(* What an action leaves alone stays right. *)
LEMMA Kept ==
  /\ QueuesOK /\ UNCHANGED inQ => QueuesOK'
  /\ PlacesOK /\ UNCHANGED <<hold, pc>> => PlacesOK'
  /\ RouterOK /\ UNCHANGED routerVars => RouterOK'
  /\ ConsoleOK /\ UNCHANGED consoleVars => ConsoleOK'
  /\ SerOK /\ UNCHANGED serVars => SerOK'
  /\ TunOK /\ UNCHANGED tunVars => TunOK'
  /\ CaptureOK /\ UNCHANGED captureVars => CaptureOK'
  /\ MainOK /\ UNCHANGED mainVars => MainOK'
  /\ RadioOK /\ UNCHANGED radioVars => RadioOK'
<1>1. QueuesOK /\ UNCHANGED inQ => QueuesOK'
  BY DEF QueuesOK
<1>2. PlacesOK /\ UNCHANGED <<hold, pc>> => PlacesOK'
  BY DEF PlacesOK
<1>3. RouterOK /\ UNCHANGED routerVars => RouterOK'
  BY DEF RouterOK, routerVars
<1>4. ConsoleOK /\ UNCHANGED consoleVars => ConsoleOK'
  BY DEF ConsoleOK, consoleVars
<1>5. SerOK /\ UNCHANGED serVars => SerOK'
  BY DEF SerOK, serVars, serialVars, simVars
<1>6. TunOK /\ UNCHANGED tunVars => TunOK'
  BY DEF TunOK, tunVars
<1>7. CaptureOK /\ UNCHANGED captureVars => CaptureOK'
  BY DEF CaptureOK, captureVars
<1>8. MainOK /\ UNCHANGED mainVars => MainOK'
  BY DEF MainOK, mainVars, Running
<1>9. RadioOK /\ UNCHANGED radioVars => RadioOK'
  BY DEF RadioOK, radioVars
<1> QED
  BY <1>1, <1>2, <1>3, <1>4, <1>5, <1>6, <1>7, <1>8, <1>9

(* The message that wakes a thread up may stand in any queue. *)
LEMMA EmptyMay == ASSUME NEW d PROVE Empty \in May(d) /\ Empty \in Message
  BY DEF Empty, Message, Null, Fronts, May, Filled, NonEmpty

(* push() of a message meant for the device, and pop(). *)
LEMMA EnqueueKeeps ==
  ASSUME QueuesOK, NEW d \in Devices, NEW x \in May(d), Enqueue(d, x)
  PROVE  QueuesOK'
<1>1. x \in Message
  BY DEF May, Filled
<1>2. inQ' \in [Devices -> Seq(Message)]
  BY <1>1 DEF QueuesOK, Enqueue
<1>3. ASSUME NEW e \in Devices PROVE inQ'[e] \in Seq(May(e))
  <2>1. CASE e = d
    BY <2>1 DEF QueuesOK, Enqueue
  <2>2. CASE e # d
    BY <2>2 DEF QueuesOK, Enqueue
  <2> QED
    BY <2>1, <2>2
<1> QED
  BY <1>2, <1>3 DEF QueuesOK

(* What is taken from a queue was meant for its device. *)
LEMMA DequeueKeeps ==
  ASSUME QueuesOK, NEW d \in Devices, Dequeue(d)
  PROVE  QueuesOK' /\ Head(inQ[d]) \in May(d)
<1>1. inQ' \in [Devices -> Seq(Message)]
  BY DEF QueuesOK, Dequeue
<1>2. ASSUME NEW e \in Devices PROVE inQ'[e] \in Seq(May(e))
  <2>1. CASE e = d
    BY <2>1 DEF QueuesOK, Dequeue
  <2>2. CASE e # d
    BY <2>2 DEF QueuesOK, Dequeue
  <2> QED
    BY <2>1, <2>2
<1>3. Head(inQ[d]) \in May(d)
  BY DEF QueuesOK, Dequeue
<1> QED
  BY <1>1, <1>2, <1>3 DEF QueuesOK

(* A thread goes to one of its places. *)
LEMMA GotoKeeps ==
  ASSUME PlacesOK, NEW t \in Threads, NEW from, NEW to \in Places(t),
         Goto(t, from, to), UNCHANGED hold
  PROVE  PlacesOK'
  BY DEF PlacesOK, Goto

(* The test of the flag, in the loop of every device but the console's. *)
LEMMA TestHoldKeeps ==
  ASSUME QueuesOK, PlacesOK, NEW t \in {"rtr", "tun", "cap", "ser"}, TestHold(t)
  PROVE  QueuesOK' /\ PlacesOK'
<1>1. {"pop", "exited"} \subseteq Places(t) /\ t \in Threads
  <2>1. t \in Threads /\ pc[t] = "test" /\ pc[t] \in Places(t)
    BY DEF TestHold, Goto, PlacesOK, Threads
  <2> QED
    BY <2>1 DEF Places
<1> QED
  BY <1>1, GotoKeeps, Kept DEF TestHold

-----------------------------------------------------------------------------
(* The router.  A rule that matches names a device the message is meant for. *)
LEMMA RoutedWell ==
  ASSUME RouterOK, cursor <= Len(rules), Matches(Current, rtrMsg)
  PROVE  Current.to \in Devices /\ rtrMsg \in May(Current.to)
<1>1. rtrMsg \in Filled
  BY DEF RouterOK, May
<1> USE DEF Current, Matches, Satisfies, Meant, Devices
<1>2. CASE SIM
  <2>1. cursor \in 1..2
    BY <1>2 DEF RouterOK, SimRules
  <2>2. CASE cursor = 1
    BY <1>1, <1>2, <2>2 DEF RouterOK, SimRules, May
  <2>3. CASE cursor = 2
    BY <1>1, <1>2, <2>3 DEF RouterOK, SimRules, May
  <2> QED
    BY <2>1, <2>2, <2>3
<1>3. CASE ~SIM
  <2>1. cursor \in 1..6
    BY <1>3 DEF RouterOK, WisundRules
  <2>2. CASE cursor = 1
    BY <1>1, <1>3, <2>2 DEF RouterOK, WisundRules, May
  <2>3. CASE cursor = 2
    BY <1>1, <1>3, <2>3 DEF RouterOK, WisundRules, May
  <2>4. CASE cursor = 3
    BY <1>1, <1>3, <2>4 DEF RouterOK, WisundRules, May
  <2>5. CASE cursor = 4
    BY <1>1, <1>3, <2>5 DEF RouterOK, WisundRules, May
  <2>6. CASE cursor = 5
    BY <1>1, <1>3, <2>6 DEF RouterOK, WisundRules, May
  <2>7. CASE cursor = 6
    BY <1>1, <1>3, <2>7 DEF RouterOK, WisundRules, May
  <2> QED
    BY <2>1, <2>2, <2>3, <2>4, <2>5, <2>6, <2>7
<1> QED
  BY <1>2, <1>3

(* The rules of both programs are rules. *)
LEMMA RulesTyped ==
  ASSUME RouterOK
  PROVE  rules \in Seq(RoutingRules)
<1>1. SimRules \in Seq(RoutingRules)
  BY DEF SimRules, RoutingRules, Devices, Predicates
<1>2. WisundRules \in Seq(RoutingRules)
  BY DEF WisundRules, RoutingRules, Devices, Predicates
<1> QED
  BY <1>1, <1>2 DEF RouterOK

(* The router's thread. *)
LEMMA RouterKeeps ==
  ASSUME QueuesOK, PlacesOK, RouterOK, RouterStep
  PROVE  QueuesOK' /\ PlacesOK' /\ RouterOK'
<1>0. {"test", "rules"} \subseteq Places("rtr") /\ "rtr" \in Threads /\ "rtr" \in Devices
  BY DEF Places, Threads, Devices
<1>1. CASE TestHold("rtr") /\ UNCHANGED routerVars
  BY <1>1, TestHoldKeeps, Kept
<1>2. CASE RouterPop
  <2>1. QueuesOK' /\ rtrMsg' \in May("rtr")
    BY <1>0, <1>2, DequeueKeeps DEF RouterPop
  <2>2. NonEmpty(rtrMsg') => rtrMsg'.source # Null
    BY <2>1 DEF May, Meant
  <2>3. PlacesOK'
    BY <1>0, <1>2, <2>2, GotoKeeps DEF RouterPop
  <2>4. RouterOK'
    BY <1>2, <2>1 DEF RouterPop, RouterOK
  <2> QED
    BY <2>1, <2>3, <2>4
<1>3. CASE RouterRule
  <2>1. PlacesOK'
    BY <1>3, Kept DEF RouterRule
  <2>2. cursor \in DOMAIN rules
    <3>1. rules \in Seq(RoutingRules)
      BY RulesTyped
    <3>2. cursor \in Nat \ {0} /\ cursor <= Len(rules)
      BY <1>3 DEF RouterRule, RouterOK
    <3> QED
      BY <3>1, <3>2
  <2>3. CASE Matches(Current, rtrMsg)
    <3>1. QueuesOK'
      BY <1>3, <2>3, RoutedWell, EnqueueKeeps DEF RouterRule, RouterPush
    <3>2. cursor' \in Nat \ {0}
      <4>1. Len(rules) \in Nat
        BY RulesTyped
      <4> QED
        BY <1>3, <2>3, <4>1 DEF RouterRule, RouterPush, RouterOK
    <3>3. RouterOK'
      BY <1>3, <2>2, <2>3, <3>2 DEF RouterRule, RouterPush, RouterOK
    <3> QED
      BY <2>1, <3>1, <3>3
  <2>4. CASE ~Matches(Current, rtrMsg)
    <3>1. QueuesOK'
      BY <1>3, <2>4, Kept DEF RouterRule, RouterSkip
    <3>2. RouterOK'
      BY <1>3, <2>4 DEF RouterRule, RouterSkip, RouterOK
    <3> QED
      BY <2>1, <3>1, <3>2
  <2> QED
    BY <2>3, <2>4
<1>4. CASE RouterNextMessage
  BY <1>0, <1>4, GotoKeeps, Kept DEF RouterNextMessage
<1> QED
  BY <1>1, <1>2, <1>3, <1>4 DEF RouterStep

-----------------------------------------------------------------------------
(* The console: its printing thread, then the parser's actions. *)
LEMMA ConsoleKeeps ==
  ASSUME QueuesOK, PlacesOK, ConsoleOK, ConsoleStep
  PROVE  QueuesOK' /\ PlacesOK' /\ ConsoleOK'
<1>0. {"test", "more", "pop", "exited"} \subseteq Places("con")
        /\ "con" \in Threads /\ "con" \in Devices
  BY DEF Places, Threads, Devices
<1>1. CASE ConsoleTestHold
  BY <1>0, <1>1, GotoKeeps, Kept DEF ConsoleTestHold
<1>2. CASE ConsoleTestMore
  BY <1>0, <1>2, GotoKeeps, Kept DEF ConsoleTestMore
<1>3. CASE ConsolePrint
  <2>1. QueuesOK' /\ Head(inQ["con"]) \in May("con")
    BY <1>0, <1>3, DequeueKeeps DEF ConsolePrint
  <2>2. PlacesOK'
    BY <1>0, <1>3, GotoKeeps DEF ConsolePrint
  <2>3. printed' \in Seq(Prints)
    <3> DEFINE x == Head(inQ["con"])
    <3>1. CASE NonEmpty(x)
      <4>1. [msg |-> x, session |-> session] \in Prints
        BY <2>1, <3>1 DEF ConsoleOK, Taken, Prints
      <4> QED
        BY <1>3, <3>1, <4>1 DEF ConsolePrint, ConsoleOK
    <3>2. CASE ~NonEmpty(x)
      BY <1>3, <3>2 DEF ConsolePrint, ConsoleOK
    <3> QED
      BY <3>1, <3>2
  <2>4. ConsoleOK'
    <3>1. UNCHANGED <<session, givenIn, realQuit, wantReset, issued, asked>>
      BY <1>3 DEF ConsolePrint
    <3> QED
      BY <2>3, <3>1 DEF ConsoleOK
  <2> QED
    BY <2>1, <2>2, <2>4
<1> QED
  BY <1>1, <1>2, <1>3 DEF ConsoleStep

(* Every line becomes a message with a source and a body. *)
LEMMA LineFilled ==
  ASSUME ConsoleOK, NEW front \in Fronts \ {"none"}
  PROVE  setSource(NewLine(front), "con")
           \in {x \in Filled : x.source = "con" /\ x.front = front}
<1>1. lines \in Nat
  BY DEF ConsoleOK, lines
<1>2. <<lines + 1>> \in Seq(Nat) /\ <<lines + 1>> # <<>>
  BY <1>1
<1> QED
  BY <1>2 DEF setSource, NewLine, Filled, Message, Devices, Null

(* A command is meant for the router. *)
LEMMA ConsolePushKeeps ==
  ASSUME QueuesOK, ConsoleOK, NEW front \in Fronts \ {"none"},
         front = "xED" => Controls, ConsolePush(NewLine(front))
  PROVE  QueuesOK' /\ issued' \in Seq(Message) /\ asked' = asked
<1> DEFINE x == setSource(NewLine(front), "con")
<1>1. x \in Filled /\ x.source = "con" /\ x.front = front
  BY LineFilled
<1>2. x \in May("rtr") /\ x \in Message /\ "rtr" \in Devices
  BY <1>1 DEF May, Meant, Filled, Null, Devices, isControl
<1> HIDE DEF x
<1>3. Enqueue("rtr", x) /\ issued' = Append(issued, x) /\ asked' = asked
  BY DEF ConsolePush, Send, x
<1>4. QueuesOK'
  BY <1>2, <1>3, EnqueueKeeps
<1> QED
  BY <1>2, <1>3, <1>4 DEF ConsoleOK

(* One line of a client. *)
LEMMA ParseKeeps ==
  ASSUME QueuesOK, PlacesOK, ConsoleOK, ParseLine(Lines)
  PROVE  QueuesOK' /\ PlacesOK' /\ ConsoleOK'
<1>1. PlacesOK'
  BY Kept DEF ParseLine
<1>2. QueuesOK' /\ issued' \in Seq(Message) /\ asked' \in Seq(Message)
  <2>1. CASE Command
    BY <2>1, ConsolePushKeeps DEF Command, Fronts, ConsoleOK
  <2>2. CASE "data" \in Lines /\ Data
    <3>1. Controls
      BY <2>2 DEF Controls
    <3> QED
      BY <2>2, <3>1, ConsolePushKeeps DEF Data, ConsoleOK
  <2>3. CASE "capfile" \in Lines /\ CaptureFile
    <3>1. Controls
      BY <2>3 DEF Controls
    <3> QED
      BY <2>3, <3>1, ConsolePushKeeps DEF CaptureFile, Fronts, ConsoleOK
  <2>4. CASE Help
    <3> DEFINE x == setSource(NewLine("xED"), "con")
    <3>1. x \in Filled /\ x.source = "con"
      BY LineFilled DEF Fronts
    <3>2. x \in May("con") /\ x \in Message /\ "con" \in Devices
      BY <3>1 DEF May, Meant, Filled, Devices
    <3> HIDE DEF x
    <3>3. Enqueue("con", x) /\ issued' = issued /\ asked' = Append(asked, x)
      BY <2>4 DEF Help, x
    <3>4. QueuesOK'
      BY <3>2, <3>3, EnqueueKeeps
    <3> QED
      BY <3>2, <3>3, <3>4 DEF ConsoleOK
  <2> QED
    BY <2>1, <2>2, <2>3, <2>4 DEF ParseLine
<1>3. givenIn' \in Seq(Nat)
  BY DEF ParseLine, ConsoleOK
<1>4. ConsoleOK'
  BY <1>2, <1>3 DEF ParseLine, ConsoleOK
<1> QED
  BY <1>1, <1>2, <1>4

-----------------------------------------------------------------------------
(* The devices at the other ends.  Whatever a device sends bears its name.   *)
LEMMA StampedMay ==
  ASSUME ~SIM, NEW x \in Filled, NEW d \in {"ser", "tun"}
  PROVE  /\ setSource(x, d) \in May("rtr")
         /\ setSource(x, d) \in Message
<1>1. setSource(x, d) \in Filled /\ setSource(x, d).source = d
  BY DEF setSource, Filled, Message, Devices, NonEmpty
<1> HIDE DEF setSource
<1> QED
  BY <1>1 DEF May, Meant, Filled, Null

(* The serial device's thread. *)
LEMMA SerialKeeps ==
  ASSUME ~SIM, QueuesOK, PlacesOK, SerOK, SerialStep, UNCHANGED simVars
  PROVE  QueuesOK' /\ PlacesOK' /\ SerOK'
<1>0. {"test", "poll", "pop", "exited"} \subseteq Places("ser")
        /\ "ser" \in Threads /\ {"ser", "rtr"} \subseteq Devices
  BY DEF Places, Threads, Devices
<1>a. hold["ser"] \in BOOLEAN
  BY <1>0 DEF PlacesOK
<1>b. lastMessage' \in Filled /\ fcie' \in Nat
  BY DEF SerOK, simVars
<1>1. CASE SerialStart
  <2>1. SerOK'
    BY <1>1, <1>a, <1>b DEF SerialStart, SerOK
  <2> QED
    BY <1>0, <1>1, <2>1, GotoKeeps, Kept DEF SerialStart
<1>2. CASE SerialTestHold
  <2>1. SerOK'
    BY <1>2, <1>b DEF SerialTestHold, serialVars, SerOK
  <2> QED
    BY <1>0, <1>2, <2>1, GotoKeeps, Kept DEF SerialTestHold
<1>3. CASE SerialReceive
  <2>1. Head(port) \in Filled /\ Tail(port) \in Seq(Filled)
    BY <1>3 DEF SerialReceive, SerOK
  <2>2. FromPort \in May("rtr") /\ FromPort \in Message
    BY <2>1, StampedMay DEF FromPort
  <2>3. QueuesOK'
    BY <1>0, <1>3, <2>2, EnqueueKeeps DEF SerialReceive, Send
  <2>4. PlacesOK'
    BY <1>3, Kept DEF SerialReceive
  <2>5. SerOK'
    BY <1>3, <1>a, <1>b, <2>1, <2>2 DEF SerialReceive, SerOK
  <2> QED
    BY <2>3, <2>4, <2>5
<1>4. CASE SerialPolled
  <2>1. SerOK'
    BY <1>4, <1>b DEF SerialPolled, serialVars, SerOK
  <2> QED
    BY <1>0, <1>4, <2>1, GotoKeeps, Kept DEF SerialPolled
<1>5. CASE SerialSend
  <2>1. PlacesOK'
    BY <1>0, <1>5, GotoKeeps DEF SerialSend
  <2>2. CASE inQ["ser"] = <<>>
    <3>1. QueuesOK'
      BY <1>5, <2>2, Kept DEF SerialSend
    <3>2. SerOK'
      BY <1>5, <1>b, <2>2 DEF SerialSend, SerOK
    <3> QED
      BY <2>1, <3>1, <3>2
  <2>3. CASE inQ["ser"] # <<>>
    <3>1. QueuesOK' /\ Head(inQ["ser"]) \in May("ser")
      BY <1>0, <1>5, <2>3, DequeueKeeps DEF SerialSend
    <3>2. sent' \in Seq(Taken("ser"))
      <4> DEFINE x == Head(inQ["ser"])
      <4>1. sent \in Seq(Taken("ser"))
        BY DEF SerOK
      <4>2. NonEmpty(x) => x \in Taken("ser")
        BY <3>1 DEF Taken
      <4>3. sent' = IF NonEmpty(x) THEN Append(sent, x) ELSE sent
        BY <1>5, <2>3 DEF SerialSend
      <4> QED
        BY <4>1, <4>2, <4>3
    <3>3. SerOK'
      BY <1>5, <1>b, <3>2 DEF SerialSend, SerOK
    <3> QED
      BY <2>1, <3>1, <3>3
  <2> QED
    BY <2>2, <2>3
<1> QED
  BY <1>1, <1>2, <1>3, <1>4, <1>5 DEF SerialStep

(* The simulator only answers messages it has been given, which have a body. *)
LEMMA ResponseMay ==
  ASSUME SerOK, Known(lastMessage), NEW count \in Nat
  PROVE  Response(lastMessage, count) \in May("rtr") \cap Message
<1>1. lastMessage.front = "other" /\ lastMessage \in Filled
  BY DEF Known, SerOK
<1>2. lastMessage.body \in Seq(Nat) /\ lastMessage.body # <<>>
  BY <1>1 DEF Filled, Message, NonEmpty
<1>3. lastMessage.body[1] \in Nat
  BY <1>2
<1> DEFINE body == IF Counted(lastMessage) THEN <<lastMessage.body[1], count>>
                   ELSE lastMessage.body
<1>4. body \in Seq(Nat) /\ body # <<>>
  <2>1. <<lastMessage.body[1], count>> \in Seq(Nat)
    BY <1>3
  <2> QED
    BY <1>2, <2>1
<1> HIDE DEF body
<1>5. Response(lastMessage, count) = [source |-> "ser", front |-> "other", body |-> body]
  BY DEF Response, body
<1> QED
  BY <1>4, <1>5 DEF May, Meant, Filled, Message, Devices, Null, Fronts,
                    isPlain, isRaw, isCap, isControl

(* The simulator's thread. *)
LEMMA SimulatorKeeps ==
  ASSUME SIM, QueuesOK, PlacesOK, SerOK, SimulatorStep,
         UNCHANGED <<port, armed, errors>>
  PROVE  QueuesOK' /\ PlacesOK' /\ SerOK'
<1>0. {"test", "receive"} \subseteq Places("ser")
        /\ "ser" \in Threads /\ {"ser", "rtr"} \subseteq Devices
  BY DEF Places, Threads, Devices
<1>1. CASE TestHold("ser") /\ UNCHANGED <<simVars, received, sent>>
  <2>1. SerOK'
    BY <1>1 DEF SerOK, simVars
  <2> QED
    BY <1>1, <2>1, TestHoldKeeps
<1>2. CASE SimSend
  <2> DEFINE x == Head(inQ["ser"])
  <2>1. QueuesOK' /\ x \in May("ser")
    BY <1>0, <1>2, DequeueKeeps DEF SimSend
  <2>2. PlacesOK'
    BY <1>0, <1>2, GotoKeeps DEF SimSend
  <2>3. lastMessage' \in Filled /\ sent' \in Seq(Taken("ser"))
    <3>1. CASE NonEmpty(x)
      <4>1. x \in Filled /\ x \in Taken("ser")
        BY <2>1, <3>1 DEF May, Taken
      <4>2. lastMessage' = x /\ sent' = Append(sent, x)
        BY <1>2, <3>1 DEF SimSend
      <4> HIDE DEF x
      <4> QED
        BY <4>1, <4>2 DEF SerOK
    <3>2. CASE ~NonEmpty(x)
      BY <1>2, <3>2 DEF SimSend, SerOK
    <3> QED
      BY <3>1, <3>2
  <2>4. SerOK'
    BY <1>2, <2>3 DEF SimSend, SerOK
  <2> QED
    BY <2>1, <2>2, <2>4
<1>3. CASE SimReceive
  <2>1. PlacesOK'
    BY <1>0, <1>3, GotoKeeps DEF SimReceive
  <2>2. QueuesOK' /\ received' \in Seq(Message) /\ fcie' \in Nat
    <3>1. CASE Known(lastMessage)
      <4> DEFINE next == IF Counted(lastMessage) THEN (fcie + 1) % FcieModulus ELSE fcie
      <4>1. next \in Nat
        BY FcieAssumption DEF SerOK
      <4> HIDE DEF next
      <4>2. Response(lastMessage, next) \in May("rtr") \cap Message
        BY <3>1, <4>1, ResponseMay
      <4>3. /\ Enqueue("rtr", Response(lastMessage, next))
            /\ received' = Append(received, Response(lastMessage, next))
            /\ fcie' = next
        BY <1>3, <3>1 DEF SimReceive, Receive, Send, next
      <4>4. QueuesOK'
        BY <1>0, <4>2, <4>3, EnqueueKeeps
      <4> QED
        BY <4>1, <4>2, <4>3, <4>4 DEF SerOK
    <3>2. CASE ~Known(lastMessage)
      <4>1. UNCHANGED <<inQ, received, fcie>>
        BY <1>3, <3>2 DEF SimReceive, Receive
      <4> QED
        BY <4>1, Kept DEF SerOK
    <3> QED
      BY <3>1, <3>2
  <2>3. lastMessage' \in Filled
    <3>1. <<>> \in Seq(Nat)
      OBVIOUS
    <3> QED
      BY <1>3, <3>1 DEF SimReceive, SerOK, Filled, Message, NonEmpty, Fronts
  <2>4. SerOK'
    BY <1>3, <2>2, <2>3 DEF SimReceive, SerOK
  <2> QED
    BY <2>1, <2>2, <2>4
<1> QED
  BY <1>1, <1>2, <1>3 DEF SimulatorStep

(* The thread that writes to the interface. *)
LEMMA TunWriteKeeps ==
  ASSUME QueuesOK, PlacesOK, TunOK, TunStep
  PROVE  QueuesOK' /\ PlacesOK' /\ TunOK'
<1>0. "tun" \in Threads /\ "tun" \in Devices
  BY DEF Threads, Devices
<1>1. CASE TestHold("tun") /\ UNCHANGED tunVars
  BY <1>1, TestHoldKeeps, Kept
<1>2. CASE TunWrite
  <2> DEFINE x == Head(inQ["tun"])
  <2>1. QueuesOK' /\ x \in May("tun")
    BY <1>0, <1>2, DequeueKeeps DEF TunWrite
  <2>2. PlacesOK'
    <3>1. pc["tun"] \in Places("tun") /\ pc["tun"] = "pop"
      BY <1>0, <1>2 DEF TunWrite, Goto, PlacesOK
    <3>2. "test" \in Places("tun")
      BY <3>1 DEF Places
    <3> QED
      BY <1>0, <1>2, <3>2, GotoKeeps DEF TunWrite
  <2>3. written' \in Seq(Taken("tun"))
    <3>1. written \in Seq(Taken("tun"))
      BY DEF TunOK
    <3>2. NonEmpty(x) => x \in Taken("tun")
      BY <2>1 DEF Taken
    <3>3. written' = IF NonEmpty(x) THEN Append(written, x) ELSE written
      BY <1>2 DEF TunWrite
    <3> QED
      BY <3>1, <3>2, <3>3
  <2>4. TunOK'
    BY <1>2, <2>3 DEF TunWrite, TunOK
  <2> QED
    BY <2>1, <2>2, <2>4
<1> QED
  BY <1>1, <1>2 DEF TunStep

(* A message made of packets has a body and a source. *)
LEMMA TunMessageMay ==
  ASSUME ~SIM, NEW buf \in Seq(PacketType), buf # <<>>
  PROVE  TunMessage(buf) \in May("rtr")
<1> DEFINE body == [i \in DOMAIN buf |-> buf[i].id]
<1>1. body \in [1..Len(buf) -> Nat] /\ Len(buf) \in Nat /\ Len(buf) > 0
  <2>1. Len(buf) \in Nat /\ Len(buf) > 0 /\ DOMAIN buf = 1..Len(buf)
    OBVIOUS
  <2>2. ASSUME NEW i \in DOMAIN buf PROVE buf[i].id \in Nat
    <3>1. buf[i] \in PacketType
      OBVIOUS
    <3> QED
      BY <3>1 DEF PacketType
  <2> QED
    BY <2>1, <2>2
<1>2. body \in Seq(Nat)
  BY <1>1, SeqDef
<1>3. body # <<>>
  <2>1. DOMAIN body = 1..Len(buf) /\ 1 \in 1..Len(buf)
    BY <1>1
  <2>2. DOMAIN <<>> = {}
    OBVIOUS
  <2> QED
    BY <2>1, <2>2
<1> HIDE DEF body
<1>4. TunMessage(buf) = [source |-> "tun", front |-> "x00", body |-> body]
  BY DEF TunMessage, body
<1> QED
  BY <1>2, <1>3, <1>4 DEF May, Meant, Filled, Message, Devices, Null, Fronts,
                          isControl

(* The thread that reads from the interface. *)
LEMMA TunReadKeeps ==
  ASSUME QueuesOK, PlacesOK, TunOK, TunReadStep
  PROVE  QueuesOK' /\ PlacesOK' /\ TunOK'
<1>0. "tunrx" \in Threads /\ "rtr" \in Devices
  BY DEF Threads, Devices
<1>a. pc["tunrx"] \in Places("tunrx") /\ pc["tunrx"] # "none"
  BY <1>0 DEF TunReadStep, TunReadTest, TunRead, TunTimeout, Goto, PlacesOK
<1>b. ~SIM /\ {"test", "select", "exited"} \subseteq Places("tunrx")
  BY <1>a DEF Places
<1>1. CASE TunReadTest
  <2>1. TunOK'
    BY <1>1 DEF TunReadTest, TunOK
  <2> QED
    BY <1>0, <1>b, <1>1, <2>1, GotoKeeps, Kept DEF TunReadTest
<1>2. CASE TunRead
  <2>1. /\ tunBuf' \in Seq(PacketType) /\ tunBuf' # <<>>
        /\ nic' \in Seq(PacketType) /\ read' \in Seq(PacketType)
    BY <1>2 DEF TunRead, TunOK
  <2>2. TunOK'
    BY <1>2, <2>1 DEF TunRead, TunOK
  <2>3. TunMessage(tunBuf') \in May("rtr")
    BY <1>b, <2>1, TunMessageMay
  <2>4. QueuesOK'
    <3>1. CASE Complete(tunBuf')
      BY <1>0, <1>2, <2>3, <3>1, EnqueueKeeps DEF TunRead, Send
    <3>2. CASE ~Complete(tunBuf')
      BY <1>2, <3>2, Kept DEF TunRead
    <3> QED
      BY <3>1, <3>2
  <2>5. PlacesOK'
    BY <1>2, Kept DEF TunRead
  <2> QED
    BY <2>2, <2>4, <2>5
<1>3. CASE TunTimeout
  <2>1. TunOK'
    BY <1>3 DEF TunTimeout, TunOK
  <2> QED
    BY <1>0, <1>b, <1>3, <2>1, GotoKeeps, Kept DEF TunTimeout
<1> QED
  BY <1>1, <1>2, <1>3 DEF TunReadStep

(* The capture device's thread. *)
LEMMA CaptureKeeps ==
  ASSUME QueuesOK, PlacesOK, CaptureOK, CaptureStep
  PROVE  QueuesOK' /\ PlacesOK' /\ CaptureOK'
<1>0. "cap" \in Threads /\ "cap" \in Devices
  BY DEF Threads, Devices
<1>a. pc["cap"] = "pop" => {"test", "terminated"} \subseteq Places("cap")
  <2>1. pc["cap"] \in Places("cap")
    BY <1>0 DEF PlacesOK
  <2> QED
    BY <2>1 DEF Places
<1>1. CASE TestHold("cap") /\ UNCHANGED captureVars
  BY <1>1, TestHoldKeeps, Kept
<1>2. CASE CaptureWrite
  <2> DEFINE x == Head(inQ["cap"])
             Written == {y \in Taken("cap") : ~isControl(y) /\ ~isShort(y)}
  <2>1. QueuesOK' /\ x \in May("cap")
    BY <1>0, <1>2, DequeueKeeps DEF CaptureWrite
  <2>2. PlacesOK'
    BY <1>0, <1>a, <1>2, GotoKeeps DEF CaptureWrite, Goto
  <2>3. ~Controls => capFile' = "open"
    <3>1. ~Controls => ~isControl(x)
      BY <2>1 DEF May, Meant, isCap, isControl, NonEmpty
    <3>2. CASE ~isControl(x)
      <4>1. UNCHANGED captureVars \/ WriteFrame(x)
        BY <1>2, <3>2 DEF CaptureWrite
      <4>2. UNCHANGED capFile
        BY <4>1 DEF WriteFrame, captureVars
      <4> QED
        BY <4>2 DEF CaptureOK
    <3> QED
      BY <3>1, <3>2
  <2>4. CaptureOK'
    <3>1. CASE ~Writable(x) \/ isControl(x)
      <4>1. captured' = captured
        BY <1>2, <3>1 DEF CaptureWrite, ChangeFile, captureVars
      <4> QED
        BY <2>3, <4>1 DEF CaptureOK
    <3>2. CASE Writable(x) /\ ~isControl(x)
      <4>1. x \in Written
        BY <2>1, <3>2 DEF Taken, Writable
      <4>2. captured' = Append(captured, x) \/ captured' = captured
        BY <1>2, <3>2 DEF CaptureWrite, WriteFrame
      <4> HIDE DEF x
      <4> QED
        BY <2>3, <4>1, <4>2 DEF CaptureOK
    <3> QED
      BY <3>1, <3>2
  <2> QED
    BY <2>1, <2>2, <2>4
<1>3. CASE CaptureCrash
  BY <1>0, <1>a, <1>3, GotoKeeps, Kept DEF CaptureCrash, Goto
<1> QED
  BY <1>1, <1>2, <1>3 DEF CaptureStep

-----------------------------------------------------------------------------
(* The radio, the interface and a failing port. *)
LEMMA ArrivesKeeps ==
  ASSUME QueuesOK, PlacesOK, SerOK, NEW front \in Fronts, NEW body \in Seq(Nat),
         body # <<>>, FrameArrives(front, body), UNCHANGED simVars
  PROVE  QueuesOK' /\ PlacesOK' /\ SerOK'
<1>1. [source |-> Null, front |-> front, body |-> body] \in Filled
  BY DEF Filled, Message
<1>2. QueuesOK' /\ PlacesOK'
  BY Kept DEF FrameArrives, busVars
<1>3. SerOK'
  BY <1>1 DEF FrameArrives, SerOK, simVars
<1> QED
  BY <1>2, <1>3

(* The radio's answers and frames, packets, and reads that fail. *)
LEMMA EnvironmentKeeps ==
  ASSUME IInv, Answer \/ RadioFrame \/ Packet \/ PortFails \/ InterfaceFails
  PROVE  IInv'
<1> USE DEF IInv
<1>1. CASE Answer
  <2> DEFINE x == sent[answered + 1]
  <2>1. x \in Taken("ser")
    BY <1>1 DEF Answer, SerOK, RadioOK
  <2>2. x.body \in Seq(Nat) /\ x.body # <<>>
    BY <2>1 DEF Taken, May, Filled, Message
  <2>3. QueuesOK' /\ PlacesOK' /\ SerOK'
    <3>1. CASE x.source = "con"
      <4>1. FrameArrives("other", x.body) /\ UNCHANGED simVars
        BY <1>1, <3>1 DEF Answer
      <4>2. "other" \in Fronts
        BY DEF Fronts
      <4> HIDE DEF x
      <4> QED
        BY <2>2, <4>1, <4>2, ArrivesKeeps
    <3>2. CASE x.source # "con"
      BY <1>1, <3>2, Kept DEF Answer, serVars, busVars
    <3> QED
      BY <3>1, <3>2
  <2>4. RadioOK'
    BY <1>1 DEF Answer, RadioOK
  <2> QED
    BY <1>1, <2>3, <2>4, Kept DEF Answer
<1>2. CASE RadioFrame
  <2>1. PICK f \in FrameFronts : FrameArrives(f, <<MaxLines + frames + 1>>)
    BY <1>2 DEF RadioFrame
  <2>2. /\ <<MaxLines + frames + 1>> \in Seq(Nat)
        /\ <<MaxLines + frames + 1>> # <<>>
    BY BoundsAssumption DEF RadioOK
  <2>3. QueuesOK' /\ PlacesOK' /\ SerOK'
    BY <1>2, <2>1, <2>2, FrontsAssumption, ArrivesKeeps DEF RadioFrame
  <2>4. RadioOK'
    BY <1>2 DEF RadioFrame, RadioOK
  <2> QED
    BY <1>2, <2>3, <2>4, Kept DEF RadioFrame
<1>3. CASE Packet
  <2>1. PICK p \in Packets : PacketArrives(p)
    BY <1>3 DEF Packet
  <2>2. TunOK'
    BY <2>1, PacketsAssumption DEF PacketArrives, TunOK, PacketType
  <2>3. QueuesOK' /\ PlacesOK'
    BY <2>1, Kept DEF PacketArrives, busVars
  <2> QED
    BY <1>3, <2>2, <2>3, Kept DEF Packet
<1>4. CASE PortFails
  <2>1. QueuesOK' /\ PlacesOK'
    <3>1. CASE SerialError(MaxErrors)
      BY <3>1, Kept DEF SerialError
    <3>2. CASE SerialSendFails(MaxErrors)
      <4>1. "ser" \in Threads /\ "terminated" \in Places("ser")
        BY <1>4 DEF Threads, Places, PortFails
      <4> QED
        BY <3>2, <4>1, GotoKeeps, Kept DEF SerialSendFails
    <3> QED
      BY <1>4, <3>1, <3>2 DEF PortFails
  <2>2. SerOK'
    BY <1>4 DEF PortFails, SerialError, SerialSendFails, SerOK, simVars
  <2> QED
    BY <1>4, <2>1, <2>2, Kept DEF PortFails
<1>5. CASE InterfaceFails
  <2>1. pc["tunrx"] = "select" /\ "tunrx" \in Threads
    BY <1>5 DEF InterfaceFails, TunSelectFails, TunReadFails, Goto, Threads
  <2>2. {"test", "terminated"} \subseteq Places("tunrx")
    <3>1. pc["tunrx"] \in Places("tunrx")
      BY <2>1 DEF PlacesOK
    <3> QED
      BY <2>1, <3>1 DEF Places
  <2>3. TunOK' /\ SerOK'
    <3>1. SerOK'
      BY <1>5 DEF InterfaceFails, SerOK, simVars
    <3>2. CASE TunSelectFails
      BY <3>1, <3>2 DEF TunSelectFails, TunOK
    <3>3. CASE TunReadFails
      BY <3>1, <3>3, Kept DEF TunReadFails
    <3> QED
      BY <1>5, <3>2, <3>3 DEF InterfaceFails
  <2>4. QueuesOK' /\ PlacesOK'
    BY <1>5, <2>1, <2>2, GotoKeeps, Kept DEF InterfaceFails, TunSelectFails, TunReadFails
  <2> QED
    BY <1>5, <2>3, <2>4, Kept DEF InterfaceFails
<1> QED
  BY <1>1, <1>2, <1>3, <1>4, <1>5

-----------------------------------------------------------------------------
(* main(). *)
LEMMA MainTypes ==
  /\ "main" \in Threads /\ Places("main") = MainPCs
  /\ Running \subseteq Devices /\ "con" \in Running
  /\ Devices \subseteq Threads
<1>1. "main" \in Threads /\ Places("main") = MainPCs /\ Devices \subseteq Threads
  BY DEF Threads, Places, Devices
<1>2. Running = IF SIM THEN {"con", "ser", "rtr"} ELSE {"con", "ser", "rtr", "tun", "cap"}
  <2>1. CASE SIM
    BY <2>1 DEF Running, ShutdownOrder
  <2>2. CASE ~SIM
    BY <2>2 DEF Running, ShutdownOrder
  <2> QED
    BY <2>1, <2>2
<1> QED
  BY <1>1, <1>2 DEF Devices

(* The device after one that is not the last. *)
LEMMA NextRuns ==
  ASSUME NEW d \in Running, d # "con", d # LastToStop
  PROVE  NextToStop(d) \in Running
<1>1. CASE SIM
  <2>1. d = "ser"
    BY <1>1 DEF Running, ShutdownOrder, LastToStop
  <2>2. NextToStop(d) = "rtr"
    BY <1>1, <2>1 DEF NextToStop, ShutdownOrder, Devices
  <2> QED
    BY <1>1, <2>2 DEF Running, ShutdownOrder
<1>2. CASE ~SIM
  <2>1. d \in {"ser", "rtr", "tun"}
    BY <1>2 DEF Running, ShutdownOrder, LastToStop
  <2>2. NextToStop("ser") = "rtr" /\ NextToStop("rtr") = "tun" /\ NextToStop("tun") = "cap"
    <3>1. NextToStop("ser") = "rtr"
      BY <1>2 DEF NextToStop, ShutdownOrder, Devices
    <3>2. NextToStop("rtr") = "tun"
      BY <1>2 DEF NextToStop, ShutdownOrder, Devices
    <3>3. NextToStop("tun") = "cap"
      BY <1>2 DEF NextToStop, ShutdownOrder, Devices
    <3> QED
      BY <3>1, <3>2, <3>3
  <2> QED
    BY <1>2, <2>1, <2>2 DEF Running, ShutdownOrder
<1> QED
  BY <1>1, <1>2

(* What main() does by itself. *)
LEMMA LifecycleKeeps == ASSUME IInv, Lifecycle PROVE IInv'
<1> USE DEF IInv
<1>0. MainPCs = {"start", "threads", "hold router", "start router", "loop",
                 "accept", "parse", "release", "sentinel", "join", "done"}
  BY DEF MainPCs
<1>1. CASE HoldDevices
  <2>1. hold' \in [Devices -> BOOLEAN]
    BY <1>1 DEF HoldDevices
  <2>2. PlacesOK'
    BY <1>0, <1>1, <2>1, MainTypes DEF HoldDevices, Goto, PlacesOK
  <2> QED
    BY <1>1, <2>2, Kept DEF HoldDevices
<1>2. CASE StartDevices
  <2>1. /\ {"hold router"} \subseteq Places("main")
        /\ SIM => "test" \in Places("ser")
        /\ ~SIM => /\ "start" \in Places("ser") /\ "test" \in Places("tun")
                   /\ "test" \in Places("tunrx") /\ "test" \in Places("cap")
    BY DEF Places, MainPCs
  <2>2. PlacesOK'
    BY <1>2, <2>1 DEF StartDevices, PlacesOK
  <2> QED
    BY <1>2, <2>2, Kept DEF StartDevices
<1>3. CASE HoldRouter
  <2>1. PlacesOK'
    BY <1>0, <1>3, MainTypes DEF HoldRouter, Goto, PlacesOK
  <2> QED
    BY <1>3, <2>1, Kept DEF HoldRouter
<1>4. CASE StartRouter
  <2>1. "loop" \in Places("main") /\ "test" \in Places("rtr")
    BY DEF Places, MainPCs
  <2>2. PlacesOK'
    BY <1>4, <2>1 DEF StartRouter, PlacesOK
  <2> QED
    BY <1>4, <2>2, Kept DEF StartRouter
<1>5. CASE HoldConsole
  <2>1. PlacesOK'
    BY <1>0, <1>5, MainTypes DEF HoldConsole, Goto, PlacesOK
  <2> QED
    BY <1>5, <2>1, Kept DEF HoldConsole
<1>6. CASE BeginShutdown
  <2>1. PlacesOK'
    BY <1>0, <1>6, MainTypes, GotoKeeps DEF BeginShutdown
  <2>2. MainOK'
    <3>1. Head(ShutdownOrder) \in Running
      BY DEF ShutdownOrder, Running
    <3> QED
      BY <1>6, <3>1 DEF BeginShutdown, MainOK, Running
  <2> QED
    BY <1>6, <2>1, <2>2, Kept DEF BeginShutdown
<1>7. CASE ReleaseFlag
  <2>1. PlacesOK'
    BY <1>0, <1>7, MainTypes DEF ReleaseFlag, Goto, PlacesOK
  <2>2. MainOK'
    BY <1>7 DEF ReleaseFlag, MainOK, Running
  <2> QED
    BY <1>7, <2>1, <2>2, Kept DEF ReleaseFlag
<1>8. CASE ReleaseSentinel
  <2>1. PlacesOK'
    BY <1>0, <1>8, MainTypes, GotoKeeps DEF ReleaseSentinel
  <2>2. QueuesOK'
    BY <1>8, MainTypes, EmptyMay, EnqueueKeeps DEF ReleaseSentinel, MainOK
  <2> QED
    BY <1>8, <2>1, <2>2, Kept DEF ReleaseSentinel
<1>9. CASE JoinThread
  <2>1. "none" \in Places("con") /\ {"loop", "done", "release"} \subseteq Places("main")
    BY <1>0, MainTypes DEF Places
  <2>2. PlacesOK'
    <3>1. CASE stopping = "con"
      BY <1>9, <2>1, <3>1 DEF JoinThread, PlacesOK
    <3>2. CASE stopping # "con"
      BY <1>9, <2>1, <3>2, MainTypes, GotoKeeps DEF JoinThread
    <3> QED
      BY <3>1, <3>2
  <2>3. stopping' \in Running
    BY <1>9, NextRuns DEF JoinThread, MainOK
  <2>4. MainOK'
    BY <2>3 DEF MainOK, Running
  <2> QED
    BY <1>9, <2>2, <2>4, Kept DEF JoinThread
<1> QED
  BY <1>1, <1>2, <1>3, <1>4, <1>5, <1>6, <1>7, <1>8, <1>9 DEF Lifecycle

(* What main() does for a client. *)
LEMMA ServeKeeps == ASSUME IInv, Serve PROVE IInv'
<1> USE DEF IInv
<1>1. CASE Accept
  <2>1. "parse" \in Places("main") /\ "test" \in Places("con")
    BY DEF Places, MainPCs
  <2>2. PlacesOK'
    BY <1>1, <2>1 DEF Accept, PlacesOK
  <2>3. ConsoleOK'
    <3>1. session' = session + 1 /\ wantReset' = FALSE
            /\ UNCHANGED <<givenIn, realQuit, issued, asked, printed>>
      BY <1>1 DEF Accept, BeginSession
    <3>2. session' \in Nat
      BY <3>1 DEF ConsoleOK
    <3>3. realQuit' \in BOOLEAN /\ wantReset' \in BOOLEAN
      <4>1. wantReset' = FALSE /\ realQuit' = realQuit
        BY <3>1
      <4>2. realQuit \in BOOLEAN
        BY DEF ConsoleOK
      <4> QED
        BY <4>1, <4>2
    <3>4. /\ givenIn' \in Seq(Nat) /\ issued' \in Seq(Message)
          /\ asked' \in Seq(Message) /\ printed' \in Seq(Prints)
      BY <3>1 DEF ConsoleOK
    <3> QED
      BY <3>2, <3>3, <3>4 DEF ConsoleOK
  <2> QED
    BY <1>1, <2>2, <2>3, Kept DEF Accept
<1>2. CASE Parse
  <2>1. QueuesOK' /\ PlacesOK' /\ ConsoleOK'
    BY <1>2, ParseKeeps DEF Parse, ParseOneOf
  <2> QED
    BY <1>2, <2>1, Kept DEF Parse, ParseOneOf
<1>3. CASE EndSession
  <2>1. PICK quits \in BOOLEAN, resets \in BOOLEAN : EndSessionBy(quits, resets)
    BY <1>3 DEF EndSession
  <2>2. "release" \in Places("main")
    BY DEF Places, MainPCs
  <2>3. PlacesOK'
    BY <2>1, <2>2, MainTypes, GotoKeeps DEF EndSessionBy
  <2>4. ConsoleOK'
    BY <2>1 DEF EndSessionBy, ParseEnd, ConsoleOK
  <2>5. MainOK'
    BY <2>1, MainTypes DEF EndSessionBy, MainOK, Running
  <2> QED
    BY <2>1, <2>3, <2>4, <2>5, Kept DEF EndSessionBy
<1>4. CASE Reject
  <2>1. givenIn' \in Seq(Nat)
    BY <1>4 DEF Reject, ConsoleOK
  <2>2. ConsoleOK'
    BY <1>4, <2>1 DEF Reject, ConsoleOK
  <2> QED
    BY <1>4, <2>2, Kept DEF Reject, busVars
<1> QED
  BY <1>1, <1>2, <1>3, <1>4 DEF Serve

(* All threads but main(). *)
LEMMA DevicesKeep ==
  ASSUME IInv, \/ RouterThread \/ ConsoleThread \/ SerThread
               \/ TunThread \/ TunReadThread \/ CaptureThread
  PROVE  IInv'
<1> USE DEF IInv
<1>1. CASE RouterThread
  BY <1>1, RouterKeeps, Kept DEF RouterThread
<1>2. CASE ConsoleThread
  BY <1>2, ConsoleKeeps, Kept DEF ConsoleThread
<1>3. CASE SerThread
  <2>1. QueuesOK' /\ PlacesOK' /\ SerOK'
    BY <1>3, SerialKeeps, SimulatorKeeps DEF SerThread
  <2> QED
    BY <1>3, <2>1, Kept DEF SerThread
<1>4. CASE TunThread
  BY <1>4, TunWriteKeeps, Kept DEF TunThread
<1>5. CASE TunReadThread
  BY <1>5, TunReadKeeps, Kept DEF TunReadThread
<1>6. CASE CaptureThread
  BY <1>6, CaptureKeeps, Kept DEF CaptureThread
<1> QED
  BY <1>1, <1>2, <1>3, <1>4, <1>5, <1>6

(* main() starts with empty queues and no thread but its own. *)
LEMMA InitInv == Init => IInv
<1> SUFFICES ASSUME Init PROVE IInv
  OBVIOUS
<1> USE DEF Init
<1>1. QueuesOK
  BY DEF BusInit, QueuesOK
<1>2. PlacesOK
  <2>1. "start" \in Places("main")
    BY DEF Places, MainPCs
  <2>2. ASSUME NEW t \in Threads \ {"main"} PROVE "none" \in Places(t)
    BY DEF Places, Threads
  <2> QED
    BY <2>1, <2>2 DEF BusInit, PlacesOK
<1>3. RouterOK
  BY EmptyMay DEF RouterOK
<1>4. ConsoleOK
  <2>1. ConsoleInit
    OBVIOUS
  <2> HIDE DEF Init
  <2>2. session \in Nat
    BY <2>1 DEF ConsoleInit
  <2>3. realQuit \in BOOLEAN /\ wantReset \in BOOLEAN
    BY <2>1 DEF ConsoleInit
  <2>4. /\ givenIn \in Seq(Nat) /\ issued \in Seq(Message)
        /\ asked \in Seq(Message) /\ printed \in Seq(Prints)
    BY <2>1 DEF ConsoleInit
  <2> QED
    BY <2>2, <2>3, <2>4 DEF ConsoleOK
<1>5. SerOK
  <2>1. lastMessage \in Filled
    BY EmptyMay DEF SimInit, May
  <2>2. fcie \in Nat
    BY FcieAssumption DEF SimInit, InitialFcie
  <2>3. SerialInit
    OBVIOUS
  <2> HIDE DEF Init
  <2>4. armed \in BOOLEAN
    BY <2>3 DEF SerialInit
  <2>5. port \in Seq(Filled) /\ received \in Seq(Message) /\ sent \in Seq(Taken("ser"))
    BY <2>3 DEF SerialInit
  <2> QED
    BY <2>1, <2>2, <2>4, <2>5 DEF SerOK
<1>6. TunOK /\ CaptureOK /\ RadioOK
  BY DEF TunInit, TunOK, CaptureInit, CaptureOK, RadioOK
<1>7. MainOK
  BY MainTypes DEF MainOK
<1> QED
  BY <1>1, <1>2, <1>3, <1>4, <1>5, <1>6, <1>7 DEF IInv

(* Every step. *)
LEMMA StepInv == IInv /\ [Next]_vars => IInv'
<1> SUFFICES ASSUME IInv, [Next]_vars PROVE IInv'
  OBVIOUS
<1>1. CASE UNCHANGED vars
  BY <1>1, Kept DEF IInv, vars, busVars
<1>2. CASE Main
  BY <1>2, LifecycleKeeps, ServeKeeps DEF Main
<1>3. CASE Others
  BY <1>3, DevicesKeep, EnvironmentKeeps DEF Others
<1>4. CASE Finished
  BY <1>1, <1>4 DEF Finished
<1> QED
  BY <1>1, <1>2, <1>3, <1>4 DEF Next

(* The invariant the theorems below rest on: whatever stands in a queue, in  *)
(* a thread's hands or in a history is a message meant for that device, and  *)
(* every thread is at one of its places.                                     *)
THEOREM Inductive == Spec => []IInv
  BY InitInv, StepInv, PTL DEF Spec

(* The program is well typed. *)
THEOREM TypeCorrect == Spec => []TypeOK
<1>1. IInv => TypeOK
  <2> SUFFICES ASSUME IInv PROVE TypeOK
    OBVIOUS
  <2> USE DEF IInv
  <2>1. inQ \in [Devices -> Seq(Message)] /\ hold \in [Devices -> BOOLEAN]
    BY DEF QueuesOK, PlacesOK
  <2>2. /\ DOMAIN pc = Threads
        /\ pc["main"] \in Places("main") /\ pc["con"] \in Places("con")
        /\ pc["ser"] \in Places("ser") /\ pc["tunrx"] \in Places("tunrx")
        /\ pc["rtr"] \in Places("rtr") /\ pc["tun"] \in Places("tun")
        /\ pc["cap"] \in Places("cap")
    BY DEF PlacesOK, Threads
  <2>3. RouterTypeOK
    BY RulesTyped DEF RouterOK, RouterTypeOK, May, Filled
  <2>4. {issued, asked, received, sent, written} \subseteq Seq(Message)
    <3>1. Taken("ser") \subseteq Message /\ Taken("tun") \subseteq Message
      BY DEF Taken, May, Filled
    <3>2. sent \in Seq(Message) /\ written \in Seq(Message)
      BY <3>1, SeqMonotonic DEF SerOK, TunOK
    <3> QED
      BY <3>2 DEF ConsoleOK, SerOK
  <2>5. <<realQuit, wantReset, armed>> \in BOOLEAN \X BOOLEAN \X BOOLEAN
    BY DEF ConsoleOK, SerOK
  <2>6. stopping \in Devices
    BY MainTypes DEF MainOK
  <2>7. /\ pc["con"] \in {"none", "test", "more", "pop", "exited"}
        /\ pc["ser"] \in {"none", "start", "test", "poll", "pop", "receive", "exited",
                          "terminated"}
        /\ pc["tunrx"] \in {"none", "test", "select", "exited", "terminated"}
        /\ pc["main"] \in MainPCs
        /\ pc["rtr"] \in {"none", "test", "pop", "rules", "exited", "terminated"}
        /\ pc["tun"] \in {"none", "test", "pop", "rules", "exited", "terminated"}
        /\ pc["cap"] \in {"none", "test", "pop", "rules", "exited", "terminated"}
    BY <2>2 DEF Places
  <2> QED
    BY <2>1, <2>2, <2>3, <2>4, <2>5, <2>6, <2>7 DEF TypeOK
<1> QED
  BY Inductive, <1>1, PTL

(* Nobody ever gives the router a message without a source, so that its      *)
(* thread does not end the program.                                          *)
THEOREM RouterSurvives == Spec => []NeverTerminates
<1>1. IInv => NeverTerminates
  BY DEF IInv, PlacesOK, Places, Threads, NeverTerminates
<1> QED
  BY Inductive, <1>1, PTL

(* The rules of main() give each device its own kind of message only. *)
THEOREM KindsKeptApart == Spec => []OnlyItsKind
<1>1. IInv => OnlyItsKind
  <2> SUFFICES ASSUME IInv PROVE OnlyItsKind
    OBVIOUS
  <2>1. ASSUME NEW i \in DOMAIN sent
        PROVE  sent[i].source = "tun" \/ (sent[i].source = "con" /\ isPlain(sent[i]))
    <3>1. sent[i] \in Taken("ser")
      BY DEF IInv, SerOK
    <3> QED
      BY <3>1 DEF Taken, May, Meant
  <2>2. ASSUME NEW i \in DOMAIN written
        PROVE  written[i].source = "ser" /\ isRaw(written[i])
    <3>1. written[i] \in Taken("tun")
      BY DEF IInv, TunOK
    <3> QED
      BY <3>1 DEF Taken, May, Meant
  <2>3. ASSUME NEW i \in DOMAIN captured
        PROVE  /\ captured[i].source = "ser" /\ isCap(captured[i])
               /\ ~isShort(captured[i])
    <3>1. /\ captured[i] \in Taken("cap") /\ ~isControl(captured[i])
          /\ ~isShort(captured[i])
      BY DEF IInv, CaptureOK
    <3> QED
      BY <3>1 DEF Taken, May, Meant
  <2>4. ASSUME NEW i \in DOMAIN printed
        PROVE  isPlain(printed[i].msg) \/ printed[i].msg.source = "con"
    <3>1. printed[i] \in Prints
      BY DEF IInv, ConsoleOK
    <3>2. printed[i].msg \in Taken("con")
      BY <3>1 DEF Prints
    <3> QED
      BY <3>2 DEF Taken, May, Meant
  <2> QED
    BY <2>1, <2>2, <2>3, <2>4 DEF OnlyItsKind
<1> QED
  BY Inductive, <1>1, PTL

-----------------------------------------------------------------------------
(* No join() gets stuck.  From the moment main() has cleared a device's      *)
(* flag, its thread gets to wait_and_pop() only if it has tested the flag    *)
(* before; and it then finds the sentinel, or what stands before it.         *)
StopOK ==
  /\ pc["main"] \in {"sentinel", "join"} => ~hold[stopping]
  /\ (pc["main"] = "join" /\ pc[stopping] = "pop" /\ LoopOf(stopping) # "polling")
        => inQ[stopping] # <<>>

(* What a step of any thread but main() may do to a device's thread. *)
Wakes(d) ==
  (pc'[d] = "pop" /\ LoopOf(d) # "polling") =>
     \/ hold[d]
     \/ inQ'[d] # <<>>
     \/ pc[d] = "pop" /\ inQ'[d] = inQ[d]

(* Such steps leave no thread asleep that is being stopped. *)
LEMMA WakesKeepsStopOK ==
  ASSUME IInv, StopOK, \A d \in Devices : Wakes(d),
         pc'["main"] = pc["main"], UNCHANGED <<hold, stopping>>
  PROVE  StopOK'
<1>1. stopping \in Devices
  BY MainTypes DEF IInv, MainOK
<1>2. Wakes(stopping)
  BY <1>1
<1> QED
  BY <1>2 DEF StopOK, Wakes, LoopOf

(* A thread that goes on elsewhere than to its pop, and whatever it queues,  *)
(* does not keep anybody from waking up.                                     *)
LEMMA QueueingWakes ==
  ASSUME IInv, NEW t \in Threads,
         \/ UNCHANGED inQ
         \/ \E e \in Devices : \E x : Enqueue(e, x),
         \/ UNCHANGED pc
         \/ \E from, to : Goto(t, from, to) /\ to # "pop"
  PROVE  \A d \in Devices : Wakes(d)
<1> SUFFICES ASSUME NEW d \in Devices, pc'[d] = "pop" PROVE Wakes(d)
  BY DEF Wakes
<1>1. inQ'[d] = inQ[d] \/ inQ'[d] # <<>>
  <2>1. CASE UNCHANGED inQ
    BY <2>1
  <2>2. CASE \E e \in Devices : \E x : Enqueue(e, x)
    <3>0. PICK e \in Devices : \E x : Enqueue(e, x)
      BY <2>2
    <3>1. PICK x : Enqueue(e, x)
      BY <3>0
    <3>2. CASE e = d
      <4>1. inQ'[d] = Append(inQ[d], x) /\ inQ[d] \in Seq(Message)
        BY <3>1, <3>2 DEF Enqueue, IInv, QueuesOK
      <4> QED
        BY <4>1
    <3>3. CASE e # d
      BY <3>1, <3>3 DEF Enqueue, IInv, QueuesOK
    <3> QED
      BY <3>2, <3>3
  <2> QED
    BY <2>1, <2>2
<1>2. pc[d] = "pop"
  BY MainTypes DEF Goto, IInv, PlacesOK
<1> QED
  BY <1>1, <1>2 DEF Wakes

(* Neither does a thread that takes from its own queue and goes on. *)
LEMMA PoppingWakes ==
  ASSUME IInv, NEW t \in Devices, NEW from, NEW to, to # "pop",
         Goto(t, from, to), Dequeue(t)
  PROVE  \A d \in Devices : Wakes(d)
<1> SUFFICES ASSUME NEW d \in Devices, pc'[d] = "pop" PROVE Wakes(d)
  BY DEF Wakes
<1>1. d # t
  BY MainTypes DEF Goto, IInv, PlacesOK
<1>2. pc[d] = "pop" /\ inQ'[d] = inQ[d]
  BY <1>1, MainTypes DEF Goto, Dequeue, IInv, PlacesOK, QueuesOK
<1> QED
  BY <1>2 DEF Wakes

(* A thread gets to its pop if its flag is set. *)
LEMMA TestingWakes ==
  ASSUME IInv, NEW t \in Devices, TestHold(t)
  PROVE  \A d \in Devices : Wakes(d)
<1> SUFFICES ASSUME NEW d \in Devices, pc'[d] = "pop", ~hold[d] PROVE Wakes(d)
  BY DEF Wakes
<1>1. d # t
  BY MainTypes DEF TestHold, Goto, IInv, PlacesOK
<1>2. pc[d] = "pop" /\ inQ'[d] = inQ[d]
  BY <1>1, MainTypes DEF TestHold, Goto, IInv, PlacesOK
<1> QED
  BY <1>2 DEF Wakes

(* The router's thread. *)
LEMMA RouterWakes == ASSUME IInv, RouterStep PROVE \A d \in Devices : Wakes(d)
<1>0. "rtr" \in Devices /\ "rtr" \in Threads
  BY DEF Devices, Threads
<1>1. CASE TestHold("rtr")
  BY <1>0, <1>1, TestingWakes
<1>2. CASE RouterPop
  BY <1>0, <1>2, PoppingWakes DEF RouterPop
<1>3. CASE RouterRule
  <2>1. UNCHANGED pc
    BY <1>3 DEF RouterRule
  <2>2. UNCHANGED inQ \/ \E e \in Devices : \E x : Enqueue(e, x)
    <3>1. CASE Matches(Current, rtrMsg)
      <4>1. Current.to \in Devices
        BY <1>3, <3>1, RoutedWell DEF RouterRule, IInv
      <4>2. Enqueue(Current.to, rtrMsg)
        BY <1>3, <3>1 DEF RouterRule, RouterPush
      <4> QED
        BY <4>1, <4>2
    <3>2. CASE ~Matches(Current, rtrMsg)
      BY <1>3, <3>2 DEF RouterRule, RouterSkip
    <3> QED
      BY <3>1, <3>2
  <2> QED
    BY <1>0, <2>1, <2>2, QueueingWakes
<1>4. CASE RouterNextMessage
  BY <1>0, <1>4, QueueingWakes DEF RouterNextMessage
<1> QED
  BY <1>1, <1>2, <1>3, <1>4 DEF RouterStep

(* The console's thread: it pops after a test of the flag or of the queue. *)
LEMMA ConsoleWakes == ASSUME IInv, ConsoleStep PROVE \A d \in Devices : Wakes(d)
<1>0. "con" \in Devices /\ "con" \in Threads
  BY DEF Devices, Threads
<1>1. CASE ConsoleTestHold
  <2> SUFFICES ASSUME NEW d \in Devices, pc'[d] = "pop", ~hold[d] PROVE Wakes(d)
    BY DEF Wakes
  <2>1. d # "con"
    BY <1>0, <1>1 DEF ConsoleTestHold, Goto, IInv, PlacesOK
  <2>2. pc[d] = "pop" /\ inQ'[d] = inQ[d]
    BY <1>1, <2>1, MainTypes DEF ConsoleTestHold, Goto, IInv, PlacesOK
  <2> QED
    BY <2>2 DEF Wakes
<1>2. CASE ConsoleTestMore
  <2> SUFFICES ASSUME NEW d \in Devices, pc'[d] = "pop" PROVE Wakes(d)
    BY DEF Wakes
  <2>1. CASE d = "con"
    BY <1>0, <1>2, <2>1 DEF ConsoleTestMore, Goto, IInv, PlacesOK, Wakes
  <2>2. CASE d # "con"
    BY <1>2, <2>2, MainTypes DEF ConsoleTestMore, Goto, IInv, PlacesOK, Wakes
  <2> QED
    BY <2>1, <2>2
<1>3. CASE ConsolePrint
  BY <1>0, <1>3, PoppingWakes DEF ConsolePrint
<1> QED
  BY <1>1, <1>2, <1>3 DEF ConsoleStep

(* The daemon's serial device does not sleep in its pop; the simulator's does. *)
LEMMA SerWakes == ASSUME IInv, SerThread PROVE \A d \in Devices : Wakes(d)
<1>0. "ser" \in Devices /\ "ser" \in Threads /\ "rtr" \in Devices
  BY DEF Devices, Threads
<1>1. CASE SIM
  <2>1. CASE TestHold("ser")
    BY <1>0, <2>1, TestingWakes
  <2>2. CASE SimSend
    BY <1>0, <2>2, PoppingWakes DEF SimSend
  <2>3. CASE SimReceive
    <3>1. UNCHANGED inQ \/ \E x : Enqueue("rtr", x)
      BY <2>3 DEF SimReceive, Receive, Send
    <3> QED
      BY <1>0, <2>3, <3>1, QueueingWakes DEF SimReceive
  <2> QED
    BY <1>1, <2>1, <2>2, <2>3 DEF SerThread, SimulatorStep
<1>2. CASE ~SIM
  <2>1. LoopOf("ser") = "polling"
    BY <1>2 DEF LoopOf
  <2>2. ASSUME NEW d \in Devices, d # "ser", pc'[d] = "pop" PROVE Wakes(d)
    <3>1. PICK from, to : Goto("ser", from, to) \/ UNCHANGED pc
      BY <1>2 DEF SerThread, SerialStep, SerialStart, SerialTestHold,
                  SerialReceive, SerialPolled, SerialSend
    <3>2. pc[d] = "pop"
      BY <2>2, <3>1, MainTypes DEF Goto, IInv, PlacesOK
    <3>3. UNCHANGED inQ \/ (\E x : Enqueue("rtr", x)) \/ Dequeue("ser")
      BY <1>2 DEF SerThread, SerialStep, SerialStart, SerialTestHold,
                  SerialReceive, SerialPolled, SerialSend, serialVars, Send
    <3>4. inQ'[d] = inQ[d] \/ inQ'[d] # <<>>
      <4>1. CASE \E x : Enqueue("rtr", x)
        <5>1. PICK x : Enqueue("rtr", x)
          BY <4>1
        <5>2. CASE d = "rtr"
          <6>1. inQ'[d] = Append(inQ[d], x) /\ inQ[d] \in Seq(Message)
            BY <5>1, <5>2 DEF Enqueue, IInv, QueuesOK
          <6> QED
            BY <6>1
        <5>3. CASE d # "rtr"
          BY <5>1, <5>3 DEF Enqueue, IInv, QueuesOK
        <5> QED
          BY <5>2, <5>3
      <4>2. CASE Dequeue("ser")
        BY <2>2, <4>2 DEF Dequeue, IInv, QueuesOK
      <4> QED
        BY <3>3, <4>1, <4>2
    <3> QED
      BY <3>2, <3>4 DEF Wakes
  <2> QED
    BY <2>1, <2>2 DEF Wakes
<1> QED
  BY <1>1, <1>2

(* The other threads do not move main(), nor touch the flags. *)
LEMMA OthersLeaveMain ==
  ASSUME IInv, Others
  PROVE  pc'["main"] = pc["main"] /\ UNCHANGED <<hold, stopping>>
<1>0. DOMAIN pc = Threads /\ "main" \in Threads
  BY MainTypes DEF IInv, PlacesOK
<1>1. CASE RouterThread
  BY <1>0, <1>1 DEF RouterThread, RouterStep, RouterPop, RouterRule,
                    RouterNextMessage, TestHold, Goto, mainVars
<1>2. CASE ConsoleThread
  BY <1>0, <1>2 DEF ConsoleThread, ConsoleStep, ConsoleTestHold,
                    ConsoleTestMore, ConsolePrint, Goto, mainVars
<1>3. CASE SerThread
  <2>1. CASE SimulatorStep
    BY <1>0, <1>3, <2>1 DEF SerThread, SimulatorStep, SimSend, SimReceive,
                            TestHold, Goto, mainVars
  <2>2. CASE SerialStep
    BY <1>0, <1>3, <2>2 DEF SerThread, SerialStep, SerialStart, SerialTestHold,
                            SerialReceive, SerialPolled, SerialSend, Goto, mainVars
  <2> QED
    BY <1>3, <2>1, <2>2 DEF SerThread
<1>4. CASE TunThread
  BY <1>0, <1>4 DEF TunThread, TunStep, TunWrite, TestHold, Goto, mainVars
<1>5. CASE TunReadThread
  BY <1>0, <1>5 DEF TunReadThread, TunReadStep, TunReadTest, TunRead,
                    TunTimeout, Goto, mainVars
<1>6. CASE CaptureThread
  BY <1>0, <1>6 DEF CaptureThread, CaptureStep, CaptureWrite, CaptureCrash,
                    TestHold, Goto, mainVars
<1>7. CASE Answer \/ RadioFrame \/ Packet \/ PortFails \/ InterfaceFails
  BY <1>0, <1>7 DEF Answer, RadioFrame, Packet, PortFails, InterfaceFails, FrameArrives,
                    PacketArrives, SerialError, SerialSendFails, TunSelectFails,
                    TunReadFails, Goto, busVars, mainVars
<1> QED
  BY <1>1, <1>2, <1>3, <1>4, <1>5, <1>6, <1>7 DEF Others

(* Whatever the threads and the environment do. *)
LEMMA OthersWake ==
  ASSUME IInv, StopOK, Others
  PROVE  StopOK'
<1>0. /\ {"tun", "cap", "rtr"} \subseteq Devices
      /\ {"ser", "tun", "cap", "rtr", "tunrx", "main"} \subseteq Threads
  BY DEF Devices, Threads
<1>1. \A d \in Devices : Wakes(d)
  <2>1. CASE RouterThread
    BY <2>1, RouterWakes DEF RouterThread
  <2>2. CASE ConsoleThread
    BY <2>2, ConsoleWakes DEF ConsoleThread
  <2>3. CASE SerThread
    BY <2>3, SerWakes
  <2>4. CASE TunThread
    <3>1. CASE TestHold("tun")
      BY <1>0, <3>1, TestingWakes
    <3>2. CASE TunWrite
      BY <1>0, <3>2, PoppingWakes DEF TunWrite
    <3> QED
      BY <2>4, <3>1, <3>2 DEF TunThread, TunStep
  <2>5. CASE TunReadThread
    <3>1. UNCHANGED inQ \/ \E x : Enqueue("rtr", x)
      BY <2>5 DEF TunReadThread, TunReadStep, TunReadTest, TunRead, TunTimeout, Send
    <3>2. UNCHANGED pc \/ \E from, to : Goto("tunrx", from, to) /\ to # "pop"
      BY <2>5 DEF TunReadThread, TunReadStep, TunReadTest, TunRead, TunTimeout
    <3> QED
      BY <1>0, <3>1, <3>2, QueueingWakes
  <2>6. CASE CaptureThread
    <3>1. CASE TestHold("cap")
      BY <1>0, <3>1, TestingWakes
    <3>2. CASE CaptureWrite
      BY <1>0, <3>2, PoppingWakes DEF CaptureWrite
    <3>3. CASE CaptureCrash
      BY <1>0, <3>3, QueueingWakes DEF CaptureCrash
    <3> QED
      BY <2>6, <3>1, <3>2, <3>3 DEF CaptureThread, CaptureStep
  <2>7. CASE Answer \/ RadioFrame \/ Packet \/ PortFails \/ InterfaceFails
    <3>1. CASE Answer \/ RadioFrame \/ Packet
      <4>1. UNCHANGED inQ /\ UNCHANGED pc
        BY <3>1 DEF Answer, RadioFrame, Packet, FrameArrives, PacketArrives, busVars
      <4> QED
        BY <1>0, <4>1, QueueingWakes
    <3>2. CASE PortFails
      <4>1. UNCHANGED inQ /\ (UNCHANGED pc \/ Goto("ser", "pop", "terminated"))
        BY <3>2 DEF PortFails, SerialError, SerialSendFails
      <4> QED
        BY <1>0, <4>1, QueueingWakes
    <3>3. CASE InterfaceFails
      <4>1. UNCHANGED inQ /\ \E to \in {"test", "terminated"} : Goto("tunrx", "select", to)
        BY <3>3 DEF InterfaceFails, TunSelectFails, TunReadFails
      <4> QED
        BY <1>0, <4>1, QueueingWakes
    <3> QED
      BY <2>7, <3>1, <3>2, <3>3
  <2> QED
    BY <2>1, <2>2, <2>3, <2>4, <2>5, <2>6, <2>7 DEF Others
<1> QED
  BY <1>1, OthersLeaveMain, WakesKeepsStopOK

(* main() itself: releaseHold() clears the flag, then fills the queue. *)
LEMMA MainStops ==
  ASSUME IInv, StopOK, Main
  PROVE  StopOK'
<1>0. DOMAIN pc = Threads /\ "main" \in Threads /\ stopping \in Devices
        /\ inQ[stopping] \in Seq(Message) /\ DOMAIN inQ = Devices
        /\ DOMAIN hold = Devices
  BY MainTypes DEF IInv, PlacesOK, QueuesOK, MainOK
<1>1. CASE ReleaseFlag
  BY <1>0, <1>1 DEF ReleaseFlag, Goto, StopOK
<1>2. CASE ReleaseSentinel
  <2>1. inQ'[stopping] = Append(inQ[stopping], Empty)
    BY <1>0, <1>2 DEF ReleaseSentinel, Enqueue
  <2>2. inQ'[stopping] # <<>>
    BY <1>0, <2>1
  <2>3. ~hold'[stopping'] /\ stopping' = stopping
    BY <1>2 DEF ReleaseSentinel, Goto, StopOK, mainVars
  <2> QED
    BY <2>2, <2>3 DEF StopOK
<1>3. CASE \/ HoldDevices \/ StartDevices \/ HoldRouter \/ StartRouter
           \/ HoldConsole \/ BeginShutdown
  <2>1. pc'["main"] \notin {"sentinel", "join"}
    BY <1>0, <1>3 DEF HoldDevices, StartDevices, HoldRouter, StartRouter,
                      HoldConsole, BeginShutdown, Goto
  <2> QED
    BY <2>1 DEF StopOK
<1>4. CASE JoinThread
  <2>1. pc'["main"] \notin {"sentinel", "join"}
    BY <1>0, <1>4 DEF JoinThread, Goto
  <2> QED
    BY <2>1 DEF StopOK
<1>5. CASE Serve
  <2>1. pc'["main"] \notin {"sentinel", "join"}
    <3>1. CASE Accept
      BY <1>0, <3>1 DEF Accept
    <3>2. CASE Parse
      BY <1>0, <3>2 DEF Parse, ParseOneOf, ParseLine
    <3>3. CASE EndSession
      BY <1>0, <3>3 DEF EndSession, EndSessionBy, Goto
    <3>4. CASE Reject
      BY <3>4 DEF Reject, busVars
    <3> QED
      BY <1>5, <3>1, <3>2, <3>3, <3>4 DEF Serve
  <2> QED
    BY <2>1 DEF StopOK
<1> QED
  BY <1>1, <1>2, <1>3, <1>4, <1>5 DEF Main, Lifecycle

(* No join() of main() is ever stuck on a thread asleep, whatever the        *)
(* devices were doing when they were told to stop.                           *)
THEOREM JoinsReturn == Spec => []NoStuckJoins
<1>1. Init => StopOK
  <2> SUFFICES ASSUME Init PROVE StopOK
    OBVIOUS
  <2>1. pc["main"] = "start"
    BY MainTypes DEF Init
  <2> QED
    BY <2>1 DEF StopOK
<1>2. IInv /\ StopOK /\ [Next]_vars => StopOK'
  <2> SUFFICES ASSUME IInv, StopOK, [Next]_vars PROVE StopOK'
    OBVIOUS
  <2>1. CASE UNCHANGED vars
    BY <2>1 DEF vars, busVars, mainVars, StopOK, LoopOf
  <2>2. CASE Main
    BY <2>2, MainStops
  <2>3. CASE Others
    BY <2>3, OthersWake
  <2>4. CASE Finished
    BY <2>1, <2>4 DEF Finished
  <2> QED
    BY <2>1, <2>2, <2>3, <2>4 DEF Next
<1>3. IInv /\ StopOK => NoStuckJoins
  <2> SUFFICES ASSUME IInv, StopOK, NEW d \in Running,
                      Owner(d) \in {"joining", "joined"}, Rx(d) = "pop",
                      LoopOf(d) # "polling"
               PROVE  Abstracted(inQ[d]) # <<>>
    BY DEF NoStuckJoins, Sink!NoStuckJoin
  <2>1. Owner(d) = "joining"
    BY DEF Rx
  <2>2. stopping = d /\ pc["main"] = "join"
    BY <2>1 DEF Owner, ConsoleOwner, DeviceOwner, StoppingPhase
  <2>3. pc[d] = "pop"
    <3>1. CASE d = "ser"
      BY <2>1, <3>1 DEF Rx, LoopOf, IInv, PlacesOK, Places, Threads
    <3>2. CASE d # "ser"
      BY <2>1, <3>2, MainTypes DEF Rx, IInv, PlacesOK, Places, Threads, Devices
    <3> QED
      BY <3>1, <3>2
  <2>4. inQ[d] # <<>> /\ inQ[d] \in Seq(Message)
    BY <2>2, <2>3, MainTypes DEF StopOK, IInv, QueuesOK
  <2>5. Len(inQ[d]) \in Nat /\ DOMAIN inQ[d] = 1..Len(inQ[d]) /\ Len(inQ[d]) # 0
    BY <2>4
  <2>6. DOMAIN Abstracted(inQ[d]) = DOMAIN inQ[d]
    BY DEF Abstracted
  <2>7. 1 \in DOMAIN Abstracted(inQ[d]) /\ 1 \notin DOMAIN <<>>
    BY <2>5, <2>6
  <2> QED
    BY <2>7
<1> QED
  BY Inductive, <1>1, <1>2, <1>3, PTL DEF Spec

-----------------------------------------------------------------------------
(* How far main() has come tells which threads run and which flags are set.  *)
Halting == {"release", "sentinel", "join"}

(* The devices are stopped after the last session only. *)
Order ==
  /\ stopping # "con" => pc["main"] \in Halting \cup {"done"} /\ realQuit
  /\ pc["main"] = "done" => stopping # "con"

ConsoleUp == pc["main"] = "parse" \/ (pc["main"] \in Halting /\ stopping = "con")

ConsolePhase ==
  /\ pc["con"] # "none" <=> ConsoleUp
  /\ hold["con"] <=> \/ pc["main"] \in {"accept", "parse"}
                     \/ pc["main"] = "release" /\ stopping = "con"
  /\ pc["con"] \in {"more", "exited"} => ~hold["con"]

DevicePhase(d) ==
  /\ pc[d] = "none" <=> Owner(d) \in {"new", "holding"}
  /\ Owner(d) = "joined" => pc[d] = "exited"
  /\ hold[d] <=> Owner(d) \in {"holding", "running"}
  /\ pc[d] = "exited" => ~hold[d]

Phases == Order /\ ConsolePhase /\ \A d \in Running \ {"con"} : DevicePhase(d)

(* The order in which the devices are stopped. *)
LEMMA Positions ==
  /\ \A d \in Running \ {"con"} : Position(d) \in Nat
  /\ \A d, e \in Running \ {"con"} : Position(d) = Position(e) => d = e
  /\ \A d \in Running \ {"con"} : Position(d) <= Position(LastToStop)
  /\ \A d \in Running \ {"con"} :
       d # LastToStop => /\ NextToStop(d) \in Running \ {"con"}
                         /\ Position(NextToStop(d)) = Position(d) + 1
  /\ \A d \in Running \ {"con"} : Position(Head(ShutdownOrder)) <= Position(d)
  /\ {LastToStop, Head(ShutdownOrder)} \subseteq Running \ {"con"}
<1>1. CASE SIM
  <2>1. Running \ {"con"} = {"ser", "rtr"} /\ LastToStop = "rtr" /\ Head(ShutdownOrder) = "ser"
    BY <1>1 DEF Running, ShutdownOrder, LastToStop
  <2>2. Position("ser") = 1 /\ Position("rtr") = 2
    <3>1. Position("ser") = 1
      BY <1>1 DEF Position, ShutdownOrder
    <3>2. Position("rtr") = 2
      BY <1>1 DEF Position, ShutdownOrder
    <3> QED
      BY <3>1, <3>2
  <2>3. NextToStop("ser") = "rtr"
    BY <1>1 DEF NextToStop, ShutdownOrder, Devices
  <2> QED
    BY <2>1, <2>2, <2>3
<1>2. CASE ~SIM
  <2>1. /\ Running \ {"con"} = {"ser", "rtr", "tun", "cap"} /\ LastToStop = "cap"
        /\ Head(ShutdownOrder) = "ser"
    BY <1>2 DEF Running, ShutdownOrder, LastToStop
  <2>2. /\ Position("ser") = 1 /\ Position("rtr") = 2
        /\ Position("tun") = 3 /\ Position("cap") = 4
    <3>1. Position("ser") = 1
      BY <1>2 DEF Position, ShutdownOrder
    <3>2. Position("rtr") = 2
      BY <1>2 DEF Position, ShutdownOrder
    <3>3. Position("tun") = 3
      BY <1>2 DEF Position, ShutdownOrder
    <3>4. Position("cap") = 4
      BY <1>2 DEF Position, ShutdownOrder
    <3> QED
      BY <3>1, <3>2, <3>3, <3>4
  <2>3. /\ NextToStop("ser") = "rtr" /\ NextToStop("rtr") = "tun"
        /\ NextToStop("tun") = "cap"
    <3>1. NextToStop("ser") = "rtr"
      BY <1>2 DEF NextToStop, ShutdownOrder, Devices
    <3>2. NextToStop("rtr") = "tun"
      BY <1>2 DEF NextToStop, ShutdownOrder, Devices
    <3>3. NextToStop("tun") = "cap"
      BY <1>2 DEF NextToStop, ShutdownOrder, Devices
    <3> QED
      BY <3>1, <3>2, <3>3
  <2> QED
    BY <2>1, <2>2, <2>3
<1> QED
  BY <1>1, <1>2

(* Who has the device in his hands, from the place main() has reached.       *)
OwnerTable(d) ==
  /\ pc["main"] = "start" => Owner(d) = "new"
  /\ pc["main"] = "threads" => Owner(d) = IF d = "rtr" THEN "new" ELSE "holding"
  /\ pc["main"] = "hold router" => Owner(d) = IF d = "rtr" THEN "new" ELSE "running"
  /\ pc["main"] = "start router" => Owner(d) = IF d = "rtr" THEN "holding" ELSE "running"
  /\ pc["main"] \in {"loop", "accept", "parse"} => Owner(d) = "running"
  /\ pc["main"] \in Halting /\ (stopping = "con" \/ Position(stopping) < Position(d))
       => Owner(d) = "running"
  /\ pc["main"] \in Halting /\ stopping # "con" /\ Position(d) < Position(stopping)
       => Owner(d) = "joined"
  /\ pc["main"] = "release" /\ d = stopping => Owner(d) = "running"
  /\ pc["main"] = "sentinel" /\ d = stopping => Owner(d) = "flagged"
  /\ pc["main"] = "join" /\ d = stopping => Owner(d) = "joining"
  /\ pc["main"] = "done" => Owner(d) = "joined"

OwnersKnown == \A d \in Running \ {"con"} : OwnerTable(d)

(* This is what Owner() says. *)
LEMMA OwnersFollow == IInv /\ Order => OwnersKnown
<1> SUFFICES ASSUME IInv, Order, NEW d \in Running \ {"con"} PROVE OwnerTable(d)
  BY DEF OwnersKnown
<1>0. stopping \in Running
  BY DEF IInv, MainOK
<1>1. Owner(d) = IF d = "rtr" /\ pc["main"] = "threads" THEN "new" ELSE DeviceOwner(d)
  BY DEF Owner
<1>2. pc["main"] = "start" => Owner(d) = "new"
  BY <1>1 DEF DeviceOwner
<1>3. pc["main"] = "threads" => Owner(d) = IF d = "rtr" THEN "new" ELSE "holding"
  BY <1>1 DEF DeviceOwner
<1>4. ASSUME pc["main"] \notin {"start", "threads"},
             d = "rtr" => pc["main"] \notin {"hold router", "start router"}
      PROVE  Owner(d) = IF Stopped(d) THEN "joined"
                        ELSE IF stopping = d THEN StoppingPhase ELSE "running"
  BY <1>1, <1>4 DEF DeviceOwner
<1>5. pc["main"] \in {"hold router", "start router", "loop", "accept", "parse"}
        => stopping = "con" /\ ~Stopped(d)
  BY DEF Order, Stopped, Halting
<1>6. pc["main"] = "hold router" => Owner(d) = IF d = "rtr" THEN "new" ELSE "running"
  <2>1. CASE d = "rtr"
    BY <1>1, <2>1 DEF DeviceOwner
  <2>2. CASE d # "rtr"
    BY <1>4, <1>5, <2>2
  <2> QED
    BY <2>1, <2>2
<1>7. pc["main"] = "start router" => Owner(d) = IF d = "rtr" THEN "holding" ELSE "running"
  <2>1. CASE d = "rtr"
    BY <1>1, <2>1 DEF DeviceOwner
  <2>2. CASE d # "rtr"
    BY <1>4, <1>5, <2>2
  <2> QED
    BY <2>1, <2>2
<1>8. pc["main"] \in {"loop", "accept", "parse"} => Owner(d) = "running"
  BY <1>4, <1>5
<1>9. ASSUME pc["main"] \in Halting
      PROVE  Owner(d) = IF Stopped(d) THEN "joined"
                        ELSE IF stopping = d THEN StoppingPhase ELSE "running"
  BY <1>4, <1>9 DEF Halting
<1>10. ASSUME pc["main"] \in Halting, stopping = "con" \/ Position(stopping) < Position(d)
       PROVE  Owner(d) = "running"
  <2>1. ~Stopped(d) /\ stopping # d
    <3>1. pc["main"] # "done"
      BY <1>10 DEF Halting
    <3>2. stopping # "con" => ~(Position(d) < Position(stopping)) /\ stopping # d
      <4>1. stopping # "con" => Position(d) \in Nat /\ Position(stopping) \in Nat
        BY <1>0, Positions
      <4> QED
        BY <1>10, <4>1
    <3> QED
      BY <3>1, <3>2 DEF Stopped
  <2> QED
    BY <1>9, <1>10, <2>1
<1>11. ASSUME pc["main"] \in Halting, stopping # "con", Position(d) < Position(stopping)
       PROVE  Owner(d) = "joined"
  <2>1. Stopped(d)
    BY <1>11 DEF Stopped, Order
  <2> QED
    BY <1>9, <1>11, <2>1
<1>12. ASSUME pc["main"] \in Halting, d = stopping
       PROVE  Owner(d) = StoppingPhase
  <2>1. ~Stopped(d)
    <3>1. pc["main"] # "done"
      BY <1>12 DEF Halting
    <3>2. ~(Position(d) < Position(d))
      BY Positions
    <3> QED
      BY <1>12, <3>1, <3>2 DEF Stopped
  <2> QED
    BY <1>9, <1>12, <2>1
<1>13. /\ pc["main"] = "release" => StoppingPhase = "running"
       /\ pc["main"] = "sentinel" => StoppingPhase = "flagged"
       /\ pc["main"] = "join" => StoppingPhase = "joining"
  BY DEF StoppingPhase
<1>14. pc["main"] = "done" => Owner(d) = "joined"
  BY <1>4 DEF Stopped
<1>15. {"release", "sentinel", "join"} \subseteq Halting
  BY DEF Halting
<1> QED
  BY <1>2, <1>3, <1>6, <1>7, <1>8, <1>10, <1>11, <1>12, <1>13, <1>14, <1>15
  DEF OwnerTable

(* The same of the state after a step. *)
LEMMA OwnersFollowNext == IInv' /\ Order' => OwnersKnown'
  BY OwnersFollow, PTL

(* What the other threads leave alone, and how far they may go. *)
Moves(d) ==
  /\ pc'[d] = "none" <=> pc[d] = "none"
  /\ pc[d] = "exited" => pc'[d] = "exited"
  /\ pc'[d] \in {"more", "exited"} => ~hold[d] \/ pc[d] \in {"more", "exited"}

(* No thread but main() changes who has a device in his hands. *)
LEMMA OthersLeaveOwners ==
  ASSUME IInv, Others
  PROVE  UNCHANGED <<realQuit, session>> /\ \A d \in Running \ {"con"} : UNCHANGED Owner(d)
<1>1. UNCHANGED <<realQuit, session>>
  BY DEF Others, RouterThread, ConsoleThread, SerThread, TunThread, TunReadThread, CaptureThread,
         Answer, RadioFrame, Packet, PortFails, InterfaceFails, consoleVars, ConsoleStep,
         ConsoleTestHold,
         ConsoleTestMore, ConsolePrint
<1>2. pc'["main"] = pc["main"] /\ UNCHANGED stopping
  BY OthersLeaveMain
<1> QED
  BY <1>1, <1>2 DEF Owner, DeviceOwner, Stopped, StoppingPhase

(* A thread that goes on moves no further than it may. *)
LEMMA GotoMoves ==
  ASSUME IInv, NEW t \in Threads, NEW from, NEW to, Goto(t, from, to),
         from \notin {"none", "exited"}, to # "none",
         to \in {"more", "exited"} => ~hold[t] \/ from = "more"
  PROVE  \A d \in Devices : Moves(d)
<1>1. DOMAIN pc = Threads /\ Devices \subseteq Threads
  BY MainTypes DEF IInv, PlacesOK
<1> SUFFICES ASSUME NEW d \in Devices PROVE Moves(d)
  OBVIOUS
<1>2. CASE d = t
  BY <1>1, <1>2 DEF Goto, Moves
<1>3. CASE d # t
  BY <1>1, <1>3 DEF Goto, Moves
<1> QED
  BY <1>2, <1>3

(* Nor does any thread but main(). *)
LEMMA OthersMove == ASSUME IInv, Others PROVE \A d \in Devices : Moves(d)
<1>0. /\ {"rtr", "con", "ser", "tun", "tunrx", "cap"} \subseteq Threads
      /\ \A d \in Devices : hold[d] \in BOOLEAN
      /\ {"rtr", "con", "ser", "tun", "cap"} \subseteq Devices
  BY DEF Threads, Devices, IInv, PlacesOK
<1>a. UNCHANGED pc => \A d \in Devices : Moves(d)
  BY DEF Moves
<1>b. ASSUME NEW t \in {"rtr", "ser", "tun", "cap"}, TestHold(t)
      PROVE  \A d \in Devices : Moves(d)
  <2>1. CASE hold[t]
    <3>1. Goto(t, "test", "pop")
      BY <1>b, <2>1 DEF TestHold
    <3> QED
      BY <1>0, <3>1, GotoMoves
  <2>2. CASE ~hold[t]
    <3>1. Goto(t, "test", "exited") /\ ~hold[t]
      BY <1>0, <1>b, <2>2 DEF TestHold
    <3> QED
      BY <1>0, <3>1, GotoMoves
  <2> QED
    BY <2>1, <2>2
<1>1. CASE RouterThread
  <2>1. CASE RouterPop
    BY <1>0, <2>1, GotoMoves DEF RouterPop
  <2>2. CASE RouterNextMessage
    BY <1>0, <2>2, GotoMoves DEF RouterNextMessage
  <2>3. CASE RouterRule
    BY <1>a, <2>3 DEF RouterRule
  <2> QED
    BY <1>1, <1>b, <2>1, <2>2, <2>3 DEF RouterThread, RouterStep
<1>2. CASE ConsoleThread
  <2>1. CASE ConsoleTestHold
    BY <1>0, <2>1, GotoMoves DEF ConsoleTestHold
  <2>2. CASE ConsoleTestMore
    BY <1>0, <2>2, GotoMoves DEF ConsoleTestMore
  <2>3. CASE ConsolePrint
    BY <1>0, <2>3, GotoMoves DEF ConsolePrint
  <2> QED
    BY <1>2, <2>1, <2>2, <2>3 DEF ConsoleThread, ConsoleStep
<1>3. CASE SerThread
  <2>1. CASE SimulatorStep
    <3>1. CASE SimSend
      BY <1>0, <3>1, GotoMoves DEF SimSend
    <3>2. CASE SimReceive
      BY <1>0, <3>2, GotoMoves DEF SimReceive
    <3> QED
      BY <1>b, <2>1, <3>1, <3>2 DEF SimulatorStep
  <2>2. CASE SerialStep
    <3>1. CASE SerialStart
      BY <1>0, <3>1, GotoMoves DEF SerialStart
    <3>2. CASE SerialTestHold
      BY <1>0, <3>2, GotoMoves DEF SerialTestHold
    <3>3. CASE SerialReceive
      BY <1>a, <3>3 DEF SerialReceive
    <3>4. CASE SerialPolled
      BY <1>0, <3>4, GotoMoves DEF SerialPolled
    <3>5. CASE SerialSend
      BY <1>0, <3>5, GotoMoves DEF SerialSend
    <3> QED
      BY <2>2, <3>1, <3>2, <3>3, <3>4, <3>5 DEF SerialStep
  <2> QED
    BY <1>3, <2>1, <2>2 DEF SerThread
<1>4. CASE TunThread
  <2>1. CASE TunWrite
    BY <1>0, <2>1, GotoMoves DEF TunWrite
  <2> QED
    BY <1>4, <1>b, <2>1 DEF TunThread, TunStep
<1>5. CASE TunReadThread
  <2>1. \A d \in Devices : pc'[d] = pc[d]
    <3>1. PICK from, to : Goto("tunrx", from, to) \/ UNCHANGED pc
      BY <1>5 DEF TunReadThread, TunReadStep, TunReadTest, TunRead, TunTimeout
    <3>2. "tunrx" \notin Devices /\ Devices \subseteq Threads
      BY MainTypes DEF Devices
    <3> QED
      BY <3>1, <3>2 DEF Goto, IInv, PlacesOK
  <2> QED
    BY <2>1 DEF Moves
<1>6. CASE CaptureThread
  <2>1. CASE CaptureWrite
    BY <1>0, <2>1, GotoMoves DEF CaptureWrite
  <2>2. CASE CaptureCrash
    BY <1>0, <2>2, GotoMoves DEF CaptureCrash
  <2> QED
    BY <1>6, <1>b, <2>1, <2>2 DEF CaptureThread, CaptureStep
<1>7. CASE Answer \/ RadioFrame \/ Packet \/ PortFails
  <2>1. UNCHANGED pc \/ Goto("ser", "pop", "terminated")
    BY <1>7 DEF Answer, RadioFrame, Packet, PortFails, FrameArrives, PacketArrives,
                SerialError, SerialSendFails, busVars
  <2> QED
    BY <1>0, <1>a, <2>1, GotoMoves
<1>8. CASE InterfaceFails
  <2>1. \E to \in {"test", "terminated"} : Goto("tunrx", "select", to)
    BY <1>8 DEF InterfaceFails, TunSelectFails, TunReadFails
  <2> QED
    BY <1>0, <2>1, GotoMoves
<1> QED
  BY <1>1, <1>2, <1>3, <1>4, <1>5, <1>6, <1>7, <1>8 DEF Others

(* So the threads keep the phases. *)
LEMMA OthersKeepPhases == ASSUME IInv, Phases, Others PROVE Phases'
<1>0. \A d \in Devices : Moves(d)
  BY OthersMove
<1>1. /\ pc'["main"] = pc["main"] /\ UNCHANGED <<hold, stopping, realQuit>>
      /\ \A d \in Running \ {"con"} : UNCHANGED Owner(d)
  BY OthersLeaveMain, OthersLeaveOwners
<1>2. Order'
  BY <1>1 DEF Phases, Order
<1>3. ConsolePhase'
  <2>1. Moves("con")
    BY <1>0 DEF Devices
  <2>2. pc'["con"] # "none" <=> pc["con"] # "none"
    BY <2>1 DEF Moves
  <2>3. pc'["con"] \in {"more", "exited"} => ~hold["con"]
    BY <2>1 DEF Moves, Phases, ConsolePhase
  <2>4. ConsoleUp' = ConsoleUp
    BY <1>1 DEF ConsoleUp
  <2> QED
    BY <1>1, <2>2, <2>3, <2>4 DEF Phases, ConsolePhase
<1>4. ASSUME NEW d \in Running \ {"con"} PROVE DevicePhase(d)'
  <2>1. Moves(d) /\ UNCHANGED Owner(d) /\ DevicePhase(d)
    BY <1>0, <1>1, MainTypes DEF Phases
  <2>2. pc[d] # "more"
    <3>1. d \in {"ser", "rtr", "tun", "cap"}
      BY MainTypes DEF Devices
    <3> QED
      BY <3>1 DEF IInv, PlacesOK, Places, Threads
  <2>3. (pc[d] = "none")' <=> Owner(d)' \in {"new", "holding"}
    BY <2>1 DEF Moves, DevicePhase
  <2>4. Owner(d)' = "joined" => pc'[d] = "exited"
    BY <2>1 DEF Moves, DevicePhase
  <2>5. hold'[d] <=> Owner(d)' \in {"holding", "running"}
    BY <1>1, <2>1 DEF DevicePhase
  <2>6. pc'[d] = "exited" => ~hold'[d]
    <3>1. pc'[d] = "exited" => ~hold[d]
      BY <2>1, <2>2 DEF Moves, DevicePhase
    <3> QED
      BY <1>1, <3>1
  <2> QED
    BY <2>3, <2>4, <2>5, <2>6 DEF DevicePhase
<1> QED
  BY <1>2, <1>3, <1>4 DEF Phases

(* main() and the flags it sets. *)
LEMMA LifecycleKeepsOrder == ASSUME IInv, Order, Lifecycle \/ Serve PROVE Order'
<1>0. DOMAIN pc = Threads /\ "main" \in Threads /\ "con" \in Threads
  BY MainTypes DEF IInv, PlacesOK
<1> USE DEF Order, Halting
<1>1. CASE HoldDevices \/ HoldRouter \/ HoldConsole
  BY <1>0, <1>1 DEF HoldDevices, HoldRouter, HoldConsole, Goto, consoleVars, mainVars
<1>2. CASE StartDevices \/ StartRouter
  BY <1>0, <1>2 DEF StartDevices, StartRouter, consoleVars, mainVars
<1>3. CASE BeginShutdown
  BY <1>0, <1>3 DEF BeginShutdown, Goto, consoleVars
<1>4. CASE ReleaseFlag \/ ReleaseSentinel
  BY <1>0, <1>4 DEF ReleaseFlag, ReleaseSentinel, Goto, consoleVars, mainVars
<1>5. CASE JoinThread
  BY <1>0, <1>5, NextRuns DEF JoinThread, Goto, consoleVars
<1>6. CASE Accept
  BY <1>0, <1>6 DEF Accept, BeginSession, mainVars
<1>7. CASE Parse
  BY <1>0, <1>7 DEF Parse, ParseOneOf, ParseLine, mainVars
<1>8. CASE EndSession
  BY <1>0, <1>8 DEF EndSession, EndSessionBy, Goto
<1>9. CASE Reject
  BY <1>0, <1>9 DEF Reject, busVars, mainVars
<1> QED
  BY <1>1, <1>2, <1>3, <1>4, <1>5, <1>6, <1>7, <1>8, <1>9 DEF Lifecycle, Serve

(* And main() keeps them, action by action. *)
LEMMA MainKeepsPhases == ASSUME IInv, Phases, Lifecycle \/ Serve PROVE Phases'
<1>0. /\ DOMAIN pc = Threads /\ "main" \in Threads /\ "con" \in Threads
      /\ Running \ {"con"} \subseteq Threads \ {"main", "con"}
      /\ Running \ {"con"} \subseteq Devices \ {"con"}
      /\ DOMAIN hold = Devices /\ "con" \in Devices /\ stopping \in Devices
      /\ stopping \in Running
  BY MainTypes DEF IInv, PlacesOK, MainOK, Threads, Devices
<1>1. Order' /\ IInv'
  BY LifecycleKeepsOrder, LifecycleKeeps, ServeKeeps DEF Phases
<1>2. ASSUME NEW d \in Running \ {"con"} PROVE OwnerTable(d) /\ OwnerTable(d)' /\ DevicePhase(d)
  BY <1>1, OwnersFollow, OwnersFollowNext DEF OwnersKnown, Phases
<1>3. ASSUME pc'["con"] = pc["con"], hold'["con"] = hold["con"], ConsoleUp' = ConsoleUp,
             pc["main"] \notin {"accept", "parse"} /\ pc'["main"] \notin {"accept", "parse"},
             (pc["main"] = "release" /\ stopping = "con")
                <=> (pc'["main"] = "release" /\ stopping' = "con")
      PROVE  ConsolePhase'
  BY <1>3 DEF ConsolePhase, Phases
<1>4. ASSUME \A d \in Running \ {"con"} : pc'[d] = pc[d] /\ hold'[d] = hold[d] /\ UNCHANGED Owner(d)
      PROVE  \A d \in Running \ {"con"} : DevicePhase(d)'
  BY <1>4 DEF DevicePhase, Phases
<1>5. stopping # "con" => pc["main"] \in Halting \cup {"done"}
  BY DEF Phases, Order
<1>a. CASE HoldDevices
  <2>1. /\ pc["main"] = "start" /\ pc'["main"] = "threads" /\ UNCHANGED stopping
        /\ \A t \in Threads \ {"main"} : pc'[t] = pc[t]
    BY <1>0, <1>a DEF HoldDevices, Goto, mainVars
  <2>2. ConsolePhase'
    <3>1. ~hold'["con"] /\ pc'["con"] = pc["con"]
      BY <1>0, <1>a, <2>1 DEF HoldDevices
    <3> QED
      BY <2>1, <3>1 DEF ConsolePhase, ConsoleUp, Phases, Halting
  <2>3. ASSUME NEW d \in Running \ {"con"} PROVE DevicePhase(d)'
    <3>1. hold'[d] <=> d # "rtr"
      <4>1. CASE SIM
        <5>1. d \in {"ser", "rtr"}
          BY <4>1 DEF Running, ShutdownOrder
        <5> QED
          BY <1>0, <1>a, <4>1, <5>1 DEF HoldDevices
      <4>2. CASE ~SIM
        <5>1. d \in {"ser", "rtr", "tun", "cap"}
          BY <4>2 DEF Running, ShutdownOrder
        <5> QED
          BY <1>0, <1>a, <4>2, <5>1 DEF HoldDevices
      <4> QED
        BY <4>1, <4>2
    <3>2. Owner(d) = "new" /\ Owner(d)' = IF d = "rtr" THEN "new" ELSE "holding"
      BY <1>2, <2>1 DEF OwnerTable
    <3>3. pc'[d] = "none"
      BY <1>0, <1>2, <2>1, <3>2 DEF DevicePhase
    <3> QED
      BY <3>1, <3>2, <3>3 DEF DevicePhase
  <2> QED
    BY <1>1, <2>2, <2>3 DEF Phases
<1>b. CASE StartDevices
  <2>1. /\ pc["main"] = "threads" /\ pc'["main"] = "hold router" /\ UNCHANGED <<stopping, hold>>
        /\ pc'["con"] = pc["con"]
    BY <1>0, <1>b DEF StartDevices, mainVars
  <2>2. ConsolePhase'
    BY <2>1 DEF ConsolePhase, ConsoleUp, Phases, Halting
  <2>3. ASSUME NEW d \in Running \ {"con"} PROVE DevicePhase(d)'
    <3>1. Owner(d) = IF d = "rtr" THEN "new" ELSE "holding"
      BY <1>2, <2>1 DEF OwnerTable
    <3>2. Owner(d)' = IF d = "rtr" THEN "new" ELSE "running"
      BY <1>2, <2>1 DEF OwnerTable
    <3>3. IF d = "rtr" THEN pc'[d] = pc[d] ELSE pc'[d] \in {"start", "test"}
      <4>1. CASE SIM
        <5>1. d \in {"ser", "rtr"}
          BY <4>1 DEF Running, ShutdownOrder
        <5> QED
          BY <1>0, <1>b, <4>1, <5>1 DEF StartDevices
      <4>2. CASE ~SIM
        <5>1. d \in {"ser", "rtr", "tun", "cap"}
          BY <4>2 DEF Running, ShutdownOrder
        <5> QED
          BY <1>0, <1>b, <4>2, <5>1 DEF StartDevices
      <4> QED
        BY <4>1, <4>2
    <3> QED
      BY <1>2, <2>1, <3>1, <3>2, <3>3 DEF DevicePhase
  <2> QED
    BY <1>1, <2>2, <2>3 DEF Phases
<1>c. CASE HoldRouter
  <2>1. /\ pc["main"] = "hold router" /\ pc'["main"] = "start router" /\ UNCHANGED stopping
        /\ \A t \in Threads \ {"main"} : pc'[t] = pc[t]
        /\ hold' = [hold EXCEPT !["rtr"] = TRUE]
    BY <1>0, <1>c DEF HoldRouter, Goto, mainVars
  <2>2. ConsolePhase'
    <3>1. hold'["con"] = hold["con"]
      BY <1>0, <2>1
    <3> QED
      BY <1>0, <2>1, <3>1 DEF ConsolePhase, ConsoleUp, Phases, Halting
  <2>3. ASSUME NEW d \in Running \ {"con"} PROVE DevicePhase(d)'
    <3>1. Owner(d) = IF d = "rtr" THEN "new" ELSE "running"
      BY <1>2, <2>1 DEF OwnerTable
    <3>2. Owner(d)' = IF d = "rtr" THEN "holding" ELSE "running"
      BY <1>2, <2>1 DEF OwnerTable
    <3>3. pc'[d] = pc[d] /\ hold'[d] = IF d = "rtr" THEN TRUE ELSE hold[d]
      BY <1>0, <2>1
    <3> QED
      BY <1>2, <3>1, <3>2, <3>3 DEF DevicePhase
  <2> QED
    BY <1>1, <2>2, <2>3 DEF Phases
<1>d. CASE StartRouter
  <2>1. /\ pc["main"] = "start router" /\ pc'["main"] = "loop" /\ UNCHANGED <<stopping, hold>>
        /\ pc'["rtr"] = "test"
        /\ \A t \in Threads \ {"main", "rtr"} : pc'[t] = pc[t]
    BY <1>0, <1>d DEF StartRouter, mainVars, Threads
  <2>2. ConsolePhase'
    BY <1>0, <2>1 DEF ConsolePhase, ConsoleUp, Phases, Halting
  <2>3. ASSUME NEW d \in Running \ {"con"} PROVE DevicePhase(d)'
    <3>1. Owner(d) = IF d = "rtr" THEN "holding" ELSE "running"
      BY <1>2, <2>1 DEF OwnerTable
    <3>2. Owner(d)' = "running"
      BY <1>2, <2>1 DEF OwnerTable
    <3>3. pc'[d] = IF d = "rtr" THEN "test" ELSE pc[d]
      BY <1>0, <2>1
    <3> QED
      BY <1>2, <2>1, <3>1, <3>2, <3>3 DEF DevicePhase
  <2> QED
    BY <1>1, <2>2, <2>3 DEF Phases
<1>e. CASE HoldConsole
  <2>1. /\ pc["main"] = "loop" /\ pc'["main"] = "accept" /\ UNCHANGED stopping
        /\ \A t \in Threads \ {"main"} : pc'[t] = pc[t]
        /\ hold' = [hold EXCEPT !["con"] = TRUE]
    BY <1>0, <1>e DEF HoldConsole, Goto, mainVars
  <2>2. ConsolePhase'
    <3>1. hold'["con"] /\ pc'["con"] = "none"
      BY <1>0, <2>1 DEF Phases, ConsolePhase, ConsoleUp, Halting
    <3> QED
      BY <2>1, <3>1 DEF ConsolePhase, ConsoleUp, Halting
  <2>3. ASSUME NEW d \in Running \ {"con"}
        PROVE  pc'[d] = pc[d] /\ hold'[d] = hold[d] /\ UNCHANGED Owner(d)
    <3>1. Owner(d) = "running" /\ Owner(d)' = "running"
      BY <1>2, <2>1 DEF OwnerTable
    <3> QED
      BY <1>0, <2>1, <3>1
  <2> QED
    BY <1>1, <1>4, <2>2, <2>3 DEF Phases
<1>f. CASE BeginShutdown
  <2>1. /\ pc["main"] = "loop" /\ pc'["main"] = "release" /\ stopping' = Head(ShutdownOrder)
        /\ \A t \in Threads \ {"main"} : pc'[t] = pc[t]
        /\ hold' = hold
    BY <1>0, <1>f DEF BeginShutdown, Goto
  <2>2. stopping' # "con" /\ stopping = "con"
    BY <1>5, <2>1, Positions DEF Halting
  <2>3. ConsolePhase'
    BY <1>0, <2>1, <2>2 DEF ConsolePhase, ConsoleUp, Phases, Halting
  <2>4. ASSUME NEW d \in Running \ {"con"}
        PROVE  pc'[d] = pc[d] /\ hold'[d] = hold[d] /\ UNCHANGED Owner(d)
    <3>1. Owner(d) = "running"
      BY <1>2, <2>1 DEF OwnerTable
    <3>2. d = stopping' \/ Position(stopping') < Position(d)
      <4>1. /\ Position(stopping') <= Position(d) /\ stopping' \in Running \ {"con"}
            /\ Position(stopping') \in Nat /\ Position(d) \in Nat
        BY <2>1, Positions
      <4> QED
        BY <4>1, Positions
    <3>3. Owner(d)' = "running"
      BY <1>2, <2>1, <3>2 DEF OwnerTable, Halting
    <3> QED
      BY <1>0, <2>1, <3>1, <3>3
  <2> QED
    BY <1>1, <1>4, <2>3, <2>4 DEF Phases
<1>g. CASE ReleaseFlag
  <2>1. /\ pc["main"] = "release" /\ pc'["main"] = "sentinel" /\ UNCHANGED stopping
        /\ \A t \in Threads \ {"main"} : pc'[t] = pc[t]
        /\ hold' = [hold EXCEPT ![stopping] = FALSE]
    BY <1>0, <1>g DEF ReleaseFlag, Goto
  <2>2. ConsolePhase'
    <3>1. hold'["con"] <=> hold["con"] /\ stopping # "con"
      BY <1>0, <2>1
    <3> QED
      BY <1>0, <2>1, <3>1 DEF ConsolePhase, ConsoleUp, Phases, Halting
  <2>3. ASSUME NEW d \in Running \ {"con"} PROVE DevicePhase(d)'
    <3>1. pc'[d] = pc[d]
      BY <1>0, <2>1
    <3>2. CASE d = stopping
      <4>1. Owner(d) = "running" /\ Owner(d)' = "flagged" /\ ~hold'[d]
        BY <1>0, <1>2, <2>1, <3>2 DEF OwnerTable
      <4> QED
        BY <1>2, <3>1, <4>1 DEF DevicePhase
    <3>3. CASE d # stopping
      <4>1. hold'[d] = hold[d]
        BY <1>0, <2>1, <3>3
      <4>2. UNCHANGED Owner(d)
        <5>1. stopping = "con" \/ Position(stopping) < Position(d) \/ Position(d) < Position(stopping)
          BY <1>0, <3>3, Positions
        <5> QED
          BY <1>2, <2>1, <5>1 DEF OwnerTable, Halting
      <4> QED
        BY <1>2, <3>1, <4>1, <4>2 DEF DevicePhase
    <3> QED
      BY <3>2, <3>3
  <2> QED
    BY <1>1, <2>2, <2>3 DEF Phases
<1>h. CASE ReleaseSentinel
  <2>1. /\ pc["main"] = "sentinel" /\ pc'["main"] = "join" /\ UNCHANGED <<stopping, hold>>
        /\ \A t \in Threads \ {"main"} : pc'[t] = pc[t]
    BY <1>0, <1>h DEF ReleaseSentinel, Goto, mainVars
  <2>2. ConsolePhase'
    BY <1>0, <2>1 DEF ConsolePhase, ConsoleUp, Phases, Halting
  <2>3. ASSUME NEW d \in Running \ {"con"} PROVE DevicePhase(d)'
    <3>1. pc'[d] = pc[d] /\ hold'[d] = hold[d]
      BY <1>0, <2>1
    <3>2. CASE d = stopping
      <4>1. Owner(d) = "flagged" /\ Owner(d)' = "joining"
        BY <1>2, <2>1, <3>2 DEF OwnerTable
      <4> QED
        BY <1>2, <3>1, <4>1 DEF DevicePhase
    <3>3. CASE d # stopping
      <4>1. UNCHANGED Owner(d)
        <5>1. stopping = "con" \/ Position(stopping) < Position(d) \/ Position(d) < Position(stopping)
          BY <1>0, <3>3, Positions
        <5> QED
          BY <1>2, <2>1, <5>1 DEF OwnerTable, Halting
      <4> QED
        BY <1>2, <3>1, <4>1 DEF DevicePhase
    <3> QED
      BY <3>2, <3>3
  <2> QED
    BY <1>1, <2>2, <2>3 DEF Phases
<1>i. CASE JoinThread
  <2>1. pc["main"] = "join" /\ Exited(stopping) /\ UNCHANGED hold
    BY <1>i DEF JoinThread
  <2>2. CASE stopping = "con"
    <3>1. /\ pc'["main"] = "loop" /\ pc'["con"] = "none" /\ UNCHANGED stopping
          /\ \A t \in Threads \ {"main", "con"} : pc'[t] = pc[t]
      BY <1>0, <1>i, <2>2 DEF JoinThread, Threads
    <3>2. ConsolePhase'
      BY <2>1, <2>2, <3>1 DEF ConsolePhase, ConsoleUp, Phases, Halting
    <3>3. ASSUME NEW d \in Running \ {"con"}
          PROVE  pc'[d] = pc[d] /\ hold'[d] = hold[d] /\ UNCHANGED Owner(d)
      <4>1. Owner(d) = "running" /\ Owner(d)' = "running"
        BY <1>2, <2>1, <2>2, <3>1 DEF OwnerTable, Halting
      <4> QED
        BY <1>0, <2>1, <3>1, <4>1
    <3> QED
      BY <1>1, <1>4, <3>2, <3>3 DEF Phases
  <2>3. CASE stopping # "con"
    <3>1. \A t \in Threads \ {"main"} : pc'[t] = pc[t]
      BY <1>0, <1>i, <2>3 DEF JoinThread, Goto
    <3>2. /\ stopping = LastToStop => pc'["main"] = "done" /\ UNCHANGED stopping
          /\ stopping # LastToStop => /\ pc'["main"] = "release"
                                      /\ stopping' = NextToStop(stopping)
      BY <1>0, <1>i, <2>3 DEF JoinThread, Goto
    <3>3. ConsolePhase'
      <4>1. stopping' # "con"
        BY <1>0, <2>3, <3>2, Positions
      <4>2. pc["con"] = "none" /\ ~hold["con"]
        BY <2>1, <2>3 DEF Phases, ConsolePhase, ConsoleUp
      <4>3. pc'["con"] = "none" /\ ~hold'["con"] /\ pc'["main"] \in {"done", "release"}
        BY <1>0, <2>1, <3>1, <3>2, <4>2
      <4> QED
        BY <4>1, <4>3 DEF ConsolePhase, ConsoleUp
    <3>4. ASSUME NEW d \in Running \ {"con"} PROVE DevicePhase(d)'
      <4>1. pc'[d] = pc[d] /\ hold'[d] = hold[d]
        BY <1>0, <2>1, <3>1
      <4>2. /\ Position(d) \in Nat /\ Position(stopping) \in Nat
            /\ Position(d) = Position(stopping) => d = stopping
            /\ Position(d) <= Position(LastToStop)
        BY <1>0, <2>3, Positions
      <4>3. stopping # LastToStop =>
              /\ stopping' \in Running \ {"con"}
              /\ Position(stopping') = Position(stopping) + 1
        BY <1>0, <2>3, <3>2, Positions
      <4>4. CASE d = stopping
        <5>1. Owner(d) = "joining" /\ pc[d] = "exited"
          BY <1>2, <2>1, <4>4 DEF OwnerTable, Exited
        <5>2. Owner(d)' = "joined"
          <6>1. CASE stopping = LastToStop
            BY <1>2, <3>2, <6>1 DEF OwnerTable
          <6>2. CASE stopping # LastToStop
            <7>1. Position(d) < Position(stopping') /\ stopping' # "con" /\ pc'["main"] \in Halting
              BY <3>2, <4>2, <4>3, <4>4, <6>2 DEF Halting
            <7> QED
              BY <1>2, <7>1 DEF OwnerTable
          <6> QED
            BY <6>1, <6>2
        <5> QED
          BY <1>2, <4>1, <5>1, <5>2 DEF DevicePhase
      <4>5. CASE Position(d) < Position(stopping)
        <5>1. Owner(d) = "joined"
          BY <1>2, <2>1, <2>3, <4>5 DEF OwnerTable, Halting
        <5>2. Owner(d)' = "joined"
          <6>1. CASE stopping = LastToStop
            BY <1>2, <3>2, <6>1 DEF OwnerTable
          <6>2. CASE stopping # LastToStop
            <7>1. Position(d) < Position(stopping') /\ stopping' # "con" /\ pc'["main"] \in Halting
              BY <3>2, <4>2, <4>3, <4>5, <6>2 DEF Halting
            <7> QED
              BY <1>2, <7>1 DEF OwnerTable
          <6> QED
            BY <6>1, <6>2
        <5> QED
          BY <1>2, <4>1, <5>1, <5>2 DEF DevicePhase
      <4>6. CASE Position(stopping) < Position(d)
        <5>0. stopping # LastToStop
          BY <4>2, <4>6
        <5>1. Owner(d) = "running"
          BY <1>2, <2>1, <4>6 DEF OwnerTable, Halting
        <5>2. d = stopping' \/ Position(stopping') < Position(d)
          BY <4>2, <4>3, <4>6, <5>0, Positions
        <5>3. Owner(d)' = "running"
          BY <1>2, <3>2, <5>0, <5>2 DEF OwnerTable, Halting
        <5> QED
          BY <1>2, <4>1, <5>1, <5>3 DEF DevicePhase
      <4> QED
        BY <4>2, <4>4, <4>5, <4>6
    <3> QED
      BY <1>1, <3>3, <3>4 DEF Phases
  <2> QED
    BY <2>2, <2>3
<1>j. CASE Accept
  <2>1. /\ pc["main"] = "accept" /\ pc'["main"] = "parse" /\ UNCHANGED <<stopping, hold>>
        /\ pc'["con"] = "test"
        /\ \A t \in Threads \ {"main", "con"} : pc'[t] = pc[t]
    BY <1>0, <1>j DEF Accept, mainVars, Threads
  <2>2. ConsolePhase'
    BY <2>1 DEF ConsolePhase, ConsoleUp, Phases, Halting
  <2>3. ASSUME NEW d \in Running \ {"con"}
        PROVE  pc'[d] = pc[d] /\ hold'[d] = hold[d] /\ UNCHANGED Owner(d)
    <3>1. Owner(d) = "running" /\ Owner(d)' = "running"
      BY <1>2, <2>1 DEF OwnerTable
    <3> QED
      BY <1>0, <2>1, <3>1
  <2> QED
    BY <1>1, <1>4, <2>2, <2>3 DEF Phases
<1>k. CASE Parse \/ Reject
  <2>1. pc["main"] = "parse" /\ UNCHANGED <<stopping, hold, pc>>
    BY <1>k DEF Parse, ParseOneOf, ParseLine, Reject, busVars, mainVars
  <2>2. ConsolePhase'
    BY <2>1 DEF ConsolePhase, ConsoleUp, Phases, Halting
  <2>3. ASSUME NEW d \in Running \ {"con"}
        PROVE  pc'[d] = pc[d] /\ hold'[d] = hold[d] /\ UNCHANGED Owner(d)
    <3>1. Owner(d) = "running" /\ Owner(d)' = "running"
      BY <1>2, <2>1 DEF OwnerTable
    <3> QED
      BY <2>1, <3>1
  <2> QED
    BY <1>1, <1>4, <2>2, <2>3 DEF Phases
<1>l. CASE EndSession
  <2>1. /\ pc["main"] = "parse" /\ pc'["main"] = "release" /\ stopping' = "con"
        /\ UNCHANGED hold
        /\ \A t \in Threads \ {"main"} : pc'[t] = pc[t]
    BY <1>0, <1>l DEF EndSession, EndSessionBy, Goto
  <2>2. ConsolePhase'
    BY <1>0, <2>1 DEF ConsolePhase, ConsoleUp, Phases, Halting
  <2>3. ASSUME NEW d \in Running \ {"con"}
        PROVE  pc'[d] = pc[d] /\ hold'[d] = hold[d] /\ UNCHANGED Owner(d)
    <3>1. Owner(d) = "running" /\ Owner(d)' = "running"
      BY <1>2, <2>1 DEF OwnerTable, Halting
    <3> QED
      BY <1>0, <2>1, <3>1
  <2> QED
    BY <1>1, <1>4, <2>2, <2>3 DEF Phases
<1> QED
  BY <1>a, <1>b, <1>c, <1>d, <1>e, <1>f, <1>g, <1>h, <1>i, <1>j, <1>k, <1>l
  DEF Lifecycle, Serve

(* The place of main() tells which threads run and which flags are set.     *)
THEOREM PhasesInductive == Spec => []Phases
<1>1. Init => Phases
  <2> SUFFICES ASSUME Init PROVE Phases
    OBVIOUS
  <2>1. /\ pc["main"] = "start" /\ stopping = "con"
        /\ \A t \in Threads \ {"main"} : pc[t] = "none"
        /\ \A d \in Devices : ~hold[d]
    BY MainTypes DEF Init, BusInit
  <2>2. Order
    BY <2>1 DEF Order
  <2>3. ConsolePhase
    BY <2>1 DEF ConsolePhase, ConsoleUp, Halting, Threads, Devices
  <2>4. ASSUME NEW d \in Running \ {"con"} PROVE DevicePhase(d)
    <3>1. Owner(d) = "new"
      BY <2>1, <2>2, InitInv, OwnersFollow DEF OwnersKnown, OwnerTable
    <3>2. d \in Devices /\ d \in Threads \ {"main"}
      BY MainTypes DEF Devices
    <3> QED
      BY <2>1, <3>1, <3>2 DEF DevicePhase
  <2> QED
    BY <2>2, <2>3, <2>4 DEF Phases
<1>2. IInv /\ Phases /\ [Next]_vars => Phases'
  <2> SUFFICES ASSUME IInv, Phases, [Next]_vars PROVE Phases'
    OBVIOUS
  <2>1. CASE UNCHANGED vars
    <3>1. UNCHANGED <<pc, hold, stopping, realQuit, session>>
      BY <2>1 DEF vars, busVars, consoleVars, mainVars
    <3>2. \A d \in Running \ {"con"} : UNCHANGED Owner(d)
      BY <3>1 DEF Owner, DeviceOwner, Stopped, StoppingPhase
    <3> QED
      BY <3>1, <3>2 DEF Phases, Order, ConsolePhase, ConsoleUp, DevicePhase, Running
  <2>2. CASE Main
    BY <2>2, MainKeepsPhases DEF Main
  <2>3. CASE Others
    BY <2>3, OthersKeepPhases
  <2> QED
    BY <2>1, <2>2, <2>3 DEF Next, Finished
<1> QED
  BY <1>1, <1>2, Inductive, PTL DEF Spec

-----------------------------------------------------------------------------
(* decode() reads every diagnostic reply to its end. *)
LEMMA DiagnosesRead ==
  ASSUME NEW size \in Nat, NEW b1 \in Nat, NEW b2 \in Nat, size >= 2
  PROVE  ReadToItsEnd(reply(size, 33, b1, b2))
<1> DEFINE r == reply(size, 33, b1, b2)
<1> SUFFICES ReadToItsEnd(r)
  OBVIOUS
<1>1. /\ r.size = size /\ r.bytes[1] = 33 /\ r.bytes[2] = b1 /\ r.bytes[3] = b2
  BY DEF reply
<1> HIDE DEF r
<1>2. decode(r) = decodeDiag(r) \/ size = 0
  BY <1>1 DEF decode
<1>3. CASE b1 \notin 1..10
  <2>1. decodeDiag(r) = Result("raw", size)
    BY <1>1, <1>3 DEF decodeDiag
  <2> QED
    BY <1>1, <1>2, <2>1 DEF ReadToItsEnd, Result
<1>4. CASE b1 \in 1..10 /\ ~SizeFits(r)
  <2>1. decodeDiag(r) = Result("error", size)
    BY <1>1, <1>4 DEF decodeDiag
  <2> QED
    BY <1>1, <1>2, <2>1 DEF ReadToItsEnd, Result
<1>5. CASE b1 \in 1..10 /\ SizeFits(r)
  <2>1. decodeDiag(r) = Result("json", 2 + Fields(b1, b2))
    BY <1>1, <1>5 DEF decodeDiag
  <2>2. b1 # 8 => size = 2 + Fields(b1, b2)
    <3> USE DEF SizeFits, Fields, getUint8, getUint16, getUint32, getPanId, getAddr,
                getExludedMask
    <3>1. CASE b1 = 1
      BY <1>1, <1>5, <3>1
    <3>2. CASE b1 = 2
      BY <1>1, <1>5, <3>2
    <3>3. CASE b1 = 3
      BY <1>1, <1>5, <3>3
    <3>4. CASE b1 = 4
      BY <1>1, <1>5, <3>4
    <3>5. CASE b1 = 5
      BY <1>1, <1>5, <3>5
    <3>6. CASE b1 = 6
      BY <1>1, <1>5, <3>6
    <3>7. CASE b1 = 7
      BY <1>1, <1>5, <3>7
    <3>9. CASE b1 = 9
      BY <1>1, <1>5, <3>9
    <3>10. CASE b1 = 10
      BY <1>1, <1>5, <3>10
    <3> QED
      BY <1>5, <3>1, <3>2, <3>3, <3>4, <3>5, <3>6, <3>7, <3>9, <3>10
  <2>3. b1 = 8 => 2 + Fields(b1, b2) <= size
    BY <1>1, <1>5 DEF SizeFits, Fields, getUint8, getUint16, getUint32, getPanId
  <2> QED
    BY <1>1, <1>2, <2>1, <2>2, <2>3 DEF ReadToItsEnd, Result
<1> QED
  BY <1>3, <1>4, <1>5

(* And every list of neighbors, whatever their number. *)
LEMMA NeighborsRead ==
  ASSUME NEW size \in Nat, NEW b1 \in Nat, NEW b2 \in Nat, size >= 2
  PROVE  ReadToItsEnd(reply(size, 35, b1, b2))
<1> DEFINE r == reply(size, 35, b1, b2)
<1> SUFFICES ReadToItsEnd(r)
  OBVIOUS
<1>1. /\ r.size = size /\ r.bytes[1] = 35 /\ r.bytes[2] = b1 /\ r.bytes[3] = b2
  BY DEF reply
<1> HIDE DEF r
<1>2. decode(r) = decodeNeighbors(r)
  BY <1>1 DEF decode
<1>3. size = 2 + 14 * b1 => 2 + b1 * Neighbor = size
  BY DEF Neighbor, getUint8, getUint32, getAddr
<1>4. decodeNeighbors(r) = IF size = 2 + 14 * b1 THEN Result("json", 2 + b1 * Neighbor)
                           ELSE Result("error", size)
  BY <1>1 DEF decodeNeighbors
<1>5. CASE size = 2 + 14 * b1
  BY <1>1, <1>2, <1>3, <1>4, <1>5 DEF ReadToItsEnd, Result
<1>6. CASE size # 2 + 14 * b1
  BY <1>1, <1>2, <1>4, <1>6 DEF ReadToItsEnd, Result
<1> QED
  BY <1>5, <1>6

(* decode() of Reply.cpp never reads behind the end of a reply of any size   *)
(* and with any bytes that has those it looks at before it tests the size;   *)
(* what it prints as complete it has read to the end.                        *)
THEOREM RepliesReadToTheirEnd ==
  ASSUME NEW size \in Nat, NEW b0 \in Nat, NEW b1 \in Nat, NEW b2 \in Nat,
         LongEnough(reply(size, b0, b1, b2))
  PROVE  ReadToItsEnd(reply(size, b0, b1, b2))
<1> DEFINE r == reply(size, b0, b1, b2)
<1>1. r.size = size /\ r.bytes[1] = b0 /\ r.bytes[2] = b1 /\ r.bytes[3] = b2
  BY DEF reply
<1>2. LongEnough(r)
  OBVIOUS
<1>3. CASE b0 = 33
  <2>1. size >= 2
    BY <1>1, <1>2, <1>3 DEF LongEnough
  <2> QED
    BY <1>3, <2>1, DiagnosesRead
<1>4. CASE b0 = 35
  <2>1. size >= 2
    BY <1>1, <1>2, <1>4 DEF LongEnough
  <2> QED
    BY <1>4, <2>1, NeighborsRead
<1>5. CASE b0 \notin {33, 35}
  <2> HIDE DEF r
  <2>1. b0 = 32 => size >= 4
    BY <1>1, <1>2 DEF LongEnough
  <2>2. size = 0 => decode(r) = Result("nothing", 0)
    BY <1>1 DEF decode
  <2>3. size # 0 /\ b0 = 32 => decode(r) = Result("json", 4)
    BY <1>1 DEF decode
  <2>4. size # 0 /\ b0 = 36 =>
          decode(r) = IF size = 9 THEN Result("json", 9) ELSE Result("error", size)
    BY <1>1 DEF decode, getAddr
  <2>5. size # 0 /\ b0 \notin {32, 33, 35, 36} =>
          decode(r) \in {Result("json", size), Result("log", size), Result("raw", size)}
    BY <1>1 DEF decode
  <2>6. ReadToItsEnd(r)
    <3>1. CASE size = 0
      BY <1>1, <2>2, <3>1 DEF ReadToItsEnd, Result
    <3>2. CASE size # 0 /\ b0 = 32
      BY <1>1, <2>1, <2>3, <3>2 DEF ReadToItsEnd, Result
    <3>3. CASE size # 0 /\ b0 = 36
      BY <1>1, <2>4, <3>3 DEF ReadToItsEnd, Result
    <3>4. CASE size # 0 /\ b0 \notin {32, 36}
      BY <1>1, <1>5, <2>5, <3>4 DEF ReadToItsEnd, Result
    <3> QED
      BY <3>1, <3>2, <3>3, <3>4
  <2> QED
    BY <2>6 DEF r
<1> QED
  BY <1>3, <1>4, <1>5

(* So what the console prints it decodes within its bounds: any answer of    *)
(* the radio, among them all that a run goes through.                        *)
THEOREM AnswersReadToTheirEnd == Spec => []ReadsWhatItTested
<1>1. EveryReplyReadToItsEnd
  <2> SUFFICES ASSUME NEW r \in Kinds, LongEnough(r) PROVE ReadToItsEnd(r)
    BY DEF EveryReplyReadToItsEnd
  <2>1. /\ r.size \in Nat
        /\ r.bytes[1] \in Nat /\ r.bytes[2] \in Nat /\ r.bytes[3] \in Nat
        /\ r = reply(r.size, r.bytes[1], r.bytes[2], r.bytes[3])
    BY DEF Kinds, KindsOf, reply
  <2> QED
    BY <2>1, RepliesReadToTheirEnd
<1>2. ReadsWhatItTested
  BY <1>1 DEF ReadsWhatItTested
<1> QED
  BY <1>2, PTL

(* A diagnosis of the size that is tested for is printed as JSON. *)
LEMMA DiagnosisPrinted ==
  ASSUME NEW size \in Nat \ {0}, NEW b1 \in 1..10, NEW b2 \in Nat,
         SizeFits(reply(size, 33, b1, b2))
  PROVE  decode(reply(size, 33, b1, b2)).text = "json"
  BY DEF reply, decode, decodeDiag, Result

(* The sizes in the simulator's table are those that decode() tests for.     *)
THEOREM SimulatedRepliesFit == Spec => []SimulatedRepliesDecode
<1>1. ASSUME NEW c \in SimCommands PROVE decode(simCmd[c]).text = "json"
  <2>1. CASE c = "buildid"
    <3>1. simCmd[c] = reply(29, 34, 74, 97)
      BY <2>1 DEF simCmd
    <3>2. decode(reply(29, 34, 74, 97)).text = "json"
      BY DEF reply, decode, Result
    <3> QED
      BY <3>1, <3>2
  <2>2. CASE c = "state"
    <3>1. simCmd[c] = reply(4, 32, 1, 1)
      BY <2>2 DEF simCmd
    <3>2. decode(reply(4, 32, 1, 1)).text = "json"
      BY DEF reply, decode, Result
    <3> QED
      BY <3>1, <3>2
  <2>3. CASE c = "mac"
    <3>1. simCmd[c] = reply(9, 36, 0, 25)
      BY <2>3 DEF simCmd
    <3>2. decode(reply(9, 36, 0, 25)).text = "json"
      BY DEF reply, decode, Result
    <3> QED
      BY <3>1, <3>2
  <2>4. CASE c = "neighbors"
    <3>1. simCmd[c] = reply(30, 35, 2, 0)
      BY <2>4 DEF simCmd, TwoNeighbors
    <3>2. decode(reply(30, 35, 2, 0)).text = "json"
      BY DEF reply, decode, decodeNeighbors, Result
    <3> QED
      BY <3>1, <3>2
  <2>5. CASE c = "diag 01"
    <3>1. simCmd[c] = reply(34, 33, 1, 66)
      BY <2>5 DEF simCmd
    <3>2. SizeFits(reply(34, 33, 1, 66))
      BY DEF reply, SizeFits
    <3> QED
      BY <3>1, <3>2, DiagnosisPrinted
  <2>6. CASE c = "diag 02"
    <3>1. simCmd[c] = reply(58, 33, 2, 0)
      BY <2>6 DEF simCmd
    <3>2. SizeFits(reply(58, 33, 2, 0))
      BY DEF reply, SizeFits
    <3> QED
      BY <3>1, <3>2, DiagnosisPrinted
  <2>7. CASE c = "diag 03"
    <3>1. simCmd[c] = reply(46, 33, 3, 55)
      BY <2>7 DEF simCmd
    <3>2. SizeFits(reply(46, 33, 3, 55))
      BY DEF reply, SizeFits
    <3> QED
      BY <3>1, <3>2, DiagnosisPrinted
  <2>8. CASE c = "diag 04"
    <3>1. simCmd[c] = reply(32, 33, 4, 0)
      BY <2>8 DEF simCmd
    <3>2. SizeFits(reply(32, 33, 4, 0))
      BY DEF reply, SizeFits
    <3> QED
      BY <3>1, <3>2, DiagnosisPrinted
  <2>9. CASE c = "diag 05"
    <3>1. simCmd[c] = reply(48, 33, 5, 0)
      BY <2>9 DEF simCmd
    <3>2. SizeFits(reply(48, 33, 5, 0))
      BY DEF reply, SizeFits
    <3> QED
      BY <3>1, <3>2, DiagnosisPrinted
  <2>10. CASE c = "diag 06"
    <3>1. simCmd[c] = reply(43, 33, 6, 10)
      BY <2>10 DEF simCmd
    <3>2. SizeFits(reply(43, 33, 6, 10))
      BY DEF reply, SizeFits
    <3> QED
      BY <3>1, <3>2, DiagnosisPrinted
  <2>11. CASE c = "diag 07"
    <3>1. simCmd[c] = reply(43, 33, 7, 10)
      BY <2>11 DEF simCmd
    <3>2. SizeFits(reply(43, 33, 7, 10))
      BY DEF reply, SizeFits
    <3> QED
      BY <3>1, <3>2, DiagnosisPrinted
  <2>12. CASE c = "diag 08"
    <3>1. simCmd[c] = reply(59, 33, 8, 0)
      BY <2>12 DEF simCmd
    <3>2. SizeFits(reply(59, 33, 8, 0))
      BY DEF reply, SizeFits
    <3> QED
      BY <3>1, <3>2, DiagnosisPrinted
  <2>13. CASE c = "diag 09"
    <3>1. simCmd[c] = reply(45, 33, 9, 122)
      BY <2>13 DEF simCmd
    <3>2. SizeFits(reply(45, 33, 9, 122))
      BY DEF reply, SizeFits
    <3> QED
      BY <3>1, <3>2, DiagnosisPrinted
  <2>14. CASE c = "diag 0a"
    <3>1. simCmd[c] = reply(34, 33, 10, 72)
      BY <2>14 DEF simCmd
    <3>2. SizeFits(reply(34, 33, 10, 72))
      BY DEF reply, SizeFits
    <3> QED
      BY <3>1, <3>2, DiagnosisPrinted
  <2> QED
    BY <2>1, <2>2, <2>3, <2>4, <2>5, <2>6, <2>7, <2>8, <2>9, <2>10, <2>11,
       <2>12, <2>13, <2>14
       DEF SimCommands
<1>2. DOMAIN simCmd = SimCommands
  BY DEF simCmd
<1>3. SimulatedRepliesDecode
  BY <1>1, <1>2 DEF SimulatedRepliesDecode, Alike, PrintedAsJSON
<1> QED
  BY <1>3, PTL

-----------------------------------------------------------------------------
(* The commands that are answered, and those that are counted. *)
KnownOnes == {m \in Message : Known(m)}
CountedOnes == {m \in Message : Counted(m)}

(* The answers to the commands in s. *)
AnswersTo(s) ==
  [k \in DOMAIN s |-> Response(s[k], (InitialFcie + CountsFor(SubSeq(s, 1, k))) % FcieModulus)]

(* What is left when multiples of M are taken away. *)
LEMMA Remainder ==
  ASSUME NEW M \in Nat \ {0}, NEW q \in Int, NEW r \in 0..(M - 1)
  PROVE  (M * q + r) % M = r
  OBVIOUS

(* To count one further after the remainder is to count before it. *)
LEMMA CountOn ==
  ASSUME NEW M \in Nat \ {0}, NEW a \in Nat
  PROVE  ((a % M) + 1) % M = (a + 1) % M
<1> DEFINE q == a \div M
           r == a % M
<1>1. a = M * q + r /\ r \in 0..(M - 1) /\ q \in Int
  OBVIOUS
<1> HIDE DEF q, r
<1>2. CASE r + 1 < M
  <2>1. a + 1 = M * q + (r + 1) /\ r + 1 \in 0..(M - 1)
    BY <1>1, <1>2
  <2>2. (a + 1) % M = r + 1
    BY <1>1, <2>1, Remainder
  <2>3. (r + 1) % M = r + 1
    BY <1>1, <1>2
  <2> QED
    BY <2>2, <2>3 DEF r
<1>3. CASE r + 1 = M
  <2>1. a + 1 = M * (q + 1) + 0
    BY <1>1, <1>3
  <2>2. (a + 1) % M = 0
    BY <1>1, <2>1, Remainder
  <2>3. (r + 1) % M = 0
    BY <1>3
  <2> QED
    BY <2>2, <2>3 DEF r
<1> QED
  BY <1>1, <1>2, <1>3

(* One command more is counted, or is not. *)
LEMMA CountsGrow ==
  ASSUME NEW s \in Seq(Message), NEW x \in Message
  PROVE  /\ CountsFor(s) \in Nat
         /\ Counted(x) => CountsFor(Append(s, x)) = CountsFor(s) + 1
         /\ ~Counted(x) => CountsFor(Append(s, x)) = CountsFor(s)
<1> DEFINE c == Only(s, CountedOnes)
<1>1. c \in Seq(Message)
  BY OnlySeq
<1>2. Only(Append(s, x), CountedOnes) = IF x \in CountedOnes THEN Append(c, x) ELSE c
  BY OnlyAppend
<1>3. x \in CountedOnes <=> Counted(x)
  BY DEF CountedOnes
<1> HIDE DEF c
<1>4. Len(c) \in Nat /\ Len(Append(c, x)) = Len(c) + 1
  BY <1>1
<1>5. CountsFor(s) = Len(c) /\ CountsFor(Append(s, x)) = Len(Only(Append(s, x), CountedOnes))
  BY DEF CountsFor, CountedOnes, c
<1> QED
  BY <1>2, <1>3, <1>4, <1>5

(* One answer more. *)
LEMMA AnswersGrow ==
  ASSUME NEW s \in Seq(Message), NEW x \in Message, NEW r \in Seq(Message), r = AnswersTo(s),
         NEW count, count = (InitialFcie + CountsFor(Append(s, x))) % FcieModulus,
         Response(x, count) \in Message
  PROVE  Append(r, Response(x, count)) = AnswersTo(Append(s, x))
<1> DEFINE y == Response(x, count)
           t == Append(s, x)
           n == Len(s)
           u == Append(r, y)
<1>1. /\ n \in Nat /\ DOMAIN s = 1..n /\ t \in Seq(Message) /\ Len(t) = n + 1
      /\ DOMAIN t = 1..(n + 1) /\ t[n + 1] = x
  OBVIOUS
<1>2. \A k \in 1..n : t[k] = s[k] /\ SubSeq(t, 1, k) = SubSeq(s, 1, k)
  OBVIOUS
<1>3. SubSeq(t, 1, n + 1) = t
  OBVIOUS
<1>4. Len(r) = n
  BY <1>1 DEF AnswersTo
<1>5. u = [k \in 1..(n + 1) |-> IF k = n + 1 THEN y ELSE r[k]]
  BY <1>4, AppendAsFunction
<1> HIDE DEF t
<1>6. ASSUME NEW k \in 1..(n + 1)
      PROVE  Response(t[k], (InitialFcie + CountsFor(SubSeq(t, 1, k))) % FcieModulus)
               = IF k = n + 1 THEN y ELSE r[k]
  <2>1. CASE k = n + 1
    BY <1>1, <1>3, <2>1 DEF t
  <2>2. CASE k # n + 1
    <3>1. k \in 1..n
      BY <1>1, <2>2
    <3>2. r[k] = Response(s[k], (InitialFcie + CountsFor(SubSeq(s, 1, k))) % FcieModulus)
      BY <1>1, <3>1 DEF AnswersTo
    <3> QED
      BY <1>2, <2>2, <3>1, <3>2
  <2> QED
    BY <2>1, <2>2
<1> HIDE DEF n, u, y
<1>7. AnswersTo(t) = [k \in 1..(n + 1) |-> IF k = n + 1 THEN y ELSE r[k]]
  BY <1>1, <1>6 DEF AnswersTo
<1> QED
  BY <1>5, <1>7 DEF t, u, y

(* A command has been taken and not been answered yet. *)
Pending == pc["ser"] = "receive" /\ NonEmpty(lastMessage)

(* What makes SimulatorAnswers inductive: receive() finds the last command   *)
(* that was written, or one that was cleared, and the counter is where the   *)
(* last counted command left it.                                             *)
SimOK ==
  /\ pc["ser"] # "receive" => ~NonEmpty(lastMessage)
  /\ Pending => \E s \in Seq(Message) : sent = Append(s, lastMessage)
  /\ fcie = (InitialFcie + CountsFor(Answerable)) % FcieModulus
  /\ SimulatorAnswers

(* All written commands are answerable but the one that is pending. *)
LEMMA AnswerableIs ==
  ASSUME IInv
  PROVE  /\ sent \in Seq(Message) /\ received \in Seq(Message)
         /\ ~Pending => Answerable = Only(sent, KnownOnes)
         /\ \A s \in Seq(Message) :
              Pending /\ sent = Append(s, lastMessage) => Answerable = Only(s, KnownOnes)
<1>1. sent \in Seq(Taken("ser")) /\ received \in Seq(Message)
  BY DEF IInv, SerOK
<1>0. Taken("ser") \subseteq Message
  BY DEF Taken, May, Filled
<1>2. sent \in Seq(Message)
  BY <1>0, <1>1, SeqMonotonic
<1>3. ~Pending => Answerable = Only(sent, KnownOnes)
  BY DEF Answerable, Pending, KnownOnes
<1>4. ASSUME NEW s \in Seq(Message), Pending, sent = Append(s, lastMessage)
      PROVE  Answerable = Only(s, KnownOnes)
  <2>1. lastMessage \in Message
    BY DEF IInv, SerOK, Filled
  <2>2. SubSeq(sent, 1, Len(sent) - 1) = s
    BY <1>4, <2>1
  <2> QED
    BY <1>4, <2>2 DEF Answerable, Pending, KnownOnes
<1> QED
  BY <1>1, <1>2, <1>3, <1>4

(* A step that leaves the simulator alone. *)
LEMMA SimulatorRests ==
  ASSUME SimOK, UNCHANGED <<typed, lastMessage, fcie, received, sent>>,
         pc'["ser"] = "receive" <=> pc["ser"] = "receive"
  PROVE  SimOK'
<1>1. \A m : Known(m)' <=> Known(m)
  BY DEF Known
<1>2. \A m : Counted(m)' <=> Counted(m)
  BY <1>1 DEF Counted
<1>3. {m \in Message : Known(m)}' = {m \in Message : Known(m)}
        /\ {m \in Message : Counted(m)}' = {m \in Message : Counted(m)}
  BY <1>1, <1>2
<1>4. Answerable' = Answerable
  BY <1>3 DEF Answerable
<1>5. \A s : CountsFor(s)' = CountsFor(s)
  BY <1>3 DEF CountsFor
<1>6. \A m, c : Response(m, c)' = Response(m, c)
  BY <1>2 DEF Response
<1>7. SimulatorAnswers'
  BY <1>4, <1>5, <1>6 DEF SimOK, SimulatorAnswers
<1> QED
  BY <1>4, <1>5, <1>7 DEF SimOK, Pending

(* send(): what was answerable stays so, and the command taken is pending.   *)
LEMMA CommandTaken ==
  ASSUME SIM, IInv, IInv', SimOK, SimSend
  PROVE  SimOK'
<1> DEFINE x == Head(inQ["ser"])
<1>1. /\ "ser" \in Threads /\ DOMAIN pc = Threads /\ "ser" \in Devices
      /\ pc["ser"] = "pop" /\ pc'["ser"] = "receive"
  BY DEF IInv, PlacesOK, Threads, Devices, SimSend, Goto
<1>2. ~NonEmpty(lastMessage) /\ ~Pending
  BY <1>1 DEF SimOK, Pending
<1>3. Answerable = Only(sent, KnownOnes) /\ sent \in Seq(Message)
  BY <1>2, AnswerableIs
<1>4. typed' = typed /\ fcie' = fcie /\ received' = received
  BY DEF SimSend
<1>5. {m \in Message : Known(m)}' = KnownOnes /\ {m \in Message : Counted(m)}' = CountedOnes
  BY <1>4 DEF KnownOnes, CountedOnes, Known, Counted
<1>6. Answerable' = Answerable /\ (Pending' => \E s \in Seq(Message) : sent' = Append(s, lastMessage'))
  <2>1. CASE NonEmpty(x)
    <3>1. lastMessage' = x /\ sent' = Append(sent, x)
      BY <2>1 DEF SimSend
    <3>2. Pending'
      BY <1>1, <2>1, <3>1 DEF Pending, NonEmpty
    <3>3. x \in Message
      BY DEF IInv, QueuesOK, SimSend, Dequeue
    <3> HIDE DEF x
    <3>4. SubSeq(sent', 1, Len(sent') - 1) = sent
      BY <1>3, <3>1, <3>3
    <3>5. Answerable' = Only(sent, KnownOnes)
      BY <1>5, <3>2, <3>4 DEF Answerable, Pending
    <3> QED
      BY <1>3, <3>1, <3>5
  <2>2. CASE ~NonEmpty(x)
    <3>1. UNCHANGED <<lastMessage, sent>>
      BY <2>2 DEF SimSend
    <3>2. ~Pending'
      BY <1>2, <3>1 DEF Pending, NonEmpty
    <3>3. Answerable' = Only(sent, KnownOnes)
      BY <1>5, <3>1, <3>2 DEF Answerable, Pending
    <3> QED
      BY <1>3, <3>2, <3>3
  <2> QED
    BY <2>1, <2>2
<1>7. \A s : CountsFor(s)' = CountsFor(s)
  BY <1>5 DEF CountsFor, CountedOnes
<1>8. \A m, c : Response(m, c)' = Response(m, c)
  BY <1>4 DEF Response, Counted, Known
<1>9. SimulatorAnswers'
  BY <1>4, <1>6, <1>7, <1>8 DEF SimOK, SimulatorAnswers
<1> QED
  BY <1>1, <1>4, <1>6, <1>7, <1>9 DEF SimOK

(* receive(): the pending command is answered with the counter's next value, *)
(* if it is known, and counted.                                              *)
LEMMA CommandAnswered ==
  ASSUME SIM, IInv, IInv', SimOK, SimReceive
  PROVE  SimOK'
<1>1. /\ "ser" \in Threads /\ DOMAIN pc = Threads
      /\ pc["ser"] = "receive" /\ pc'["ser"] = "test"
  BY DEF IInv, PlacesOK, Threads, SimReceive, Goto
<1>2. /\ ~NonEmpty(lastMessage)' /\ ~Pending'
      /\ UNCHANGED <<typed, sent>>
  <2>1. lastMessage' = [lastMessage EXCEPT !.front = "none", !.body = <<>>]
    BY DEF SimReceive
  <2>2. lastMessage \in Message
    BY DEF IInv, SerOK, Filled
  <2>3. lastMessage'.front = "none"
    BY <2>1, <2>2 DEF Message
  <2> QED
    BY <1>1, <2>3 DEF NonEmpty, Pending, SimReceive
<1>3. {m \in Message : Known(m)}' = KnownOnes /\ {m \in Message : Counted(m)}' = CountedOnes
  BY <1>2 DEF KnownOnes, CountedOnes, Known, Counted
<1>4. Answerable' = Only(sent, KnownOnes)
  BY <1>2, <1>3 DEF Answerable, Pending
<1>5. \A s : CountsFor(s)' = CountsFor(s)
  BY <1>3 DEF CountsFor, CountedOnes
<1>6. \A m, c : Response(m, c)' = Response(m, c)
  BY <1>2 DEF Response, Counted, Known
<1>7. sent \in Seq(Message) /\ received \in Seq(Message) /\ lastMessage \in Message
  BY AnswerableIs DEF IInv, SerOK, Filled
<1>8. CASE ~Known(lastMessage)
  <2>1. UNCHANGED <<received, fcie>>
    BY <1>8 DEF SimReceive, Receive
  <2>2. Answerable' = Answerable
    <3>1. CASE Pending
      <4>1. PICK s \in Seq(Message) : sent = Append(s, lastMessage)
        BY <3>1 DEF SimOK
      <4>2. Answerable = Only(s, KnownOnes)
        BY <3>1, <4>1, AnswerableIs
      <4>3. lastMessage \notin KnownOnes
        BY <1>8 DEF KnownOnes
      <4>4. Only(Append(s, lastMessage), KnownOnes) = Only(s, KnownOnes)
        BY <1>7, <4>3, OnlyAppend
      <4> QED
        BY <1>4, <4>1, <4>2, <4>4
    <3>2. CASE ~Pending
      BY <1>4, <3>2, AnswerableIs
    <3> QED
      BY <3>1, <3>2
  <2>3. SimulatorAnswers'
    BY <1>5, <1>6, <2>1, <2>2 DEF SimOK, SimulatorAnswers
  <2> QED
    BY <1>1, <1>2, <1>5, <2>1, <2>2, <2>3 DEF SimOK
<1>9. CASE Known(lastMessage)
  <2>1. Pending
    BY <1>1, <1>9 DEF Pending, NonEmpty, Known
  <2>2. PICK s \in Seq(Message) : sent = Append(s, lastMessage)
    BY <2>1 DEF SimOK
  <2> DEFINE a == Only(s, KnownOnes)
             x == lastMessage
             next == IF Counted(x) THEN (fcie + 1) % FcieModulus ELSE fcie
  <2>3. Answerable = a /\ a \in Seq(Message)
    BY <2>1, <2>2, AnswerableIs, OnlySeq
  <2>4. Answerable' = Append(a, x)
    <3>1. x \in KnownOnes
      BY <1>7, <1>9 DEF KnownOnes
    <3>2. Only(Append(s, x), KnownOnes) = Append(Only(s, KnownOnes), x)
      BY <1>7, <3>1, OnlyAppend
    <3> QED
      BY <1>4, <2>2, <3>2
  <2>5. fcie' = next /\ received' = Append(received, Response(x, next))
    BY <1>9 DEF SimReceive, Receive
  <2>6. x \in Message /\ InitialFcie \in Nat /\ FcieModulus \in Nat \ {0}
    BY <1>7, FcieAssumption DEF InitialFcie
  <2> HIDE DEF a
  <2>7. fcie = (InitialFcie + CountsFor(a)) % FcieModulus
    BY <2>3 DEF SimOK
  <2>8. next = (InitialFcie + CountsFor(Append(a, x))) % FcieModulus
    <3> DEFINE c == CountsFor(a)
               d == CountsFor(Append(a, x))
               b == InitialFcie + c
    <3> SUFFICES next = (InitialFcie + d) % FcieModulus
      OBVIOUS
    <3>1. /\ c \in Nat
          /\ Counted(x) => d = c + 1
          /\ ~Counted(x) => d = c
      BY <2>3, <2>6, CountsGrow
    <3>2. fcie = (InitialFcie + c) % FcieModulus
      BY <2>7
    <3> HIDE DEF c, d
    <3>3. b \in Nat /\ InitialFcie + (c + 1) = b + 1 /\ fcie = b % FcieModulus
      BY <2>6, <3>1, <3>2
    <3> HIDE DEF b
    <3>4. CASE Counted(x)
      <4>1. ((b % FcieModulus) + 1) % FcieModulus = (b + 1) % FcieModulus
        BY <2>6, <3>3, CountOn
      <4>2. next = ((b % FcieModulus) + 1) % FcieModulus
        BY <3>3, <3>4
      <4>3. InitialFcie + d = b + 1
        BY <3>1, <3>3, <3>4
      <4> QED
        BY <4>1, <4>2, <4>3
    <3>5. CASE ~Counted(x)
      BY <3>1, <3>2, <3>5
    <3> QED
      BY <3>4, <3>5
  <2>9. received = AnswersTo(a)
    BY <2>3 DEF SimOK, SimulatorAnswers, AnswersTo
  <2> HIDE DEF next
  <2>10. Response(x, next) \in Message
    <3>1. next \in Nat
      BY <2>5 DEF IInv, SerOK
    <3> QED
      BY <1>9, <3>1, ResponseMay DEF IInv
  <2>11. received' = AnswersTo(Append(a, x))
    BY <1>7, <2>3, <2>5, <2>6, <2>8, <2>9, <2>10, AnswersGrow
  <2>12. SimulatorAnswers'
    BY <1>2, <1>5, <1>6, <2>4, <2>11 DEF SimulatorAnswers, AnswersTo
  <2> QED
    BY <1>1, <1>2, <1>5, <2>4, <2>5, <2>8, <2>12 DEF SimOK
<1> QED
  BY <1>8, <1>9

(* The rest of the program. *)
LEMMA BystandersRest ==
  ASSUME SIM, IInv, Phases, Main \/ (Others /\ ~SerThread)
  PROVE  /\ UNCHANGED <<typed, lastMessage, fcie, received, sent>>
         /\ pc'["ser"] = "receive" <=> pc["ser"] = "receive"
<1>0. DOMAIN pc = Threads /\ "ser" \in Threads /\ pc["ser"] \in Places("ser")
  BY MainTypes DEF IInv, PlacesOK, Devices
<1>a. pc["ser"] # "poll"
  BY <1>0 DEF Places
<1> USE DEF serVars, serialVars, simVars
<1>1. CASE RouterThread
  BY <1>0, <1>1 DEF RouterThread, RouterStep, RouterPop, RouterRule, RouterNextMessage,
                    TestHold, Goto
<1>2. CASE ConsoleThread
  BY <1>0, <1>2 DEF ConsoleThread, ConsoleStep, ConsoleTestHold, ConsoleTestMore,
                    ConsolePrint, Goto
<1>3. CASE TunThread
  BY <1>0, <1>3 DEF TunThread, TunStep, TunWrite, TestHold, Goto
<1>4. CASE TunReadThread
  BY <1>0, <1>4 DEF TunReadThread, TunReadStep, TunReadTest, TunRead, TunTimeout, Goto
<1>5. CASE CaptureThread
  BY <1>0, <1>5 DEF CaptureThread, CaptureStep, CaptureWrite, CaptureCrash, TestHold, Goto
<1>6. CASE Answer \/ RadioFrame \/ Packet \/ PortFails \/ InterfaceFails
  BY <1>0, <1>6 DEF Answer, RadioFrame, Packet, PortFails, InterfaceFails, TunSelectFails,
                    TunReadFails, Goto
<1>7. CASE StartDevices
  <2>1. pc["ser"] = "none"
    <3>1. "ser" \in Running \ {"con"}
      BY DEF Running, ShutdownOrder
    <3>2. Owner("ser") = "holding"
      BY <1>7, <3>1, OwnersFollow DEF StartDevices, Phases, OwnersKnown, OwnerTable
    <3> QED
      BY <3>1, <3>2 DEF Phases, DevicePhase
  <2> QED
    BY <1>0, <1>7, <2>1 DEF StartDevices
<1>8. CASE Lifecycle /\ ~StartDevices
  BY <1>0, <1>8 DEF Lifecycle, HoldDevices, HoldRouter, StartRouter, HoldConsole,
                    BeginShutdown, ReleaseFlag, ReleaseSentinel, JoinThread, Goto
<1>9. CASE Serve
  BY <1>0, <1>9 DEF Serve, Accept, Parse, ParseOneOf, ParseLine, Reject, busVars, EndSession,
                    EndSessionBy, NewLine, ConsolePush, Send, Help, Command, Data, CaptureFile, Goto
<1> QED
  BY <1>1, <1>2, <1>3, <1>4, <1>5, <1>6, <1>7, <1>8, <1>9 DEF Main, Others

(* No step answers a command twice, or out of its turn. *)
LEMMA AnswersStep == ASSUME SIM, IInv, IInv', Phases, SimOK, [Next]_vars PROVE SimOK'
<1>0. DOMAIN pc = Threads /\ "ser" \in Threads
  BY MainTypes DEF IInv, PlacesOK, Devices
<1>1. CASE TestHold("ser") /\ UNCHANGED <<simVars, received, sent>>
  <2>1. pc'["ser"] = "receive" <=> pc["ser"] = "receive"
    BY <1>0, <1>1 DEF TestHold, Goto
  <2> QED
    BY <1>1, <2>1, SimulatorRests DEF simVars
<1>2. CASE SimSend \/ SimReceive
  BY <1>2, CommandTaken, CommandAnswered
<1>3. CASE Main \/ (Others /\ ~SerThread)
  BY <1>3, BystandersRest, SimulatorRests
<1>4. CASE UNCHANGED vars
  BY <1>4, SimulatorRests DEF vars, busVars, serVars, serialVars, simVars
<1> QED
  BY <1>1, <1>2, <1>3, <1>4 DEF Next, Finished, Others, SerThread, SimulatorStep

(* Simulator::receive() answers each command it knows once and in order,     *)
(* each count for one answer, around every shutdown and whatever the other   *)
(* threads do.                                                               *)
THEOREM CommandsAnswered == ASSUME SIM PROVE Spec => []SimulatorAnswers
<1>1. Init => SimOK
  <2> SUFFICES ASSUME Init PROVE SimOK
    OBVIOUS
  <2>1. /\ pc["ser"] = "none" /\ sent = <<>> /\ received = <<>>
        /\ fcie = InitialFcie /\ ~NonEmpty(lastMessage)
    BY DEF Init, SerialInit, SimInit, Threads, Empty, NonEmpty
  <2>2. Answerable = <<>>
    BY <2>1, OnlyEmpty DEF Answerable
  <2>3. CountsFor(<<>>) = 0
    BY OnlyEmpty DEF CountsFor
  <2>4. SimulatorAnswers
    BY <2>1, <2>2 DEF SimulatorAnswers
  <2>5. fcie = (InitialFcie + 0) % FcieModulus
    <3>1. InitialFcie \in 0..(FcieModulus - 1)
      BY FcieAssumption DEF InitialFcie
    <3> HIDE DEF InitialFcie
    <3>2. (FcieModulus * 0 + InitialFcie) % FcieModulus = InitialFcie
      BY <3>1, FcieAssumption, Remainder
    <3> QED
      BY <2>1, <3>1, <3>2, FcieAssumption
  <2> QED
    BY <2>1, <2>2, <2>3, <2>4, <2>5 DEF SimOK, Pending
<1>2. IInv /\ IInv' /\ Phases /\ SimOK /\ [Next]_vars => SimOK'
  BY AnswersStep
<1>3. SimOK => SimulatorAnswers
  BY DEF SimOK
<1> QED
  BY <1>1, <1>2, <1>3, Inductive, PhasesInductive, PTL DEF Spec

-----------------------------------------------------------------------------
(* The capture file: an enhanced packet block is well-formed for a packet of *)
(* any length, and the file can be read back, whatever was captured.         *)

(* The padding is what is missing to a multiple of four.                     *)
LEMMA Padding ==
  ASSUME NEW n \in Nat
  PROVE  padsize(n) \in 0..3 /\ (n + padsize(n)) % 4 = 0
BY DEF padsize

(* Concatenation, in the form in which it is used here. *)
LEMMA CatLength ==
  ASSUME NEW s \in Seq(Int), NEW t \in Seq(Int)
  PROVE  s \o t \in Seq(Int) /\ Len(s \o t) = Len(s) + Len(t)
BY ConcatProperties

LEMMA CatLeft ==
  ASSUME NEW s \in Seq(Int), NEW t \in Seq(Int), NEW i \in Nat, 1 <= i, i <= Len(s)
  PROVE  (s \o t)[i] = s[i]
<1>1. Len(s) \in Nat /\ Len(t) \in Nat
  OBVIOUS
<1>2. i \in 1..(Len(s) + Len(t)) /\ i <= Len(s)
  BY <1>1
<1>. QED
  BY <1>2, ConcatProperties

LEMMA FillLength ==
  ASSUME NEW n \in Nat
  PROVE  Fill(n) \in Seq(Int) /\ Len(Fill(n)) = n
BY DEF Fill, Filler

LEMMA Uint32Length ==
  ASSUME NEW v \in Int
  PROVE  uint32(v) \in Seq(Int) /\ Len(uint32(v)) = 4 /\ uint32(v)[1] = v
<1>. DEFINE a == <<v>>
            b == Fill(3)
<1>1. b \in Seq(Int) /\ Len(b) = 3
  BY FillLength
<1>2. a \in Seq(Int) /\ Len(a) = 1 /\ a[1] = v
  OBVIOUS
<1>3. uint32(v) = a \o b
  BY DEF uint32
<1>. HIDE DEF a, b
<1>4. a \o b \in Seq(Int) /\ Len(a \o b) = Len(a) + Len(b)
  BY <1>1, <1>2, CatLength
<1>5. 1 \in Nat /\ 1 <= 1 /\ 1 <= Len(a)
  BY <1>2
<1>6. (a \o b)[1] = a[1]
  BY <1>1, <1>2, <1>5, CatLeft
<1>7. Len(a) + Len(b) = 4
  BY <1>1, <1>2
<1>. QED
  BY <1>2, <1>3, <1>4, <1>6, <1>7

-----------------------------------------------------------------------------
(* The contents of files, under a name of their own for the prover. *)
Words == Seq(Int)

(* Where the bytes of two of them are when they are put together. *)
LEMMA CatWords ==
  ASSUME NEW s \in Words, NEW t \in Words
  PROVE  /\ Cat(s, t) \in Words /\ Len(s) \in Nat /\ Len(t) \in Nat
         /\ Len(Cat(s, t)) = Len(s) + Len(t)
         /\ \A i \in 1..Len(s) : Cat(s, t)[i] = s[i]
         /\ \A i \in 1..Len(t) : Cat(s, t)[Len(s) + i] = t[i]
<1> DEFINE u == s \o t
<1>1. /\ u \in Words /\ Len(u) = Len(s) + Len(t) /\ Len(s) \in Nat /\ Len(t) \in Nat
      /\ \A i \in 1..(Len(s) + Len(t)) : u[i] = IF i <= Len(s) THEN s[i] ELSE t[i - Len(s)]
  BY ConcatProperties DEF Words
<1> HIDE DEF u
<1>2. \A i \in 1..Len(s) : u[i] = s[i]
  BY <1>1
<1>3. ASSUME NEW i \in 1..Len(t) PROVE u[Len(s) + i] = t[i]
  <2>1. Len(s) + i \in 1..(Len(s) + Len(t)) /\ ~(Len(s) + i <= Len(s)) /\ (Len(s) + i) - Len(s) = i
    BY <1>1
  <2> QED
    BY <1>1, <2>1
<1> QED
  BY <1>1, <1>2, <1>3 DEF u, Cat

(* The bytes of a block. *)
LEMMA BlockIs ==
  ASSUME NEW type \in Int, NEW len \in Int, NEW rest \in Words
  PROVE  /\ Block(type, len, rest) \in Words
         /\ Len(Block(type, len, rest)) = Len(rest) + 12
         /\ Block(type, len, rest)[1] = type
         /\ Block(type, len, rest)[5] = len
         /\ Block(type, len, rest)[Len(rest) + 9] = len
         /\ \A i \in 1..Len(rest) : Block(type, len, rest)[8 + i] = rest[i]
<1> DEFINE a == uint32(type)
           b == uint32(len)
           head == Cat(a, b)
           front == Cat(head, rest)
           block == Cat(front, b)
           n == Len(rest)
<1>1. Block(type, len, rest) = block
  BY DEF Block, Cat
<1>2. a \in Words /\ Len(a) = 4 /\ a[1] = type /\ b \in Words /\ Len(b) = 4 /\ b[1] = len /\ n \in Nat
  BY Uint32Length DEF Words
<1> HIDE DEF a, b
<1>3. /\ head \in Words /\ Len(head) = Len(a) + Len(b)
      /\ \A i \in 1..Len(a) : head[i] = a[i]
      /\ \A i \in 1..Len(b) : head[Len(a) + i] = b[i]
  BY <1>2, CatWords
<1> HIDE DEF head
<1>4. Len(head) = 8 /\ head[1] = type /\ head[5] = len
  BY <1>2, <1>3
<1>5. /\ front \in Words /\ Len(front) = Len(head) + n
      /\ \A i \in 1..Len(head) : front[i] = head[i]
      /\ \A i \in 1..n : front[Len(head) + i] = rest[i]
  BY <1>3, CatWords
<1> HIDE DEF front
<1>6. /\ block \in Words /\ Len(block) = Len(front) + Len(b)
      /\ \A i \in 1..Len(front) : block[i] = front[i]
      /\ \A i \in 1..Len(b) : block[Len(front) + i] = b[i]
  BY <1>2, <1>5, CatWords
<1> HIDE DEF block
<1>7. Len(block) = n + 12 /\ block[1] = type /\ block[5] = len
  BY <1>2, <1>4, <1>5, <1>6
<1>8. block[n + 9] = len
  <2>1. Len(front) + 1 = n + 9 /\ 1 \in 1..Len(b)
    BY <1>2, <1>4, <1>5
  <2>2. block[Len(front) + 1] = b[1]
    BY <1>6, <2>1
  <2> QED
    BY <1>2, <2>1, <2>2
<1>9. ASSUME NEW i \in 1..n PROVE block[8 + i] = rest[i]
  <2> DEFINE j == 8 + i
  <2>1. j \in 1..Len(front)
    BY <1>2, <1>4, <1>5
  <2>2. front[Len(head) + i] = rest[i]
    BY <1>5
  <2>3. front[j] = rest[i]
    BY <1>4, <2>2
  <2> HIDE DEF j
  <2>4. block[j] = front[j]
    BY <1>6, <2>1
  <2> QED
    BY <2>3, <2>4 DEF j
<1> QED
  BY <1>1, <1>6, <1>7, <1>8, <1>9

(* The bytes of a packet's block. *)
LEMMA ContentsIs ==
  ASSUME NEW pkt \in Words
  PROVE  /\ Contents(pkt) \in Words
         /\ Len(Contents(pkt)) = 20 + (Len(pkt) + padsize(Len(pkt)))
         /\ Contents(pkt)[13] = Len(pkt)
         /\ \A i \in 1..Len(pkt) : Contents(pkt)[20 + i] = pkt[i]
<1> DEFINE n == Len(pkt)
           pad == padsize(n)
           a == Fill(12)
           b == uint32(n)
           e == Fill(pad)
           two == Cat(a, b)
           three == Cat(two, b)
           four == Cat(three, pkt)
           five == Cat(four, e)
<1>1. n \in Nat
  BY DEF Words
<1>2. pad \in Nat
  <2>1. pad \in 0..3
    BY <1>1, Padding
  <2> HIDE DEF pad
  <2> QED
    BY <2>1
<1>3. a \in Words /\ Len(a) = 12
  BY FillLength DEF Words
<1>4. b \in Words /\ Len(b) = 4 /\ b[1] = n
  BY <1>1, Uint32Length DEF Words
<1>5. e \in Words /\ Len(e) = pad
  BY <1>2, FillLength DEF Words
<1>6. Contents(pkt) = five
  BY DEF Contents, Cat
<1> HIDE DEF a, b, e, pad
<1>7. /\ two \in Words /\ Len(two) = Len(a) + Len(b)
      /\ \A i \in 1..Len(b) : two[Len(a) + i] = b[i]
  BY <1>3, <1>4, CatWords
<1> HIDE DEF two
<1>8. Len(two) = 16 /\ two[13] = n
  <2>1. 1 \in 1..Len(b) /\ Len(a) + 1 = 13
    BY <1>3, <1>4
  <2>2. two[Len(a) + 1] = b[1]
    BY <1>7, <2>1
  <2> QED
    BY <1>3, <1>4, <1>7, <2>1, <2>2
<1>9. /\ three \in Words /\ Len(three) = Len(two) + Len(b)
      /\ \A i \in 1..Len(two) : three[i] = two[i]
  BY <1>4, <1>7, CatWords
<1> HIDE DEF three
<1>10. Len(three) = 20 /\ three[13] = n
  BY <1>4, <1>8, <1>9
<1>11. /\ four \in Words /\ Len(four) = Len(three) + n
       /\ \A i \in 1..Len(three) : four[i] = three[i]
       /\ \A i \in 1..n : four[Len(three) + i] = pkt[i]
  BY <1>9, CatWords
<1> HIDE DEF four
<1>12. Len(four) = 20 + n /\ four[13] = n /\ \A i \in 1..n : four[20 + i] = pkt[i]
  BY <1>10, <1>11
<1>13. /\ five \in Words /\ Len(five) = Len(four) + Len(e)
       /\ \A i \in 1..Len(four) : five[i] = four[i]
  BY <1>5, <1>11, CatWords
<1> HIDE DEF five
<1> HIDE DEF n
<1>14. Len(five) = 20 + (n + pad) /\ five[13] = n
  BY <1>1, <1>2, <1>5, <1>12, <1>13
<1>15. ASSUME NEW i \in 1..n PROVE five[20 + i] = pkt[i]
  <2> DEFINE j == 20 + i
  <2>1. j \in 1..Len(four) /\ four[j] = pkt[i]
    BY <1>1, <1>12
  <2> HIDE DEF j
  <2>2. five[j] = four[j]
    BY <1>13, <2>1
  <2> QED
    BY <2>1, <2>2 DEF j
<1> QED
  BY <1>6, <1>13, <1>14, <1>15 DEF n, pad

(* The length that EPB::write() puts into a block, at its begin and at its   *)
(* end, is the number of bytes it writes, and a multiple of four.            *)
THEOREM BlockLength ==
  ASSUME NEW pkt \in Words
  PROVE  /\ Len(EPB(pkt)) = EPBLen(Len(pkt))
         /\ EPBLen(Len(pkt)) % 4 = 0
         /\ EPB(pkt)[5] = EPBLen(Len(pkt))
         /\ EPB(pkt)[EPBLen(Len(pkt)) - 3] = EPBLen(Len(pkt))
<1> DEFINE n == Len(pkt)
            pad == padsize(n)
            len == EPBLen(n)
            rest == Contents(pkt)
<1>1. n \in Nat
  BY DEF Words
<1>2. pad \in Nat /\ (n + pad) % 4 = 0
  <2>1. pad \in 0..3 /\ (n + pad) % 4 = 0
    BY <1>1, Padding
  <2> HIDE DEF pad, n
  <2> QED
    BY <2>1
<1>3. len = 32 + (n + pad)
  <2> HIDE DEF pad
  <2>1. len = 28 + 4 + n + pad
    BY DEF EPBLen, EPBSize, LenSize, pad
  <2> QED
    BY <1>1, <1>2, <2>1
<1>4. len \in Int /\ len % 4 = 0
  <2> HIDE DEF pad, n, len
  <2>1. \A k \in Nat : k % 4 = 0 => (32 + k) % 4 = 0
    OBVIOUS
  <2>2. n + pad \in Nat
    BY <1>1, <1>2
  <2> QED
    BY <1>2, <1>3, <2>1, <2>2
<1>5. rest \in Words /\ Len(rest) = 20 + (n + pad)
  BY ContentsIs
<1>6. EPB(pkt) = Block(EPBType, len, rest)
  BY DEF EPB
<1> HIDE DEF n, pad, len, rest
<1>7. /\ Len(Block(EPBType, len, rest)) = Len(rest) + 12
      /\ Block(EPBType, len, rest)[5] = len
      /\ Block(EPBType, len, rest)[Len(rest) + 9] = len
  <2>1. EPBType \in Int
    BY DEF EPBType
  <2> QED
    BY <1>4, <1>5, <2>1, BlockIs
<1>8. Len(rest) + 12 = len /\ Len(rest) + 9 = len - 3
  BY <1>1, <1>2, <1>3, <1>5
<1>9. /\ Len(EPB(pkt)) = len
      /\ EPB(pkt)[5] = len
      /\ EPB(pkt)[len - 3] = len
  BY <1>6, <1>7, <1>8
<1> QED
  BY <1>4, <1>9 DEF len, n

-----------------------------------------------------------------------------
(* What a reader makes of the bytes at o, when it has read what follows. *)
ReadAt(file, o, f) ==
  IF o = Len(file) + 1 THEN <<>>
  ELSE IF ~WellFormedAt(file, o) THEN << <<-1>> >>
  ELSE (IF file[o] # EPBType THEN <<>>
        ELSE << SubSeq(file, o + EPBSize, o + EPBSize + file[o + 20] - 1) >>)
       \o f[o + LengthAt(file, o)]

(* The table of what it has read from each place on. *)
Reads(f, file) == f = [o \in 1..(Len(file) + 1) |-> ReadAt(file, o, f)]

(* A well-formed block is followed by a later place in the file. *)
LEMMA NextPlace ==
  ASSUME NEW file \in Words, NEW o \in 1..(Len(file) + 1), WellFormedAt(file, o)
  PROVE  o + LengthAt(file, o) \in (o + 1)..(Len(file) + 1)
<1> DEFINE len == LengthAt(file, o)
<1>1. len \in Int /\ Len(file) \in Nat
  BY DEF LengthAt, Words
<1>2. len >= 12 /\ o + len - 1 <= Len(file)
  BY DEF WellFormedAt
<1> HIDE DEF len
<1> QED
  BY <1>1, <1>2 DEF len

(* The table exists. *)
LEMMA ReadsExists ==
  ASSUME NEW file \in Words
  PROVE  \E f : Reads(f, file)
<1> DEFINE N == Len(file) + 1
           Part(f, n) == f = [o \in n..N |-> ReadAt(file, o, f)]
           G == {k \in Nat : k < N => \E f : Part(f, N - k)}
<1>1. N \in Nat /\ N >= 1
  BY DEF Words
<1>2. 0 \in G
  <2> DEFINE f == [o \in N..N |-> <<>>]
  <2>1. \A o \in N..N : o = Len(file) + 1
    BY <1>1
  <2>2. \A o \in N..N : ReadAt(file, o, f) = <<>>
    BY <2>1 DEF ReadAt
  <2>3. Part(f, N)
    BY <2>2
  <2>4. N - 0 = N
    BY <1>1
  <2> HIDE DEF N, Part, f
  <2> QED
    BY <2>3, <2>4
<1>3. ASSUME NEW k \in Nat, k \in G PROVE k + 1 \in G
  <2> SUFFICES ASSUME k + 1 < N PROVE \E f : Part(f, N - (k + 1))
    OBVIOUS
  <2> DEFINE n == N - k
             m == N - (k + 1)
  <2>1. n \in Nat /\ m \in Nat /\ n = m + 1 /\ m >= 1 /\ n <= N /\ k < N
    BY <1>1
  <2>2. PICK f : Part(f, n)
    BY <1>3, <2>1
  <2> DEFINE g == [o \in m..N |-> IF o = m THEN ReadAt(file, m, f) ELSE f[o]]
  <2> HIDE DEF n, m, G
  <2>3. \A o \in n..N : g[o] = f[o] /\ f[o] = ReadAt(file, o, f)
    <3>1. \A o \in n..N : g[o] = f[o]
      BY <1>1, <2>1
    <3>2. f = [o \in n..N |-> ReadAt(file, o, f)]
      BY <2>2
    <3>3. \A o \in n..N : [p \in n..N |-> ReadAt(file, p, f)][o] = ReadAt(file, o, f)
      OBVIOUS
    <3> HIDE DEF g
    <3> QED
      BY <3>1, <3>2, <3>3
  <2>4. \A o \in m..N : ReadAt(file, o, g) = ReadAt(file, o, f)
    <3> SUFFICES ASSUME NEW o \in m..N PROVE ReadAt(file, o, g) = ReadAt(file, o, f)
      OBVIOUS
    <3>1. ASSUME WellFormedAt(file, o)
          PROVE  g[o + LengthAt(file, o)] = f[o + LengthAt(file, o)]
      <4>1. o \in 1..(Len(file) + 1)
        BY <1>1, <2>1
      <4>2. o + LengthAt(file, o) \in (o + 1)..N
        BY <3>1, <4>1, NextPlace
      <4> HIDE DEF g
      <4>3. o + LengthAt(file, o) \in n..N
        BY <1>1, <2>1, <4>1, <4>2
      <4> QED
        BY <2>3, <4>3
    <3> HIDE DEF g
    <3> QED
      BY <3>1 DEF ReadAt
  <2>5. \A o \in m..N : g[o] = ReadAt(file, o, f)
    <3>1. \A o \in m..N : o = m \/ o \in n..N
      BY <1>1, <2>1
    <3>2. g[m] = ReadAt(file, m, f)
      BY <1>1, <2>1
    <3> HIDE DEF g
    <3> QED
      BY <2>3, <3>1, <3>2
  <2>6. g = [o \in m..N |-> g[o]]
    OBVIOUS
  <2> HIDE DEF g
  <2>7. Part(g, m)
    BY <2>4, <2>5, <2>6
  <2> QED
    BY <2>7 DEF m
<1>4. N - 1 \in G
  <2> HIDE DEF G
  <2>1. Nat \subseteq G
    BY <1>2, <1>3, NumberInduction
  <2> QED
    BY <1>1, <2>1
<1>5. N - 1 < N /\ N - (N - 1) = 1
  BY <1>1
<1>6. \E f : Part(f, 1)
  BY <1>4, <1>5
<1> QED
  BY <1>6 DEF Reads

(* PacketsOf() is its first entry. *)
LEMMA PacketsOfIs ==
  ASSUME NEW file \in Words
  PROVE  \E f : /\ PacketsOf(file) = f[1]
                /\ \A o \in 1..(Len(file) + 1) : f[o] = ReadAt(file, o, f)
<1> DEFINE f == CHOOSE g : Reads(g, file)
<1>1. Reads(f, file)
  BY ReadsExists
<1>2. PacketsOf(file) = f[1]
  BY DEF PacketsOf, Reads, ReadAt
<1> HIDE DEF f
<1>3. f = [o \in 1..(Len(file) + 1) |-> ReadAt(file, o, f)]
  BY <1>1 DEF Reads
<1>4. \A o \in 1..(Len(file) + 1) :
        [p \in 1..(Len(file) + 1) |-> ReadAt(file, p, f)][o] = ReadAt(file, o, f)
  OBVIOUS
<1>5. \A o \in 1..(Len(file) + 1) : f[o] = ReadAt(file, o, f)
  BY <1>3, <1>4
<1> QED
  BY <1>2, <1>5

-----------------------------------------------------------------------------
(* Three parts of a file. *)
LEMMA WordsCat ==
  ASSUME NEW s \in Words, NEW t \in Words, NEW u \in Words
  PROVE  /\ Cat(Cat(s, t), u) = Cat(s, Cat(t, u))
         /\ Cat(s, None) = s /\ Cat(None, s) = s /\ None \in Words
  BY DEF Words, Cat, None

(* Where the bytes of the one in the middle are. *)
LEMMA InTheMiddle ==
  ASSUME NEW p \in Words, NEW e \in Words, NEW t \in Words
  PROVE  /\ Cat(p, Cat(e, t)) \in Words
         /\ Len(Cat(p, Cat(e, t))) = Len(p) + Len(e) + Len(t)
         /\ Len(p) \in Nat /\ Len(e) \in Nat /\ Len(t) \in Nat
         /\ \A i \in 1..Len(e) : Cat(p, Cat(e, t))[Len(p) + i] = e[i]
<1> DEFINE u == Cat(e, t)
           file == Cat(p, u)
<1>1. /\ u \in Words /\ Len(e) \in Nat /\ Len(t) \in Nat /\ Len(u) = Len(e) + Len(t)
      /\ \A i \in 1..Len(e) : u[i] = e[i]
  BY CatWords
<1> HIDE DEF u
<1>2. /\ file \in Words /\ Len(p) \in Nat /\ Len(file) = Len(p) + Len(u)
      /\ \A i \in 1..Len(u) : file[Len(p) + i] = u[i]
  BY <1>1, CatWords
<1> HIDE DEF file
<1>3. \A i \in 1..Len(e) : i \in 1..Len(u)
  BY <1>1
<1>4. \A i \in 1..Len(e) : file[Len(p) + i] = e[i]
  BY <1>1, <1>2, <1>3
<1>5. Len(file) = Len(p) + Len(e) + Len(t)
  BY <1>1, <1>2
<1> QED
  BY <1>1, <1>2, <1>4, <1>5 DEF file, u

(* The table of a reader of this file. *)
Table(f, file) == \A o \in 1..(Len(file) + 1) : f[o] = ReadAt(file, o, f)

(* The outside of a block: its length is at both ends. *)
Framed(e) ==
  /\ Len(e) >= 12 /\ Len(e) % 4 = 0
  /\ e[5] = Len(e) /\ e[Len(e) - 3] = Len(e)

(* The n bytes behind the head of a packet's block at o. *)
PacketAt(file, o, n) == SubSeq(file, o + EPBSize, o + EPBSize + n - 1)

(* What is found in a block at o. *)
Found(file, o, type, n) == IF type # EPBType THEN None ELSE One(PacketAt(file, o, n))

(* It is read as a block, and then the reader is behind it. *)
LEMMA BlockRead ==
  ASSUME NEW p \in Words, NEW e \in Words, NEW t \in Words,
         Framed(e), e[1] = EPBType => Len(e) >= 21,
         NEW f, Table(f, Cat(p, Cat(e, t)))
  PROVE  f[Len(p) + 1] =
           Cat(Found(Cat(p, Cat(e, t)), Len(p) + 1, e[1], e[21]), f[Len(Cat(p, e)) + 1])
<1> DEFINE file == Cat(p, Cat(e, t))
           l == Len(p)
           n == Len(e)
           o == l + 1
<1>1. /\ file \in Words /\ l \in Nat /\ n \in Nat /\ Len(t) \in Nat /\ Len(file) = l + n + Len(t)
      /\ \A i \in 1..n : file[l + i] = e[i]
  BY InTheMiddle
<1>2. Len(Cat(p, e)) = l + n
  BY CatWords
<1>3. n >= 12 /\ n % 4 = 0 /\ e[5] = n /\ e[n - 3] = n
  BY DEF Framed
<1>4. \A k \in 1..(Len(file) + 1) : f[k] = ReadAt(file, k, f)
  BY DEF Table
<1> HIDE DEF file, l, n
<1>5. o \in 1..(Len(file) + 1) /\ o # Len(file) + 1 /\ o + 4 <= Len(file)
  BY <1>1, <1>3
<1>6. file[o] = e[1] /\ file[o + 4] = e[5]
  <2>1. 1 \in 1..n /\ 5 \in 1..n /\ o + 4 = l + 5
    BY <1>1, <1>3
  <2> QED
    BY <1>1, <2>1
<1>7. LengthAt(file, o) = n
  BY <1>3, <1>5, <1>6 DEF LengthAt
<1>8. file[o + n - 4] = n
  <2> DEFINE i == n - 3
  <2>1. i \in 1..n /\ o + n - 4 = l + i
    BY <1>1, <1>3
  <2>2. e[i] = n
    BY <1>3
  <2> HIDE DEF i, o
  <2>3. file[l + i] = e[i]
    BY <1>1, <2>1
  <2> QED
    BY <2>1, <2>2, <2>3
<1>9. WellFormedAt(file, o)
  <2>1. o + n - 1 <= Len(file)
    BY <1>1
  <2> HIDE DEF o
  <2> QED
    BY <1>3, <1>7, <1>8, <2>1 DEF WellFormedAt
<1>10. e[1] = EPBType => file[o + 20] = e[21]
  <2> SUFFICES ASSUME n >= 21 PROVE file[o + 20] = e[21]
    BY DEF n
  <2>1. 21 \in 1..n /\ o + 20 = l + 21
    BY <1>1
  <2> QED
    BY <1>1, <2>1
<1>11. f[o] = ReadAt(file, o, f) /\ o + n = Len(Cat(p, e)) + 1
  BY <1>1, <1>2, <1>4, <1>5
<1>12. ReadAt(file, o, f) = Cat(Found(file, o, file[o], file[o + 20]), f[o + n])
  <2> HIDE DEF o
  <2> QED
    BY <1>5, <1>7, <1>9 DEF ReadAt, PacketAt, Found, Cat, One, None
<1>13. Found(file, o, file[o], file[o + 20]) = Found(file, o, e[1], e[21])
  <2> HIDE DEF o
  <2> QED
    BY <1>6, <1>10 DEF Found
<1> HIDE DEF o
<1>14. f[o] = Cat(Found(file, o, e[1], e[21]), f[Len(Cat(p, e)) + 1])
  BY <1>11, <1>12, <1>13
<1> QED
  BY <1>14 DEF o, l, file

(* A block that is not a packet's is skipped. *)
LEMMA BlockSkipped ==
  ASSUME NEW p \in Words, NEW e \in Words, NEW t \in Words, Framed(e), e[1] # EPBType,
         NEW f, Table(f, Cat(p, Cat(e, t))), f[Len(Cat(p, e)) + 1] \in Seq(Words)
  PROVE  f[Len(p) + 1] = f[Len(Cat(p, e)) + 1]
<1> DEFINE r == f[Len(Cat(p, e)) + 1]
<1>1. f[Len(p) + 1] = Cat(Found(Cat(p, Cat(e, t)), Len(p) + 1, e[1], e[21]), r)
  BY BlockRead
<1>2. Found(Cat(p, Cat(e, t)), Len(p) + 1, e[1], e[21]) = None
  BY DEF Found
<1>3. Cat(None, r) = r
  BY CatNone
<1> QED
  BY <1>1, <1>2, <1>3

(* The bytes of a packet's block. *)
PacketBlock(e, pkt) ==
  /\ Framed(e) /\ e[1] = EPBType
  /\ Len(e) >= 32 + Len(pkt)
  /\ e[21] = Len(pkt)
  /\ \A i \in 1..Len(pkt) : e[28 + i] = pkt[i]

(* EPB::write() makes them. *)
LEMMA PacketBlockIs ==
  ASSUME NEW pkt \in Words
  PROVE  EPB(pkt) \in Words /\ PacketBlock(EPB(pkt), pkt)
<1> DEFINE e == EPB(pkt)
           n == Len(pkt)
           pad == padsize(n)
           len == EPBLen(n)
           rest == Contents(pkt)
<1>1. n \in Nat
  BY DEF Words
<1>2. pad \in Nat
  <2>1. pad \in 0..3
    BY <1>1, Padding
  <2> HIDE DEF pad
  <2> QED
    BY <2>1
<1>3. Len(e) = len /\ len % 4 = 0 /\ e[5] = len /\ e[len - 3] = len
  BY BlockLength
<1>4. /\ rest \in Words /\ Len(rest) = 20 + (n + pad)
      /\ rest[13] = n
      /\ \A i \in 1..n : rest[20 + i] = pkt[i]
  BY ContentsIs
<1>5. e = Block(EPBType, len, rest)
  BY DEF EPB
<1>6. len \in Int /\ len >= 32 + n
  <2> HIDE DEF pad, n
  <2>1. len = 28 + 4 + n + pad
    BY DEF EPBLen, EPBSize, LenSize, pad
  <2> QED
    BY <1>1, <1>2, <2>1
<1> HIDE DEF n, pad, len, rest, e
<1>7. /\ e \in Words /\ e[1] = EPBType
      /\ \A i \in 1..Len(rest) : e[8 + i] = rest[i]
  <2>1. EPBType \in Int
    BY DEF EPBType
  <2> QED
    BY <1>4, <1>5, <1>6, <2>1, BlockIs
<1>8. Framed(e)
  <2>1. Len(e) >= 12
    BY <1>1, <1>3, <1>6
  <2> QED
    BY <1>3, <2>1 DEF Framed
<1>9. e[21] = n /\ \A i \in 1..n : e[28 + i] = pkt[i]
  <2>1. 13 \in 1..Len(rest) /\ 8 + 13 = 21
    BY <1>1, <1>2, <1>4
  <2>2. e[8 + 13] = rest[13]
    BY <1>7, <2>1
  <2>3. ASSUME NEW i \in 1..n PROVE e[28 + i] = pkt[i]
    <3> DEFINE j == 20 + i
    <3>1. j \in 1..Len(rest) /\ 8 + j = 28 + i /\ rest[j] = pkt[i]
      BY <1>1, <1>2, <1>4
    <3> HIDE DEF j
    <3>2. e[8 + j] = rest[j]
      BY <1>7, <3>1
    <3> QED
      BY <3>1, <3>2
  <2> QED
    BY <1>4, <2>1, <2>2, <2>3
<1> QED
  BY <1>3, <1>6, <1>7, <1>8, <1>9 DEF e, n, PacketBlock

(* It is read as the packet. *)
LEMMA PacketRead ==
  ASSUME NEW p \in Words, NEW e \in Words, NEW t \in Words, NEW pkt \in Words,
         PacketBlock(e, pkt), NEW f, Table(f, Cat(p, Cat(e, t)))
  PROVE  f[Len(p) + 1] = Cat(One(pkt), f[Len(Cat(p, e)) + 1])
<1> DEFINE n == Len(pkt)
           r == f[Len(Cat(p, e)) + 1]
           file == Cat(p, Cat(e, t))
           o == Len(p) + 1
           q == PacketAt(file, o, e[21])
<1>1. /\ Framed(e) /\ e[1] = EPBType /\ n \in Nat
      /\ Len(e) >= 32 + n /\ e[21] = n
      /\ \A i \in 1..n : e[28 + i] = pkt[i]
  BY DEF PacketBlock, Words
<1>2. Len(e) >= 21
  <2> HIDE DEF n
  <2>1. Len(e) \in Nat
    BY DEF Words
  <2> QED
    BY <1>1, <2>1
<1>3. f[o] = Cat(Found(file, o, e[1], e[21]), r) /\ Found(file, o, e[1], e[21]) = One(q)
  BY <1>1, <1>2, BlockRead DEF Found
<1>4. /\ file \in Words /\ Len(p) \in Nat /\ Len(e) \in Nat /\ Len(t) \in Nat
      /\ Len(file) = Len(p) + Len(e) + Len(t)
      /\ \A i \in 1..Len(e) : file[Len(p) + i] = e[i]
  BY InTheMiddle
<1> HIDE DEF file, n
<1>5. q = pkt
  <2> DEFINE a == Len(p) + 29
             b == Len(p) + 28 + n
  <2>1. a = o + EPBSize /\ b = o + EPBSize + e[21] - 1
    BY <1>1, <1>4 DEF EPBSize
  <2>2. a \in Nat /\ b \in Nat /\ a >= 1 /\ b <= Len(file) /\ b + 1 - a = n
    BY <1>1, <1>4
  <2> HIDE DEF a, b
  <2> DEFINE s == SubSeq(file, a, b)
  <2>3. s \in Words /\ Len(s) = n /\ \A i \in 1..n : s[i] = file[a + i - 1]
    <3>1. file \in Words /\ a \in Nat /\ b \in Nat /\ n \in Nat
      BY <1>1, <1>4, <2>2
    <3> HIDE DEF file, n
    <3> QED
      BY <2>2, <3>1 DEF Words
  <2>4. ASSUME NEW i \in 1..n PROVE s[i] = pkt[i]
    <3> DEFINE j == 28 + i
    <3>1. j \in 1..Len(e) /\ a + i - 1 = Len(p) + j /\ e[j] = pkt[i]
      BY <1>1, <1>4 DEF a
    <3> HIDE DEF j, s
    <3>2. file[Len(p) + j] = e[j]
      BY <1>4, <3>1
    <3> QED
      BY <2>3, <3>1, <3>2
  <2>5. q = s
    BY <2>1 DEF PacketAt
  <2> HIDE DEF s, q
  <2>6. s = pkt
    BY <2>3, <2>4, SeqEqual DEF Words, n
  <2> QED
    BY <2>5, <2>6
<1> HIDE DEF q, r, o
<1>6. f[o] = Cat(One(pkt), r)
  BY <1>1, <1>3, <1>5
<1> QED
  BY <1>6 DEF r, o

-----------------------------------------------------------------------------
(* What CaptureDevice writes for a message, and what a reader should find    *)
(* of it.                                                                    *)
blockOf == [m \in Words |-> WrittenFor(m)]
packetOf == [m \in Words |-> IF Len(m) > 5 THEN One(Frame(m)) ELSE None]

(* They are sequences. *)
LEMMA KeptIs ==
  ASSUME NEW m \in Words
  PROVE  /\ Len(m) > 5 => /\ Frame(m) \in Words
                          /\ blockOf[m] = EPB(Frame(m)) /\ packetOf[m] = One(Frame(m))
         /\ ~(Len(m) > 5) => blockOf[m] = None /\ packetOf[m] = None
         /\ blockOf[m] \in Words /\ packetOf[m] \in Seq(Words)
<1>1. blockOf[m] = WrittenFor(m) /\ packetOf[m] = IF Len(m) > 5 THEN One(Frame(m)) ELSE None
  BY DEF blockOf, packetOf
<1>2. None \in Words /\ None \in Seq(Words)
  BY DEF None, Words
<1>3. CASE Len(m) > 5
  <2>1. Frame(m) \in Words
    BY <1>3 DEF Frame, Words
  <2>2. EPB(Frame(m)) \in Words
    BY <2>1, PacketBlockIs
  <2> DEFINE x == Frame(m)
  <2>3. One(x) \in Seq(Words)
    <3> HIDE DEF x
    <3> QED
      BY <2>1 DEF One, x
  <2> QED
    BY <1>1, <1>3, <2>1, <2>2, <2>3 DEF WrittenFor
<1>4. CASE ~(Len(m) > 5)
  BY <1>1, <1>2, <1>4 DEF WrittenFor, None
<1> QED
  BY <1>3, <1>4

LEMMA KeptTables == blockOf \in Tables(Words, Int) /\ packetOf \in Tables(Words, Words)
<1>1. \A m \in Words : blockOf[m] \in Words /\ packetOf[m] \in Seq(Words)
  BY KeptIs
<1>2. blockOf = [m \in Words |-> blockOf[m]] /\ packetOf = [m \in Words |-> packetOf[m]]
  BY DEF blockOf, packetOf
<1> DEFINE V == Seq(Words)
<1>3. blockOf \in [Words -> Words] /\ packetOf \in [Words -> V]
  <2> HIDE DEF V
  <2> QED
    BY <1>1, <1>2 DEF V
<1> QED
  BY <1>3 DEF Tables, Words
(* Of one message more in front. *)
LEMMA KeptFront ==
  ASSUME NEW s \in Seq(Words), NEW m \in Words
  PROVE  /\ Each(blockOf, None) = None /\ Each(blockOf, s) \in Words
         /\ Each(blockOf, Cat(One(m), s)) = Cat(blockOf[m], Each(blockOf, s))
         /\ Each(packetOf, None) = None /\ Each(packetOf, s) \in Seq(Words)
         /\ Each(packetOf, Cat(One(m), s)) = Cat(packetOf[m], Each(packetOf, s))
<1> DEFINE I == Int
<1>1. blockOf \in Tables(Words, I) /\ packetOf \in Tables(Words, Words)
  BY KeptTables
<1> HIDE DEF I
<1>2. Each(blockOf, None) = None /\ Each(blockOf, s) \in Seq(I)
  BY <1>1, EachOf
<1>3. Each(blockOf, Cat(One(m), s)) = Cat(blockOf[m], Each(blockOf, s))
  BY <1>1, EachFront
<1>4. Each(packetOf, None) = None /\ Each(packetOf, s) \in Seq(Words)
  BY <1>1, EachOf
<1>5. Each(packetOf, Cat(One(m), s)) = Cat(packetOf[m], Each(packetOf, s))
  BY <1>1, EachFront
<1> QED
  BY <1>2, <1>3, <1>4, <1>5 DEF I, Words

(* From any place on, the reader finds the packets of the messages behind it.*)
FileRead(ms) ==
  \A p \in Words : \A f :
    Table(f, Cat(p, Each(blockOf, ms))) => f[Len(p) + 1] = Each(packetOf, ms)

LEMMA EveryFileRead == \A ms \in Seq(Words) : FileRead(ms)
<1> DEFINE G == {ms \in Seq(Words) : FileRead(ms)}
<1>0. None \in Words /\ None \in Seq(Words)
  BY DEF None, Words
<1>1. None \in G
  <2> SUFFICES ASSUME NEW p \in Words, NEW f, Table(f, Cat(p, Each(blockOf, None)))
               PROVE  f[Len(p) + 1] = Each(packetOf, None)
    BY <1>0 DEF FileRead
  <2>1. Each(blockOf, None) = None /\ Each(packetOf, None) = None
    BY <1>0, KeptFront
  <2>2. Cat(p, None) = p
    BY <1>0, WordsCat
  <2>3. Table(f, p) /\ Len(p) + 1 \in 1..(Len(p) + 1)
    BY <2>1, <2>2 DEF Words
  <2>4. f[Len(p) + 1] = ReadAt(p, Len(p) + 1, f)
    BY <2>3 DEF Table
  <2> QED
    BY <2>1, <2>4 DEF ReadAt, None
<1>2. ASSUME NEW m \in Words, NEW ms \in Seq(Words), ms \in G
      PROVE  Cat(One(m), ms) \in G
  <2> DEFINE e == blockOf[m]
             t == Each(blockOf, ms)
             more == Cat(One(m), ms)
  <2>1. /\ e \in Words /\ packetOf[m] \in Seq(Words) /\ t \in Words /\ Each(packetOf, ms) \in Seq(Words)
        /\ Each(blockOf, more) = Cat(e, t)
        /\ Each(packetOf, more) = Cat(packetOf[m], Each(packetOf, ms))
    BY KeptIs, KeptFront
  <2>2. more \in Seq(Words)
    <3>1. One(m) \in Seq(Words)
      BY DEF One
    <3> QED
      BY <3>1, WordsTyped
  <2> SUFFICES ASSUME NEW p \in Words, NEW f, Table(f, Cat(p, Cat(e, t)))
               PROVE  f[Len(p) + 1] = Cat(packetOf[m], Each(packetOf, ms))
    BY <2>1, <2>2 DEF FileRead
  <2>3. Cat(p, e) \in Words /\ Cat(Cat(p, e), t) = Cat(p, Cat(e, t))
    <3>1. Cat(p, e) \in Words
      BY <2>1, CatWords
    <3>2. Cat(Cat(p, e), t) = Cat(p, Cat(e, t))
      BY <2>1, WordsCat
    <3> QED
      BY <3>1, <3>2
  <2>4. f[Len(Cat(p, e)) + 1] = Each(packetOf, ms)
    <3> DEFINE q == Cat(p, e)
    <3>1. q \in Words /\ Table(f, Cat(q, t)) /\ FileRead(ms)
      BY <1>2, <2>3
    <3> HIDE DEF q
    <3> QED
      BY <3>1 DEF FileRead, q
  <2>5. CASE Len(m) > 5
    <3> DEFINE pkt == Frame(m)
    <3>1. pkt \in Words /\ e = EPB(pkt) /\ packetOf[m] = One(pkt)
      BY <2>5, KeptIs
    <3>2. PacketBlock(e, pkt)
      BY <3>1, PacketBlockIs
    <3> HIDE DEF pkt, e, t
    <3>3. f[Len(p) + 1] = Cat(One(pkt), f[Len(Cat(p, e)) + 1])
      BY <2>1, <3>1, <3>2, PacketRead
    <3> QED
      BY <2>4, <3>1, <3>3
  <2>6. CASE ~(Len(m) > 5)
    <3>1. e = None /\ packetOf[m] = None
      BY <2>6, KeptIs
    <3>2. Cat(p, e) = p
      BY <1>0, <3>1, WordsCat
    <3>3. Cat(None, Each(packetOf, ms)) = Each(packetOf, ms)
      BY <2>1, CatNone
    <3> QED
      BY <2>4, <3>1, <3>2, <3>3
  <2> QED
    BY <2>5, <2>6
<1> HIDE DEF G
<1>3. Seq(Words) \subseteq G
  BY <1>0, <1>1, <1>2, FrontInduction
<1> QED
  BY <1>3 DEF G

(* A block whose length is a multiple of four. *)
LEMMA BlockFramed ==
  ASSUME NEW type \in Int, NEW len \in Nat, NEW rest \in Words,
         len % 4 = 0, len = Len(rest) + 12
  PROVE  /\ Block(type, len, rest) \in Words /\ Framed(Block(type, len, rest))
         /\ Block(type, len, rest)[1] = type
<1> DEFINE e == Block(type, len, rest)
<1>1. Len(rest) \in Nat /\ len \in Int
  BY DEF Words
<1>2. e \in Words /\ Len(e) = len /\ e[1] = type /\ e[5] = len /\ e[Len(rest) + 9] = len
  BY <1>1, BlockIs
<1>3. Len(rest) + 9 = Len(e) - 3 /\ Len(e) >= 12
  BY <1>1, <1>2
<1> HIDE DEF e
<1>4. Framed(e)
  BY <1>2, <1>3 DEF Framed
<1> QED
  BY <1>2, <1>4 DEF e

(* The two blocks that a file begins with. *)
LEMMA HeaderIs ==
  /\ SHB \in Words /\ Framed(SHB) /\ SHB[1] # EPBType
  /\ IDB \in Words /\ Framed(IDB) /\ IDB[1] # EPBType
<1>1. SHBType \in Int /\ IDBType \in Int /\ SHBType # EPBType /\ IDBType # EPBType
  BY DEF SHBType, IDBType, EPBType
<1>2. SHB \in Words /\ Framed(SHB) /\ SHB[1] = SHBType
  <2> DEFINE n == SHBSize - 8
             r == Fill(n)
             len == SHBSize + LenSize
  <2>1. n \in Nat /\ len \in Nat /\ len % 4 = 0 /\ len = n + 12
    BY DEF SHBSize, LenSize
  <2>2. SHB = Block(SHBType, len, r)
    BY DEF SHB
  <2> HIDE DEF n, len
  <2>3. r \in Words /\ Len(r) = n
    BY <2>1, FillLength DEF Words
  <2> HIDE DEF r
  <2> QED
    BY <1>1, <2>1, <2>2, <2>3, BlockFramed
<1>3. IDB \in Words /\ Framed(IDB) /\ IDB[1] = IDBType
  <2> DEFINE n == IDBSize - 8
             r == Fill(n)
             len == IDBSize + LenSize
  <2>1. n \in Nat /\ len \in Nat /\ len % 4 = 0 /\ len = n + 12
    BY DEF IDBSize, LenSize
  <2>2. IDB = Block(IDBType, len, r)
    BY DEF IDB
  <2> HIDE DEF n, len
  <2>3. r \in Words /\ Len(r) = n
    BY <2>1, FillLength DEF Words
  <2> HIDE DEF r
  <2> QED
    BY <1>1, <2>1, <2>2, <2>3, BlockFramed
<1> QED
  BY <1>1, <1>2, <1>3

(* A capture file, whatever the messages that were captured, and however     *)
(* many: a reader that follows the rules of the format finds the packets of  *)
(* those that were long enough, byte for byte and in order.                  *)
THEOREM CapturesReadBack ==
  ASSUME NEW ms \in Seq(Words)
  PROVE  PacketsOf(CaptureFileOf(ms)) = Each(packetOf, ms)
<1> DEFINE t == Each(blockOf, ms)
           file == Cat(Cat(SHB, IDB), t)
<1>1. CaptureFileOf(ms) = file
  <2>1. [i \in DOMAIN ms |-> WrittenFor(ms[i])] = [k \in 1..Len(ms) |-> blockOf[ms[k]]]
    <3>1. DOMAIN ms = 1..Len(ms) /\ \A k \in 1..Len(ms) : ms[k] \in Words
      OBVIOUS
    <3> QED
      BY <3>1 DEF blockOf
  <2> QED
    BY <2>1 DEF CaptureFileOf, createHeader, Each, Cat
<1>2. t \in Words /\ Each(packetOf, ms) \in Seq(Words) /\ None \in Words
  <2>1. None \in Words
    BY DEF None, Words
  <2> QED
    BY <2>1, KeptFront
<1>3. /\ Cat(IDB, t) \in Words /\ Cat(SHB, IDB) \in Words /\ Cat(None, SHB) = SHB
      /\ file = Cat(SHB, Cat(IDB, t)) /\ file = Cat(None, Cat(SHB, Cat(IDB, t)))
      /\ file \in Words
  <2>1. Cat(IDB, t) \in Words /\ Cat(SHB, IDB) \in Words /\ SHB \in Words /\ IDB \in Words
    BY <1>2, HeaderIs, CatWords
  <2>2. file = Cat(SHB, Cat(IDB, t)) /\ Cat(None, SHB) = SHB
    BY <1>2, <2>1, WordsCat
  <2> DEFINE u == Cat(IDB, t)
             v == Cat(SHB, u)
  <2>3. v \in Words
    BY <2>1, CatWords
  <2> HIDE DEF v
  <2>4. Cat(None, v) = v
    BY <1>2, <2>3, WordsCat
  <2> QED
    BY <2>1, <2>2, <2>3, <2>4 DEF v
<1> HIDE DEF t
<1>4. PICK f : PacketsOf(file) = f[1] /\ Table(f, file)
  BY <1>3, PacketsOfIs DEF Table
<1>5. f[Len(Cat(SHB, IDB)) + 1] = Each(packetOf, ms)
  BY <1>3, <1>4, EveryFileRead DEF FileRead, t
<1>6. f[Len(SHB) + 1] = Each(packetOf, ms)
  <2>1. Table(f, Cat(SHB, Cat(IDB, t))) /\ f[Len(Cat(SHB, IDB)) + 1] \in Seq(Words)
    BY <1>2, <1>3, <1>4, <1>5
  <2> QED
    BY <1>2, <1>5, <2>1, HeaderIs, BlockSkipped
<1>7. f[Len(None) + 1] = Each(packetOf, ms)
  <2> DEFINE u == Cat(IDB, t)
  <2>1. u \in Words /\ Table(f, Cat(None, Cat(SHB, u)))
    BY <1>3, <1>4
  <2>2. f[Len(Cat(None, SHB)) + 1] = Each(packetOf, ms)
    BY <1>3, <1>6
  <2> HIDE DEF u
  <2> QED
    BY <1>2, <2>1, <2>2, HeaderIs, BlockSkipped
<1>8. Len(None) + 1 = 1
  BY DEF None
<1> QED
  BY <1>1, <1>4, <1>7, <1>8

(* A message of the capture file's example. *)
LEMMA ExampleIs ==
  ASSUME NEW n \in 4..10, NEW k \in Nat
  PROVE  /\ Example(n, k) \in Words /\ Len(Example(n, k)) = n
         /\ n > 5 => Frame(Example(n, k)) = [i \in 1..(n - 5) |-> Example(n, k)[i + 1]]
<1> DEFINE m == Example(n, k)
<1>1. m \in Words /\ Len(m) = n
  BY DEF Example, Words
<1> HIDE DEF m
<1>2. ASSUME n > 5 PROVE Frame(m) = [i \in 1..(n - 5) |-> m[i + 1]]
  <2> DEFINE a == SubSeq(m, 2, n - 4)
             b == [i \in 1..(n - 5) |-> m[i + 1]]
  <2>1. Frame(m) = a
    BY <1>1 DEF Frame
  <2>2. a \in Seq(Int) /\ Len(a) = n - 5 /\ \A i \in 1..(n - 5) : a[i] = m[2 + i - 1]
    BY <1>1, <1>2 DEF Words
  <2>3. \A i \in 1..(n - 5) : 2 + i - 1 = i + 1 /\ i + 1 \in 1..Len(m)
    BY <1>1, <1>2
  <2>4. b \in Seq(Int) /\ Len(b) = n - 5 /\ \A i \in 1..(n - 5) : b[i] = m[i + 1]
    BY <1>1, <1>2, <2>3 DEF Words
  <2> HIDE DEF a, b
  <2>5. \A i \in 1..Len(a) : a[i] = b[i]
    BY <2>2, <2>3, <2>4
  <2>6. a = b
    BY <2>2, <2>4, <2>5, SeqEqual
  <2> QED
    BY <2>1, <2>6 DEF b
<1> QED
  BY <1>1, <1>2 DEF m

(* The capture device's file can be read back, whatever was captured in the  *)
(* course of the sessions.                                                   *)
THEOREM CaptureFilesRead == Spec => []FilesReadBack
<1>1. ASSUME IInv PROVE FilesReadBack
  <2>1. captured \in Seq({x \in Taken("cap") : ~isControl(x) /\ ~isShort(x)})
    BY <1>1 DEF IInv, CaptureOK
  <2> DEFINE l == Len(captured) + 1
  <2>2. l \in Nat
    BY <2>1
  <2> HIDE DEF l
  <2> SUFFICES ASSUME NEW sizes \in [1..l -> 4..10], NEW short \in 1..l,
                      \A k \in 1..l : sizes[k] > 5 <=> k # short
               PROVE  LET messages == [k \in 1..l |-> Example(sizes[k], k)]
                          Stripped(m) == [i \in 1..(Len(m) - 5) |-> m[i + 1]]
                      IN  PacketsOf(CaptureFileOf(messages))
                            = Joined([k \in 1..l |->
                                IF k # short THEN <<Stripped(messages[k])>> ELSE <<>>])
    BY DEF FilesReadBack, l
  <2> DEFINE messages == [k \in 1..l |-> Example(sizes[k], k)]
             Stripped(m) == [i \in 1..(Len(m) - 5) |-> m[i + 1]]
             should == [k \in 1..l |-> IF k # short THEN <<Stripped(messages[k])>> ELSE <<>>]
  <2>3. ASSUME NEW k \in 1..l
        PROVE  /\ messages[k] = Example(sizes[k], k)
               /\ messages[k] \in Words /\ packetOf[messages[k]] = should[k]
    <3> DEFINE m == Example(sizes[k], k)
    <3>1. sizes[k] \in 4..10 /\ k \in Nat
      BY <2>2
    <3>2. /\ m \in Words /\ Len(m) = sizes[k]
          /\ sizes[k] > 5 => Frame(m) = [i \in 1..(sizes[k] - 5) |-> m[i + 1]]
      BY <3>1, ExampleIs
    <3>3. messages[k] = m
      OBVIOUS
    <3> HIDE DEF m, messages
    <3>4. sizes[k] > 5 => packetOf[m] = <<Frame(m)>> /\ Frame(m) = Stripped(m)
      BY <3>2, KeptIs DEF One
    <3>5. ~(sizes[k] > 5) => packetOf[m] = <<>>
      BY <3>2, KeptIs DEF None
    <3> HIDE DEF Stripped
    <3> QED
      BY <3>2, <3>3, <3>4, <3>5 DEF m
  <2>4. messages \in Seq(Words) /\ Len(messages) = l
    <3>1. \A k \in 1..l : messages[k] \in Words
      BY <2>3
    <3>2. messages = [k \in 1..l |-> messages[k]]
      OBVIOUS
    <3> HIDE DEF messages
    <3> QED
      BY <2>2, <3>1, <3>2
  <2>5. [k \in 1..Len(messages) |-> packetOf[messages[k]]] = should
    <3>1. should = [k \in 1..l |-> should[k]]
      OBVIOUS
    <3> HIDE DEF messages, should
    <3> QED
      BY <2>3, <2>4, <3>1
  <2> HIDE DEF messages, should
  <2>6. PacketsOf(CaptureFileOf(messages)) = Each(packetOf, messages)
    BY <2>4, CapturesReadBack
  <2>7. Each(packetOf, messages) = Joined(should)
    BY <2>5 DEF Each
  <2> QED
    BY <2>6, <2>7 DEF messages, should
<1> QED
  BY <1>1, Inductive, PTL
=============================================================================
