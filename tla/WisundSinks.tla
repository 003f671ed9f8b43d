---------------------------- MODULE WisundSinks -----------------------------
(* Each of the daemon's device threads follows the protocol of SinkDevice:   *)
(* the daemon implements one SinkDevice per device.                          *)
EXTENDS Wisund

(* The protocol only tells the sentinel from other messages. *)
Abstracted(q) ==
  [i \in DOMAIN q |-> IF q[i] = Empty THEN "sentinel" ELSE "message"]

(* The devices of the program. *)
Running == {"con"} \cup {ShutdownOrder[i] : i \in DOMAIN ShutdownOrder}

LoopOf(d) == CASE d = "con" -> "draining"
               [] d = "ser" /\ ~SIM -> "polling"
               [] OTHER     -> "blocking"

(* How far releaseHold() and join() of the device being stopped have come. *)
StoppingPhase ==
  CASE pc["main"] = "release"  -> "running"
    [] pc["main"] = "sentinel" -> "flagged"
    [] pc["main"] = "join"     -> "joining"
    [] OTHER                   -> "running"

Position(d) == CHOOSE i \in DOMAIN ShutdownOrder : ShutdownOrder[i] = d

Stopped(d) ==
  \/ pc["main"] = "done"
  \/ /\ realQuit /\ stopping # "con"
     /\ Position(d) < Position(stopping)

ConsoleOwner ==
  CASE pc["main"] = "accept"                       -> "holding"
    [] pc["main"] = "parse"                        -> "running"
    [] pc["con"] # "none" /\ stopping = "con"      -> StoppingPhase
    [] OTHER -> IF session = 0 THEN "new" ELSE "joined"

DeviceOwner(d) ==
  CASE pc["main"] = "start"                               -> "new"
    [] pc["main"] = "threads"                             -> "holding"
    [] pc["main"] = "hold router" /\ d = "rtr"            -> "new"
    [] pc["main"] = "start router" /\ d = "rtr"           -> "holding"
    [] OTHER -> IF Stopped(d) THEN "joined"
                ELSE IF stopping = d THEN StoppingPhase ELSE "running"

Owner(d) ==
  IF d = "con" THEN ConsoleOwner
  ELSE IF d = "rtr" /\ pc["main"] = "threads" THEN "new"
  ELSE DeviceOwner(d)

(* The serial device polls its port and the router tries its rules between a *)
(* test of the flag and the next pop; a thread that has been joined is gone. *)
Rx(d) ==
  IF Owner(d) = "joined" THEN "none"
  ELSE CASE pc[d] = "poll"              -> "pop"
         [] pc[d] \in {"start", "rules", "receive"} -> "test"
         [] OTHER                       -> pc[d]

Sink(d) == INSTANCE SinkDevice
             WITH Messages <- {"message"}, Sentinel <- "sentinel",
                  Loops <- {LoopOf(d)}, loop <- LoopOf(d), inQ <- Abstracted(inQ[d]),
                  hold <- hold[d], owner <- Owner(d), rx <- Rx(d)

(* hold(), releaseHold(), the thread's loop and join() of every device, as   *)
(* wisund.cpp uses them, are steps of the protocol, unless an exception ends *)
(* the whole program.                                                        *)
SinkStep(d) == UNCHANGED Sink(d)!vars \/ Sink(d)!Next

ImplementsSinks ==
  /\ \A d \in Running : Sink(d)!Init
  /\ [][Crashed' \/ \A d \in Running : SinkStep(d)]_vars

(* Hence no join() of the daemon is ever stuck on a thread asleep.           *)
NoStuckJoins == \A d \in Running : Sink(d)!NoStuckJoin
=============================================================================
