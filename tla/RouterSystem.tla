---------------------------- MODULE RouterSystem ----------------------------
(* The router on its own, among devices that only send: any list of rules,   *)
(* any messages, and a main thread that starts and stops it (the way         *)
(* test/RouterTest.cpp drives it).                                           *)
EXTENDS Router, Filters, FiniteSets

CONSTANTS Rules,         \* the rules main() may add
          Traffic,       \* the messages that may arrive
          MaxRules,      \* bound of the model: length of the rule list
          MaxMessages    \* bound of the model: messages that arrive

ASSUME RulesAssumption == Rules \subseteq RoutingRules
ASSUME TrafficAssumption == Traffic \subseteq Message

VARIABLES arrived,       \* how many messages have arrived
          taken          \* history: the messages the router has begun to route

vars == <<busVars, routerVars, arrived, taken>>

Init ==
  /\ BusInit
  /\ pc = [t \in Threads |-> IF t = "main" THEN "adding" ELSE "none"]
  /\ RouterInit
  /\ arrived = 0
  /\ taken = <<>>

Configure ==
  /\ pc["main"] = "adding" /\ Len(rules) < MaxRules
  /\ \E r \in Rules : AddRule(r.from, r.to, r.pred)
  /\ UNCHANGED <<busVars, arrived, taken>>

StartRouter ==
  /\ pc["main"] = "adding"
  /\ hold' = [hold EXCEPT !["rtr"] = TRUE]
  /\ pc' = [pc EXCEPT !["main"] = "running", !["rtr"] = "test"]
  /\ UNCHANGED <<inQ, routerVars, arrived, taken>>

Arrive ==
  /\ arrived < MaxMessages
  /\ \E x \in Traffic : Send(x)
  /\ arrived' = arrived + 1
  /\ UNCHANGED <<hold, pc, routerVars, taken>>

ReleaseFlag ==
  /\ Goto("main", "running", "flagged")
  /\ hold' = [hold EXCEPT !["rtr"] = FALSE]
  /\ UNCHANGED <<inQ, routerVars, arrived, taken>>

\* A mutant: the sentinel is not queued.
ReleaseQuietly ==
  /\ Goto("main", "flagged", "joining")
  /\ UNCHANGED <<inQ, hold, routerVars, arrived, taken>>

ReleaseSentinel ==
  /\ Goto("main", "flagged", "joining")
  /\ Send(Empty)
  /\ UNCHANGED <<hold, routerVars, arrived, taken>>

Join ==
  /\ pc["rtr"] = "exited"
  /\ Goto("main", "joining", "joined")
  /\ UNCHANGED <<inQ, hold, routerVars, arrived, taken>>

RouterThread ==
  /\ RouterStep
  /\ taken' = IF pc["rtr"] = "pop" /\ pc'["rtr"] = "rules"
              THEN Append(taken, rtrMsg') ELSE taken
  /\ UNCHANGED arrived

Next == \/ Configure \/ StartRouter \/ ReleaseFlag \/ ReleaseSentinel \/ Join
        \/ Arrive
        \/ RouterThread

Spec == Init /\ [][Next]_vars

(* The threads are scheduled; a message whose arrival ends the program stops *)
(* them all.                                                                 *)
FairSpec == Spec /\ WF_vars(RouterThread) /\ WF_vars(ReleaseSentinel \/ Join)

-----------------------------------------------------------------------------
(* TypeOK: the bus and the router's own state. *)
TypeOK ==
  /\ inQ \in [Devices -> Seq(Message)]
  /\ hold \in [Devices -> BOOLEAN]
  /\ DOMAIN pc = Threads
  /\ pc["rtr"] \in {"none", "test", "pop", "rules", "exited", "terminated"}
  /\ RouterTypeOK

(* What device d should have received once the messages ms have been routed: *)
(* a copy for each selected rule, message after message.                     *)
Copies(m, d) == [n \in 1..Cardinality({i \in Selected(m) : rules[i].to = d}) |-> m]

Expected(ms, d) == Joined([k \in 1..Len(ms) |-> Copies(ms[k], d)])

(* Between two messages, every device has received a copy of each message    *)
(* for each rule of the loop of Router.cpp:102-111 that names it, message    *)
(* after message in the order in which they were taken, and nothing else.    *)
(* (A message may thus go to several devices, twice to one, or to none,      *)
(* whatever doc/design.md:67 says of "exactly one".)                         *)
InboxesAsRouted ==
  pc["rtr"] # "rules" =>
    \A d \in Devices \ {"rtr"} : inQ[d] = Expected(taken, d)

(* Unless an unsourced message ends the program, the router's thread can be  *)
(* joined, however many messages are still queued.                           *)
RouterStops ==
  pc["main"] = "joining" ~> (pc["main"] = "joined" \/ pc["rtr"] = "terminated")
=============================================================================
