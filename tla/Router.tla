------------------------------- MODULE Router -------------------------------
(* Router.cpp: takes the messages of all devices from one queue and pushes   *)
(* each to the devices its rules name.  The rules are tried one at a time,   *)
(* and other threads may run between two pushes.                             *)
EXTENDS DeviceBus

VARIABLES rules,    \* the routing rules, in the order of addRule()
          rtrMsg,   \* run()'s local m
          cursor,   \* the rule the for loop has reached
          pushed    \* history: the rules that have pushed rtrMsg

routerVars == <<rules, rtrMsg, cursor, pushed>>

Predicates == {"nullptr", "isRaw", "isCap", "isControl", "isPlain"}

RoutingRules == [from : Devices, to : Devices, pred : Predicates]

Satisfies(m, pred) ==
  CASE pred = "nullptr"   -> TRUE
    [] pred = "isRaw"     -> isRaw(m)
    [] pred = "isCap"     -> isCap(m)
    [] pred = "isControl" -> isControl(m)
    [] pred = "isPlain"   -> isPlain(m)

Matches(r, m) == r.from = m.source /\ Satisfies(m, r.pred)

RouterInit ==
  /\ rules = <<>>
  /\ rtrMsg = Empty
  /\ cursor = 1
  /\ pushed = {}

\* A mutant: the members of the rule in the wrong order.
AddRuleMisplaced(in, out, pred) ==
  /\ rules' = IF in = out THEN rules
              ELSE Append(rules, [from |-> in, to |-> pred, pred |-> out])
  /\ UNCHANGED <<rtrMsg, cursor, pushed>>

(* addRule(): a device is never its own destination. *)
AddRule(in, out, pred) ==
  /\ rules' = IF in = out THEN rules
              ELSE Append(rules, [from |-> in, to |-> out, pred |-> pred])
  /\ UNCHANGED <<rtrMsg, cursor, pushed>>

(* wait_and_pop(), then: an empty message only wakes the thread up, and one  *)
(* without a source raises an exception that ends the program.               *)
RouterPop ==
  /\ Dequeue("rtr")
  /\ rtrMsg' = Head(inQ["rtr"])
  /\ Goto("rtr", "pop", IF ~NonEmpty(rtrMsg') THEN "test"
                        ELSE IF rtrMsg'.source = Null THEN "terminated"
                        ELSE "rules")
  /\ cursor' = 1
  /\ pushed' = {}
  /\ UNCHANGED <<hold, rules>>

Current == rules[cursor]

RouterPush ==
  /\ Enqueue(Current.to, rtrMsg)
  /\ pushed' = pushed \cup {cursor}
  /\ cursor' = IF Current.pred = "nullptr" THEN Len(rules) + 1 ELSE cursor + 1

RouterSkip == cursor' = cursor + 1 /\ UNCHANGED <<inQ, pushed>>

\* Mutants: the break after an unconditional rule is missing, or taken after
\* every rule that matches.
RouterRuleNoBreak ==
  /\ pc["rtr"] = "rules" /\ cursor <= Len(rules)
  /\ IF Matches(Current, rtrMsg)
     THEN Enqueue(Current.to, rtrMsg) /\ pushed' = pushed \cup {cursor}
     ELSE UNCHANGED <<inQ, pushed>>
  /\ cursor' = cursor + 1
  /\ UNCHANGED <<hold, pc, rules, rtrMsg>>

RouterRuleAlwaysBreak ==
  /\ pc["rtr"] = "rules" /\ cursor <= Len(rules)
  /\ IF Matches(Current, rtrMsg)
     THEN /\ Enqueue(Current.to, rtrMsg)
          /\ pushed' = pushed \cup {cursor}
          /\ cursor' = Len(rules) + 1
     ELSE RouterSkip
  /\ UNCHANGED <<hold, pc, rules, rtrMsg>>

RouterRule ==
  /\ pc["rtr"] = "rules" /\ cursor <= Len(rules)
  /\ IF Matches(Current, rtrMsg) THEN RouterPush ELSE RouterSkip
  /\ UNCHANGED <<hold, pc, rules, rtrMsg>>

RouterNextMessage ==
  /\ cursor > Len(rules)
  /\ Goto("rtr", "rules", "test")
  /\ UNCHANGED <<inQ, hold, routerVars>>

RouterStep ==
  \/ TestHold("rtr") /\ UNCHANGED routerVars
  \/ RouterPop
  \/ RouterRule
  \/ RouterNextMessage

-----------------------------------------------------------------------------
(* The rules that the loop of run() executes for a message (Router.cpp:102   *)
(* to 111), and which doc/design.md:67 also describes: "each matching        *)
(* rule is executed in order until either there are no more rules or a       *)
(* matching rule without a predicate is found".  They may be several, or     *)
(* none: what the same paragraph says before, that a message is sent "to     *)
(* exactly one of the other ports" and that rules are tried "until a         *)
(* successful rule is found", the code does not do.                          *)
Unconditional(i, m) == Matches(rules[i], m) /\ rules[i].pred = "nullptr"

Selected(m) ==
  {i \in DOMAIN rules :
     /\ Matches(rules[i], m)
     /\ \A j \in 1..(i - 1) : ~Unconditional(j, m)}

RouterTypeOK ==
  /\ rules \in Seq(RoutingRules)
  /\ rtrMsg \in Message
  /\ cursor \in Nat \ {0}
  /\ pushed \subseteq DOMAIN rules

(* While a message is being routed, it has been pushed by exactly those of   *)
(* the rules that match it which the loop has passed before the first one    *)
(* without a predicate, and by that one: every match counts, not only the    *)
(* first.  (Router.cpp:102-111; nothing is said of how many devices it goes  *)
(* to.)                                                                      *)
RulesInOrder ==
  pc["rtr"] = "rules" =>
    pushed = {i \in Selected(rtrMsg) : i < cursor}
=============================================================================
