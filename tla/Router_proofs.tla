--------------------------- MODULE Router_proofs ----------------------------
(* Machine-checked proofs about the router: for every list of rules, every   *)
(* traffic and every number of messages.                                     *)
EXTENDS RouterSystem, Filters_proofs, FiniteSetTheorems

(* The rules do not change once the router's thread may run. *)
RulesAreFixed == pc["main"] = "adding" => pc["rtr"] = "none"

(* The loop is still going only if no unconditional rule has matched. *)
NoBreakYet ==
  (pc["rtr"] = "rules" /\ cursor <= Len(rules)) =>
     \A j \in 1..(cursor - 1) : ~Unconditional(j, rtrMsg)

IInv == TypeOK /\ RulesAreFixed /\ NoBreakYet /\ RulesInOrder

(* The message that wakes a thread up is a message like any other. *)
LEMMA EmptyIsMessage == Empty \in Message
  BY DEF Empty, Message, Null, Fronts

LEMMA InitInv == Init => IInv
<1> SUFFICES ASSUME Init PROVE IInv
  OBVIOUS
<1> USE DEF Init, BusInit, RouterInit
<1>1. TypeOK
  <2>1. Empty \in Message
    BY EmptyIsMessage
  <2>2. rules \in Seq(RoutingRules) /\ pushed \subseteq DOMAIN rules
    OBVIOUS
  <2>3. inQ \in [Devices -> Seq(Message)] /\ hold \in [Devices -> BOOLEAN]
    OBVIOUS
  <2>4. DOMAIN pc = Threads /\ pc["rtr"] = "none"
    BY DEF Threads
  <2> QED
    BY <2>1, <2>2, <2>3, <2>4 DEF TypeOK, RouterTypeOK
<1>2. RulesAreFixed /\ NoBreakYet /\ RulesInOrder
  BY DEF RulesAreFixed, NoBreakYet, RulesInOrder, Threads
<1> QED
  BY <1>1, <1>2 DEF IInv

(* Queueing a message and taking one keep the bus well typed. *)
LEMMA EnqueueType ==
  ASSUME inQ \in [Devices -> Seq(Message)], NEW d \in Devices,
         NEW x \in Message, Enqueue(d, x)
  PROVE  inQ' \in [Devices -> Seq(Message)]
  BY DEF Enqueue

LEMMA DequeueType ==
  ASSUME inQ \in [Devices -> Seq(Message)], NEW d \in Devices, Dequeue(d)
  PROVE  /\ inQ' \in [Devices -> Seq(Message)]
         /\ Head(inQ[d]) \in Message
  BY DEF Dequeue

LEMMA StepType == TypeOK /\ RulesAreFixed /\ [Next]_vars => TypeOK'
<1> SUFFICES ASSUME TypeOK, RulesAreFixed, [Next]_vars PROVE TypeOK'
  OBVIOUS
<1> USE DEF TypeOK, RouterTypeOK, RulesAreFixed, Goto, Threads
<1>1. CASE Configure
  <2>1. PICK r \in Rules : AddRule(r.from, r.to, r.pred)
    BY <1>1 DEF Configure
  <2>2. r \in RoutingRules
    BY RulesAssumption
  <2>3. [from |-> r.from, to |-> r.to, pred |-> r.pred] \in RoutingRules
    BY <2>2 DEF RoutingRules
  <2>4. rules' \in Seq(RoutingRules) /\ DOMAIN rules \subseteq DOMAIN rules'
    BY <2>1, <2>3 DEF AddRule
  <2> QED
    BY <1>1, <2>1, <2>4 DEF Configure, AddRule, busVars
<1>2. CASE StartRouter
  BY <1>2 DEF StartRouter, routerVars
<1>3. CASE Arrive
  <2>1. PICK x \in Traffic : Enqueue("rtr", x)
    BY <1>3 DEF Arrive, Send
  <2>2. inQ' \in [Devices -> Seq(Message)]
    BY <2>1, EnqueueType, TrafficAssumption DEF Devices
  <2> QED
    BY <1>3, <2>2 DEF Arrive, routerVars
<1>4. CASE ReleaseFlag
  BY <1>4 DEF ReleaseFlag, routerVars
<1>5. CASE ReleaseSentinel
  <2>1. inQ' \in [Devices -> Seq(Message)]
    BY <1>5, EnqueueType, EmptyIsMessage DEF ReleaseSentinel, Send, Devices
  <2> QED
    BY <1>5, <2>1 DEF ReleaseSentinel, routerVars
<1>6. CASE Join
  BY <1>6 DEF Join, routerVars
<1>7. CASE TestHold("rtr") /\ UNCHANGED routerVars
  BY <1>7 DEF TestHold, routerVars
<1>8. CASE RouterPop
  <2>1. /\ inQ' \in [Devices -> Seq(Message)]
        /\ rtrMsg' \in Message
    BY <1>8, DequeueType DEF RouterPop, Devices
  <2> QED
    BY <1>8, <2>1 DEF RouterPop
<1>9. CASE RouterRule
  <2>1. cursor \in DOMAIN rules /\ rules[cursor] \in RoutingRules
        /\ Len(rules) \in Nat
    BY <1>9 DEF RouterRule
  <2>2. CASE Matches(Current, rtrMsg)
    <3>1. inQ' \in [Devices -> Seq(Message)]
      BY <1>9, <2>1, <2>2, EnqueueType
         DEF RouterRule, RouterPush, Current, RoutingRules
    <3>2. cursor' \in Nat \ {0} /\ pushed' \subseteq DOMAIN rules
      BY <1>9, <2>1, <2>2 DEF RouterRule, RouterPush
    <3> QED
      BY <1>9, <3>1, <3>2 DEF RouterRule
  <2>3. CASE ~Matches(Current, rtrMsg)
    BY <1>9, <2>3 DEF RouterRule, RouterSkip
  <2> QED
    BY <2>2, <2>3
<1>10. CASE RouterNextMessage
  BY <1>10 DEF RouterNextMessage, routerVars
<1>11. CASE UNCHANGED vars
  BY <1>11 DEF vars, busVars, routerVars
<1> QED
  BY <1>1, <1>2, <1>3, <1>4, <1>5, <1>6, <1>7, <1>8, <1>9, <1>10, <1>11
     DEF Next, RouterThread, RouterStep

(* One rule tried: it pushes exactly if it matches, and an unconditional one *)
(* that matches is the last that is executed.                                *)
LEMMA RuleStep ==
  ASSUME TypeOK, NoBreakYet, RulesInOrder, RouterRule
  PROVE  NoBreakYet' /\ RulesInOrder'
<1> USE DEF TypeOK, RouterTypeOK, NoBreakYet, RulesInOrder, RouterRule
<1>1. /\ cursor \in DOMAIN rules /\ Len(rules) \in Nat
      /\ DOMAIN rules = 1..Len(rules)
      /\ \A j \in 1..(cursor - 1) : ~Unconditional(j, rtrMsg)
      /\ pushed = {i \in Selected(rtrMsg) : i < cursor}
  OBVIOUS
<1>2. /\ \A j : Unconditional(j, rtrMsg)' <=> Unconditional(j, rtrMsg)
      /\ Selected(rtrMsg)' = Selected(rtrMsg)
  BY DEF Unconditional, Selected, Matches
<1>3. CASE Matches(Current, rtrMsg)
  <2>1. cursor \in Selected(rtrMsg)
    BY <1>1, <1>3 DEF Selected, Current
  <2>2. CASE Current.pred = "nullptr"
    <3>1. Unconditional(cursor, rtrMsg)
      BY <1>3, <2>2 DEF Unconditional, Current
    <3>2. \A i \in Selected(rtrMsg) : i \in 1..Len(rules) /\ i <= cursor
      BY <1>1, <3>1 DEF Selected
    <3>3. pushed' = {i \in Selected(rtrMsg) : i < cursor'}
      BY <1>1, <1>3, <2>1, <2>2, <3>2 DEF RouterPush
    <3> QED
      BY <1>1, <1>2, <1>3, <2>2, <3>3 DEF RouterPush
  <2>3. CASE Current.pred # "nullptr"
    <3>1. ~Unconditional(cursor, rtrMsg)
      BY <2>3 DEF Unconditional, Current
    <3>2. cursor' = cursor + 1 /\ pushed' = pushed \cup {cursor}
      BY <1>3, <2>3 DEF RouterPush
    <3>3. \A i \in Selected(rtrMsg) : i \in Nat
      BY <1>1 DEF Selected
    <3>4. pushed' = {i \in Selected(rtrMsg) : i < cursor'}
      BY <1>1, <2>1, <3>2, <3>3
    <3> QED
      BY <1>1, <1>2, <3>1, <3>2, <3>4
  <2> QED
    BY <2>2, <2>3
<1>4. CASE ~Matches(Current, rtrMsg)
  <2>1. cursor \notin Selected(rtrMsg) /\ ~Unconditional(cursor, rtrMsg)
    BY <1>4 DEF Selected, Unconditional, Current
  <2>2. cursor' = cursor + 1 /\ pushed' = pushed
    BY <1>4 DEF RouterSkip
  <2>3. \A i \in Selected(rtrMsg) : i \in Nat
    BY <1>1 DEF Selected
  <2>4. pushed' = {i \in Selected(rtrMsg) : i < cursor'}
    BY <1>1, <2>1, <2>2, <2>3
  <2> QED
    BY <1>1, <1>2, <2>1, <2>2, <2>4
<1> QED
  BY <1>3, <1>4

LEMMA StepInv == IInv /\ TypeOK' /\ [Next]_vars => IInv'
<1> SUFFICES ASSUME IInv, TypeOK', [Next]_vars
             PROVE  RulesAreFixed' /\ NoBreakYet' /\ RulesInOrder'
  BY DEF IInv
<1> USE DEF IInv, Goto, Threads
<1>1. CASE Configure
  <2>1. pc'["rtr"] = "none"
    BY <1>1 DEF Configure, busVars, RulesAreFixed
  <2> QED BY <2>1 DEF RulesAreFixed, NoBreakYet, RulesInOrder
<1>2. CASE StartRouter
  <2>1. pc'["rtr"] = "test" /\ pc'["main"] = "running"
    BY <1>2 DEF StartRouter, TypeOK
  <2> QED BY <2>1 DEF RulesAreFixed, NoBreakYet, RulesInOrder
<1>3. CASE Arrive \/ ReleaseFlag \/ ReleaseSentinel \/ Join \/ UNCHANGED vars
  <2>1. /\ UNCHANGED routerVars /\ pc'["rtr"] = pc["rtr"]
        /\ pc'["main"] = "adding" => pc["main"] = "adding"
    BY <1>3 DEF Arrive, ReleaseFlag, ReleaseSentinel, Join, vars, busVars, TypeOK
  <2>2. /\ \A j : Unconditional(j, rtrMsg)' <=> Unconditional(j, rtrMsg)
        /\ Selected(rtrMsg)' = Selected(rtrMsg)
    BY <2>1 DEF Unconditional, Selected, Matches, routerVars
  <2> QED
    BY <2>1, <2>2 DEF RulesAreFixed, NoBreakYet, RulesInOrder, routerVars
<1>4. ASSUME RouterThread
      PROVE  pc["rtr"] # "none" /\ pc'["main"] = pc["main"]
  BY <1>4 DEF RouterThread, RouterStep, TestHold, RouterPop, RouterRule,
              RouterNextMessage, TypeOK
<1>5. ASSUME RouterThread PROVE RulesAreFixed'
  BY <1>4, <1>5 DEF RulesAreFixed
<1>6. ASSUME TestHold("rtr") /\ UNCHANGED routerVars
      PROVE  NoBreakYet' /\ RulesInOrder'
  <2>1. pc'["rtr"] # "rules"
    BY <1>6 DEF TestHold, TypeOK
  <2> QED BY <2>1 DEF NoBreakYet, RulesInOrder
<1>7. ASSUME RouterPop
      PROVE  NoBreakYet' /\ RulesInOrder'
  <2>1. /\ cursor' = 1 /\ pushed' = {} /\ rules' = rules
        /\ rules \in Seq(RoutingRules)
    BY <1>7 DEF RouterPop, TypeOK, RouterTypeOK
  <2>2. \A i \in Selected(rtrMsg)' : i \in Nat /\ ~(i < 1)
    BY <2>1 DEF Selected
  <2> QED BY <2>1, <2>2 DEF NoBreakYet, RulesInOrder
<1>8. ASSUME RouterRule
      PROVE  NoBreakYet' /\ RulesInOrder'
  BY <1>8, RuleStep
<1>9. ASSUME RouterNextMessage
      PROVE  NoBreakYet' /\ RulesInOrder'
  <2>1. pc'["rtr"] = "test"
    BY <1>9 DEF RouterNextMessage, TypeOK
  <2> QED BY <2>1 DEF NoBreakYet, RulesInOrder
<1> QED
  BY <1>1, <1>2, <1>3, <1>5, <1>6, <1>7, <1>8, <1>9
     DEF Next, RouterThread, RouterStep

-----------------------------------------------------------------------------
(* The inductive invariant of the router. *)
THEOREM Inductive == Spec => []IInv
<1>1. IInv /\ [Next]_vars => IInv'
  BY StepType, StepInv DEF IInv
<1> QED
  BY InitInv, <1>1, PTL DEF Spec

(* The router's state and all the queues are well typed. *)
THEOREM TypeCorrect == Spec => []TypeOK
  BY Inductive, PTL DEF IInv

(* Router::run() executes every rule that matches, up to and including the   *)
(* first one without a predicate, and no other, for any list of rules.       *)
THEOREM RulesTried == Spec => []RulesInOrder
  BY Inductive, PTL DEF IInv

-----------------------------------------------------------------------------
(* How many of the rules in T lead to d. *)
Leading(T, d) == Cardinality({i \in T : rules[i].to = d})

(* n copies of m. *)
Run(n, m) == [k \in 1..n |-> m]

(* Nothing is taken before the router's thread runs. *)
History ==
  /\ taken \in Seq(Message)
  /\ pc["main"] = "adding" => taken = <<>>

(* Inside a message, its devices have a copy for every rule that has pushed. *)
Delivered ==
  pc["rtr"] = "rules" =>
    \E before \in Seq(Message) :
      /\ taken = Append(before, rtrMsg)
      /\ \A d \in Devices \ {"rtr"} :
           inQ[d] = Expected(before, d) \o Run(Leading(pushed, d), rtrMsg)

(* The inductive invariant. *)
RInv == IInv /\ History /\ Delivered /\ InboxesAsRouted

(* Copies are a sequence, and one copy more is another run of them.          *)
LEMMA RunOneMore ==
  ASSUME NEW S, NEW m \in S, NEW n \in Nat
  PROVE  /\ Run(n, m) \in Seq(S)
         /\ Append(Run(n, m), m) = Run(n + 1, m)
<1>1. Run(n, m) \in Seq(S) /\ Len(Run(n, m)) = n
  BY DEF Run
<1>2. Append(Run(n, m), m) = [k \in 1..(Len(Run(n, m)) + 1) |->
                                IF k = Len(Run(n, m)) + 1 THEN m ELSE Run(n, m)[k]]
  BY <1>1, AppendAsFunction
<1>3. \A k \in 1..n : Run(n, m)[k] = m
  BY DEF Run
<1>4. [k \in 1..(n + 1) |-> IF k = n + 1 THEN m ELSE Run(n, m)[k]]
        = [k \in 1..(n + 1) |-> m]
  BY <1>3
<1> QED
  BY <1>1, <1>2, <1>4 DEF Run

(* The same after other members. *)
LEMMA RunLonger ==
  ASSUME NEW S, NEW e \in Seq(S), NEW m \in S, NEW n \in Nat
  PROVE  Append(e \o Run(n, m), m) = e \o Run(n + 1, m)
<1> DEFINE r == Run(n, m)
<1>1. r \in Seq(S) /\ Append(r, m) = Run(n + 1, m)
  BY RunOneMore
<1> HIDE DEF r
<1>2. e \o Append(r, m) = Append(e \o r, m)
  BY <1>1, AppendConcat
<1> QED
  BY <1>1, <1>2 DEF r

(* The rules that lead to a device are finitely many. *)
LEMMA LeadingNat ==
  ASSUME TypeOK, NEW T, T \subseteq DOMAIN rules, NEW d
  PROVE  IsFiniteSet({i \in T : rules[i].to = d}) /\ Leading(T, d) \in Nat
<1>1. IsFiniteSet(DOMAIN rules)
  <2>1. DOMAIN rules = 1..Len(rules) /\ Len(rules) \in Nat
    BY DEF TypeOK, RouterTypeOK
  <2> QED
    BY <2>1, FS_Interval
<1>2. {i \in T : rules[i].to = d} \subseteq DOMAIN rules
  OBVIOUS
<1>3. IsFiniteSet({i \in T : rules[i].to = d})
  BY <1>1, <1>2, FS_Subset
<1> QED
  BY <1>3, FS_CardinalityType DEF Leading

(* Copies are a run of the message, for the rules selected. *)
LEMMA CopiesRun ==
  ASSUME TypeOK, NEW m \in Message, NEW d
  PROVE  Copies(m, d) = Run(Leading(Selected(m), d), m) /\ Copies(m, d) \in Seq(Message)
<1>1. Copies(m, d) = Run(Leading(Selected(m), d), m)
  BY DEF Copies, Run, Leading
<1>2. Leading(Selected(m), d) \in Nat
  BY LeadingNat DEF Selected
<1> QED
  BY <1>1, <1>2, RunOneMore

(* What a device should have, with one message more. *)
LEMMA ExpectedAppend ==
  ASSUME TypeOK, NEW ms \in Seq(Message), NEW m \in Message, NEW d
  PROVE  /\ Expected(<<>>, d) = <<>>
         /\ Expected(ms, d) \in Seq(Message)
         /\ Expected(Append(ms, m), d) = Expected(ms, d) \o Copies(m, d)
<1> DEFINE W == Seq(Message)
           a == Append(ms, m)
           c(s) == [k \in 1..Len(s) |-> Copies(s[k], d)]
<1>1. \A x \in Message : Copies(x, d) \in W
  BY CopiesRun
<1>2. /\ a \in Seq(Message) /\ Len(a) = Len(ms) + 1 /\ Len(ms) \in Nat
      /\ a[Len(ms) + 1] = m /\ \A k \in 1..Len(ms) : a[k] = ms[k]
  OBVIOUS
<1>3. \A k \in 1..Len(ms) : ms[k] \in Message
  OBVIOUS
<1> HIDE DEF a, W
<1>4. c(ms) \in Seq(W) /\ Len(c(ms)) = Len(ms)
  BY <1>1, <1>2, <1>3
<1>5. Copies(m, d) \in W
  BY <1>1
<1>6. Append(c(ms), Copies(m, d))
        = [k \in 1..(Len(c(ms)) + 1) |->
             IF k = Len(c(ms)) + 1 THEN Copies(m, d) ELSE c(ms)[k]]
  <2> DEFINE t == c(ms)
             x == Copies(m, d)
  <2>1. t \in Seq(W) /\ x \in W
    BY <1>4, <1>5
  <2> HIDE DEF t, x
  <2>2. Append(t, x) = [k \in 1..(Len(t) + 1) |-> IF k = Len(t) + 1 THEN x ELSE t[k]]
    BY <2>1, AppendAsFunction
  <2> QED
    BY <2>2 DEF t, x
<1>7. c(a) = Append(c(ms), Copies(m, d))
  BY <1>2, <1>4, <1>6
<1>8. Joined(Append(c(ms), Copies(m, d))) = Joined(c(ms)) \o Copies(m, d)
  <2> DEFINE t == c(ms)
             x == Copies(m, d)
  <2>1. t \in Seq(W) /\ x \in W
    BY <1>4, <1>5
  <2> HIDE DEF t, x
  <2>2. Joined(Append(t, x)) = Joined(t) \o x
    BY <2>1, JoinedAppend
  <2> QED
    BY <2>2 DEF t, x
<1>9. Joined(c(ms)) \in Seq(Message)
  <2> DEFINE t == c(ms)
  <2>1. t \in Seq(Seq(Message))
    BY <1>4 DEF W
  <2> HIDE DEF t
  <2>2. Joined(t) \in Seq(Message)
    BY <2>1, JoinedType
  <2> QED
    BY <2>2 DEF t
<1>10. Expected(<<>>, d) = <<>>
  <2>1. c(<<>>) = <<>>
    OBVIOUS
  <2> QED
    BY <2>1, JoinedEmpty DEF Expected
<1>11. Expected(ms, d) = Joined(c(ms)) /\ Expected(a, d) = Joined(c(a))
  BY DEF Expected
<1> QED
  BY <1>7, <1>8, <1>9, <1>10, <1>11 DEF a

(* What a device should have depends on the rules only. *)
LEMMA ExpectedKept ==
  ASSUME rules' = rules
  PROVE  /\ \A m : Selected(m)' = Selected(m)
         /\ \A ms, d : Expected(ms, d)' = Expected(ms, d)
         /\ \A d : Expected(taken', d) = Expected(taken, d)'
  BY DEF Expected, Copies, Selected, Unconditional, Matches

(* A rule tried: if it matches, its device has one copy more. *)
LEMMA RuleDelivers ==
  ASSUME IInv, TypeOK', Delivered, RouterRule, UNCHANGED taken
  PROVE  Delivered'
<1>1. /\ pc["rtr"] = "rules" /\ pc' = pc /\ rules' = rules /\ rtrMsg' = rtrMsg
      /\ cursor \in DOMAIN rules /\ cursor <= Len(rules)
  BY DEF RouterRule, IInv, TypeOK, RouterTypeOK
<1>2. PICK before \in Seq(Message) :
        /\ taken = Append(before, rtrMsg)
        /\ \A d \in Devices \ {"rtr"} :
             inQ[d] = Expected(before, d) \o Run(Leading(pushed, d), rtrMsg)
  BY <1>1 DEF Delivered
<1>3. /\ pushed = {i \in Selected(rtrMsg) : i < cursor} /\ pushed \subseteq DOMAIN rules
      /\ pushed' \subseteq DOMAIN rules
      /\ rtrMsg \in Message
  BY <1>1 DEF IInv, RulesInOrder, TypeOK, RouterTypeOK
<1>4. cursor \notin pushed
  BY <1>1, <1>3
<1>5. \A d \in Devices \ {"rtr"} :
        inQ'[d] = Expected(before, d) \o Run(Leading(pushed', d), rtrMsg)
  <2>1. CASE Matches(Current, rtrMsg)
    <3>1. /\ pushed' = pushed \cup {cursor}
          /\ inQ' = [inQ EXCEPT ![Current.to] = Append(@, rtrMsg)]
          /\ inQ \in [Devices -> Seq(Message)] /\ Current = rules[cursor]
      BY <2>1 DEF RouterRule, RouterPush, Enqueue, IInv, TypeOK, Current
    <3> SUFFICES ASSUME NEW d \in Devices \ {"rtr"}
                 PROVE  inQ'[d] = Expected(before, d) \o Run(Leading(pushed', d), rtrMsg)
      OBVIOUS
    <3> DEFINE P == {i \in pushed : rules[i].to = d}
               Q == {i \in pushed \cup {cursor} : rules[i].to = d}
    <3>2. IsFiniteSet(P) /\ Leading(pushed, d) = Cardinality(P) /\ Cardinality(P) \in Nat
          /\ Leading(pushed', d) = Cardinality(Q) /\ cursor \notin P
      BY <1>3, <1>4, <3>1, LeadingNat DEF Leading, IInv
    <3>3. CASE Current.to = d
      <4>1. Q = P \cup {cursor}
        BY <3>1, <3>3
      <4>2. Cardinality(Q) = Cardinality(P) + 1
        <5> HIDE DEF P, Q
        <5> QED
          BY <3>2, <4>1, FS_AddElement
      <4>3. inQ'[d] = Append(inQ[d], rtrMsg)
        BY <3>1, <3>3
      <4> DEFINE e == Expected(before, d)
                 n == Cardinality(P)
      <4>4. e \in Seq(Message) /\ rtrMsg \in Message /\ n \in Nat
        BY <1>3, <3>2, ExpectedAppend DEF IInv
      <4>5. inQ[d] = e \o Run(n, rtrMsg) /\ Leading(pushed', d) = n + 1
        BY <1>2, <3>2, <4>2
      <4> HIDE DEF e, n
      <4>6. Append(e \o Run(n, rtrMsg), rtrMsg) = e \o Run(n + 1, rtrMsg)
        BY <4>4, RunLonger
      <4> QED
        BY <4>3, <4>5, <4>6 DEF e
    <3>4. CASE Current.to # d
      <4>1. Q = P
        BY <3>1, <3>4
      <4>2. inQ'[d] = inQ[d]
        BY <3>1, <3>4
      <4> QED
        BY <1>2, <3>2, <4>1, <4>2
    <3> QED
      BY <3>3, <3>4
  <2>2. CASE ~Matches(Current, rtrMsg)
    <3>1. inQ' = inQ /\ pushed' = pushed
      BY <2>2 DEF RouterRule, RouterSkip
    <3> QED
      BY <1>2, <3>1
  <2> QED
    BY <2>1, <2>2
<1>6. \A d : Leading(pushed, d)' = Leading(pushed', d) /\ Expected(before, d)' = Expected(before, d)
  BY <1>1, ExpectedKept DEF Leading
<1>7. taken' = Append(before, rtrMsg')
  BY <1>1, <1>2
<1>8. \A d \in Devices \ {"rtr"} :
        inQ'[d] = Expected(before, d)' \o Run(Leading(pushed, d)', rtrMsg')
  BY <1>1, <1>5, <1>6
<1> HIDE DEF Expected
<1> QED
  BY <1>7, <1>8 DEF Delivered

(* The last rule passed: every copy has been made. *)
LEMMA MessageDelivered ==
  ASSUME IInv, Delivered, RouterNextMessage, UNCHANGED taken
  PROVE  InboxesAsRouted'
<1>1. /\ pc["rtr"] = "rules" /\ UNCHANGED routerVars /\ inQ' = inQ
      /\ cursor > Len(rules) /\ rules \in Seq(RoutingRules) /\ cursor \in Nat
      /\ pushed = {i \in Selected(rtrMsg) : i < cursor}
      /\ rtrMsg \in Message
  BY DEF RouterNextMessage, Goto, IInv, TypeOK, RouterTypeOK, RulesInOrder
<1>2. PICK before \in Seq(Message) :
        /\ taken = Append(before, rtrMsg)
        /\ \A d \in Devices \ {"rtr"} :
             inQ[d] = Expected(before, d) \o Run(Leading(pushed, d), rtrMsg)
  BY <1>1 DEF Delivered
<1>3. pushed = Selected(rtrMsg)
  BY <1>1 DEF Selected
<1>4. \A d \in Devices \ {"rtr"} : inQ[d] = Expected(taken, d)
  <2> SUFFICES ASSUME NEW d \in Devices \ {"rtr"} PROVE inQ[d] = Expected(taken, d)
    OBVIOUS
  <2>1. inQ[d] = Expected(before, d) \o Run(Leading(pushed, d), rtrMsg)
    BY <1>2
  <2>2. Copies(rtrMsg, d) = Run(Leading(pushed, d), rtrMsg)
    BY <1>1, <1>3, CopiesRun DEF IInv
  <2>3. Expected(Append(before, rtrMsg), d) = Expected(before, d) \o Copies(rtrMsg, d)
    BY <1>1, ExpectedAppend DEF IInv
  <2> QED
    BY <1>2, <2>1, <2>2, <2>3
<1>5. \A d : Expected(taken, d)' = Expected(taken, d)
  BY <1>1, ExpectedKept DEF routerVars
<1> QED
  BY <1>1, <1>4, <1>5 DEF InboxesAsRouted

(* A message taken: nothing of it has been delivered yet. *)
LEMMA MessageTaken ==
  ASSUME IInv, History, InboxesAsRouted, RouterPop,
         taken' = IF pc["rtr"] = "pop" /\ pc'["rtr"] = "rules"
                  THEN Append(taken, rtrMsg') ELSE taken
  PROVE  taken' \in Seq(Message) /\ Delivered' /\ InboxesAsRouted'
<1>1. /\ pc["rtr"] = "pop" /\ pushed' = {} /\ rules' = rules
      /\ rtrMsg' \in Message /\ taken \in Seq(Message)
      /\ \A d \in Devices \ {"rtr"} : inQ'[d] = inQ[d]
  BY DEF RouterPop, Goto, Dequeue, IInv, TypeOK, History, Devices
<1>2. \A d \in Devices \ {"rtr"} : inQ[d] = Expected(taken, d)
  BY <1>1 DEF InboxesAsRouted
<1>3. \A d : Expected(taken, d)' = Expected(taken', d) /\ Leading(pushed, d)' = Leading(pushed', d)
  BY <1>1, ExpectedKept DEF Leading
<1>4. CASE pc'["rtr"] = "rules"
  <2>1. taken' = Append(taken, rtrMsg')
    BY <1>1, <1>4
  <2>2. \A d : Leading({}, d) = 0
    <3>1. \A d : {i \in {} : rules[i].to = d} = {}
      OBVIOUS
    <3> QED
      BY <3>1, FS_EmptySet DEF Leading
  <2>3. PICK before \in Seq(Message) : before = taken
    BY <1>1
  <2>4. \A d : /\ Expected(before, d)' = Expected(before, d)
               /\ Leading(pushed, d)' = 0
    BY <1>1, <1>3, <2>2, ExpectedKept
  <2>5. ASSUME NEW d \in Devices \ {"rtr"}
        PROVE  inQ'[d] = Expected(before, d)' \o Run(Leading(pushed, d)', rtrMsg')
    <3>1. Expected(before, d) \in Seq(Message)
      BY <1>1, ExpectedAppend DEF IInv
    <3>2. Run(0, rtrMsg') = <<>>
      BY DEF Run
    <3>3. inQ'[d] = Expected(before, d)
      BY <1>1, <1>2, <2>3
    <3> DEFINE e == Expected(before, d)
    <3> HIDE DEF e
    <3>4. e \o <<>> = e
      BY <3>1 DEF e
    <3> QED
      BY <2>4, <3>2, <3>3, <3>4 DEF e
  <2>6. taken' = Append(before, rtrMsg') /\ taken' \in Seq(Message)
    BY <1>1, <2>1, <2>3
  <2> QED
    BY <1>4, <2>5, <2>6 DEF Delivered, InboxesAsRouted
<1>5. CASE pc'["rtr"] # "rules"
  <2>1. taken' = taken
    BY <1>1, <1>5
  <2> QED
    BY <1>1, <1>2, <1>3, <1>5, <2>1 DEF Delivered, InboxesAsRouted
<1> QED
  BY <1>4, <1>5

(* Initially nothing has been routed. *)
LEMMA InitRouted == Init => RInv
<1> SUFFICES ASSUME Init PROVE RInv
  OBVIOUS
<1>1. IInv
  BY InitInv
<1>2. /\ taken = <<>> /\ pc["rtr"] = "none"
      /\ \A d \in Devices : inQ[d] = <<>>
  BY DEF Init, BusInit, Threads
<1>3. \A d : Expected(<<>>, d) = <<>>
  <2>1. PICK ms \in Seq(Message), m \in Message : TRUE
    BY EmptyIsMessage, EmptyIsSeq
  <2> QED
    BY <1>1, <2>1, ExpectedAppend DEF IInv
<1>4. History
  BY <1>2, EmptyIsSeq DEF History
<1>5. Delivered /\ InboxesAsRouted
  BY <1>2, <1>3 DEF Delivered, InboxesAsRouted
<1> QED
  BY <1>1, <1>4, <1>5 DEF RInv

(* The steps of the others leave the inboxes and the history alone. *)
LEMMA OthersStep ==
  ASSUME RInv, TypeOK', UNCHANGED taken, rules' = rules,
         UNCHANGED <<rtrMsg, pushed>>,
         \A d \in Devices \ {"rtr"} : inQ'[d] = inQ[d],
         pc'["rtr"] = "rules" <=> pc["rtr"] = "rules"
  PROVE  Delivered' /\ InboxesAsRouted'
<1>1. \A ms, d : Expected(ms, d)' = Expected(ms, d)
  BY ExpectedKept
<1>2. \A d : /\ Expected(taken, d)' = Expected(taken, d)
             /\ Leading(pushed, d)' = Leading(pushed, d)
  BY ExpectedKept DEF Leading
<1>3. InboxesAsRouted'
  BY <1>2 DEF RInv, InboxesAsRouted
<1>4. ASSUME pc["rtr"] = "rules" PROVE Delivered'
  <2>1. PICK before \in Seq(Message) :
          /\ taken = Append(before, rtrMsg)
          /\ \A d \in Devices \ {"rtr"} :
               inQ[d] = Expected(before, d) \o Run(Leading(pushed, d), rtrMsg)
    BY <1>4 DEF Delivered, RInv
  <2>2. /\ taken' = Append(before, rtrMsg')
        /\ \A d \in Devices \ {"rtr"} :
             inQ'[d] = Expected(before, d)' \o Run(Leading(pushed, d)', rtrMsg')
    BY <1>1, <1>2, <2>1
  <2> QED
    BY <2>2 DEF Delivered
<1>5. ASSUME pc["rtr"] # "rules" PROVE Delivered'
  BY <1>5 DEF Delivered
<1> QED
  BY <1>3, <1>4, <1>5

(* Every step keeps the inboxes as the history says. *)
LEMMA StepRouted == RInv /\ IInv' /\ [Next]_vars => RInv'
<1> SUFFICES ASSUME RInv, IInv', [Next]_vars
             PROVE  History' /\ Delivered' /\ InboxesAsRouted'
  BY DEF RInv
<1>0. IInv /\ TypeOK /\ TypeOK' /\ History /\ Delivered /\ InboxesAsRouted
  BY DEF RInv, IInv
<1> USE DEF Goto, Threads
<1>1. CASE Configure
  <2>1. /\ pc' = pc /\ inQ' = inQ /\ taken' = taken /\ taken = <<>> /\ pc["rtr"] = "none"
    BY <1>0, <1>1 DEF Configure, busVars, History, IInv, RulesAreFixed
  <2>2. \A d : Expected(taken, d) = <<>> /\ Expected(taken, d)' = <<>>
    <3>1. \A d : Expected(<<>>, d) = <<>>
      BY <1>0, EmptyIsMessage, EmptyIsSeq, ExpectedAppend
    <3>2. \A d : Expected(taken, d)' = Joined([k \in 1..0 |-> Copies(taken[k], d)'])
      BY <2>1 DEF Expected
    <3>3. \A d : [k \in 1..0 |-> Copies(taken[k], d)'] = <<>>
      OBVIOUS
    <3> QED
      BY <2>1, <3>1, <3>2, <3>3, JoinedEmpty
  <2> QED
    BY <1>0, <2>1, <2>2 DEF History, Delivered, InboxesAsRouted
<1>2. CASE StartRouter
  <2>1. /\ pc'["rtr"] = "test" /\ pc'["main"] # "adding" /\ inQ' = inQ /\ taken' = taken
        /\ pc["rtr"] = "none" /\ UNCHANGED routerVars
    BY <1>0, <1>2 DEF StartRouter, History, TypeOK, IInv, RulesAreFixed
  <2> QED
    BY <1>0, <2>1, OthersStep DEF History, routerVars
<1>3. CASE Arrive \/ ReleaseFlag \/ ReleaseSentinel \/ Join \/ UNCHANGED vars
  <2>1. /\ UNCHANGED routerVars /\ pc'["rtr"] = pc["rtr"] /\ taken' = taken
        /\ pc'["main"] = "adding" => pc["main"] = "adding"
    BY <1>0, <1>3 DEF Arrive, ReleaseFlag, ReleaseSentinel, Join, vars, busVars, TypeOK
  <2>2. \A d \in Devices \ {"rtr"} : inQ'[d] = inQ[d]
    BY <1>0, <1>3 DEF Arrive, ReleaseFlag, ReleaseSentinel, Join, vars, busVars, TypeOK,
                      Send, Enqueue
  <2> QED
    BY <1>0, <2>1, <2>2, OthersStep DEF History, routerVars
<1>4. CASE RouterThread
  <2>1. pc["main"] # "adding" /\ pc'["main"] = pc["main"]
    BY <1>0, <1>4 DEF RouterThread, RouterStep, TestHold, RouterPop, RouterRule,
                      RouterNextMessage, TypeOK, IInv, RulesAreFixed
  <2>2. CASE TestHold("rtr") /\ UNCHANGED routerVars
    <3>1. taken' = taken /\ pc'["rtr"] # "rules" /\ pc["rtr"] # "rules" /\ inQ' = inQ
      BY <1>0, <1>4, <2>2 DEF RouterThread, TestHold, TypeOK
    <3> QED
      BY <1>0, <2>1, <2>2, <3>1, OthersStep DEF History, routerVars
  <2>3. CASE RouterPop
    <3>1. taken' \in Seq(Message) /\ Delivered' /\ InboxesAsRouted'
      BY <1>0, <1>4, <2>3, MessageTaken DEF RouterThread
    <3> QED
      BY <2>1, <3>1 DEF History
  <2>4. CASE RouterRule
    <3>1. taken' = taken /\ pc'["rtr"] = "rules"
      BY <1>0, <1>4, <2>4 DEF RouterThread, RouterRule
    <3> QED
      BY <1>0, <2>1, <2>4, <3>1, RuleDelivers DEF History, InboxesAsRouted
  <2>5. CASE RouterNextMessage
    <3>1. taken' = taken /\ pc'["rtr"] # "rules"
      BY <1>0, <1>4, <2>5 DEF RouterThread, RouterNextMessage, TypeOK
    <3> QED
      BY <1>0, <2>1, <2>5, <3>1, MessageDelivered DEF History, Delivered
  <2> QED
    BY <1>4, <2>2, <2>3, <2>4, <2>5 DEF RouterThread, RouterStep
<1> QED
  BY <1>1, <1>2, <1>3, <1>4 DEF Next

(* Router::run() gives every device a copy of each message for each rule     *)
(* executed that names it, in the order in which it took the messages, and   *)
(* nothing else: for any rules, any traffic and any number of messages.      *)
THEOREM CopiesDelivered == Spec => []InboxesAsRouted
<1>1. IInv /\ [Next]_vars => IInv'
  BY StepType, StepInv DEF IInv
<1>2. RInv /\ [Next]_vars => RInv'
  BY <1>1, StepRouted DEF RInv
<1> QED
  BY InitRouted, <1>2, PTL DEF Spec, RInv
=============================================================================
