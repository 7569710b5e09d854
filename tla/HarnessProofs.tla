---------------------------- MODULE HarnessProofs ----------------------------
(***************************************************************************)
(* What holds of a turn for every plan, every cap and every step budget.   *)
(*                                                                         *)
(* The argument is the same for each theorem: a lemma per operator says    *)
(* what it keeps, a lemma on DriverStep and one on InnerStep say that any  *)
(* NodeResult with the property leaves states with the property, and what  *)
(* is left to each node is that its results have it.                       *)
(***************************************************************************)
EXTENDS Harness, TLAPS

Layers == {"implementation", "plan", "understanding", "acceptance"}

Branches == {None, "engineering", "lightweight", "task", "done", "pass"}

(* What a node may hand to its driver: a repair names its layer.           *)
NodeResults ==
  {r \in [state : Session,
          query : {None, "interviewer"} \cup ConfirmGates,
          verdict : {"none", "advance", "repair", "escalate"},
          layer : {None} \cup Layers,
          branch : Branches] : r.verdict = "repair" => r.layer \in Layers}

-----------------------------------------------------------------------------
(* Type correctness.                                                       *)

(* The planner's output becomes a Plan with every task pending.            *)
LEMMA FreshPlanType ==
  ASSUME NEW shape \in PlanShape
  PROVE  FreshPlan(shape) \in Plan
BY DEF PlanShape, Plan, FreshPlan, Statuses, Decisions, NoAttempt

(* The state a turn starts with is a Session.                              *)
LEMMA NewSessionType == NewSession \in Session
<1>1. NoPlan \in Plan
  BY FreshPlanType DEF NoPlan, PlanShape
<1> QED
  BY <1>1 DEF NewSession, Session, OuterNodes, NoTask, Decisions, None, SavedCursors,
     ConfirmGates

(* Advancing the cursor to a node keeps a Session a Session.               *)
LEMMA AdvancingToType ==
  ASSUME NEW s \in Session, NEW from, NEW to \in OuterNodes \cup InnerNodes \cup {"user"}
  PROVE  AdvancingTo(s, from, to) \in Session
<1>1. BounceOf(from, to) \in Bounces \cup {None}
  BY DEF BounceOf, Bounces
<1>2. ASSUME NEW b \in Bounces
      PROVE  [s.history EXCEPT ![b] = @ + 1] \in [Bounces -> Nat]
  BY DEF Session
<1>3. AdvancingTo(s, from, to).history = Logged(s.history, BounceOf(from, to))
  BY DEF AdvancingTo, Session
<1>4. Logged(s.history, BounceOf(from, to)) \in [Bounces -> Nat]
  BY <1>1, <1>2 DEF Logged, Session
<1> QED
  BY <1>3, <1>4 DEF AdvancingTo, Session

(* Advancing moves the cursor and logs the transition, and nothing else.   *)
LEMMA AdvancingToFields ==
  ASSUME NEW s \in Session, NEW from, NEW to
  PROVE  LET a == AdvancingTo(s, from, to)
         IN  /\ a.node = to /\ a.task = s.task /\ a.plan = s.plan
             /\ a.asked = s.asked /\ a.given = s.given /\ a.latest = s.latest
             /\ a.pending = s.pending /\ a.saved = s.saved /\ a.report = s.report
             /\ a.located = s.located
BY DEF AdvancingTo, Session

(* An answer to a pending query keeps a Session a Session.                 *)
LEMMA AnsweredType ==
  ASSUME NEW s \in Session, NEW a \in Decisions
  PROVE  Answered(s, a) \in Session
<1>1. CASE s.pending \in ConfirmGates
  <2>1. [s.given EXCEPT ![s.pending] = @ + 1] \in [ConfirmGates -> Nat]
    BY <1>1 DEF Session
  <2>2. [s.latest EXCEPT ![s.pending] = a] \in [ConfirmGates -> Decisions]
    BY <1>1 DEF Session
  <2>3. ASSUME NEW d \in Decisions PROVE [s.plan EXCEPT !.decision = d] \in Plan
    BY DEF Session, Plan
  <2>4. s.plan.decision \in Decisions
    BY DEF Session, Plan
  <2> QED
    BY <1>1, <2>1, <2>2, <2>3, <2>4 DEF Answered, Session
<1>2. CASE s.pending \notin ConfirmGates
  <2>1. Answered(s, a) = [s EXCEPT !.pending = None, !.asked = @ + 1]
    BY <1>2 DEF Answered
  <2>2. s.asked + 1 \in Nat
    BY DEF Session
  <2> QED
    BY <2>1, <2>2 DEF Session
<1> QED
  BY <1>1, <1>2

(* Writing a task's status or attempt keeps a Session a Session.           *)
LEMMA TaskWriteType ==
  ASSUME NEW s \in Session, NEW t \in TaskIds, NEW status \in Statuses
  PROVE  /\ WithTaskStatus(s, t, status) \in Session
         /\ WithActiveTask(s, t) \in Session
         /\ WithAttempt(s, t) \in Session
<1>1. ASSUME NEW x \in Statuses PROVE [s.plan EXCEPT !.status[t] = x] \in Plan
  BY DEF Session, Plan
<1>2. [s.plan EXCEPT !.rounds[t] = @ + 1] \in Plan
  BY DEF Session, Plan
<1>3. ASSUME NEW x \in Statuses PROVE WithTaskStatus(s, t, x) \in Session
  BY <1>1 DEF WithTaskStatus, Session
<1>4. WithActiveTask(s, t) \in Session
  BY <1>3 DEF WithActiveTask, Session, Statuses
<1>5. WithAttempt(s, t) \in Session
  BY <1>2 DEF WithAttempt, Session
<1> QED
  BY <1>3, <1>4, <1>5

(* Entering the subgraph, leaving it and checkpointing inside it keep      *)
(* Sessions Sessions.                                                      *)
LEMMA SubgraphType ==
  ASSUME NEW s \in Session, NEW c \in Session
  PROVE  /\ Fork(s) \in Session
         /\ MergeFinished(s, c) \in Session
         /\ c.node \in InnerNodes => MergeCheckpoint(s, c) \in Session
<1>1. Fork(s) \in Session
  BY DEF Fork, Session, InnerNodes, SavedCursors, NoCursor
<1>2. Merge(s, c) \in Session
  BY DEF Merge, Session
<1>3. MergeFinished(s, c) \in Session
  BY <1>2 DEF MergeFinished, Session, SavedCursors
<1>4. ASSUME c.node \in InnerNodes PROVE MergeCheckpoint(s, c) \in Session
  BY <1>2, <1>4 DEF MergeCheckpoint, Session, SavedCursors
<1> QED
  BY <1>1, <1>3, <1>4

(* Merging takes the child's data and the parent's cursor.                 *)
LEMMA MergeFields ==
  ASSUME NEW s \in Session, NEW c \in Session,
         NEW m \in {MergeFinished(s, c), MergeCheckpoint(s, c)}
  PROVE  /\ m.node = s.node /\ m.task = s.task
         /\ m.plan = c.plan /\ m.history = c.history /\ m.asked = c.asked
         /\ m.given = c.given /\ m.latest = c.latest /\ m.pending = c.pending
         /\ m.report = c.report
BY DEF MergeFinished, MergeCheckpoint, Merge, Session

(* The saved cursor is the child's, or gone.                               *)
LEMMA MergeSaved ==
  ASSUME NEW s \in Session, NEW c \in Session
  PROVE  /\ MergeFinished(s, c).saved = NoCursor
         /\ MergeCheckpoint(s, c).saved = [node |-> c.node, task |-> c.task]
BY DEF MergeFinished, MergeCheckpoint, Merge, Session

(* Forking moves the cursor to the saved one, and nothing else.            *)
LEMMA ForkFields ==
  ASSUME NEW s \in Session
  PROVE  LET f == Fork(s)
         IN  /\ s.saved # NoCursor => f.node = s.saved.node /\ f.task = s.saved.task
             /\ s.saved = NoCursor => f.node = "task_selector" /\ f.task = s.task
             /\ f.plan = s.plan /\ f.history = s.history /\ f.asked = s.asked
             /\ f.given = s.given /\ f.latest = s.latest /\ f.pending = s.pending
             /\ f.report = s.report
BY DEF Fork, Session

(* What the constructors build is a NodeResult.                            *)
LEMMA NodeResultType ==
  ASSUME NEW s \in Session
  PROVE  /\ \A b \in Branches : Produced(s, b) \in NodeResults
         /\ \A q \in {"interviewer"} \cup ConfirmGates : Ask(s, q) \in NodeResults
         /\ Approve(s) \in NodeResults
         /\ \A layer \in Layers : Repair(s, layer) \in NodeResults
         /\ Escalate(s) \in NodeResults
BY DEF NodeResults, Branches, Layers, Produced, Ask, Approve, Repair, Escalate, None

(* The root graph's edges lead to its nodes, to "user", or nowhere.        *)
LEMMA RouteType ==
  ASSUME NEW node, NEW r \in NodeResults, NEW p
  PROVE  Route(node, r, p) \in OuterNodes \cup {"user", Stop}
<1>1. FORWARD(node, r.branch) \in OuterNodes \cup {Stop}
  BY DEF FORWARD, OuterNodes
<1>2. ASSUME NEW nxt \in OuterNodes \cup {Stop}
      PROVE  FullAutoSkip(nxt) \in OuterNodes \cup {Stop}
  BY DEF FullAutoSkip, OuterNodes
<1>3. ASSUME r.verdict = "repair" PROVE SHALLOWEST(r.layer) \in OuterNodes
  BY <1>3 DEF NodeResults, Layers, SHALLOWEST, OuterNodes
<1> QED
  BY <1>1, <1>2, <1>3 DEF Route

(* Starting a node of the root graph on a Session leaves Sessions.         *)
LEMMA EnterNodeType ==
  ASSUME NEW s \in Session, EnterNode(s)
  PROVE  /\ mode' \in Modes
         /\ st' \in Session /\ ch' \in Session
         /\ inner' \in BOOLEAN
         /\ innerSteps' \in 0 .. StepBudget - 1
<1>1. Fork(s) \in Session
  BY SubgraphType
<1> QED
  BY <1>1, NewSessionType, CapAssumption DEF EnterNode, NoChild, Modes

(* Leaving Driver.run on a Session keeps the types.                        *)
LEMMA LeaveType ==
  ASSUME TypeOK, NEW s \in Session, NEW m \in Modes,
         NEW escape \in {None, "parked", "budget"}, Leave(s, m, escape),
         ckpt' \in Session
  PROVE  TypeOK'
<1>1. steps' \in 0 .. StepBudget - 1 /\ innerSteps' \in 0 .. StepBudget - 1
  BY CapAssumption DEF Leave
<1> QED
  BY <1>1, NewSessionType DEF TypeOK, Leave, NoChild

(* Stamping the report keeps a Session a Session.                          *)
LEMMA StampedType ==
  ASSUME NEW s \in Session
  PROVE  Stamped(s) \in Session
BY DEF Stamped, Session

(* Whatever a node returns, the root driver's step keeps the types.        *)
LEMMA DriverStepType ==
  ASSUME TypeOK, NEW r \in NodeResults, DriverStep(r)
  PROVE  TypeOK'
<1> DEFINE nxt == Route(st.node, r, policy)
           s   == AdvancingTo(r.state, st.node, nxt)
           q   == [r.state EXCEPT !.pending = r.query]
<1>1. r.state \in Session /\ q \in Session
  BY DEF NodeResults, Session
<1>2. nxt \in OuterNodes \cup {"user", Stop}
  BY RouteType
<1>3. nxt # Stop => s \in Session
  BY <1>1, <1>2, AdvancingToType
<1>4. CASE r.query # None
  BY <1>1, <1>4, LeaveType DEF DriverStep, Modes
<1>5. CASE r.query = None /\ nxt = Stop
  BY <1>1, <1>5, LeaveType, StampedType DEF DriverStep, Return, Modes, TypeOK
<1>6. CASE r.query = None /\ nxt # Stop /\ Spent(Counted(steps))
  BY <1>3, <1>6, LeaveType, StampedType DEF DriverStep, Return, Modes
<1>7. CASE r.query = None /\ nxt # Stop /\ ~Spent(Counted(steps))
  <2>1. CASE ~Registered(nxt, policy)
    BY <1>3, <1>7, <2>1, LeaveType, StampedType DEF DriverStep, Return, Modes
  <2>2. CASE Registered(nxt, policy)
    <3>1. /\ EnterNode(s) /\ ckpt' = s
          /\ steps' = Counted(steps) /\ lastEscape' = lastEscape
          /\ UNCHANGED <<policy, advisory, interrupts>>
      BY <1>7, <2>2 DEF DriverStep
    <3>2. steps' \in 0 .. StepBudget - 1
      BY <1>7, <3>1, CapAssumption DEF TypeOK, Counted, Spent
    <3> HIDE DEF nxt, s, q
    <3> QED
      BY <1>3, <1>7, <3>1, <3>2, EnterNodeType DEF TypeOK
  <2> QED
    BY <2>1, <2>2
<1> QED
  BY <1>4, <1>5, <1>6, <1>7

(* Whatever a node of the loop returns, its driver's step keeps the types. *)
LEMMA InnerStepType ==
  ASSUME TypeOK, NEW r \in NodeResults, InnerStep(r)
  PROVE  TypeOK'
<1> DEFINE nxt == InnerRoute(ch.node, r)
           c   == AdvancingTo(r.state, ch.node, nxt)
<1>1. st \in Session /\ r.state \in Session
  BY DEF TypeOK, NodeResults
<1>2. CASE DriverStep(Bubble(r))
  <2>1. Bubble(r) \in NodeResults
    BY <1>1 DEF Bubble, NodeResults
  <2> QED
    BY <1>2, <2>1, DriverStepType
<1>3. CASE DriverStep(Produced(MergeFinished(st, r.state), "done"))
  <2>1. MergeFinished(st, r.state) \in Session
    BY <1>1, SubgraphType
  <2>2. Produced(MergeFinished(st, r.state), "done") \in NodeResults
    BY <2>1, NodeResultType DEF Branches
  <2> QED
    BY <1>3, <2>2, DriverStepType
<1>4. CASE DriverStep(Escalate(st))
  BY <1>1, <1>4, NodeResultType, DriverStepType
<1>5. CASE /\ nxt \in InnerNodes
           /\ ~Spent(Counted(innerSteps))
           /\ ch' = c
           /\ innerSteps' = Counted(innerSteps)
           /\ ckpt' = MergeCheckpoint(st, c)
           /\ UNCHANGED <<policy, advisory, mode, st, inner, steps, lastEscape, interrupts>>
  <2>1. c \in Session /\ c.node = nxt
    BY <1>1, <1>5, AdvancingToType, AdvancingToFields
  <2>2. MergeCheckpoint(st, c) \in Session
    BY <1>1, <1>5, <2>1, SubgraphType
  <2>3. innerSteps' \in 0 .. StepBudget - 1
    BY <1>5, CapAssumption DEF TypeOK, Counted, Spent
  <2> HIDE DEF nxt, c
  <2> QED
    BY <1>5, <2>1, <2>2, <2>3 DEF TypeOK
<1> QED
  BY <1>2, <1>3, <1>4, <1>5 DEF InnerStep

(* Calling Driver.run on a Session keeps the types.                        *)
LEMMA BeginType ==
  ASSUME TypeOK, NEW s \in Session, Begin(s), UNCHANGED interrupts
  PROVE  TypeOK'
<1>1. steps' \in 0 .. StepBudget - 1
  BY CapAssumption DEF Begin
<1>2. /\ EnterNode(s) /\ ckpt' = s /\ lastEscape' = None
      /\ UNCHANGED <<policy, advisory>>
  BY DEF Begin
<1> QED
  BY <1>1, <1>2, EnterNodeType DEF TypeOK

(* An exception keeps the types.                                           *)
LEMMA FailType ==
  ASSUME TypeOK, Fail
  PROVE  TypeOK'
BY LeaveType DEF Fail, TypeOK, Modes

(* GateNode.run hands its driver a NodeResult.                             *)
LEMMA GateResultType ==
  ASSUME st \in Session, NEW valid, NEW advise, NEW bounces, NEW budget,
         NEW layer \in Layers
  PROVE  GateResult(valid, advise, bounces, budget, layer) \in NodeResults
BY NodeResultType DEF GateResult

(* Every node of the root graph keeps the types.                           *)
LEMMA OuterNodeType ==
  ASSUME TypeOK, OuterNode
  PROVE  TypeOK'
<1> USE NodeResultType, DriverStepType DEF Branches
<1>0. st \in Session
  BY DEF TypeOK
<1>1. CASE Router
  BY <1>0, <1>1 DEF Router
<1>2. CASE Explorer
  <2>1. ASSUME NEW found \in BOOLEAN PROVE [st EXCEPT !.located = found] \in Session
    BY <1>0 DEF Session
  <2> QED
    BY <1>2, <2>1 DEF Explorer
<1>3. CASE UnderstandingGate
  BY <1>0, <1>3, GateResultType DEF UnderstandingGate, Layers
<1>4. CASE Interviewer
  BY <1>0, <1>4 DEF Interviewer
<1>5. ASSUME NEW g \in ConfirmGates, NEW layer \in Layers, ConfirmGate(g, layer)
      PROVE  TypeOK'
  BY <1>0, <1>5 DEF ConfirmGate
<1>6. CASE SpecConfirmGate
  BY <1>5, <1>6 DEF SpecConfirmGate, ConfirmGates, Layers
<1>7. CASE PlanConfirmGate
  BY <1>5, <1>7 DEF PlanConfirmGate, ConfirmGates, Layers
<1>8. CASE Planner
  <2>1. ASSUME NEW shape \in PlanShapes
        PROVE  [st EXCEPT !.plan = FreshPlan(shape)] \in Session
    <3>1. FreshPlan(shape) \in Plan
      BY ShapeAssumption, FreshPlanType
    <3> QED
      BY <1>0, <3>1 DEF Session
  <2> QED
    BY <1>8, <2>1 DEF Planner
<1>9. CASE PlanGate
  BY <1>0, <1>9, GateResultType DEF PlanGate, Layers
<1>10. CASE PlanReviewer
  BY <1>0, <1>10 DEF PlanReviewer, Layers
<1>11. CASE Provisioner
  BY <1>0, <1>11 DEF Provisioner
<1>12. CASE GlobalValidator
  <2>1. ASSUME NEW t \in TaskIds PROVE WithTaskStatus(st, t, "pending") \in Session
    BY <1>0, TaskWriteType DEF Statuses
  <2> QED
    BY <1>0, <1>12, <2>1 DEF GlobalValidator, Layers, NoTask
<1>13. CASE Reporter
  <2>1. [st EXCEPT !.report = "succeeded"] \in Session
    BY <1>0 DEF Session
  <2> QED
    BY <1>13, <2>1 DEF Reporter
<1>14. CASE FastPath
  BY <1>0, <1>14 DEF FastPath
<1>15. CASE InferenceFails
  BY <1>0, <1>15 DEF InferenceFails
<1> QED
  BY <1>1, <1>2, <1>3, <1>4, <1>6, <1>7, <1>8, <1>9, <1>10, <1>11, <1>12, <1>13,
     <1>14, <1>15 DEF OuterNode

(* A node of the loop hands its driver a NodeResult, or raises.            *)
LEMMA InnerNodeResults ==
  ASSUME TypeOK, InnerNode
  PROVE  Fail \/ (inner /\ \E r \in NodeResults : InnerStep(r))
<1> USE NodeResultType DEF Branches, InnerAt
<1>0. ch \in Session
  BY DEF TypeOK
<1>1. CASE TaskSelector
  <2>1. ASSUME NEW t \in TaskIds PROVE WithActiveTask(ch, t) \in Session
    BY <1>0, TaskWriteType DEF Statuses
  <2> QED
    BY <1>0, <1>1, <2>1 DEF TaskSelector
<1>2. CASE TaskAssertionFails
  BY <1>2 DEF TaskAssertionFails
<1>3. ch.task \in ch.plan.tasks => ch.task \in TaskIds
  BY <1>0 DEF Session, Plan
<1>4. CASE Composer
  BY <1>0, <1>4 DEF Composer
<1>5. CASE Implementer
  <2>1. WithAttempt(ch, ch.task) \in Session
    BY <1>0, <1>3, <1>5, TaskWriteType DEF Implementer, Statuses
  <2> QED
    BY <1>5, <2>1 DEF Implementer, Layers
<1>6. CASE Verifier
  <2>1. WithTaskStatus(ch, ch.task, "done") \in Session
    BY <1>0, <1>3, <1>6, TaskWriteType DEF Verifier, Statuses
  <2> QED
    BY <1>0, <1>6, <2>1 DEF Verifier, Layers
<1>7. CASE InnerInferenceFails
  BY <1>0, <1>7 DEF InnerInferenceFails
<1> QED
  BY <1>1, <1>2, <1>4, <1>5, <1>6, <1>7 DEF InnerNode

(* A turn starts well-typed.                                               *)
LEMMA InitType ==
  ASSUME Init
  PROVE  TypeOK
<1>1. 0 \in 0 .. StepBudget - 1 /\ 0 \in 0 .. MaxInterrupts
  BY CapAssumption
<1> QED
  BY <1>1, NewSessionType, PolicyAssumption, AdvisoryAssumption
  DEF Init, TypeOK, Modes, NoChild

(* Esc keeps the types.                                                    *)
LEMMA InterruptType ==
  ASSUME TypeOK, Interrupt
  PROVE  TypeOK'
<1>1. interrupts' \in 0 .. MaxInterrupts
  BY CapAssumption DEF Interrupt, TypeOK
<1>2. steps' \in 0 .. StepBudget - 1 /\ innerSteps' \in 0 .. StepBudget - 1
  BY CapAssumption DEF Interrupt
<1> QED
  BY <1>1, <1>2, NewSessionType DEF Interrupt, TypeOK, NoChild, Modes

(* The type invariant holds of every turn: the states the drivers thread   *)
(* through the graph, fork, merge and checkpoint are Sessions, and no node *)
(* starts once GLOBAL_STEP_BUDGET transitions are made.                    *)
THEOREM TypeCorrect == Spec => []TypeOK
<1>1. Init => TypeOK
  BY InitType
<1>2. TypeOK /\ [Next]_vars => TypeOK'
  <2> SUFFICES ASSUME TypeOK, [Next]_vars PROVE TypeOK'
    OBVIOUS
  <2>0. st \in Session /\ ckpt \in Session
    BY DEF TypeOK
  <2>1. CASE OuterNode
    BY <2>1, OuterNodeType
  <2>2. CASE InnerNode
    BY <2>2, InnerNodeResults, InnerStepType, FailType
  <2>3. CASE NodeRaises
    BY <2>3, FailType DEF NodeRaises
  <2>4. CASE AnswerQuery
    <3>1. ASSUME NEW a \in {"approve", "change"} PROVE Answered(st, a) \in Session
      BY <2>0, AnsweredType DEF Decisions
    <3> QED
      BY <2>4, <3>1, BeginType DEF AnswerQuery
  <2>5. CASE Interrupt
    BY <2>5, InterruptType
  <2>6. CASE Resume
    <3>1. WithoutPendingQuery(st) \in Session
      BY <2>0 DEF WithoutPendingQuery, Session
    <3> QED
      BY <2>6, <3>1, BeginType DEF Resume
  <2>7. CASE TurnOver \/ UNCHANGED vars
    BY <2>7 DEF TurnOver, TypeOK, vars, turn
  <2> QED
    BY <2>1, <2>2, <2>3, <2>4, <2>5, <2>6, <2>7 DEF Next, NodeEnds
<1> QED
  BY <1>1, <1>2, PTL DEF Spec

-----------------------------------------------------------------------------
(* The checkpoint an Esc falls back to.                                    *)

(* A root step that goes on starts a node whose checkpoint it just took.   *)
LEMMA DriverStepFollows ==
  ASSUME NEW r, DriverStep(r)
  PROVE  CheckpointFollowsRun'
<1> DEFINE s == AdvancingTo(r.state, st.node, Route(st.node, r, policy))
<1>1. CASE EnterNode(s) /\ ckpt' = s
  <2> HIDE DEF s
  <2> QED
    BY <1>1 DEF EnterNode, CheckpointFollowsRun
<1>2. CASE mode' \in {"suspended", "done"}
  BY <1>2 DEF CheckpointFollowsRun
<1> QED
  BY <1>1, <1>2 DEF DriverStep, Leave, Return

(* A checkpoint taken inside the loop leads back into the loop.            *)
LEMMA InnerStepFollows ==
  ASSUME TypeOK, inner, NEW r \in NodeResults, InnerStep(r)
  PROVE  CheckpointFollowsRun'
<1> DEFINE nxt == InnerRoute(ch.node, r)
           c   == AdvancingTo(r.state, ch.node, nxt)
           m   == MergeCheckpoint(st, c)
<1>1. CASE \E x : DriverStep(x)
  BY <1>1, DriverStepFollows
<1>2. CASE /\ nxt \in InnerNodes /\ ch' = c /\ ckpt' = m /\ inner' = inner
  <2>1. c \in Session /\ c.node = nxt
    BY <1>2, AdvancingToType, AdvancingToFields DEF NodeResults
  <2> HIDE DEF nxt, c
  <2>2. m.saved = [node |-> c.node, task |-> c.task] /\ m.plan = c.plan
        /\ m.history = c.history /\ m \in Session
    <3>1. st \in Session
      BY DEF TypeOK
    <3> QED
      BY <1>2, <2>1, <3>1, SubgraphType, MergeFields, MergeSaved
  <2> HIDE DEF m
  <2>3. m.saved # NoCursor
    BY <1>2, <2>1, <2>2 DEF NoCursor, InnerNodes, None
  <2>4. /\ Fork(m).node = c.node /\ Fork(m).task = c.task
        /\ Fork(m).plan = c.plan /\ Fork(m).history = c.history
    BY <2>2, <2>3, ForkFields
  <2> QED
    BY <1>2, <2>4 DEF CheckpointFollowsRun
<1> QED
  BY <1>1, <1>2 DEF InnerStep

(* Esc loses no more than the node in flight: at every moment of a run the *)
(* live state the app would keep leads back to the running node with the   *)
(* run's data, inside the subgraph too.                                    *)
THEOREM CheckpointAlwaysFollowsRun == Spec => []CheckpointFollowsRun
<1>1. Init => CheckpointFollowsRun
  BY DEF Init, CheckpointFollowsRun
<1>2. TypeOK /\ CheckpointFollowsRun /\ [Next]_vars => CheckpointFollowsRun'
  <2> SUFFICES ASSUME TypeOK, CheckpointFollowsRun, [Next]_vars
               PROVE  CheckpointFollowsRun'
    OBVIOUS
  <2>1. CASE OuterNode
    <3>1. \E r : DriverStep(r)
      BY <2>1 DEF OuterNode, Router, Explorer, UnderstandingGate, Interviewer,
         SpecConfirmGate, PlanConfirmGate, ConfirmGate, Planner, PlanGate, PlanReviewer,
         Provisioner, GlobalValidator, Reporter, FastPath, InferenceFails
    <3> QED
      BY <3>1, DriverStepFollows
  <2>2. CASE InnerNode
    <3>1. CASE Fail
      BY <3>1 DEF Fail, Leave, CheckpointFollowsRun
    <3>2. CASE inner /\ \E r \in NodeResults : InnerStep(r)
      BY <3>2, InnerStepFollows
    <3> QED
      BY <2>2, <3>1, <3>2, InnerNodeResults
  <2>3. CASE NodeRaises
    BY <2>3 DEF NodeRaises, Fail, Leave, CheckpointFollowsRun
  <2>4. CASE AnswerQuery \/ Resume
    <3>1. \E s : Begin(s)
      BY <2>4 DEF AnswerQuery, Resume
    <3> QED
      BY <3>1 DEF Begin, EnterNode, CheckpointFollowsRun
  <2>5. CASE Interrupt
    BY <2>5 DEF Interrupt, CheckpointFollowsRun
  <2>6. CASE TurnOver \/ UNCHANGED vars
    BY <2>6 DEF TurnOver, CheckpointFollowsRun, vars, turn
  <2> QED
    BY <2>1, <2>2, <2>3, <2>4, <2>5, <2>6 DEF Next, NodeEnds
<1> QED
  BY <1>1, <1>2, TypeCorrect, PTL DEF Spec

-----------------------------------------------------------------------------
(* The counters: how often each node bounced, what the user answered, how  *)
(* many questions were asked.  The invariant is a predicate on a session,  *)
(* Tallied, that holds of every copy of the state a turn keeps: the root   *)
(* driver's, the inner driver's and the checkpoint, so that an Esc, which  *)
(* goes back to the checkpoint, cannot break it.                           *)

(* Each node's own bounces are within its cap.                             *)
Capped(s) ==
  /\ s.history["understanding_gate"] <= UnderstandingBudget
  /\ s.history["plan_gate"] <= PlanBudget
  /\ s.history["plan_reviewer"] <= ReviewCap
  /\ \A g \in ConfirmGates : s.history[g] <= ConfirmCap
  /\ s.history["scoped_fixup"] <= MaxScopedFixups
  /\ s.history["replan_fixup"] <= MaxFixups

(* A gate has bounced once per answer, but for one; it waits for an answer *)
(* only when there is none left.                                           *)
Acted(s) ==
  \A g \in ConfirmGates :
    /\ s.history[g] <= s.given[g] /\ s.given[g] <= s.history[g] + 1
    /\ s.pending = g => s.given[g] = s.history[g]

(* The interviewer never has more than MAX_ROUNDS answers, nor waits for   *)
(* one more.                                                               *)
Asked(s) ==
  /\ s.asked <= MaxRounds
  /\ s.pending = "interviewer" => s.asked < MaxRounds

Tallied(s) == Capped(s) /\ Acted(s) /\ Asked(s)

(* The inductive invariant; a suspended turn knows what it waits for, and  *)
(* the inner driver runs only inside implement_loop.                       *)
TallyInv ==
  /\ TypeOK
  /\ Tallied(st) /\ Tallied(ch) /\ Tallied(ckpt)
  /\ mode = "suspended" => st.pending # None
  /\ inner => st.node = "implement_loop"

-----------------------------------------------------------------------------
(* Tallied reads four fields; dropping a pending query keeps it.           *)
LEMMA TalliedSame ==
  ASSUME NEW s \in Session, NEW u, Tallied(s),
         u.history = s.history, u.given = s.given, u.asked = s.asked,
         u.pending \in {s.pending, None}
  PROVE  Tallied(u)
<1>1. None \notin ConfirmGates /\ None # "interviewer"
  BY DEF None, ConfirmGates
<1> QED
  BY <1>1 DEF Tallied, Capped, Acted, Asked

(* A fresh turn has nothing to count.                                      *)
LEMMA TalliedNew == Tallied(NewSession)
<1>1. NewSession \in Session
  BY NewSessionType
<1>2. /\ \A b \in Bounces : NewSession.history[b] = 0
      /\ \A g \in ConfirmGates : NewSession.given[g] = 0
      /\ NewSession.asked = 0 /\ NewSession.pending = None
  BY DEF NewSession
<1> QED
  BY <1>1, <1>2, CapAssumption
  DEF Tallied, Capped, Acted, Asked, Bounces, ConfirmGates, None

(* Forward edges and escalations are no bounces.                           *)
LEMMA ForwardKeepsHistory ==
  ASSUME NEW r \in NodeResults, r.verdict # "repair",
         NEW node \in OuterNodes, NEW p \in Policies, NEW s
  PROVE  LET nxt == Route(node, r, p)
         IN  nxt # Stop => AdvancingTo(s, node, nxt).history = s.history
<1> DEFINE nxt == Route(node, r, p)
<1>1. BounceOf(node, nxt) = None
  BY DEF Route, FORWARD, FullAutoSkip, BounceOf, OuterNodes, NodeResults, Stop
<1> QED
  BY <1>1 DEF AdvancingTo, Logged

(* What is left of a root step is that its result, with the query it asks  *)
(* or the cursor it advances, is tallied.                                  *)
LEMMA DriverStepTally ==
  ASSUME TallyInv, NEW r \in NodeResults, DriverStep(r), Tallied(r.state),
         r.query # None => Tallied([r.state EXCEPT !.pending = r.query]),
         LET nxt == Route(st.node, r, policy)
         IN  r.query = None /\ nxt # Stop => Tallied(AdvancingTo(r.state, st.node, nxt))
  PROVE  TallyInv'
<1> DEFINE nxt == Route(st.node, r, policy)
           s   == AdvancingTo(r.state, st.node, nxt)
           q   == [r.state EXCEPT !.pending = r.query]
<1>1. TypeOK'
  BY DriverStepType DEF TallyInv
<1>2. r.state \in Session /\ q.pending = r.query
  BY DEF NodeResults, Session
<1>3. nxt # Stop => s \in Session
  BY <1>2, RouteType, AdvancingToType
<1>4. ASSUME NEW u \in Session, Tallied(u) PROVE Tallied(Stamped(u)) /\ Tallied(Fork(u))
  <2>1. /\ Stamped(u).history = u.history /\ Stamped(u).given = u.given
        /\ Stamped(u).asked = u.asked /\ Stamped(u).pending = u.pending
    BY DEF Stamped, Session
  <2> QED
    BY <1>4, <2>1, ForkFields, TalliedSame
<1>5. /\ r.query # None => Tallied(q)
      /\ r.query = None /\ nxt # Stop => Tallied(s)
  OBVIOUS
<1> HIDE DEF nxt, s, q
<1>6. CASE r.query # None /\ Leave(q, "suspended", None) /\ ckpt' = q
  BY <1>1, <1>2, <1>5, <1>6, TalliedNew DEF Leave, TallyInv, NoChild
<1>7. CASE r.query = None /\ nxt = Stop /\ Return(r.state, None) /\ UNCHANGED ckpt
  BY <1>1, <1>2, <1>4, <1>7, TalliedNew DEF Return, Leave, TallyInv, NoChild
<1>8. CASE /\ r.query = None /\ nxt # Stop /\ ckpt' = s
           /\ \E escape : Return(s, escape)
  BY <1>1, <1>3, <1>4, <1>5, <1>8, TalliedNew DEF Return, Leave, TallyInv, NoChild
<1>9. CASE r.query = None /\ nxt # Stop /\ ckpt' = s /\ EnterNode(s)
  BY <1>1, <1>3, <1>4, <1>5, <1>9, TalliedNew DEF EnterNode, TallyInv, NoChild
<1> QED
  BY <1>6, <1>7, <1>8, <1>9 DEF DriverStep, nxt, s, q

(* A node that neither repairs nor asks only has to hand on a tallied state. *)
LEMMA PlainStepTally ==
  ASSUME TallyInv, st.node \in OuterNodes, NEW r \in NodeResults, DriverStep(r),
         r.verdict # "repair", r.query = None, Tallied(r.state)
  PROVE  TallyInv'
<1> DEFINE nxt == Route(st.node, r, policy)
           s   == AdvancingTo(r.state, st.node, nxt)
<1>1. r.state \in Session
  BY DEF NodeResults
<1>2. nxt # Stop => s.history = r.state.history
  BY ForwardKeepsHistory DEF TallyInv, TypeOK
<1>3. /\ s.given = r.state.given /\ s.asked = r.state.asked
      /\ s.pending = r.state.pending
  BY <1>1, AdvancingToFields
<1>4. nxt # Stop => Tallied(s)
  BY <1>1, <1>2, <1>3, TalliedSame
<1> QED
  BY <1>4, DriverStepTally

(* A bounce its node still had room for, answered if the node is a gate of *)
(* the user's, keeps the tally.                                            *)
LEMMA BounceTally ==
  ASSUME NEW s \in Session, Tallied(s), NEW from, NEW to,
         NEW b \in Bounces, b = BounceOf(from, to),
         b = "understanding_gate" => s.history[b] < UnderstandingBudget,
         b = "plan_gate" => s.history[b] < PlanBudget,
         b = "plan_reviewer" => s.history[b] < ReviewCap,
         b \in ConfirmGates => s.history[b] < ConfirmCap /\ s.history[b] < s.given[b],
         b = "scoped_fixup" => s.history[b] < MaxScopedFixups,
         b = "replan_fixup" => s.history[b] < MaxFixups
  PROVE  Tallied(AdvancingTo(s, from, to))
<1> DEFINE a == AdvancingTo(s, from, to)
<1>1. /\ a.given = s.given /\ a.asked = s.asked /\ a.pending = s.pending
  BY AdvancingToFields
<1>2. \A c \in Bounces : \/ a.history[c] = s.history[c]
                         \/ c = b /\ a.history[c] = s.history[c] + 1
  <2>1. b # None
    BY DEF Bounces, None
  <2>2. a.history = Logged(s.history, b)
    BY DEF AdvancingTo, Session
  <2>3. s.history \in [Bounces -> Nat]
    BY DEF Session
  <2> HIDE DEF a
  <2> QED
    BY <2>1, <2>2, <2>3 DEF Logged
<1>3. /\ \A c \in Bounces : s.history[c] \in Nat
      /\ \A g \in ConfirmGates : s.given[g] \in Nat
      /\ s.asked \in Nat
  BY DEF Session
<1> HIDE DEF a
<1>4. Capped(a)
  BY <1>2, <1>3, CapAssumption DEF Tallied, Capped, Bounces, ConfirmGates
<1>5. Acted(a)
  <2> SUFFICES ASSUME NEW g \in ConfirmGates
               PROVE  /\ a.history[g] <= a.given[g] /\ a.given[g] <= a.history[g] + 1
                      /\ a.pending = g => a.given[g] = a.history[g]
    BY DEF Acted
  <2>1. g \in Bounces
    BY DEF Bounces, ConfirmGates
  <2>2. /\ s.history[g] <= s.given[g] /\ s.given[g] <= s.history[g] + 1
        /\ s.pending = g => s.given[g] = s.history[g]
    BY DEF Tallied, Acted
  <2> QED
    BY <1>1, <1>2, <1>3, <2>1, <2>2
<1> QED
  BY <1>1, <1>4, <1>5 DEF Tallied, Asked, a

(* A repair from node `from`.                                              *)
LEMMA RepairTally ==
  ASSUME TallyInv, NEW s \in Session, NEW layer \in Layers, DriverStep(Repair(s, layer)),
         Tallied(s), Tallied(AdvancingTo(s, st.node, SHALLOWEST(layer)))
  PROVE  TallyInv'
<1>1. Repair(s, layer) \in NodeResults
  BY NodeResultType
<1>2. /\ Repair(s, layer).state = s /\ Repair(s, layer).query = None
      /\ Route(st.node, Repair(s, layer), policy) = SHALLOWEST(layer)
  BY DEF Repair, Route
<1> QED
  BY <1>1, <1>2, DriverStepTally

(* The inner driver counts nothing, and what it bubbles only counts as a   *)
(* replan of the loop.                                                     *)
LEMMA InnerStepTally ==
  ASSUME TallyInv, inner, ch.node \in InnerNodes,
         NEW r \in NodeResults, r.query = None, Tallied(r.state), InnerStep(r)
  PROVE  TallyInv'
<1> DEFINE nxt == InnerRoute(ch.node, r)
           c   == AdvancingTo(r.state, ch.node, nxt)
<1>1. /\ TypeOK /\ st \in Session /\ r.state \in Session
      /\ st.node = "implement_loop" /\ st.node \in OuterNodes
      /\ Tallied(st)
  BY DEF TallyInv, TypeOK, NodeResults, OuterNodes
<1>2. CASE nxt = Escape /\ DriverStep(Bubble(r))
  <2>1. r.verdict = "repair" /\ r.layer \in Layers /\ r.layer # "implementation"
    BY <1>2 DEF InnerRoute, InnerForward, Escape, Stop, NodeResults
  <2>2. Bubble(r) \in NodeResults /\ Bubble(r).state = st /\ Bubble(r).query = None
    BY <1>1 DEF Bubble, NodeResults
  <2>3. Route(st.node, Bubble(r), policy) \in {"planner", "explorer", "interviewer"}
    BY <2>1 DEF Bubble, NodeResults, Route, SHALLOWEST, Layers
  <2> DEFINE to == Route(st.node, Bubble(r), policy)
  <2> HIDE DEF to
  <2>4. Tallied(AdvancingTo(st, st.node, to))
    <3>1. BounceOf(st.node, to) = None
      BY <1>1, <2>3 DEF BounceOf, to
    <3>2. AdvancingTo(st, st.node, to).history = st.history
      BY <1>1, <3>1 DEF AdvancingTo, Logged, Session
    <3> QED
      BY <1>1, <3>2, AdvancingToFields, TalliedSame
  <2> QED
    BY <1>1, <1>2, <2>2, <2>4, DriverStepTally DEF to
<1>3. CASE DriverStep(Produced(MergeFinished(st, r.state), "done"))
  <2>1. MergeFinished(st, r.state) \in Session
    BY <1>1, SubgraphType
  <2>2. Tallied(MergeFinished(st, r.state))
    BY <1>1, MergeFields, TalliedSame
  <2>3. /\ Produced(MergeFinished(st, r.state), "done") \in NodeResults
        /\ Produced(MergeFinished(st, r.state), "done").verdict # "repair"
        /\ Produced(MergeFinished(st, r.state), "done").query = None
        /\ Produced(MergeFinished(st, r.state), "done").state = MergeFinished(st, r.state)
    BY <2>1, NodeResultType DEF Produced, Branches
  <2> QED
    BY <1>1, <1>3, <2>2, <2>3, PlainStepTally
<1>4. CASE DriverStep(Escalate(st))
  <2>1. /\ Escalate(st) \in NodeResults /\ Escalate(st).verdict # "repair"
        /\ Escalate(st).query = None /\ Escalate(st).state = st
    BY <1>1, NodeResultType DEF Escalate
  <2> QED
    BY <1>1, <1>4, <2>1, PlainStepTally
<1>5. CASE /\ nxt \in InnerNodes /\ ch' = c /\ ckpt' = MergeCheckpoint(st, c)
           /\ UNCHANGED <<mode, st, inner>>
  <2>1. c.history = r.state.history
    <3>1. BounceOf(ch.node, nxt) = None
      BY DEF BounceOf, InnerNodes
    <3> QED
      BY <1>1, <3>1 DEF AdvancingTo, Logged, Session
  <2>2. c \in Session /\ c.node \in InnerNodes
    BY <1>1, <1>5, AdvancingToType, AdvancingToFields
  <2>3. Tallied(c)
    BY <1>1, <2>1, AdvancingToFields, TalliedSame
  <2> HIDE DEF nxt, c
  <2>4. Tallied(MergeCheckpoint(st, c))
    BY <1>1, <2>2, <2>3, MergeFields, TalliedSame
  <2>5. TypeOK'
    BY <1>1, InnerStepType
  <2> QED
    BY <1>5, <2>3, <2>4, <2>5 DEF TallyInv
<1> QED
  BY <1>2, <1>3, <1>4, <1>5 DEF InnerStep

(* A node that hands on a tallied state, approves or escalates.            *)
LEMMA OnwardTally ==
  ASSUME TallyInv, st.node \in OuterNodes, NEW s \in Session, Tallied(s),
         \/ \E b \in Branches : DriverStep(Produced(s, b))
         \/ DriverStep(Approve(s))
         \/ DriverStep(Escalate(s))
  PROVE  TallyInv'
<1>1. ASSUME NEW r \in {Produced(s, b) : b \in Branches} \cup {Approve(s), Escalate(s)}
      PROVE  r \in NodeResults /\ r.state = s /\ r.verdict # "repair" /\ r.query = None
  BY NodeResultType DEF Produced, Approve, Escalate
<1> QED
  BY <1>1, PlainStepTally

(* GateNode.run: the budget is what BounceTally asks for.                  *)
LEMMA GateTally ==
  ASSUME TallyInv, st.node \in OuterNodes, NEW valid, NEW advise,
         NEW budget \in Nat, NEW layer \in Layers,
         NEW b \in Bounces, b = BounceOf(st.node, SHALLOWEST(layer)),
         \/ b = "understanding_gate" /\ budget = UnderstandingBudget
         \/ b = "plan_gate" /\ budget = PlanBudget,
         DriverStep(GateResult(valid, advise, st.history[b], budget, layer))
  PROVE  TallyInv'
<1>1. st \in Session /\ Tallied(st) /\ st.history[b] \in Nat
  BY DEF TallyInv, TypeOK, Session
<1>2. CASE GateResult(valid, advise, st.history[b], budget, layer) \in {Approve(st), Escalate(st)}
  BY <1>1, <1>2, OnwardTally
<1>3. CASE /\ GateResult(valid, advise, st.history[b], budget, layer) = Repair(st, layer)
           /\ st.history[b] < budget
  <2>1. Tallied(AdvancingTo(st, st.node, SHALLOWEST(layer)))
    BY <1>1, <1>3, BounceTally DEF ConfirmGates
  <2> QED
    BY <1>1, <1>3, <2>1, RepairTally
<1> QED
  BY <1>1, <1>2, <1>3 DEF GateResult

(* A confirmation gate asks when every answer is acted on, and bounces     *)
(* only for an answer it has not acted on.                                 *)
LEMMA ConfirmGateTally ==
  ASSUME TallyInv, NEW g \in ConfirmGates, NEW layer \in Layers,
         BounceOf(g, SHALLOWEST(layer)) = g, ConfirmGate(g, layer)
  PROVE  TallyInv'
<1>1. /\ st \in Session /\ Tallied(st) /\ st.node = g /\ g \in OuterNodes
      /\ g \in Bounces /\ st.history[g] \in Nat /\ st.given[g] \in Nat
  BY DEF TallyInv, TypeOK, Session, ConfirmGate, At, ConfirmGates, OuterNodes, Bounces
<1>2. CASE DriverStep(Produced(st, None))
  BY <1>1, <1>2, OnwardTally DEF Branches
<1>3. CASE ~FreshAnswer(st, g) /\ DriverStep(Ask(st, g))
  <2>1. /\ Ask(st, g) \in NodeResults /\ Ask(st, g).state = st
        /\ Ask(st, g).query = g /\ g # None
    BY <1>1, NodeResultType DEF Ask, ConfirmGates, None
  <2>2. st.given[g] = st.history[g]
    BY <1>1, <1>3 DEF FreshAnswer, Tallied, Acted
  <2>3. Tallied([st EXCEPT !.pending = g])
    BY <1>1, <2>2 DEF Tallied, Capped, Acted, Asked, Session, ConfirmGates
  <2> QED
    BY <1>1, <1>3, <2>1, <2>3, DriverStepTally
<1>4. CASE FreshAnswer(st, g) /\ MayBounce(st, g) /\ DriverStep(Repair(st, layer))
  <2>1. Tallied(AdvancingTo(st, st.node, SHALLOWEST(layer)))
    BY <1>1, <1>4, BounceTally DEF FreshAnswer, MayBounce, ConfirmGates
  <2> QED
    BY <1>1, <1>4, <2>1, RepairTally
<1> QED
  BY <1>2, <1>3, <1>4 DEF ConfirmGate

(* GlobalValidator.run spends a fixup per bounce.                          *)
LEMMA GlobalValidatorTally ==
  ASSUME TallyInv, GlobalValidator
  PROVE  TallyInv'
<1>1. /\ st \in Session /\ Tallied(st) /\ st.node = "global_validator"
      /\ st.node \in OuterNodes
  BY DEF TallyInv, TypeOK, GlobalValidator, At, OuterNodes
<1>2. CASE DriverStep(Produced(st, "pass"))
  BY <1>1, <1>2, OnwardTally DEF Branches
<1>3. CASE \E t \in TaskIds : /\ st.history["scoped_fixup"] < MaxScopedFixups
                             /\ DriverStep(Repair(WithTaskStatus(st, t, "pending"),
                                                  "implementation"))
  <2> PICK t \in TaskIds : /\ st.history["scoped_fixup"] < MaxScopedFixups
                          /\ DriverStep(Repair(WithTaskStatus(st, t, "pending"),
                                               "implementation"))
    BY <1>3
  <2> DEFINE s == WithTaskStatus(st, t, "pending")
  <2>1. /\ s \in Session /\ s.history = st.history /\ s.given = st.given
        /\ s.asked = st.asked /\ s.pending = st.pending
    BY <1>1, TaskWriteType DEF WithTaskStatus, Session, Statuses
  <2> HIDE DEF s
  <2>2. Tallied(s)
    BY <1>1, <2>1, TalliedSame
  <2>3. /\ BounceOf(st.node, SHALLOWEST("implementation")) = "scoped_fixup"
        /\ "scoped_fixup" \in Bounces \ ConfirmGates
    BY <1>1 DEF BounceOf, SHALLOWEST, Bounces, ConfirmGates
  <2>4. Tallied(AdvancingTo(s, st.node, SHALLOWEST("implementation")))
    BY <2>1, <2>2, <2>3, BounceTally
  <2> QED
    BY <2>1, <2>2, <2>4, RepairTally DEF Layers, s
<1>4. CASE st.history["replan_fixup"] < MaxFixups /\ DriverStep(Repair(st, "plan"))
  <2>1. /\ BounceOf(st.node, SHALLOWEST("plan")) = "replan_fixup"
        /\ "replan_fixup" \in Bounces \ ConfirmGates
    BY <1>1 DEF BounceOf, SHALLOWEST, Bounces, ConfirmGates
  <2>2. Tallied(AdvancingTo(st, st.node, SHALLOWEST("plan")))
    BY <1>1, <1>4, <2>1, BounceTally
  <2> QED
    BY <1>1, <1>4, <2>2, RepairTally DEF Layers
<1> QED
  BY <1>2, <1>3, <1>4 DEF GlobalValidator, NoTask

(* Every node of the root graph keeps the tally.                           *)
LEMMA OuterNodeTally ==
  ASSUME TallyInv, OuterNode
  PROVE  TallyInv'
<1>0. st \in Session /\ Tallied(st)
  BY DEF TallyInv, TypeOK
<1> USE DEF At, OuterNodes
<1>1. CASE Router
  BY <1>0, <1>1, OnwardTally DEF Router, Branches
<1>2. CASE Explorer
  <2> PICK found \in BOOLEAN : DriverStep(Produced([st EXCEPT !.located = found], None))
    BY <1>2 DEF Explorer
  <2> DEFINE s == [st EXCEPT !.located = found]
  <2>1. /\ s \in Session /\ s.history = st.history /\ s.given = st.given
        /\ s.asked = st.asked /\ s.pending = st.pending
    BY <1>0 DEF Session
  <2> HIDE DEF s
  <2>2. Tallied(s)
    BY <1>0, <2>1, TalliedSame
  <2> QED
    BY <1>2, <2>1, <2>2, OnwardTally DEF Explorer, Branches, s
<1>3. CASE UnderstandingGate
  <2>1. BounceOf(st.node, SHALLOWEST("understanding")) = "understanding_gate"
    BY <1>3 DEF UnderstandingGate, BounceOf, SHALLOWEST
  <2> QED
    BY <1>3, <2>1, GateTally, CapAssumption DEF UnderstandingGate, Layers, Bounces
<1>4. CASE Interviewer
  <2>1. CASE DriverStep(Produced(st, None))
    BY <1>0, <1>4, <2>1, OnwardTally DEF Interviewer, Branches
  <2>2. CASE MayAsk(st) /\ DriverStep(Ask(st, "interviewer"))
    <3>1. /\ Ask(st, "interviewer") \in NodeResults /\ Ask(st, "interviewer").state = st
          /\ Ask(st, "interviewer").query = "interviewer" /\ "interviewer" # None
      BY <1>0, NodeResultType DEF Ask, None
    <3>2. st.asked < MaxRounds
      <4>1. /\ st.asked \in Nat
            /\ st.given["spec_confirm_gate"] \in Nat
            /\ st.given["plan_confirm_gate"] \in Nat
        BY <1>0 DEF Session, ConfirmGates
      <4> QED
        BY <2>2, <4>1, CapAssumption DEF MayAsk, Interview
    <3>3. Tallied([st EXCEPT !.pending = "interviewer"])
      BY <1>0, <3>2 DEF Tallied, Capped, Acted, Asked, Session, ConfirmGates
    <3> QED
      BY <1>0, <2>2, <3>1, <3>3, DriverStepTally
  <2> QED
    BY <1>4, <2>1, <2>2 DEF Interviewer
<1>5. CASE SpecConfirmGate
  <2>1. BounceOf("spec_confirm_gate", SHALLOWEST("acceptance")) = "spec_confirm_gate"
    BY DEF BounceOf, SHALLOWEST
  <2> QED
    BY <1>5, <2>1, ConfirmGateTally DEF SpecConfirmGate, ConfirmGates, Layers
<1>6. CASE PlanConfirmGate
  <2>1. BounceOf("plan_confirm_gate", SHALLOWEST("plan")) = "plan_confirm_gate"
    BY DEF BounceOf, SHALLOWEST
  <2> QED
    BY <1>6, <2>1, ConfirmGateTally DEF PlanConfirmGate, ConfirmGates, Layers
<1>7. CASE Planner
  <2> PICK shape \in PlanShapes :
             DriverStep(Produced([st EXCEPT !.plan = FreshPlan(shape)], None))
    BY <1>7 DEF Planner
  <2> DEFINE s == [st EXCEPT !.plan = FreshPlan(shape)]
  <2>1. /\ s \in Session /\ s.history = st.history /\ s.given = st.given
        /\ s.asked = st.asked /\ s.pending = st.pending
    <3>1. FreshPlan(shape) \in Plan
      BY ShapeAssumption, FreshPlanType
    <3> QED
      BY <1>0, <3>1 DEF Session
  <2> HIDE DEF s
  <2>2. Tallied(s)
    BY <1>0, <2>1, TalliedSame
  <2> QED
    BY <1>7, <2>1, <2>2, OnwardTally DEF Planner, Branches, s
<1>8. CASE PlanGate
  <2>1. BounceOf(st.node, SHALLOWEST("plan")) = "plan_gate"
    BY <1>8 DEF PlanGate, BounceOf, SHALLOWEST
  <2> QED
    BY <1>8, <2>1, GateTally, CapAssumption DEF PlanGate, Layers, Bounces
<1>9. CASE PlanReviewer
  <2>1. CASE DriverStep(Approve(st)) \/ DriverStep(Escalate(st))
    BY <1>0, <1>9, <2>1, OnwardTally DEF PlanReviewer
  <2>2. CASE ~(st.history["plan_reviewer"] >= ReviewCap) /\ DriverStep(Repair(st, "plan"))
    <3>1. /\ BounceOf(st.node, SHALLOWEST("plan")) = "plan_reviewer"
          /\ "plan_reviewer" \in Bounces \ ConfirmGates
      BY <1>9 DEF PlanReviewer, BounceOf, SHALLOWEST, Bounces, ConfirmGates
    <3>2. st.history["plan_reviewer"] \in Nat
      BY <1>0, <3>1 DEF Session
    <3>3. Tallied(AdvancingTo(st, st.node, SHALLOWEST("plan")))
      BY <1>0, <2>2, <3>1, <3>2, BounceTally, CapAssumption
    <3> QED
      BY <1>0, <2>2, <3>3, RepairTally DEF Layers
  <2> QED
    BY <1>9, <2>1, <2>2 DEF PlanReviewer
<1>10. CASE Provisioner
  BY <1>0, <1>10, OnwardTally DEF Provisioner, Branches
<1>11. CASE GlobalValidator
  BY <1>11, GlobalValidatorTally
<1>12. CASE Reporter
  <2> DEFINE s == [st EXCEPT !.report = "succeeded"]
  <2>1. /\ s \in Session /\ s.history = st.history /\ s.given = st.given
        /\ s.asked = st.asked /\ s.pending = st.pending
    BY <1>0 DEF Session
  <2> HIDE DEF s
  <2>2. Tallied(s)
    BY <1>0, <2>1, TalliedSame
  <2> QED
    BY <1>12, <2>1, <2>2, OnwardTally DEF Reporter, Branches, s
<1>13. CASE FastPath
  BY <1>0, <1>13, OnwardTally DEF FastPath, Branches
<1>14. CASE InferenceFails
  BY <1>0, <1>14, OnwardTally DEF InferenceFails, Inferring
<1> QED
  BY <1>1, <1>2, <1>3, <1>4, <1>5, <1>6, <1>7, <1>8, <1>9, <1>10, <1>11, <1>12,
     <1>13, <1>14 DEF OuterNode

(* Every node of the loop keeps the tally.                                 *)
LEMMA InnerNodeTally ==
  ASSUME TallyInv, InnerNode
  PROVE  TallyInv'
<1>0. ch \in Session /\ Tallied(ch) /\ TypeOK
  BY DEF TallyInv, TypeOK
<1>1. CASE Fail
  BY <1>0, <1>1, FailType, TalliedNew DEF Fail, Leave, TallyInv, NoChild
<1>2. ch.task \in ch.plan.tasks => ch.task \in TaskIds
  BY <1>0 DEF Session, Plan
<1>3. ASSUME inner, ch.node \in InnerNodes,
             NEW s \in Session, s.history = ch.history, s.given = ch.given,
             s.asked = ch.asked, s.pending = ch.pending,
             NEW r \in NodeResults, r.state = s, r.query = None, InnerStep(r)
      PROVE  TallyInv'
  BY <1>0, <1>3, TalliedSame, InnerStepTally
<1>4. ASSUME NEW t \in TaskIds,
             NEW s \in {WithActiveTask(ch, t), WithAttempt(ch, t),
                        WithTaskStatus(ch, t, "done"), ch}
      PROVE  /\ s \in Session /\ s.history = ch.history /\ s.given = ch.given
             /\ s.asked = ch.asked /\ s.pending = ch.pending
  <2>1. s \in Session
    BY <1>0, TaskWriteType DEF Statuses
  <2> QED
    BY <1>0, <2>1 DEF WithActiveTask, WithAttempt, WithTaskStatus, Session
<1>5. ASSUME NEW s \in Session,
             NEW r \in {Produced(s, b) : b \in Branches} \cup
                       {Repair(s, layer) : layer \in Layers} \cup {Escalate(s)}
      PROVE  r \in NodeResults /\ r.state = s /\ r.query = None
  <2>1. \A b \in Branches : Produced(s, b).state = s /\ Produced(s, b).query = None
    BY DEF Produced
  <2>2. \A layer \in Layers : Repair(s, layer).state = s /\ Repair(s, layer).query = None
    BY DEF Repair
  <2>3. Escalate(s).state = s /\ Escalate(s).query = None
    BY DEF Escalate
  <2> QED
    BY <1>5, <2>1, <2>2, <2>3, NodeResultType
<1> USE <1>3, <1>4, <1>5 DEF InnerAt, InnerNodes
<1>6. CASE TaskSelector
  <2>1. ASSUME NEW t \in TaskIds, InnerStep(Produced(WithActiveTask(ch, t), "task"))
        PROVE  TallyInv'
    BY <1>6, <2>1 DEF TaskSelector, Branches
  <2>2. ASSUME InnerStep(Produced(ch, "done")) PROVE TallyInv'
    BY <1>0, <1>6, <2>2 DEF TaskSelector, Branches
  <2> QED
    BY <1>6, <2>1, <2>2 DEF TaskSelector
<1>7. CASE TaskAssertionFails
  BY <1>1, <1>7 DEF TaskAssertionFails
<1>8. CASE Composer
  BY <1>0, <1>8 DEF Composer, Branches
<1>9. CASE Implementer
  <2> DEFINE s == WithAttempt(ch, ch.task)
  <2>1. ch.task \in TaskIds
    BY <1>2, <1>9 DEF Implementer
  <2>2. s \in Session /\ s.history = ch.history /\ s.given = ch.given
        /\ s.asked = ch.asked /\ s.pending = ch.pending
    BY <2>1
  <2>3. InnerStep(Produced(s, None)) \/ InnerStep(Repair(s, "plan"))
    BY <1>9 DEF Implementer
  <2> HIDE DEF s
  <2> QED
    BY <1>9, <2>2, <2>3 DEF Implementer, Branches, Layers
<1>10. CASE Verifier
  <2>1. ASSUME InnerStep(Produced(WithTaskStatus(ch, ch.task, "done"), "done"))
        PROVE  TallyInv'
    BY <1>2, <1>10, <2>1 DEF Verifier, Branches
  <2>2. ASSUME NEW layer \in Layers, InnerStep(Repair(ch, layer)) PROVE TallyInv'
    BY <1>0, <1>10, <2>2 DEF Verifier
  <2> QED
    BY <1>1, <1>10, <2>1, <2>2 DEF Verifier, Layers
<1>11. CASE InnerInferenceFails
  BY <1>0, <1>11 DEF InnerInferenceFails, InnerInferring
<1> QED
  BY <1>6, <1>7, <1>8, <1>9, <1>10, <1>11 DEF InnerNode

(* Calling Driver.run on a tallied state keeps the tally.                  *)
LEMMA BeginTally ==
  ASSUME TallyInv, NEW s \in Session, Tallied(s), Begin(s), UNCHANGED interrupts
  PROVE  TallyInv'
<1>1. TypeOK'
  BY BeginType DEF TallyInv
<1>2. Tallied(Fork(s))
  BY ForkFields, TalliedSame
<1> QED
  BY <1>1, <1>2, TalliedNew DEF Begin, EnterNode, TallyInv, NoChild

(* An answer makes the pending gate's last bounce one short, or uses up a  *)
(* round of the interviewer's.                                             *)
LEMMA AnsweredTally ==
  ASSUME NEW s \in Session, Tallied(s), s.pending # None, NEW a \in Decisions
  PROVE  Tallied(Answered(s, a))
<1> DEFINE u == Answered(s, a)
<1>1. u.pending = None /\ u.history = s.history
  BY DEF Answered, Session
<1>2. /\ \A b \in Bounces : s.history[b] \in Nat
      /\ \A g \in ConfirmGates : s.given[g] \in Nat
      /\ s.asked \in Nat /\ ConfirmGates \subseteq Bounces
      /\ None \notin ConfirmGates /\ None # "interviewer"
  BY DEF Session, ConfirmGates, Bounces, None
<1>3. CASE s.pending \in ConfirmGates
  <2>1. u.given = [s.given EXCEPT ![s.pending] = @ + 1] /\ u.asked = s.asked
    BY <1>3 DEF Answered, Session
  <2>2. s.given \in [ConfirmGates -> Nat]
    BY DEF Session
  <2> HIDE DEF u
  <2>3. \A g \in ConfirmGates : u.history[g] <= u.given[g] /\ u.given[g] <= u.history[g] + 1
    <3> SUFFICES ASSUME NEW g \in ConfirmGates
                 PROVE  u.history[g] <= u.given[g] /\ u.given[g] <= u.history[g] + 1
      OBVIOUS
    <3>1. /\ s.history[g] <= s.given[g] /\ s.given[g] <= s.history[g] + 1
          /\ s.pending = g => s.given[g] = s.history[g]
      BY DEF Tallied, Acted
    <3>2. u.given[g] = IF g = s.pending THEN s.given[g] + 1 ELSE s.given[g]
      BY <1>3, <2>1, <2>2
    <3> QED
      BY <1>1, <1>2, <3>1, <3>2
  <2> QED
    BY <1>1, <1>2, <2>1, <2>3 DEF Tallied, Capped, Acted, Asked, u
<1>4. CASE s.pending \notin ConfirmGates
  <2>1. u.given = s.given /\ u.asked = s.asked + 1
    BY <1>4 DEF Answered, Session
  <2>2. s.pending = "interviewer"
    BY <1>4 DEF Session
  <2> HIDE DEF u
  <2> QED
    BY <1>1, <1>2, <2>1, <2>2, CapAssumption DEF Tallied, Capped, Acted, Asked, u
<1> QED
  BY <1>3, <1>4

-----------------------------------------------------------------------------
(* The invariant behind the theorems below.                                *)
THEOREM TallyInvariant == Spec => []TallyInv
<1>1. Init => TallyInv
  <2>1. Init => TypeOK
    BY InitType
  <2> QED
    BY <2>1, TalliedNew DEF Init, TallyInv, NoChild
<1>2. TallyInv /\ [Next]_vars => TallyInv'
  <2> SUFFICES ASSUME TallyInv, [Next]_vars PROVE TallyInv'
    OBVIOUS
  <2>0. /\ TypeOK /\ st \in Session /\ ckpt \in Session
        /\ Tallied(st) /\ Tallied(ckpt)
    BY DEF TallyInv, TypeOK
  <2>1. CASE OuterNode
    BY <2>1, OuterNodeTally
  <2>2. CASE InnerNode
    BY <2>2, InnerNodeTally
  <2>3. CASE NodeRaises
    BY <2>0, <2>3, FailType, TalliedNew DEF NodeRaises, Fail, Leave, TallyInv, NoChild
  <2>4. CASE AnswerQuery
    <3>1. PICK a \in {"approve", "change"} : Begin(Answered(st, a))
      BY <2>4 DEF AnswerQuery
    <3>2. Answered(st, a) \in Session /\ Tallied(Answered(st, a))
      BY <2>0, <2>4, AnsweredType, AnsweredTally DEF AnswerQuery, TallyInv, Decisions
    <3> QED
      BY <2>4, <3>1, <3>2, BeginTally DEF AnswerQuery
  <2>5. CASE Interrupt
    <3>1. TypeOK'
      BY <2>0, <2>5, InterruptType
    <3> QED
      BY <2>0, <2>5, <3>1, TalliedNew DEF Interrupt, TallyInv, NoChild
  <2>6. CASE Resume
    <3> DEFINE s == WithoutPendingQuery(st)
    <3>1. /\ s \in Session /\ s.history = st.history /\ s.given = st.given
          /\ s.asked = st.asked /\ s.pending = None
      BY <2>0 DEF WithoutPendingQuery, Session
    <3> HIDE DEF s
    <3>2. Tallied(s)
      BY <2>0, <3>1, TalliedSame
    <3> QED
      BY <2>6, <3>1, <3>2, BeginTally DEF Resume, s
  <2>7. CASE TurnOver \/ UNCHANGED vars
    BY <2>7 DEF TurnOver, TallyInv, TypeOK, vars, turn
  <2> QED
    BY <2>1, <2>2, <2>3, <2>4, <2>5, <2>6, <2>7 DEF Next, NodeEnds
<1> QED
  BY <1>1, <1>2, PTL DEF Spec

(* No node bounces more often than its cap, on whatever way through the    *)
(* loops the turn comes back to it, and however often Esc cuts it.         *)
THEOREM BouncesAlwaysCapped == Spec => []BouncesCapped
<1>1. TallyInv => BouncesCapped
  BY DEF TallyInv, Tallied, Capped, BouncesCapped, Work
<1> QED
  BY <1>1, TallyInvariant, PTL

(* A confirmation gate acts once on every answer: it neither loses nor     *)
(* reuses a change request, in any interleaving of bounces, replans and    *)
(* interruptions.                                                          *)
THEOREM AnswersAlwaysActedOn == Spec => []AnswersActedOn
<1>1. TallyInv => AnswersActedOn
  <2> SUFFICES ASSUME TallyInv, NEW g \in ConfirmGates
               PROVE  /\ st.given[g] - st.history[g] \in {0, 1}
                      /\ st.pending = g => st.given[g] = st.history[g]
    BY DEF AnswersActedOn
  <2>1. st.given[g] \in Nat /\ st.history[g] \in Nat
    BY DEF TallyInv, TypeOK, Session, ConfirmGates, Bounces
  <2> QED
    BY <2>1 DEF TallyInv, Tallied, Acted
<1> QED
  BY <1>1, TallyInvariant, PTL

(* The user is asked at most MAX_ROUNDS questions by the interviewer and,  *)
(* by each gate, one more than it may bounce.                              *)
THEOREM QuestionsAlwaysBounded == Spec => []QuestionsBounded
<1>1. TallyInv => QuestionsBounded
  <2> SUFFICES ASSUME TallyInv PROVE QuestionsBounded
    OBVIOUS
  <2>1. /\ \A g \in ConfirmGates : /\ st.given[g] \in Nat /\ st.history[g] \in Nat
                                 /\ st.given[g] <= st.history[g] + 1
                                 /\ st.history[g] <= ConfirmCap
        /\ st.asked \in Nat /\ st.asked <= MaxRounds
    BY DEF TallyInv, TypeOK, Session, ConfirmGates, Bounces, Tallied, Capped, Acted, Asked
  <2> QED
    BY <2>1, CapAssumption DEF QuestionsBounded, Interview, ConfirmGates
<1> QED
  BY <1>1, TallyInvariant, PTL

-----------------------------------------------------------------------------
(***************************************************************************)
(* The plan: which one is carried out, in which order, and what a report   *)
(* of success says of it.  As for the counters, what is invariant is a     *)
(* predicate on a session, Kept, that holds of every copy of the state a   *)
(* turn keeps.  Below it, what a node of the loop may do to a plan, and    *)
(* from there how any step relates the plan before it to the plan after.   *)
(***************************************************************************)

(* Where a plan has passed PlanGate, and where it has been carried out.    *)
Planned  == {"plan_reviewer", "plan_confirm_gate", "provisioner", "implement_loop",
             "global_validator", "reporter"} \cup InnerNodes
Finished == {"global_validator", "reporter"}

(* Unless the gates only advise, no other plan comes this far.             *)
Checked(s, a) ==
  ~a => /\ s.node \in Planned => ValidPlan(s.plan)
        /\ s.node \in Finished => AllDone(s.plan)

(* The user asked for another plan and the gate may still bounce.          *)
Refused(s) == s.plan.decision = "change" /\ MayBounce(s, "plan_confirm_gate")

(* A refused plan is at the gate that is to bounce it, at the planner that *)
(* replaces it, or given up; only that gate asks about a plan, and only    *)
(* where there is a user.                                                  *)
Heeded(s, p) ==
  /\ Refused(s) =>
       \/ s.node \in {"planner", "user"}
       \/ /\ s.node = "plan_confirm_gate"
          /\ s.latest["plan_confirm_gate"] = "change"
          /\ FreshAnswer(s, "plan_confirm_gate")
  /\ s.pending = "plan_confirm_gate" => s.node = "plan_confirm_gate"
  /\ p = "FULL_AUTO" => s.plan.decision = "none" /\ s.pending # "plan_confirm_gate"

Kept(s, p, a) == Checked(s, a) /\ Heeded(s, p)

(* Every copy of the state is Kept, a running turn waits for no answer,    *)
(* and only the reporter reports success, where the turn ends.             *)
KeptInv ==
  /\ Kept(st, policy, advisory) /\ Kept(ch, policy, advisory)
  /\ Kept(ckpt, policy, advisory)
  /\ ch.report # "succeeded" /\ ckpt.report # "succeeded"
  /\ st.report = "succeeded" => mode = "done" /\ st.node = "reporter"
  /\ mode = "running" => st.pending = None /\ ch.pending = None
  /\ inner => mode = "running"

(* The task can be worked on.                                              *)
Ready(plan, t) == t \in plan.tasks /\ \A d \in DepsOf(plan, t) : IsDone(plan, d)

Working == {"composer", "implementer", "verifier"}

(* The loop never has fewer finished tasks than the session it was forked  *)
(* from; and as long as nobody pressed Esc, so that no saved cursor enters *)
(* it in the middle, its nodes work on a task that is ready.               *)
LoopInv ==
  /\ inner => \A t \in TaskIds : IsDone(st.plan, t) => IsDone(ch.plan, t)
  /\ interrupts = 0 =>
       /\ st.saved = NoCursor
       /\ inner /\ ch.node \in Working => Ready(ch.plan, ch.task)
-----------------------------------------------------------------------------
(* Sessions that agree on all Kept reads but the cursor and the progress   *)
(* of the tasks.                                                           *)
Alike(s, u) ==
  /\ u.history = s.history /\ u.given = s.given /\ u.latest = s.latest
  /\ u.pending = s.pending /\ u.report = s.report
  /\ u.plan.tasks = s.plan.tasks /\ u.plan.deps = s.plan.deps
  /\ u.plan.sound = s.plan.sound /\ u.plan.decision = s.plan.decision

InLoop == InnerNodes \cup {"implement_loop"}

(* PlanGate looks at the tasks, not at their progress.                     *)
LEMMA ValidAlike ==
  ASSUME NEW s, NEW u, Alike(s, u)
  PROVE  ValidPlan(s.plan) <=> ValidPlan(u.plan)
BY DEF Alike, ValidPlan, HasCycle, DepsOf

(* The loop may do what it does to the tasks and to the cursor.            *)
LEMMA KeptInLoop ==
  ASSUME NEW s, NEW u, NEW p, NEW a, Kept(s, p, a), Alike(s, u),
         s.node \in InLoop, u.node \in InLoop
  PROVE  Kept(u, p, a) /\ ~Refused(u)
<1>1. ~Refused(s)
  BY DEF Kept, Heeded, InLoop, InnerNodes
<1>2. ~Refused(u)
  BY <1>1 DEF Refused, MayBounce, Alike
<1>3. Checked(u, a)
  BY ValidAlike DEF Kept, Checked, InLoop, InnerNodes, Planned, Finished
<1>4. Heeded(u, p)
  BY <1>2 DEF Kept, Heeded, Alike, InLoop, InnerNodes
<1> QED
  BY <1>2, <1>3, <1>4 DEF Kept

(* Kept reads neither the task of the cursor nor the report.               *)
LEMMA KeptSame ==
  ASSUME NEW s, NEW u, NEW p, NEW a, Kept(s, p, a),
         u.node = s.node, u.plan = s.plan, u.history = s.history, u.given = s.given,
         u.latest = s.latest, u.pending \in {s.pending, None}
  PROVE  Kept(u, p, a)
<1>1. None # "plan_confirm_gate"
  BY DEF None
<1> QED
  BY <1>1 DEF Kept, Checked, Heeded, Refused, MayBounce, FreshAnswer

(* A fresh turn has no plan yet.                                           *)
LEMMA KeptNew ==
  ASSUME NEW p, NEW a
  PROVE  Kept(NewSession, p, a)
<1>1. /\ NewSession.node = "router" /\ NewSession.pending = None
      /\ NewSession.plan.decision = "none"
  BY DEF NewSession, NoPlan, FreshPlan
<1> QED
  BY <1>1 DEF Kept, Checked, Heeded, Refused, Planned, Finished, InnerNodes, None

(* A transition keeps a session Kept if it takes a refused plan nowhere    *)
(* but to the planner or the user, and no other than a valid one on.       *)
LEMMA MoveKept ==
  ASSUME NEW s \in Session, NEW p, NEW a, Kept(s, p, a), s.pending = None,
         NEW from, NEW to, ~Refused(s) \/ to \in {"planner", "user"},
         ~a /\ to \in Planned => ValidPlan(s.plan),
         ~a /\ to \in Finished => AllDone(s.plan)
  PROVE  Kept(AdvancingTo(s, from, to), p, a)
<1> DEFINE u == AdvancingTo(s, from, to)
<1>1. u.node = to /\ u.plan = s.plan /\ u.pending = None
  BY AdvancingToFields
<1>2. Refused(u) => Refused(s)
  <2>1. /\ s.history \in [Bounces -> Nat] /\ "plan_confirm_gate" \in Bounces
        /\ u.history = Logged(s.history, BounceOf(from, to))
    BY DEF Session, Bounces, AdvancingTo
  <2>2. \/ u.history["plan_confirm_gate"] = s.history["plan_confirm_gate"]
        \/ u.history["plan_confirm_gate"] = s.history["plan_confirm_gate"] + 1
    BY <2>1 DEF Logged
  <2>3. s.history["plan_confirm_gate"] \in Nat
    BY <2>1
  <2> HIDE DEF u
  <2> QED
    BY <1>1, <2>2, <2>3, CapAssumption DEF Refused, MayBounce
<1> HIDE DEF u
<1>3. Checked(u, a)
  BY <1>1 DEF Checked
<1>4. Heeded(u, p)
  BY <1>1, <1>2 DEF Kept, Heeded, None
<1> QED
  BY <1>3, <1>4 DEF Kept, u

(* What is left of a root step: its result, with the query it asks or the  *)
(* cursor it advances, is Kept.                                            *)
LEMMA DriverStepKept ==
  ASSUME TallyInv, KeptInv, NEW r \in NodeResults, DriverStep(r),
         r.state.report # "succeeded", r.state.pending = None,
         LET nxt == Route(st.node, r, policy)
         IN  IF r.query # None
             THEN Kept([r.state EXCEPT !.pending = r.query], policy, advisory)
             ELSE IF nxt = Stop
                  THEN Kept(r.state, policy, advisory)
                  ELSE Kept(AdvancingTo(r.state, st.node, nxt), policy, advisory)
  PROVE  KeptInv'
<1> DEFINE nxt == Route(st.node, r, policy)
           s   == AdvancingTo(r.state, st.node, nxt)
           q   == [r.state EXCEPT !.pending = r.query]
<1>1. /\ r.state \in Session /\ q \in Session
      /\ q.report # "succeeded"
  BY DEF NodeResults, Session
<1>2. nxt # Stop => s \in Session
  BY <1>1, RouteType, AdvancingToType
<1>3. s.report # "succeeded" /\ s.pending = None
  BY <1>1, AdvancingToFields
<1>4. ASSUME NEW u \in Session, Kept(u, policy, advisory), u.report # "succeeded"
      PROVE  Kept(Stamped(u), policy, advisory) /\ Stamped(u).report # "succeeded"
  <2>1. /\ Stamped(u).node = u.node /\ Stamped(u).plan = u.plan
        /\ Stamped(u).history = u.history /\ Stamped(u).given = u.given
        /\ Stamped(u).latest = u.latest /\ Stamped(u).pending = u.pending
        /\ Stamped(u).report # "succeeded"
    BY <1>4 DEF Stamped, Session
  <2> QED
    BY <1>4, <2>1, KeptSame
<1>5. ASSUME NEW u \in Session, Kept(u, policy, advisory), u.node = "implement_loop"
      PROVE  /\ Kept(Fork(u), policy, advisory)
             /\ Fork(u).report = u.report /\ Fork(u).pending = u.pending
  <2>1. Alike(u, Fork(u))
    BY <1>5, ForkFields DEF Alike
  <2>2. Fork(u).node \in InnerNodes
    BY <1>5, ForkFields DEF Session, SavedCursors, NoCursor, InnerNodes
  <2> QED
    BY <1>5, <2>1, <2>2, KeptInLoop, ForkFields DEF InLoop
<1>6. /\ r.query # None => Kept(q, policy, advisory)
      /\ r.query = None /\ nxt = Stop => Kept(r.state, policy, advisory)
      /\ r.query = None /\ nxt # Stop => Kept(s, policy, advisory)
  OBVIOUS
<1>7. /\ Kept(NoChild, policy, advisory) /\ NoChild.report # "succeeded"
      /\ NoChild.pending = None
  BY KeptNew DEF NoChild, NewSession, None
<1> HIDE DEF nxt, s, q
<1>8. CASE r.query # None /\ Leave(q, "suspended", None) /\ ckpt' = q
  BY <1>1, <1>6, <1>7, <1>8 DEF Leave, KeptInv
<1>9. CASE r.query = None /\ nxt = Stop /\ Return(r.state, None) /\ UNCHANGED ckpt
  BY <1>1, <1>4, <1>6, <1>7, <1>9 DEF Return, Leave, KeptInv
<1>10. CASE /\ r.query = None /\ nxt # Stop /\ ckpt' = s
            /\ \E escape : Return(s, escape)
  BY <1>2, <1>3, <1>4, <1>6, <1>7, <1>10 DEF Return, Leave, KeptInv
<1>11. CASE /\ r.query = None /\ nxt # Stop /\ ckpt' = s /\ EnterNode(s)
            /\ UNCHANGED <<policy, advisory>>
  BY <1>2, <1>3, <1>5, <1>6, <1>7, <1>11 DEF EnterNode, KeptInv
<1> QED
  BY <1>8, <1>9, <1>10, <1>11 DEF DriverStep, nxt, s, q

(* Forward edges lead past PlanGate only from it or from behind it, and    *)
(* past the loop only from its end or from behind it.                      *)
LEMMA ForwardEdges ==
  ASSUME NEW r \in NodeResults, r.verdict # "repair", NEW node \in OuterNodes,
         NEW p \in Policies
  PROVE  LET nxt == Route(node, r, p)
         IN  /\ nxt \in Planned => node \in Planned \cup {"plan_gate"}
             /\ nxt \in Finished => \/ node = "global_validator"
                                    \/ node = "implement_loop" /\ r.branch = "done"
             /\ node = "reporter" => nxt \in {Stop, "user"}
             /\ r.verdict = "escalate" => nxt = "user"
BY DEF Route, FORWARD, FullAutoSkip, Planned, Finished, InnerNodes, OuterNodes, Stop,
   NodeResults, Policies

(* A node that hands on a plan the user did not refuse, one that is valid  *)
(* if the node is PlanGate, and one that is carried out if it is the loop. *)
LEMMA OnwardKept ==
  ASSUME TallyInv, KeptInv, NEW r \in NodeResults, DriverStep(r),
         r.verdict # "repair", r.query = None,
         Kept(r.state, policy, advisory), r.state.node = st.node, st.node \in OuterNodes,
         r.state.report # "succeeded", r.state.pending = None,
         ~Refused(r.state) \/ r.verdict = "escalate",
         ~advisory /\ st.node = "plan_gate" /\ r.verdict # "escalate" => ValidPlan(r.state.plan),
         ~advisory /\ st.node = "implement_loop" /\ r.branch = "done" => AllDone(r.state.plan)
  PROVE  KeptInv'
<1> DEFINE nxt == Route(st.node, r, policy)
<1>1. policy \in Policies /\ r.state \in Session
  BY DEF TallyInv, TypeOK, NodeResults
<1>2. /\ nxt \in Planned => st.node \in Planned \cup {"plan_gate"}
      /\ nxt \in Finished => \/ st.node = "global_validator"
                             \/ st.node = "implement_loop" /\ r.branch = "done"
      /\ r.verdict = "escalate" => nxt = "user"
  BY <1>1, ForwardEdges
<1>3. "user" \notin Planned \cup Finished
  BY DEF Planned, Finished, InnerNodes
<1>4. ~advisory /\ nxt \in Planned => ValidPlan(r.state.plan)
  BY <1>2, <1>3 DEF Kept, Checked
<1>5. ~advisory /\ nxt \in Finished => AllDone(r.state.plan)
  BY <1>2, <1>3 DEF Kept, Checked, Finished
<1> HIDE DEF nxt
<1>6. Kept(AdvancingTo(r.state, st.node, nxt), policy, advisory)
  BY <1>1, <1>2, <1>4, <1>5, MoveKept
<1> QED
  BY <1>6, DriverStepKept DEF nxt

(* A repair leads back, and the planner is where a refused plan belongs.   *)
LEMMA RepairKept ==
  ASSUME TallyInv, KeptInv, NEW r \in NodeResults, DriverStep(r),
         r.verdict = "repair", r.query = None,
         Kept(r.state, policy, advisory),
         r.state.report # "succeeded", r.state.pending = None,
         ~Refused(r.state) \/ r.layer = "plan",
         ~advisory /\ r.layer = "implementation" => ValidPlan(r.state.plan)
  PROVE  KeptInv'
<1> DEFINE nxt == Route(st.node, r, policy)
<1>1. r.state \in Session /\ r.layer \in Layers
  BY DEF NodeResults
<1>2. /\ nxt \in Planned => r.layer = "implementation"
      /\ nxt \notin Finished
      /\ r.layer = "plan" => nxt = "planner"
      /\ nxt # Stop
  BY <1>1 DEF Route, SHALLOWEST, Layers, Planned, Finished, InnerNodes, Stop
<1> HIDE DEF nxt
<1>3. Kept(AdvancingTo(r.state, st.node, nxt), policy, advisory)
  BY <1>1, <1>2, MoveKept
<1> QED
  BY <1>2, <1>3, DriverStepKept DEF nxt

(* A node that changes no more of the state than the report and what the   *)
(* user knows nothing of, and does not ask.                                *)
LEMMA StayingKept ==
  ASSUME TallyInv, KeptInv, mode = "running", ~inner, st.node \in OuterNodes,
         st.node \notin {"plan_gate", "implement_loop"}, ~Refused(st),
         \/ \E b \in Branches : DriverStep(Produced(st, b))
         \/ DriverStep(Approve(st))
  PROVE  KeptInv'
<1>1. st \in Session /\ Kept(st, policy, advisory) /\ st.pending = None
      /\ st.report # "succeeded"
  BY DEF TallyInv, TypeOK, KeptInv
<1>2. ASSUME NEW r \in {Produced(st, b) : b \in Branches} \cup {Approve(st)}
      PROVE  /\ r \in NodeResults /\ r.state = st /\ r.verdict # "repair"
             /\ r.query = None
  BY <1>1, NodeResultType DEF Produced, Approve
<1> QED
  BY <1>1, <1>2, OnwardKept

(* A node that gives up, wherever it is.                                   *)
LEMMA EscalateKept ==
  ASSUME TallyInv, KeptInv, mode = "running", st.node \in OuterNodes,
         DriverStep(Escalate(st))
  PROVE  KeptInv'
<1>1. st \in Session /\ Kept(st, policy, advisory) /\ st.pending = None
      /\ st.report # "succeeded"
  BY DEF TallyInv, TypeOK, KeptInv
<1>2. /\ Escalate(st) \in NodeResults /\ Escalate(st).state = st
      /\ Escalate(st).verdict = "escalate" /\ Escalate(st).query = None
      /\ Escalate(st).branch = None /\ None # "done"
  BY <1>1, NodeResultType DEF Escalate, None
<1> QED
  BY <1>1, <1>2, OnwardKept

(* A repair of the state as it is.                                         *)
LEMMA SendBackKept ==
  ASSUME TallyInv, KeptInv, mode = "running", NEW layer \in Layers \ {"implementation"},
         DriverStep(Repair(st, layer)), ~Refused(st) \/ layer = "plan"
  PROVE  KeptInv'
<1>1. st \in Session /\ Kept(st, policy, advisory) /\ st.pending = None
      /\ st.report # "succeeded"
  BY DEF TallyInv, TypeOK, KeptInv
<1>2. /\ Repair(st, layer) \in NodeResults /\ Repair(st, layer).state = st
      /\ Repair(st, layer).verdict = "repair" /\ Repair(st, layer).query = None
      /\ Repair(st, layer).layer = layer
  BY <1>1, NodeResultType DEF Repair
<1> QED
  BY <1>1, <1>2, RepairKept

(* A confirmation gate passes a plan on only when the user did not refuse  *)
(* it, or may not any more, and asks only when there is no answer to act   *)
(* on.                                                                     *)
LEMMA ConfirmGateKept ==
  ASSUME TallyInv, KeptInv, NEW g \in ConfirmGates,
         NEW layer \in Layers \ {"implementation"},
         g = "plan_confirm_gate" => layer = "plan", ConfirmGate(g, layer)
  PROVE  KeptInv'
<1>1. /\ mode = "running" /\ ~inner /\ st.node = g /\ st.node \in OuterNodes
      /\ st.node \notin {"plan_gate", "implement_loop", "planner", "user"}
      /\ st \in Session /\ Kept(st, policy, advisory)
      /\ st.report # "succeeded" /\ st.pending = None
  BY DEF ConfirmGate, At, ConfirmGates, OuterNodes, TallyInv, TypeOK, KeptInv
<1>2. Refused(st) => /\ g = "plan_confirm_gate" /\ st.latest[g] = "change"
                     /\ FreshAnswer(st, g) /\ MayBounce(st, g)
                     /\ policy # "FULL_AUTO"
  BY <1>1 DEF Kept, Heeded, Refused
<1>3. CASE DriverStep(Produced(st, None)) /\ ~Refused(st)
  BY <1>1, <1>3, StayingKept DEF Branches
<1>4. CASE policy # "FULL_AUTO" /\ ~FreshAnswer(st, g) /\ DriverStep(Ask(st, g))
  <2> DEFINE q == [st EXCEPT !.pending = g]
  <2>1. /\ Ask(st, g) \in NodeResults /\ Ask(st, g).state = st
        /\ Ask(st, g).query = g /\ g # None
    BY <1>1, NodeResultType DEF Ask, ConfirmGates, None
  <2>2. /\ q.node = st.node /\ q.plan = st.plan /\ q.pending = g
        /\ q.history = st.history
    BY <1>1 DEF Session
  <2> HIDE DEF q
  <2>3. Checked(q, advisory)
    BY <1>1, <2>2 DEF Kept, Checked
  <2>4. ~Refused(q)
    BY <1>2, <1>4, <2>2 DEF Refused, MayBounce
  <2>5. Heeded(q, policy)
    BY <1>1, <1>4, <2>2, <2>4 DEF Kept, Heeded
  <2>6. Kept(q, policy, advisory)
    BY <2>3, <2>5 DEF Kept
  <2> QED
    BY <1>1, <1>4, <2>1, <2>6, DriverStepKept DEF q
<1>5. CASE DriverStep(Repair(st, layer))
  BY <1>1, <1>2, <1>5, SendBackKept
<1> QED
  BY <1>2, <1>3, <1>4, <1>5 DEF ConfirmGate

(* The interviewer's questions are not about a plan.                       *)
LEMMA InterviewerKept ==
  ASSUME TallyInv, KeptInv, Interviewer
  PROVE  KeptInv'
<1>1. /\ mode = "running" /\ ~inner /\ st.node = "interviewer"
      /\ st.node \in OuterNodes
      /\ st \in Session /\ Kept(st, policy, advisory)
      /\ st.report # "succeeded" /\ st.pending = None
  BY DEF Interviewer, At, OuterNodes, TallyInv, TypeOK, KeptInv
<1>2. ~Refused(st)
  BY <1>1 DEF Kept, Heeded
<1>3. CASE DriverStep(Produced(st, None))
  BY <1>1, <1>2, <1>3, StayingKept DEF Branches
<1>4. CASE DriverStep(Ask(st, "interviewer"))
  <2> DEFINE q == [st EXCEPT !.pending = "interviewer"]
  <2>1. /\ Ask(st, "interviewer") \in NodeResults /\ Ask(st, "interviewer").state = st
        /\ Ask(st, "interviewer").query = "interviewer" /\ "interviewer" # None
    BY <1>1, NodeResultType DEF Ask, None
  <2>2. /\ q.node = st.node /\ q.plan = st.plan /\ q.pending = "interviewer"
        /\ q.history = st.history
    BY <1>1 DEF Session
  <2> HIDE DEF q
  <2>3. Kept(q, policy, advisory)
    BY <1>1, <1>2, <2>2 DEF Kept, Checked, Heeded, Refused, MayBounce
  <2> QED
    BY <1>1, <1>4, <2>1, <2>3, DriverStepKept DEF q
<1> QED
  BY <1>3, <1>4 DEF Interviewer

(* A fresh plan is nobody's refused one, and is not carried out yet.       *)
LEMMA PlannerKept ==
  ASSUME TallyInv, KeptInv, Planner
  PROVE  KeptInv'
<1>1. /\ mode = "running" /\ st.node = "planner" /\ st.node \in OuterNodes
      /\ st \in Session /\ Kept(st, policy, advisory)
      /\ st.report # "succeeded" /\ st.pending = None
  BY DEF Planner, At, OuterNodes, TallyInv, TypeOK, KeptInv
<1> PICK shape \in PlanShapes :
           DriverStep(Produced([st EXCEPT !.plan = FreshPlan(shape)], None))
  BY DEF Planner
<1> DEFINE s == [st EXCEPT !.plan = FreshPlan(shape)]
<1>2. FreshPlan(shape) \in Plan /\ FreshPlan(shape).decision = "none"
  BY ShapeAssumption, FreshPlanType DEF FreshPlan
<1>3. /\ s \in Session /\ s.node = "planner" /\ s.plan.decision = "none"
      /\ s.report # "succeeded" /\ s.pending = None
  BY <1>1, <1>2 DEF Session
<1>4. DriverStep(Produced(s, None))
  OBVIOUS
<1> HIDE DEF s
<1>5. Kept(s, policy, advisory) /\ ~Refused(s)
  BY <1>3 DEF Kept, Checked, Heeded, Refused, Planned, Finished, InnerNodes, None
<1>6. /\ Produced(s, None) \in NodeResults /\ Produced(s, None).state = s
      /\ Produced(s, None).verdict # "repair" /\ Produced(s, None).query = None
  BY <1>3, NodeResultType DEF Produced, Branches
<1> QED
  BY <1>1, <1>3, <1>4, <1>5, <1>6, OnwardKept

(* PlanGate lets a plan through that is valid, or that it only advises on. *)
LEMMA PlanGateKept ==
  ASSUME TallyInv, KeptInv, PlanGate
  PROVE  KeptInv'
<1>1. /\ mode = "running" /\ st.node = "plan_gate" /\ st.node \in OuterNodes
      /\ st \in Session /\ Kept(st, policy, advisory)
      /\ st.report # "succeeded" /\ st.pending = None
  BY DEF PlanGate, At, OuterNodes, TallyInv, TypeOK, KeptInv
<1>2. ~Refused(st)
  BY <1>1 DEF Kept, Heeded
<1>3. CASE DriverStep(Escalate(st))
  BY <1>1, <1>3, EscalateKept
<1>4. CASE DriverStep(Repair(st, "plan"))
  BY <1>1, <1>4, SendBackKept DEF Layers
<1>5. CASE (ValidPlan(st.plan) \/ advisory) /\ DriverStep(Approve(st))
  <2>1. /\ Approve(st) \in NodeResults /\ Approve(st).state = st
        /\ Approve(st).verdict # "repair" /\ Approve(st).query = None
    BY <1>1, NodeResultType DEF Approve
  <2> QED
    BY <1>1, <1>2, <1>5, <2>1, OnwardKept
<1> QED
  BY <1>3, <1>4, <1>5 DEF PlanGate, GateResult

(* What global validation sends back to the loop is a valid plan with one  *)
(* task reopened.                                                          *)
LEMMA GlobalValidatorKept ==
  ASSUME TallyInv, KeptInv, GlobalValidator
  PROVE  KeptInv'
<1>1. /\ mode = "running" /\ ~inner /\ st.node = "global_validator"
      /\ st.node \in OuterNodes
      /\ st \in Session /\ Kept(st, policy, advisory)
      /\ st.report # "succeeded" /\ st.pending = None
  BY DEF GlobalValidator, At, OuterNodes, TallyInv, TypeOK, KeptInv
<1>2. ~Refused(st)
  BY <1>1 DEF Kept, Heeded
<1>3. CASE DriverStep(Produced(st, "pass"))
  BY <1>1, <1>2, <1>3, StayingKept DEF Branches
<1>4. CASE DriverStep(Repair(st, "plan"))
  BY <1>1, <1>4, SendBackKept DEF Layers
<1>5. ASSUME NEW t \in TaskIds,
             DriverStep(Repair(WithTaskStatus(st, t, "pending"), "implementation"))
      PROVE  KeptInv'
  <2> DEFINE s == WithTaskStatus(st, t, "pending")
             r == Repair(s, "implementation")
  <2>1. s \in Session
    BY <1>1, TaskWriteType DEF Statuses
  <2>2. Alike(st, s) /\ s.node = "global_validator"
    BY <1>1 DEF WithTaskStatus, Alike, Session, Plan
  <2>3. DriverStep(r)
    BY <1>5
  <2> HIDE DEF s
  <2>4. /\ r \in NodeResults /\ r.state = s /\ r.verdict = "repair"
        /\ r.query = None /\ r.layer = "implementation"
    BY <2>1, NodeResultType DEF Repair, Layers
  <2> HIDE DEF r
  <2>5. ~Refused(s) /\ (~advisory => ValidPlan(s.plan))
    <3>1. ~advisory => ValidPlan(st.plan)
      BY <1>1 DEF Kept, Checked, Planned
    <3> QED
      BY <1>2, <2>2, <3>1, ValidAlike DEF Refused, MayBounce, Alike
  <2>6. s.pending = None /\ s.report # "succeeded"
    BY <1>1, <2>2 DEF Alike
  <2>7. Kept(AdvancingTo(s, st.node, "implement_loop"), policy, advisory)
    <3> DEFINE u == AdvancingTo(s, st.node, "implement_loop")
    <3>1. /\ u.node = "implement_loop" /\ u.plan = s.plan /\ u.pending = None
          /\ u.history = Logged(s.history, "scoped_fixup")
      BY <1>1, <2>1, <2>6, AdvancingToFields DEF AdvancingTo, Session, BounceOf
    <3>2. u.history["plan_confirm_gate"] = s.history["plan_confirm_gate"]
      BY <2>1, <3>1 DEF Session, Logged, Bounces
    <3> HIDE DEF u
    <3>3. ~Refused(u)
      BY <2>5, <3>1, <3>2 DEF Refused, MayBounce
    <3>4. Checked(u, advisory)
      BY <2>5, <3>1 DEF Checked, Finished
    <3>5. Heeded(u, policy)
      BY <1>1, <2>2, <3>1, <3>3 DEF Kept, Heeded, Alike, None
    <3> QED
      BY <3>4, <3>5 DEF Kept, u
  <2>8. Route(st.node, r, policy) = "implement_loop" /\ "implement_loop" # Stop
    BY <2>4 DEF Route, SHALLOWEST, Stop
  <2> QED
    BY <2>3, <2>4, <2>6, <2>7, <2>8, DriverStepKept
<1> QED
  BY <1>3, <1>4, <1>5 DEF GlobalValidator, NoTask

(* Success is reported of the plan that was carried out, and ends the turn. *)
LEMMA ReporterKept ==
  ASSUME TallyInv, KeptInv, Reporter
  PROVE  KeptInv'
<1> DEFINE s == [st EXCEPT !.report = "succeeded"]
           r == Produced(s, None)
<1>1. /\ st.node = "reporter" /\ st \in Session /\ Kept(st, policy, advisory)
  BY DEF Reporter, At, TallyInv, TypeOK, KeptInv
<1>2. /\ s.node = st.node /\ s.plan = st.plan /\ s.history = st.history
      /\ s.given = st.given /\ s.latest = st.latest /\ s.pending = st.pending
      /\ s.report = "succeeded"
  BY <1>1 DEF Session
<1>3. DriverStep(r)
  BY DEF Reporter
<1> HIDE DEF s
<1>4. Route(st.node, r, policy) = Stop /\ r.query = None /\ r.state = s
  BY <1>1 DEF Route, FORWARD, FullAutoSkip, Produced, Stop
<1>5. Return(s, None) /\ UNCHANGED ckpt
  BY <1>3, <1>4 DEF DriverStep
<1>6. Kept(s, policy, advisory)
  BY <1>1, <1>2, KeptSame
<1>7. Stamped(s) = s
  BY <1>2 DEF Stamped, None
<1>8. /\ Kept(NoChild, policy, advisory) /\ NoChild.report # "succeeded"
      /\ NoChild.pending = None
  BY KeptNew DEF NoChild, NewSession, None
<1> QED
  BY <1>1, <1>2, <1>5, <1>6, <1>7, <1>8 DEF Return, Leave, KeptInv

(* Every node of the root graph keeps the plan what it should be.          *)
LEMMA OuterNodeKept ==
  ASSUME TallyInv, KeptInv, OuterNode
  PROVE  KeptInv'
<1>0. /\ st \in Session /\ Kept(st, policy, advisory)
      /\ mode = "running" => st.report # "succeeded" /\ st.pending = None
  BY DEF TallyInv, TypeOK, KeptInv
<1>1. ASSUME mode = "running", ~inner,
             st.node \in {"router", "explorer", "understanding_gate", "plan_reviewer",
                          "provisioner", "fast_path"}
      PROVE  ~Refused(st) /\ st.node \in OuterNodes
             /\ st.node \notin {"plan_gate", "implement_loop"}
  BY <1>0, <1>1 DEF Kept, Heeded, OuterNodes
<1> USE DEF At
<1>2. CASE Router
  BY <1>1, <1>2, StayingKept DEF Router, Branches
<1>3. CASE Explorer
  <2> PICK found \in BOOLEAN : DriverStep(Produced([st EXCEPT !.located = found], None))
    BY <1>3 DEF Explorer
  <2> DEFINE s == [st EXCEPT !.located = found]
  <2>1. /\ s \in Session /\ s.node = st.node /\ s.plan = st.plan
        /\ s.history = st.history /\ s.given = st.given /\ s.latest = st.latest
        /\ s.pending = st.pending /\ s.report = st.report
    BY <1>0 DEF Session
  <2>2. DriverStep(Produced(s, None))
    OBVIOUS
  <2> HIDE DEF s
  <2>3. Kept(s, policy, advisory) /\ (Refused(s) => Refused(st))
    BY <1>0, <2>1, KeptSame DEF Refused, MayBounce
  <2>4. /\ Produced(s, None) \in NodeResults /\ Produced(s, None).state = s
        /\ Produced(s, None).verdict # "repair" /\ Produced(s, None).query = None
    BY <2>1, NodeResultType DEF Produced, Branches
  <2> QED
    BY <1>0, <1>1, <1>3, <2>1, <2>2, <2>3, <2>4, OnwardKept DEF Explorer
<1>4. CASE UnderstandingGate
  <2>1. /\ mode = "running" /\ ~inner /\ st.node = "understanding_gate"
        /\ \/ DriverStep(Approve(st)) \/ DriverStep(Escalate(st))
           \/ DriverStep(Repair(st, "understanding"))
    BY <1>4 DEF UnderstandingGate, GateResult
  <2> QED
    BY <1>1, <2>1, StayingKept, EscalateKept, SendBackKept DEF Layers
<1>5. CASE Interviewer
  BY <1>5, InterviewerKept
<1>6. CASE SpecConfirmGate
  BY <1>6, ConfirmGateKept DEF SpecConfirmGate, ConfirmGates, Layers
<1>7. CASE PlanConfirmGate
  BY <1>7, ConfirmGateKept DEF PlanConfirmGate, ConfirmGates, Layers
<1>8. CASE Planner
  BY <1>8, PlannerKept
<1>9. CASE PlanGate
  BY <1>9, PlanGateKept
<1>10. CASE PlanReviewer
  <2>1. /\ mode = "running" /\ ~inner /\ st.node = "plan_reviewer"
        /\ \/ DriverStep(Approve(st)) \/ DriverStep(Escalate(st))
           \/ DriverStep(Repair(st, "plan"))
    BY <1>10 DEF PlanReviewer
  <2> QED
    BY <1>1, <2>1, StayingKept, EscalateKept, SendBackKept DEF Layers
<1>11. CASE Provisioner
  BY <1>1, <1>11, StayingKept DEF Provisioner, Branches
<1>12. CASE GlobalValidator
  BY <1>12, GlobalValidatorKept
<1>13. CASE Reporter
  BY <1>13, ReporterKept
<1>14. CASE FastPath
  BY <1>1, <1>14, StayingKept DEF FastPath, Branches
<1>15. CASE InferenceFails
  BY <1>15, EscalateKept DEF InferenceFails, Inferring, OuterNodes
<1> QED
  BY <1>2, <1>3, <1>4, <1>5, <1>6, <1>7, <1>8, <1>9, <1>10, <1>11, <1>12, <1>13,
     <1>14, <1>15 DEF OuterNode

-----------------------------------------------------------------------------
(* What a node of the loop does to the session it runs on.                 *)

(* The selector has nothing left to select.                                *)
Exhausted(plan) == \A t \in TaskIds : ~Runnable(plan, t)

(* A result of a node of the loop: it asks nothing, repairs the attempt or *)
(* wants another plan, and of the session changes only the progress of the *)
(* tasks and the cursor.  No task is unfinished by it, and the only one    *)
(* that is finished is the verifier's.  The loop ends when the selector    *)
(* has nothing left, and the nodes after it work on the task it selected.  *)
LoopResult(r) ==
  LET s   == r.state
      nxt == InnerRoute(ch.node, r)
  IN  /\ r.query = None
      /\ r.verdict = "repair" => r.layer \in {"implementation", "plan"}
      /\ Alike(ch, s) /\ s.node = ch.node
      /\ \A t \in TaskIds : IsDone(ch.plan, t) => IsDone(s.plan, t)
      /\ \A t \in TaskIds :
           IsDone(s.plan, t) => IsDone(ch.plan, t) \/ (ch.node = "verifier" /\ t = ch.task)
      /\ nxt = Stop => ch.node = "task_selector" /\ s = ch /\ Exhausted(ch.plan)
      /\ nxt \in Working => \/ ch.node = "task_selector" /\ Runnable(ch.plan, s.task)
                            \/ ch.node \in Working /\ s.task = ch.task

(* Writing a status or an attempt changes nothing else.                    *)
LEMMA TaskWrites ==
  ASSUME NEW s \in Session, NEW t \in TaskIds, NEW status \in Statuses
  PROVE  /\ LET u == WithTaskStatus(s, t, status)
            IN  /\ Alike(s, u) /\ u.node = s.node /\ u.task = s.task
                /\ u.plan.status = [s.plan.status EXCEPT ![t] = status]
         /\ LET u == WithActiveTask(s, t)
            IN  /\ Alike(s, u) /\ u.node = s.node /\ u.task = t
                /\ u.plan.status = [s.plan.status EXCEPT ![t] = "active"]
         /\ LET u == WithAttempt(s, t)
            IN  /\ Alike(s, u) /\ u.node = s.node /\ u.task = s.task
                /\ u.plan.status = s.plan.status
BY DEF WithTaskStatus, WithActiveTask, WithAttempt, Alike, Session, Plan

(* A session is like itself.                                               *)
LEMMA AlikeSelf == ASSUME NEW s PROVE Alike(s, s)
BY DEF Alike

(* A result that leaves the session as it is.                              *)
LEMMA IdleResult ==
  ASSUME ch \in Session,
         NEW r \in {Produced(ch, None), Repair(ch, "plan"),
                    Repair(ch, "implementation"), Escalate(ch)},
         \/ r = Produced(ch, None) /\ ch.node = "composer"
         \/ r # Produced(ch, None) /\ ch.node \in {"implementer", "verifier"}
  PROVE  r \in NodeResults /\ LoopResult(r)
<1>1. r \in NodeResults
  BY NodeResultType DEF Branches, Layers
<1>2. r.state = ch /\ r.query = None
  BY DEF Produced, Repair, Escalate
<1>3. r.verdict = "repair" => r.layer \in {"implementation", "plan"}
  BY DEF Produced, Repair, Escalate
<1>4. InnerRoute(ch.node, r) # Stop
  BY DEF Produced, Repair, Escalate, InnerRoute, InnerForward, Escape, Stop
<1>5. ch.node \in Working
  BY DEF Working
<1> QED
  BY <1>1, <1>2, <1>3, <1>4, <1>5, AlikeSelf DEF LoopResult

(* Whatever a node of the loop does, it hands its driver a result of that  *)
(* kind, or raises.                                                        *)
LEMMA LoopResults ==
  ASSUME TypeOK, InnerNode
  PROVE  \/ inner /\ Fail
         \/ /\ mode = "running" /\ inner /\ ch.node \in InnerNodes
            /\ \E r \in NodeResults : LoopResult(r) /\ InnerStep(r)
<1>0. ch \in Session /\ \A t \in TaskIds : ch.plan.status[t] \in Statuses
  BY DEF TypeOK, Session, Plan
<1>1. ch.task \in ch.plan.tasks => ch.task \in TaskIds
  BY <1>0 DEF Session, Plan
<1> USE DEF InnerAt, InnerNodes
<1>2. CASE TaskSelector
  <2>1. CASE InnerStep(Produced(ch, "done")) /\ Exhausted(ch.plan)
    <3> DEFINE r == Produced(ch, "done")
    <3>1. r \in NodeResults
      BY <1>0, NodeResultType DEF Branches
    <3>2. /\ r.state = ch /\ r.query = None /\ r.verdict # "repair"
          /\ InnerRoute(ch.node, r) = Stop
      BY <1>2 DEF TaskSelector, Produced, InnerRoute, InnerForward
    <3>3. InnerStep(r)
      BY <2>1
    <3> HIDE DEF r
    <3>4. LoopResult(r)
      BY <1>2, <2>1, <3>2, AlikeSelf DEF LoopResult, TaskSelector, Working, Stop
    <3> QED
      BY <1>2, <3>1, <3>3, <3>4 DEF TaskSelector
  <2>2. ASSUME NEW t \in TaskIds, Runnable(ch.plan, t),
               InnerStep(Produced(WithActiveTask(ch, t), "task"))
        PROVE  \E r \in NodeResults : LoopResult(r) /\ InnerStep(r)
    <3> DEFINE s == WithActiveTask(ch, t)
               r == Produced(s, "task")
    <3>1. /\ s \in Session /\ Alike(ch, s) /\ s.node = ch.node /\ s.task = t
          /\ s.plan.status = [ch.plan.status EXCEPT ![t] = "active"]
      BY <1>0, TaskWriteType, TaskWrites DEF Statuses
    <3>2. InnerStep(r)
      BY <2>2
    <3> HIDE DEF s
    <3>3. r \in NodeResults
      BY <3>1, NodeResultType DEF Branches
    <3>4. /\ r.state = s /\ r.query = None /\ r.verdict # "repair"
          /\ InnerRoute(ch.node, r) = "composer"
      BY <1>2 DEF TaskSelector, Produced, InnerRoute, InnerForward
    <3> HIDE DEF r
    <3>5. ch.plan.status \in [TaskIds -> Statuses]
      BY <1>0 DEF Session, Plan
    <3>6. \A u \in TaskIds : IsDone(s.plan, u) <=> IsDone(ch.plan, u)
      BY <2>2, <3>1, <3>5 DEF IsDone, Runnable, Alike
    <3>7. LoopResult(r)
      BY <1>2, <2>2, <3>1, <3>4, <3>6 DEF LoopResult, TaskSelector, Stop
    <3> QED
      BY <3>2, <3>3, <3>7
  <2> QED
    BY <1>2, <2>1, <2>2 DEF TaskSelector, Exhausted
<1>3. CASE TaskAssertionFails
  BY <1>3 DEF TaskAssertionFails
<1>4. CASE Composer
  BY <1>0, <1>4, IdleResult DEF Composer
<1>5. CASE Implementer
  <2> DEFINE s == WithAttempt(ch, ch.task)
  <2>1. /\ s \in Session /\ Alike(ch, s) /\ s.node = ch.node /\ s.task = ch.task
        /\ s.plan.status = ch.plan.status
    BY <1>0, <1>1, <1>5, TaskWriteType, TaskWrites DEF Implementer, Statuses
  <2>2. InnerStep(Produced(s, None)) \/ InnerStep(Repair(s, "plan"))
    BY <1>5 DEF Implementer
  <2> HIDE DEF s
  <2>3. \A u \in TaskIds : IsDone(s.plan, u) <=> IsDone(ch.plan, u)
    BY <2>1 DEF IsDone, Alike
  <2>4. ASSUME NEW r \in {Produced(s, None), Repair(s, "plan")}
        PROVE  r \in NodeResults /\ LoopResult(r)
    <3>1. r \in NodeResults
      BY <2>1, NodeResultType DEF Branches, Layers
    <3>2. /\ r.state = s /\ r.query = None
          /\ r.verdict = "repair" => r.layer = "plan"
      BY DEF Produced, Repair
    <3>3. InnerRoute(ch.node, r) # Stop
      BY <1>5 DEF Implementer, Produced, Repair, InnerRoute, InnerForward, Escape, Stop
    <3>4. ch.node \in Working
      BY <1>5 DEF Implementer, Working
    <3> QED
      BY <2>1, <2>3, <3>1, <3>2, <3>3, <3>4 DEF LoopResult
  <2> QED
    BY <1>5, <2>2, <2>4 DEF Implementer
<1>6. CASE Verifier
  <2>1. CASE Fail
    BY <1>6, <2>1 DEF Verifier
  <2>2. CASE InnerStep(Repair(ch, "plan")) \/ InnerStep(Repair(ch, "implementation"))
    BY <1>0, <1>6, <2>2, IdleResult DEF Verifier, Produced, Repair
  <2>3. CASE InnerStep(Produced(WithTaskStatus(ch, ch.task, "done"), "done"))
    <3> DEFINE s == WithTaskStatus(ch, ch.task, "done")
               r == Produced(s, "done")
    <3>1. /\ s \in Session /\ Alike(ch, s) /\ s.node = ch.node /\ s.task = ch.task
          /\ s.plan.status = [ch.plan.status EXCEPT ![ch.task] = "done"]
      BY <1>0, <1>1, <1>6, TaskWriteType, TaskWrites DEF Verifier, Statuses
    <3>2. InnerStep(r)
      BY <2>3
    <3> HIDE DEF s
    <3>3. r \in NodeResults
      BY <3>1, NodeResultType DEF Branches
    <3>4. /\ r.state = s /\ r.query = None /\ r.verdict # "repair"
          /\ InnerRoute(ch.node, r) = "task_selector"
      BY <1>6 DEF Verifier, Produced, InnerRoute, InnerForward
    <3> HIDE DEF r
    <3>5. ch.plan.status \in [TaskIds -> Statuses]
      BY <1>0 DEF Session, Plan
    <3>6. \A u \in TaskIds : /\ IsDone(ch.plan, u) => IsDone(s.plan, u)
                             /\ IsDone(s.plan, u) => IsDone(ch.plan, u) \/ u = ch.task
      BY <3>1, <3>5 DEF IsDone, Alike
    <3>7. LoopResult(r)
      BY <1>6, <3>1, <3>4, <3>6 DEF LoopResult, Verifier, Stop, Working
    <3> QED
      BY <1>6, <3>2, <3>3, <3>7 DEF Verifier
  <2> QED
    BY <1>6, <2>1, <2>2, <2>3 DEF Verifier
<1>7. CASE InnerInferenceFails
  BY <1>0, <1>7, IdleResult DEF InnerInferenceFails, InnerInferring, Escalate, Produced
<1> QED
  BY <1>2, <1>3, <1>4, <1>5, <1>6, <1>7 DEF InnerNode

(* Of a valid plan the selector leaves nothing: tasks that are neither     *)
(* finished nor runnable would each wait for another of them, a cycle.     *)
LEMMA NothingLeft ==
  ASSUME NEW plan \in Plan, ValidPlan(plan), Exhausted(plan)
  PROVE  AllDone(plan)
<1> DEFINE S == {t \in plan.tasks : plan.status[t] # "done"}
<1>1. \A t \in S : DepsOf(plan, t) \cap S # {}
  <2> SUFFICES ASSUME NEW t \in S PROVE \E d \in DepsOf(plan, t) : d \in S
    OBVIOUS
  <2>1. t \in TaskIds /\ t \in plan.tasks /\ plan.status[t] \in {"pending", "active"}
    BY DEF Plan, Statuses
  <2>2. PICK d \in DepsOf(plan, t) : ~IsDone(plan, d)
    BY <2>1 DEF Exhausted, Runnable
  <2>3. d \in plan.tasks
    BY <2>2 DEF ValidPlan, DepsOf
  <2> QED
    BY <2>2, <2>3 DEF IsDone
<1>2. S = {}
  BY <1>1 DEF ValidPlan, HasCycle
<1> QED
  BY <1>2 DEF AllDone

(* What the inner driver does with such a result keeps every copy Kept.    *)
LEMMA InnerStepKept ==
  ASSUME TallyInv, KeptInv, mode = "running", inner, ch.node \in InnerNodes,
         NEW r \in NodeResults, LoopResult(r), InnerStep(r)
  PROVE  KeptInv'
<1> DEFINE nxt == InnerRoute(ch.node, r)
           c   == AdvancingTo(r.state, ch.node, nxt)
<1>1. /\ st \in Session /\ ch \in Session /\ r.state \in Session
      /\ st.node = "implement_loop" /\ st.node \in OuterNodes
      /\ Kept(st, policy, advisory) /\ Kept(ch, policy, advisory)
      /\ st.report # "succeeded" /\ ch.report # "succeeded"
      /\ st.pending = None /\ ch.pending = None
  BY DEF TallyInv, TypeOK, KeptInv, NodeResults, OuterNodes
<1>2. ~Refused(st) /\ (~advisory => ValidPlan(st.plan) /\ ValidPlan(ch.plan))
  BY <1>1 DEF Kept, Heeded, Checked, Planned
<1>3. /\ r.query = None /\ Alike(ch, r.state) /\ r.state.node = ch.node
      /\ r.verdict = "repair" => r.layer \in {"implementation", "plan"}
      /\ nxt = Stop => r.state = ch /\ Exhausted(ch.plan)
  BY DEF LoopResult
<1>4. CASE nxt = Escape /\ DriverStep(Bubble(r))
  <2>1. r.verdict = "repair" /\ r.layer = "plan"
    BY <1>3, <1>4 DEF InnerRoute, InnerForward, Escape, Stop
  <2>2. /\ Bubble(r) \in NodeResults /\ Bubble(r).state = st
        /\ Bubble(r).query = None /\ Bubble(r).verdict = "repair"
        /\ Bubble(r).layer = "plan"
    BY <1>1, <1>3, <2>1 DEF Bubble, NodeResults
  <2> QED
    BY <1>1, <1>4, <2>2, RepairKept
<1>5. CASE nxt = Stop /\ DriverStep(Produced(MergeFinished(st, r.state), "done"))
  <2> DEFINE m == MergeFinished(st, ch)
             p == Produced(m, "done")
  <2>1. /\ m \in Session /\ m.node = "implement_loop" /\ m.plan = ch.plan
        /\ Alike(ch, m)
    <3>1. m \in Session
      BY <1>1, SubgraphType
    <3>2. m.node = "implement_loop" /\ m.plan = ch.plan
      BY <1>1, MergeFields
    <3>3. Alike(ch, m)
      BY <1>1, MergeFields DEF Alike
    <3> QED
      BY <3>1, <3>2, <3>3
  <2>2. DriverStep(p)
    BY <1>3, <1>5
  <2> HIDE DEF m
  <2>3. /\ p \in NodeResults /\ p.state = m /\ p.verdict # "repair"
        /\ p.query = None
    BY <2>1, NodeResultType DEF Produced, Branches
  <2> HIDE DEF p
  <2>4. Kept(m, policy, advisory) /\ ~Refused(m)
    BY <1>1, <2>1, KeptInLoop DEF InLoop
  <2>5. ~advisory => AllDone(m.plan)
    BY <1>1, <1>2, <1>3, <1>5, <2>1, NothingLeft DEF Session
  <2> QED
    BY <1>1, <2>1, <2>2, <2>3, <2>4, <2>5, OnwardKept DEF Alike
<1>6. CASE DriverStep(Escalate(st))
  BY <1>1, <1>6, EscalateKept
<1>7. CASE /\ nxt \in InnerNodes /\ ch' = c /\ ckpt' = MergeCheckpoint(st, c)
           /\ UNCHANGED <<policy, advisory, mode, st, inner>>
  <2>1. /\ c \in Session /\ c.node \in InnerNodes
        /\ c.plan = r.state.plan /\ c.given = r.state.given
        /\ c.latest = r.state.latest /\ c.pending = r.state.pending
        /\ c.report = r.state.report
    BY <1>1, <1>7, AdvancingToType, AdvancingToFields
  <2>2. c.history = r.state.history
    <3>1. BounceOf(ch.node, nxt) = None
      BY <1>1 DEF BounceOf, InnerNodes
    <3> QED
      BY <1>1, <3>1 DEF AdvancingTo, Logged, Session
  <2> HIDE DEF nxt, c
  <2>3. Alike(ch, c)
    BY <1>3, <2>1, <2>2 DEF Alike
  <2>4. Kept(c, policy, advisory)
    BY <1>1, <2>1, <2>3, KeptInLoop DEF InLoop
  <2> DEFINE m == MergeCheckpoint(st, c)
  <2>5. m.node = "implement_loop" /\ Alike(c, m)
    BY <1>1, <2>1, MergeFields DEF Alike
  <2>6. ckpt' = m
    BY <1>7
  <2> HIDE DEF m
  <2>7. Kept(m, policy, advisory)
    BY <2>1, <2>4, <2>5, KeptInLoop DEF InLoop
  <2> QED
    BY <1>1, <1>7, <2>3, <2>4, <2>5, <2>6, <2>7 DEF KeptInv, Alike
<1> QED
  BY <1>4, <1>5, <1>6, <1>7 DEF InnerStep

(* An exception leaves the state as it is.                                 *)
LEMMA FailKept ==
  ASSUME KeptInv, mode = "running", Fail
  PROVE  KeptInv'
<1>1. /\ Kept(NoChild, policy, advisory) /\ NoChild.report # "succeeded"
  BY KeptNew DEF NoChild, NewSession, None
<1> QED
  BY <1>1 DEF Fail, Leave, KeptInv

(* A run begins on a kept state that waits for nothing.                    *)
LEMMA BeginKept ==
  ASSUME NEW s \in Session, Kept(s, policy, advisory), s.pending = None,
         s.report # "succeeded", Begin(s)
  PROVE  KeptInv'
<1>1. s.node = "implement_loop" =>
        /\ Kept(Fork(s), policy, advisory)
        /\ Fork(s).report = s.report /\ Fork(s).pending = s.pending
  <2> SUFFICES ASSUME s.node = "implement_loop"
               PROVE  /\ Kept(Fork(s), policy, advisory)
                      /\ Fork(s).report = s.report /\ Fork(s).pending = s.pending
    OBVIOUS
  <2>1. Alike(s, Fork(s))
    BY ForkFields DEF Alike
  <2>2. Fork(s).node \in InnerNodes
    BY ForkFields DEF Session, SavedCursors, NoCursor, InnerNodes
  <2> QED
    BY <2>1, <2>2, KeptInLoop, ForkFields DEF InLoop
<1>2. /\ Kept(NoChild, policy, advisory) /\ NoChild.report # "succeeded"
      /\ NoChild.pending = None
  BY KeptNew DEF NoChild, NewSession, None
<1> QED
  BY <1>1, <1>2 DEF Begin, EnterNode, KeptInv

(* A change request about a plan is put where the gate will find it.       *)
LEMMA AnsweredKept ==
  ASSUME NEW s \in Session, Kept(s, policy, advisory), Tallied(s), s.pending # None,
         NEW a \in {"approve", "change"}
  PROVE  /\ Kept(Answered(s, a), policy, advisory)
         /\ Answered(s, a).pending = None /\ Answered(s, a).report = s.report
<1> DEFINE u == Answered(s, a)
<1>1. /\ u.pending = None /\ u.history = s.history /\ u.node = s.node
      /\ u.report = s.report
      /\ u.plan.tasks = s.plan.tasks /\ u.plan.deps = s.plan.deps
      /\ u.plan.sound = s.plan.sound /\ u.plan.status = s.plan.status
  BY DEF Answered, Session, Plan
<1>2. CASE s.pending = "plan_confirm_gate"
  <2>1. /\ u.given = [s.given EXCEPT !["plan_confirm_gate"] = @ + 1]
        /\ u.latest = [s.latest EXCEPT !["plan_confirm_gate"] = a]
        /\ u.plan.decision = a
    BY <1>2 DEF Answered, Session, Plan, ConfirmGates
  <2>2. /\ s.given \in [ConfirmGates -> Nat] /\ s.latest \in [ConfirmGates -> Decisions]
        /\ "plan_confirm_gate" \in ConfirmGates
        /\ s.history["plan_confirm_gate"] \in Nat
    BY DEF Session, ConfirmGates, Bounces
  <2>3. s.given["plan_confirm_gate"] = s.history["plan_confirm_gate"]
    BY <1>2, <2>2 DEF Tallied, Acted
  <2>4. s.node = "plan_confirm_gate" /\ policy # "FULL_AUTO"
    BY <1>2 DEF Kept, Heeded
  <2> HIDE DEF u
  <2>5. FreshAnswer(u, "plan_confirm_gate") /\ u.latest["plan_confirm_gate"] = a
    BY <1>1, <2>1, <2>2, <2>3 DEF FreshAnswer
  <2>6. Heeded(u, policy)
    BY <1>1, <2>1, <2>4, <2>5 DEF Heeded, Refused, None
  <2>7. ValidPlan(u.plan) <=> ValidPlan(s.plan)
    BY <1>1 DEF ValidPlan, HasCycle, DepsOf
  <2>8. Checked(u, advisory)
    BY <1>1, <2>7 DEF Kept, Checked, AllDone
  <2> QED
    BY <1>1, <2>6, <2>8 DEF Kept, u
<1>3. CASE s.pending # "plan_confirm_gate"
  <2>1. /\ u.plan.decision = s.plan.decision
        /\ u.given["plan_confirm_gate"] = s.given["plan_confirm_gate"]
        /\ u.latest["plan_confirm_gate"] = s.latest["plan_confirm_gate"]
    BY <1>3 DEF Answered, Session, Plan, ConfirmGates
  <2> HIDE DEF u
  <2>2. Heeded(u, policy)
    BY <1>1, <2>1 DEF Kept, Heeded, Refused, MayBounce, FreshAnswer, None
  <2>3. ValidPlan(u.plan) <=> ValidPlan(s.plan)
    BY <1>1 DEF ValidPlan, HasCycle, DepsOf
  <2>4. Checked(u, advisory)
    BY <1>1, <2>3 DEF Kept, Checked, AllDone
  <2> QED
    BY <1>1, <2>2, <2>4 DEF Kept, u
<1> QED
  BY <1>2, <1>3

-----------------------------------------------------------------------------
(* The invariant behind the two theorems below.                            *)
THEOREM KeptInvariant == Spec => []KeptInv
<1>1. Init => KeptInv
  <2>1. /\ NewSession.report # "succeeded" /\ NewSession.pending = None
    BY DEF NewSession, None
  <2> QED
    BY <2>1, KeptNew DEF Init, KeptInv, NoChild
<1>2. TallyInv /\ KeptInv /\ [Next]_vars => KeptInv'
  <2> SUFFICES ASSUME TallyInv, KeptInv, [Next]_vars PROVE KeptInv'
    OBVIOUS
  <2>0. /\ TypeOK /\ st \in Session /\ ckpt \in Session /\ Tallied(st)
        /\ Kept(st, policy, advisory) /\ Kept(ckpt, policy, advisory)
    BY DEF TallyInv, TypeOK, KeptInv
  <2>1. CASE OuterNode
    BY <2>1, OuterNodeKept
  <2>2. CASE InnerNode
    BY <2>0, <2>2, LoopResults, InnerStepKept, FailKept DEF KeptInv
  <2>3. CASE NodeRaises
    BY <2>3, FailKept DEF NodeRaises, At, InnerAt
  <2>4. CASE AnswerQuery
    <3>1. PICK a \in {"approve", "change"} : Begin(Answered(st, a))
      BY <2>4 DEF AnswerQuery
    <3>2. st.pending # None /\ st.report # "succeeded"
      BY <2>4 DEF AnswerQuery, TallyInv, KeptInv
    <3>3. Answered(st, a) \in Session
      BY <2>0, AnsweredType DEF Decisions
    <3> QED
      BY <2>0, <3>1, <3>2, <3>3, AnsweredKept, BeginKept
  <2>5. CASE Interrupt
    <3>1. Kept(NoChild, policy, advisory) /\ NoChild.report # "succeeded"
      BY KeptNew DEF NoChild, NewSession, None
    <3> QED
      BY <2>5, <3>1 DEF Interrupt, KeptInv
  <2>6. CASE Resume
    <3> DEFINE s == WithoutPendingQuery(st)
    <3>1. /\ s \in Session /\ s.node = st.node /\ s.plan = st.plan
          /\ s.history = st.history /\ s.given = st.given /\ s.latest = st.latest
          /\ s.pending = None /\ s.report = st.report
      BY <2>0 DEF WithoutPendingQuery, Session
    <3>2. st.report # "succeeded"
      BY <2>6 DEF Resume, KeptInv
    <3>3. Begin(s)
      BY <2>6 DEF Resume
    <3> HIDE DEF s
    <3>4. Kept(s, policy, advisory)
      BY <2>0, <3>1, KeptSame
    <3> QED
      BY <3>1, <3>2, <3>3, <3>4, BeginKept
  <2>7. CASE TurnOver \/ UNCHANGED vars
    BY <2>7 DEF TurnOver, KeptInv, vars, turn
  <2> QED
    BY <2>1, <2>2, <2>3, <2>4, <2>5, <2>6, <2>7 DEF Next, NodeEnds
<1> QED
  BY <1>1, <1>2, TallyInvariant, PTL DEF Spec

(* Whatever the dependencies of a plan look like, whatever global          *)
(* validation reopens and wherever Esc cuts the turn, the whole-build      *)
(* validation and the report of success see a plan with every task DONE.   *)
THEOREM SuccessAlwaysMeansAllDone == Spec => []SuccessMeansAllDone
<1>1. KeptInv => SuccessMeansAllDone
  BY DEF KeptInv, Kept, Checked, Planned, Finished, ValidPlan, SuccessMeansAllDone
<1> QED
  BY <1>1, KeptInvariant, PTL

(* A plan the user asked to change is never carried out while its gate may *)
(* still bounce, however the answer, Esc, the resume after it and the      *)
(* repairs of later nodes follow one another.                              *)
THEOREM RejectedPlanNeverBuilt == Spec => []RejectedPlanNotBuilt
<1>1. TallyInv /\ KeptInv => RejectedPlanNotBuilt
  <2> SUFFICES ASSUME TallyInv, KeptInv, Executing, Work.plan.decision = "change"
               PROVE  Work.history["plan_confirm_gate"] >= ConfirmCap
    BY DEF RejectedPlanNotBuilt
  <2>1. Work \in Session /\ Kept(Work, policy, advisory)
    BY DEF Work, TallyInv, TypeOK, KeptInv
  <2>2. ~Refused(Work)
    BY <2>1 DEF Kept, Heeded, Executing, InnerNodes
  <2>3. Work.history["plan_confirm_gate"] \in Nat
    BY <2>1 DEF Session, Bounces
  <2> QED
    BY <2>2, <2>3, CapAssumption DEF Refused, MayBounce
<1> QED
  BY <1>1, KeptInvariant, TallyInvariant, PTL

-----------------------------------------------------------------------------
(* What a step does to the plan.                                           *)

(* A result of a node of the root graph: the saved cursor is as it was,    *)
(* and so is the plan, unless the planner made a new one or global         *)
(* validation reopened a task for the loop.                                *)
OuterResult(r) ==
  /\ r.state.saved = st.saved
  /\ \/ r.state.plan = st.plan
     \/ st.node = "planner" /\ \A t \in TaskIds : ~IsDone(r.state.plan, t)
     \/ /\ st.node = "global_validator" /\ r.verdict = "repair"
        /\ r.query = None /\ r.layer = "implementation"
        /\ r.state.history = st.history
        /\ \A t \in TaskIds : IsDone(r.state.plan, t) => IsDone(st.plan, t)

(* What most nodes return.                                                 *)
LEMMA SameResult ==
  ASSUME st \in Session,
         NEW r \in {Produced(st, b) : b \in Branches} \cup {Approve(st), Escalate(st)}
                   \cup {Repair(st, layer) : layer \in Layers}
                   \cup {Ask(st, q) : q \in {"interviewer"} \cup ConfirmGates}
  PROVE  r \in NodeResults /\ OuterResult(r)
<1>1. r \in NodeResults
  BY NodeResultType
<1>2. r.state = st
  BY DEF Produced, Approve, Escalate, Repair, Ask
<1> QED
  BY <1>1, <1>2 DEF OuterResult

(* Every node of the root graph hands its driver a result of that kind.    *)
LEMMA OuterResults ==
  ASSUME TypeOK, OuterNode
  PROVE  /\ mode = "running" /\ ~inner
         /\ \E r \in NodeResults : OuterResult(r) /\ DriverStep(r)
<1>0. st \in Session
  BY DEF TypeOK
<1> USE DEF At
<1>1. CASE Router
  BY <1>0, <1>1, SameResult DEF Router, Branches
<1>2. CASE Explorer
  <2> PICK found \in BOOLEAN : DriverStep(Produced([st EXCEPT !.located = found], None))
    BY <1>2 DEF Explorer
  <2> DEFINE s == [st EXCEPT !.located = found]
  <2>1. s \in Session /\ s.saved = st.saved /\ s.plan = st.plan
    BY <1>0 DEF Session
  <2>2. DriverStep(Produced(s, None))
    OBVIOUS
  <2> HIDE DEF s
  <2>3. Produced(s, None) \in NodeResults /\ Produced(s, None).state = s
    BY <2>1, NodeResultType DEF Produced, Branches
  <2> QED
    BY <1>2, <2>1, <2>2, <2>3 DEF Explorer, OuterResult
<1>3. CASE UnderstandingGate
  BY <1>0, <1>3, SameResult DEF UnderstandingGate, GateResult, Layers
<1>4. CASE Interviewer
  BY <1>0, <1>4, SameResult DEF Interviewer, Branches
<1>5. CASE SpecConfirmGate
  BY <1>0, <1>5, SameResult DEF SpecConfirmGate, ConfirmGate, ConfirmGates, Branches, Layers
<1>6. CASE PlanConfirmGate
  BY <1>0, <1>6, SameResult DEF PlanConfirmGate, ConfirmGate, ConfirmGates, Branches, Layers
<1>7. CASE Planner
  <2> PICK shape \in PlanShapes :
             DriverStep(Produced([st EXCEPT !.plan = FreshPlan(shape)], None))
    BY <1>7 DEF Planner
  <2> DEFINE s == [st EXCEPT !.plan = FreshPlan(shape)]
  <2>1. /\ FreshPlan(shape) \in Plan
        /\ \A t \in TaskIds : FreshPlan(shape).status[t] = "pending"
    BY ShapeAssumption, FreshPlanType DEF FreshPlan
  <2>2. s \in Session /\ s.saved = st.saved /\ \A t \in TaskIds : ~IsDone(s.plan, t)
    BY <1>0, <2>1 DEF Session, IsDone
  <2>3. DriverStep(Produced(s, None))
    OBVIOUS
  <2> HIDE DEF s
  <2>4. Produced(s, None) \in NodeResults /\ Produced(s, None).state = s
    BY <2>2, NodeResultType DEF Produced, Branches
  <2> QED
    BY <1>7, <2>2, <2>3, <2>4 DEF Planner, OuterResult
<1>8. CASE PlanGate
  BY <1>0, <1>8, SameResult DEF PlanGate, GateResult, Layers
<1>9. CASE PlanReviewer
  BY <1>0, <1>9, SameResult DEF PlanReviewer, Layers
<1>10. CASE Provisioner
  BY <1>0, <1>10, SameResult DEF Provisioner, Branches
<1>11. CASE GlobalValidator
  <2>1. CASE DriverStep(Produced(st, "pass")) \/ DriverStep(Repair(st, "plan"))
    BY <1>0, <1>11, <2>1, SameResult DEF GlobalValidator, Branches, Layers
  <2>2. ASSUME NEW t \in TaskIds,
               DriverStep(Repair(WithTaskStatus(st, t, "pending"), "implementation"))
        PROVE  \E r \in NodeResults : OuterResult(r) /\ DriverStep(r)
    <3> DEFINE s == WithTaskStatus(st, t, "pending")
               r == Repair(s, "implementation")
    <3>1. /\ s \in Session /\ Alike(st, s) /\ s.saved = st.saved
          /\ s.plan.status = [st.plan.status EXCEPT ![t] = "pending"]
      <4>1. s.saved = st.saved
        BY <1>0 DEF WithTaskStatus, Session
      <4> QED
        BY <1>0, <4>1, TaskWriteType, TaskWrites DEF Statuses
    <3>2. st.plan.status \in [TaskIds -> Statuses]
      BY <1>0 DEF Session, Plan
    <3>3. DriverStep(r)
      BY <2>2
    <3> HIDE DEF s
    <3>4. \A u \in TaskIds : IsDone(s.plan, u) => IsDone(st.plan, u)
      BY <3>1, <3>2 DEF IsDone, Alike
    <3>5. /\ r \in NodeResults /\ r.state = s /\ r.verdict = "repair"
          /\ r.query = None /\ r.layer = "implementation"
      BY <3>1, NodeResultType DEF Repair, Layers
    <3> HIDE DEF r
    <3> QED
      BY <1>11, <3>1, <3>3, <3>4, <3>5 DEF GlobalValidator, OuterResult, Alike
  <2> QED
    BY <1>11, <2>1, <2>2 DEF GlobalValidator, NoTask
<1>12. CASE Reporter
  <2> DEFINE s == [st EXCEPT !.report = "succeeded"]
  <2>1. s \in Session /\ s.saved = st.saved /\ s.plan = st.plan
    BY <1>0 DEF Session
  <2>2. DriverStep(Produced(s, None))
    BY <1>12 DEF Reporter
  <2> HIDE DEF s
  <2>3. Produced(s, None) \in NodeResults /\ Produced(s, None).state = s
    BY <2>1, NodeResultType DEF Produced, Branches
  <2> QED
    BY <1>12, <2>1, <2>2, <2>3 DEF Reporter, OuterResult
<1>13. CASE FastPath
  BY <1>0, <1>13, SameResult DEF FastPath, Branches
<1>14. CASE InferenceFails
  BY <1>0, <1>14, SameResult DEF InferenceFails
<1> QED
  BY <1>1, <1>2, <1>3, <1>4, <1>5, <1>6, <1>7, <1>8, <1>9, <1>10, <1>11, <1>12,
     <1>13, <1>14 DEF OuterNode

(* After a root step the plan that counts is the result's, whether the     *)
(* step ended the run, started a node or forked the loop's session.        *)
LEMMA DriverStepWork ==
  ASSUME NEW r \in NodeResults, DriverStep(r)
  PROVE  LET nxt == Route(st.node, r, policy)
         IN  /\ Work'.plan = r.state.plan
             /\ r.query = None /\ nxt # Stop =>
                  /\ st'.node = nxt
                  /\ Work'.history = Logged(r.state.history, BounceOf(st.node, nxt))
<1> DEFINE nxt == Route(st.node, r, policy)
           s   == AdvancingTo(r.state, st.node, nxt)
           q   == [r.state EXCEPT !.pending = r.query]
<1>1. r.state \in Session /\ q.plan = r.state.plan
  BY DEF NodeResults, Session
<1>2. nxt # Stop => s \in Session
  BY <1>1, RouteType, AdvancingToType
<1>3. /\ s.node = nxt /\ s.plan = r.state.plan
      /\ s.history = Logged(r.state.history, BounceOf(st.node, nxt))
  BY <1>1, AdvancingToFields DEF AdvancingTo, Session
<1>4. \A u \in Session : /\ Stamped(u).plan = u.plan /\ Stamped(u).node = u.node
                         /\ Stamped(u).history = u.history
                         /\ Fork(u).plan = u.plan /\ Fork(u).history = u.history
  BY ForkFields DEF Stamped, Session
<1> HIDE DEF nxt, s, q
<1>5. CASE r.query # None /\ Leave(q, "suspended", None)
  BY <1>1, <1>5 DEF Leave, Work, nxt
<1>6. CASE r.query = None /\ nxt = Stop /\ Return(r.state, None)
  BY <1>1, <1>4, <1>6 DEF Return, Leave, Work, nxt
<1>7. CASE r.query = None /\ nxt # Stop /\ \E escape : Return(s, escape)
  BY <1>2, <1>3, <1>4, <1>7 DEF Return, Leave, Work, nxt
<1>8. CASE r.query = None /\ nxt # Stop /\ EnterNode(s)
  BY <1>2, <1>3, <1>4, <1>8 DEF EnterNode, Work, nxt
<1> QED
  BY <1>5, <1>6, <1>7, <1>8 DEF DriverStep, nxt, s, q

(* After a step of the loop it is the node's, or, when the loop is left by *)
(* a verdict it cannot place or by an exception, the one the loop got.     *)
LEMMA InnerStepWork ==
  ASSUME TallyInv, inner, NEW r \in NodeResults, LoopResult(r), InnerStep(r)
  PROVE  \/ Work'.plan = r.state.plan
         \/ Work'.plan = st.plan /\ st'.node \in {"planner", "user"}
<1> DEFINE nxt == InnerRoute(ch.node, r)
           c   == AdvancingTo(r.state, ch.node, nxt)
<1>1. /\ st \in Session /\ r.state \in Session /\ st.node = "implement_loop"
  BY DEF TallyInv, TypeOK, NodeResults
<1>2. CASE nxt = Escape /\ DriverStep(Bubble(r))
  <2>1. r.verdict = "repair" /\ r.layer = "plan" /\ r.query = None
    BY <1>2 DEF InnerRoute, InnerForward, Escape, Stop, LoopResult
  <2>2. /\ Bubble(r) \in NodeResults /\ Bubble(r).state = st
        /\ Bubble(r).query = None
        /\ Route(st.node, Bubble(r), policy) = "planner" /\ "planner" # Stop
    BY <1>1, <2>1 DEF Bubble, NodeResults, Route, SHALLOWEST, Stop
  <2> QED
    BY <1>2, <2>2, DriverStepWork
<1>3. CASE DriverStep(Produced(MergeFinished(st, r.state), "done"))
  <2>1. MergeFinished(st, r.state) \in Session
    BY <1>1, SubgraphType
  <2>2. /\ Produced(MergeFinished(st, r.state), "done") \in NodeResults
        /\ Produced(MergeFinished(st, r.state), "done").state = MergeFinished(st, r.state)
    BY <2>1, NodeResultType DEF Produced, Branches
  <2>3. MergeFinished(st, r.state).plan = r.state.plan
    BY <1>1, MergeFields
  <2> QED
    BY <1>3, <2>2, <2>3, DriverStepWork
<1>4. CASE DriverStep(Escalate(st))
  <2>1. /\ Escalate(st) \in NodeResults /\ Escalate(st).state = st
        /\ Escalate(st).query = None
        /\ Route(st.node, Escalate(st), policy) = "user" /\ "user" # Stop
    BY <1>1, NodeResultType DEF Escalate, Route, Stop
  <2> QED
    BY <1>4, <2>1, DriverStepWork
<1>5. CASE ch' = c /\ inner' = inner
  <2>1. c.plan = r.state.plan
    BY <1>1, AdvancingToFields
  <2> HIDE DEF c
  <2> QED
    BY <1>5, <2>1 DEF Work
<1> QED
  BY <1>2, <1>3, <1>4, <1>5 DEF InnerStep

(* Esc goes back to a state with the plan the run was at.                  *)
LEMMA InterruptWork ==
  ASSUME TypeOK, KeptInv, CheckpointFollowsRun, Interrupt
  PROVE  Work'.plan = Work.plan
<1>1. Fork(ckpt).plan = ckpt.plan
  BY ForkFields DEF TypeOK
<1>2. mode = "running" => ckpt.plan = Work.plan
  BY <1>1 DEF CheckpointFollowsRun, Work
<1>3. mode = "suspended" => Work = st
  BY DEF KeptInv, Work
<1> QED
  BY <1>2, <1>3 DEF Interrupt, Work

(* An answer, or a message after Esc, does nothing to the tasks.           *)
LEMMA BeginWork ==
  ASSUME TypeOK, KeptInv, AnswerQuery \/ Resume
  PROVE  \A t \in TaskIds : IsDone(Work'.plan, t) <=> IsDone(Work.plan, t)
<1>1. Work = st /\ st \in Session
  BY DEF AnswerQuery, Resume, KeptInv, Work, TypeOK
<1>2. \A a \in {"approve", "change"} :
        /\ Answered(st, a) \in Session
        /\ Answered(st, a).plan.tasks = st.plan.tasks
        /\ Answered(st, a).plan.status = st.plan.status
  <2> SUFFICES ASSUME NEW a \in {"approve", "change"}
               PROVE  /\ Answered(st, a) \in Session
                      /\ Answered(st, a).plan.tasks = st.plan.tasks
                      /\ Answered(st, a).plan.status = st.plan.status
    OBVIOUS
  <2>1. Answered(st, a) \in Session
    BY <1>1, AnsweredType DEF Decisions
  <2>2. /\ Answered(st, a).plan.tasks = st.plan.tasks
        /\ Answered(st, a).plan.status = st.plan.status
    BY <1>1 DEF Answered, Session, Plan
  <2> QED
    BY <2>1, <2>2
<1>3. /\ WithoutPendingQuery(st) \in Session
      /\ WithoutPendingQuery(st).plan = st.plan
  BY <1>1 DEF WithoutPendingQuery, Session
<1>4. PICK s \in Session : /\ Begin(s) /\ s.plan.tasks = st.plan.tasks
                           /\ s.plan.status = st.plan.status
  BY <1>2, <1>3 DEF AnswerQuery, Resume
<1>5. Work'.plan = s.plan
  BY <1>4, ForkFields DEF Begin, EnterNode, Work
<1> QED
  BY <1>1, <1>4, <1>5 DEF IsDone

-----------------------------------------------------------------------------
(* The loop's session against the one it was forked from.                  *)

(* A task that is ready stays so while no task is reopened.                *)
LEMMA ReadyLasts ==
  ASSUME NEW s, NEW u, Alike(s, u), NEW t, Ready(s.plan, t),
         \A d \in TaskIds : IsDone(s.plan, d) => IsDone(u.plan, d)
  PROVE  Ready(u.plan, t)
BY DEF Alike, Ready, DepsOf

(* A run, or a node of it, that begins without a saved cursor enters the   *)
(* loop at its selector.                                                   *)
LEMMA EnterNodeLoop ==
  ASSUME NEW s \in Session, EnterNode(s), interrupts' = 0 => s.saved = NoCursor
  PROVE  LoopInv'
<1>1. /\ Fork(s).plan = s.plan
      /\ s.saved = NoCursor => Fork(s).node = "task_selector"
  BY ForkFields
<1> QED
  BY <1>1 DEF EnterNode, LoopInv, Working

(* A root step whose result has no saved cursor.                           *)
LEMMA DriverStepLoop ==
  ASSUME NEW r \in NodeResults, DriverStep(r), interrupts = 0 => r.state.saved = NoCursor
  PROVE  LoopInv'
<1> DEFINE nxt == Route(st.node, r, policy)
           s   == AdvancingTo(r.state, st.node, nxt)
           q   == [r.state EXCEPT !.pending = r.query]
<1>1. r.state \in Session /\ q.saved = r.state.saved
  BY DEF NodeResults, Session
<1>2. nxt # Stop => s \in Session
  BY <1>1, RouteType, AdvancingToType
<1>3. s.saved = r.state.saved
  BY <1>1, AdvancingToFields
<1>4. \A u \in Session : Stamped(u).saved = u.saved
  BY DEF Stamped, Session
<1> HIDE DEF nxt, s, q
<1>5. CASE r.query # None /\ Leave(q, "suspended", None)
  BY <1>1, <1>5 DEF Leave, LoopInv
<1>6. CASE r.query = None /\ nxt = Stop /\ Return(r.state, None)
  BY <1>1, <1>4, <1>6 DEF Return, Leave, LoopInv
<1>7. CASE r.query = None /\ nxt # Stop /\ \E escape : Return(s, escape)
  BY <1>2, <1>3, <1>4, <1>7 DEF Return, Leave, LoopInv
<1>8. CASE r.query = None /\ nxt # Stop /\ EnterNode(s) /\ interrupts' = interrupts
  BY <1>2, <1>3, <1>8, EnterNodeLoop
<1> QED
  BY <1>5, <1>6, <1>7, <1>8 DEF DriverStep, nxt, s, q

(* A step inside the loop finishes tasks and unfinishes none, and the node *)
(* it leads to works on the task the selector found ready.                 *)
LEMMA InnerStepLoop ==
  ASSUME TallyInv, LoopInv, inner, ch.node \in InnerNodes,
         NEW r \in NodeResults, LoopResult(r), InnerStep(r)
  PROVE  LoopInv'
<1> DEFINE nxt == InnerRoute(ch.node, r)
           c   == AdvancingTo(r.state, ch.node, nxt)
<1>1. /\ st \in Session /\ r.state \in Session
      /\ interrupts = 0 => st.saved = NoCursor
  BY DEF TallyInv, TypeOK, LoopInv, NodeResults
<1>2. CASE DriverStep(Bubble(r))
  <2>1. Bubble(r) \in NodeResults /\ Bubble(r).state = st
    BY <1>1 DEF Bubble, NodeResults
  <2> QED
    BY <1>1, <1>2, <2>1, DriverStepLoop
<1>3. CASE DriverStep(Produced(MergeFinished(st, r.state), "done"))
  <2>1. MergeFinished(st, r.state) \in Session /\ MergeFinished(st, r.state).saved = NoCursor
    BY <1>1, SubgraphType, MergeSaved
  <2>2. /\ Produced(MergeFinished(st, r.state), "done") \in NodeResults
        /\ Produced(MergeFinished(st, r.state), "done").state = MergeFinished(st, r.state)
    BY <2>1, NodeResultType DEF Produced, Branches
  <2> QED
    BY <1>3, <2>1, <2>2, DriverStepLoop
<1>4. CASE DriverStep(Escalate(st))
  <2>1. Escalate(st) \in NodeResults /\ Escalate(st).state = st
    BY <1>1, NodeResultType DEF Escalate
  <2> QED
    BY <1>1, <1>4, <2>1, DriverStepLoop
<1>5. CASE nxt \in InnerNodes /\ ch' = c /\ UNCHANGED <<st, inner, interrupts>>
  <2>1. c.node = nxt /\ c.task = r.state.task /\ c.plan = r.state.plan
    BY <1>1, AdvancingToFields
  <2>2. /\ Alike(ch, r.state)
        /\ \A t \in TaskIds : IsDone(ch.plan, t) => IsDone(r.state.plan, t)
        /\ nxt \in Working => \/ ch.node = "task_selector" /\ Runnable(ch.plan, r.state.task)
                              \/ ch.node \in Working /\ r.state.task = ch.task
    BY DEF LoopResult
  <2> HIDE DEF nxt, c
  <2>3. \A t \in TaskIds : IsDone(st.plan, t) => IsDone(c.plan, t)
    BY <2>1, <2>2 DEF LoopInv
  <2>4. interrupts = 0 /\ nxt \in Working => Ready(c.plan, c.task)
    <3> SUFFICES ASSUME interrupts = 0, nxt \in Working PROVE Ready(c.plan, c.task)
      OBVIOUS
    <3>1. Ready(ch.plan, r.state.task)
      BY <2>2 DEF LoopInv, Ready, Runnable
    <3> QED
      BY <2>1, <2>2, <3>1, ReadyLasts
  <2> QED
    BY <1>1, <1>5, <2>1, <2>3, <2>4 DEF LoopInv
<1> QED
  BY <1>2, <1>3, <1>4, <1>5 DEF InnerStep

(* The loop's invariant holds of every turn, and does not need the others  *)
(* to be inductive but for TallyInv.                                       *)
THEOREM LoopInvariant == Spec => []LoopInv
<1>1. Init => LoopInv
  BY DEF Init, LoopInv, NewSession
<1>2. TallyInv /\ LoopInv /\ [Next]_vars => LoopInv'
  <2> SUFFICES ASSUME TallyInv, LoopInv, [Next]_vars PROVE LoopInv'
    OBVIOUS
  <2>0. TypeOK /\ st \in Session
    BY DEF TallyInv, TypeOK
  <2>1. CASE OuterNode
    BY <2>0, <2>1, OuterResults, DriverStepLoop DEF OuterResult, LoopInv
  <2>2. CASE InnerNode
    <3>1. CASE Fail
      BY <3>1 DEF Fail, Leave, LoopInv
    <3> QED
      BY <2>0, <2>2, <3>1, LoopResults, InnerStepLoop
  <2>3. CASE NodeRaises
    BY <2>3 DEF NodeRaises, Fail, Leave, LoopInv
  <2>4. CASE AnswerQuery
    <3>1. PICK a \in {"approve", "change"} : Begin(Answered(st, a))
      BY <2>4 DEF AnswerQuery
    <3>2. Answered(st, a) \in Session
      BY <2>0, AnsweredType DEF Decisions
    <3>3. Answered(st, a).saved = st.saved
      BY <2>0 DEF Answered, Session
    <3> QED
      BY <2>4, <3>1, <3>2, <3>3, EnterNodeLoop DEF AnswerQuery, Begin, LoopInv
  <2>5. CASE Interrupt
    <3>1. interrupts' # 0
      BY <2>0, <2>5, CapAssumption DEF Interrupt, TypeOK
    <3> QED
      BY <2>5, <3>1 DEF Interrupt, LoopInv
  <2>6. CASE Resume
    <3>1. /\ WithoutPendingQuery(st) \in Session
          /\ WithoutPendingQuery(st).saved = st.saved
      BY <2>0 DEF WithoutPendingQuery, Session
    <3> QED
      BY <2>6, <3>1, EnterNodeLoop DEF Resume, Begin, LoopInv
  <2>7. CASE TurnOver \/ UNCHANGED vars
    BY <2>7 DEF TurnOver, LoopInv, vars, turn
  <2> QED
    BY <2>1, <2>2, <2>3, <2>4, <2>5, <2>6, <2>7 DEF Next, NodeEnds
<1> QED
  BY <1>1, <1>2, TallyInvariant, PTL DEF Spec

(* The assertion "cursor task_id not in plan" never fires in a turn that   *)
(* Esc did not cut, whatever is replanned, repaired and reopened.  (After  *)
(* Esc a saved cursor may outlive the plan it was saved with.)             *)
THEOREM CursorTaskAlwaysInPlan == Spec => [](interrupts = 0 => CursorTaskInPlan)
<1>1. LoopInv => (interrupts = 0 => CursorTaskInPlan)
  BY DEF LoopInv, CursorTaskInPlan, Working, Ready
<1> QED
  BY <1>1, LoopInvariant, PTL

(* As long as nobody pressed Esc, a task becomes DONE only when the tasks  *)
(* it depends on are, and stays ready from its selection on.               *)
THEOREM DoneAlwaysAfterDeps == Spec /\ [](interrupts = 0) => DoneOnlyAfterDeps
<1> DEFINE Step == \A t \in TaskIds :
                     ~IsDone(Work.plan, t) /\ IsDone(Work'.plan, t)
                       => \A d \in DepsOf(Work.plan, t) : IsDone(Work.plan, d)
<1>1. TallyInv /\ KeptInv /\ LoopInv /\ CheckpointFollowsRun /\ interrupts = 0
        /\ [Next]_vars => [Step]_vars
  <2> SUFFICES ASSUME TallyInv, KeptInv, LoopInv, CheckpointFollowsRun,
                      interrupts = 0, Next, NEW t \in TaskIds,
                      ~IsDone(Work.plan, t), IsDone(Work'.plan, t)
               PROVE  \A d \in DepsOf(Work.plan, t) : IsDone(Work.plan, d)
    OBVIOUS
  <2>0. TypeOK
    BY DEF TallyInv
  <2>1. CASE OuterNode
    BY <2>0, <2>1, OuterResults, DriverStepWork DEF OuterResult, Work
  <2>2. CASE InnerNode
    <3>1. CASE inner /\ Fail
      BY <3>1 DEF Fail, Leave, Work, LoopInv
    <3>2. ASSUME NEW r \in NodeResults, inner, LoopResult(r), InnerStep(r)
          PROVE  \A d \in DepsOf(Work.plan, t) : IsDone(Work.plan, d)
      <4>1. CASE Work'.plan = st.plan
        BY <3>2, <4>1 DEF Work, LoopInv
      <4>2. CASE Work'.plan = r.state.plan
        <5>1. ch.node = "verifier" /\ t = ch.task
          BY <3>2, <4>2 DEF Work, LoopResult
        <5> QED
          BY <3>2, <5>1 DEF LoopInv, Working, Ready, Work
      <4> QED
        BY <3>2, <4>1, <4>2, InnerStepWork
    <3> QED
      BY <2>0, <2>2, <3>1, <3>2, LoopResults
  <2>3. CASE NodeRaises
    BY <2>3 DEF NodeRaises, Fail, Leave, Work, LoopInv
  <2>4. CASE AnswerQuery \/ Resume
    BY <2>0, <2>4, BeginWork
  <2>5. CASE Interrupt
    BY <2>0, <2>5, InterruptWork
  <2>6. CASE TurnOver
    BY <2>6 DEF TurnOver, Work, vars, turn
  <2> QED
    BY <2>1, <2>2, <2>3, <2>4, <2>5, <2>6 DEF Next, NodeEnds
<1> QED
  BY <1>1, TallyInvariant, KeptInvariant, LoopInvariant, CheckpointAlwaysFollowsRun, PTL
  DEF Spec, DoneOnlyAfterDeps

(* A finished task stays finished until the planner runs, the loop is left *)
(* by an unresolved verdict or an exception, or global validation reopens  *)
(* it: no fork, merge, checkpoint, answer, Esc or resume loses one.        *)
THEOREM DoneAlwaysStaysDone == Spec => DoneStaysDone
<1> DEFINE Step == \A t \in TaskIds :
                     IsDone(Work.plan, t) /\ ~IsDone(Work'.plan, t)
                       => \/ st.node = "planner"
                          \/ inner /\ (st'.node \in {"planner", "user"} \/ mode' = "failed")
                          \/ Work'.history["scoped_fixup"] > Work.history["scoped_fixup"]
<1>1. TallyInv /\ KeptInv /\ CheckpointFollowsRun /\ [Next]_vars => [Step]_vars
  <2> SUFFICES ASSUME TallyInv, KeptInv, CheckpointFollowsRun, Next,
                      NEW t \in TaskIds,
                      IsDone(Work.plan, t), ~IsDone(Work'.plan, t)
               PROVE  \/ st.node = "planner"
                      \/ inner /\ (st'.node \in {"planner", "user"} \/ mode' = "failed")
                      \/ Work'.history["scoped_fixup"] > Work.history["scoped_fixup"]
    OBVIOUS
  <2>0. TypeOK /\ st \in Session
    BY DEF TallyInv, TypeOK
  <2>1. CASE OuterNode
    <3>1. PICK r \in NodeResults : OuterResult(r) /\ DriverStep(r)
      BY <2>0, <2>1, OuterResults
    <3>2. Work = st /\ Work'.plan = r.state.plan
      BY <2>0, <2>1, <3>1, OuterResults, DriverStepWork DEF Work
    <3>3. CASE /\ st.node = "global_validator" /\ r.verdict = "repair"
               /\ r.query = None /\ r.layer = "implementation"
               /\ r.state.history = st.history
      <4>1. /\ Route(st.node, r, policy) = "implement_loop" /\ "implement_loop" # Stop
            /\ BounceOf(st.node, "implement_loop") = "scoped_fixup"
            /\ "scoped_fixup" # None
        BY <3>3 DEF Route, SHALLOWEST, BounceOf, Stop, None
      <4>2. Work'.history = [st.history EXCEPT !["scoped_fixup"] = @ + 1]
        BY <3>1, <3>3, <4>1, DriverStepWork DEF Logged
      <4>3. st.history \in [Bounces -> Nat] /\ "scoped_fixup" \in Bounces
        BY <2>0 DEF Session, Bounces
      <4> QED
        BY <3>2, <4>2, <4>3
    <3> QED
      BY <3>1, <3>2, <3>3 DEF OuterResult
  <2>2. CASE InnerNode
    <3>1. CASE inner /\ Fail
      BY <3>1 DEF Fail, Leave
    <3>2. ASSUME NEW r \in NodeResults, inner, LoopResult(r), InnerStep(r)
          PROVE  st'.node \in {"planner", "user"}
      BY <3>2, InnerStepWork DEF LoopResult, Work
    <3> QED
      BY <2>0, <2>2, <3>1, <3>2, LoopResults
  <2>3. CASE NodeRaises
    BY <2>3 DEF NodeRaises, Fail, Leave, Work
  <2>4. CASE AnswerQuery \/ Resume
    BY <2>0, <2>4, BeginWork
  <2>5. CASE Interrupt
    BY <2>0, <2>5, InterruptWork
  <2>6. CASE TurnOver
    BY <2>6 DEF TurnOver, Work, vars, turn
  <2> QED
    BY <2>1, <2>2, <2>3, <2>4, <2>5, <2>6 DEF Next, NodeEnds
<1> QED
  BY <1>1, TallyInvariant, KeptInvariant, CheckpointAlwaysFollowsRun, PTL
  DEF Spec, DoneStaysDone
=============================================================================
