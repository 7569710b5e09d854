------------------------------- MODULE Harness -------------------------------
(***************************************************************************)
(* One turn of the harness: the root Driver walking the graph, the inner   *)
(* Driver of the implement_loop subgraph, every node with its possible     *)
(* results, and the turn around them (answers, Esc and the resume after    *)
(* it, the headless wrapper).                                              *)
(*                                                                         *)
(* A coroutine of the driver suspends only inside `await node.run(...)`,   *)
(* so one action is everything from the moment a node's work is decided to *)
(* the moment the next node starts: the node's own decision, apply, route, *)
(* advance and checkpoint.  What a model or a tool answers is an existential *)
(* choice.  The Smart Driver (an advisor, off by default) is not here.     *)
(***************************************************************************)
EXTENDS SessionState

CONSTANTS
  PolicyChoices,       \* policies a turn may run under
  AdvisoryChoices,     \* values of POOR_CODE_ADVISORY_GATES
  PlanShapes,          \* plans a planner may emit
  UnderstandingBudget, \* UnderstandingGate.repair_budget
  PlanBudget,          \* PlanGate.repair_budget
  ReviewCap,           \* plan_reviewer._CONVERGENCE_CAP
  ConfirmCap,          \* _ConfirmGate.repair_cap
  MaxFixups,           \* global_validator.MAX_FIXUPS
  MaxScopedFixups,     \* global_validator.MAX_SCOPED_FIXUPS
  MaxRounds,           \* interviewer.MAX_ROUNDS
  MaxAttempts,         \* execution.MAX_ATTEMPTS
  StepBudget,          \* driver.GLOBAL_STEP_BUDGET
  MaxInterrupts        \* bound of the model: how often Esc is pressed

ASSUME PolicyAssumption   == PolicyChoices \subseteq Policies
ASSUME AdvisoryAssumption == AdvisoryChoices \subseteq BOOLEAN
ASSUME ShapeAssumption    == PlanShapes \subseteq PlanShape
ASSUME CapAssumption ==
  /\ UnderstandingBudget \in Nat /\ PlanBudget \in Nat /\ ReviewCap \in Nat
  /\ ConfirmCap \in Nat /\ MaxFixups \in Nat /\ MaxScopedFixups \in Nat
  /\ MaxRounds \in Nat /\ MaxAttempts \in Nat /\ StepBudget \in Nat \ {0}
  /\ MaxInterrupts \in Nat

VARIABLES
  policy,      \* state.policy, fixed for the turn
  advisory,    \* the environment's POOR_CODE_ADVISORY_GATES, fixed too
  mode,        \* what the app sees of the turn, see Modes
  st,          \* the root driver's `state`; between runs, the state kept to go on
  inner,       \* TRUE while implement_loop's own driver runs
  ch,          \* that driver's `state` (NoChild when it does not run)
  ckpt,        \* app._live_state: what the last on_step or submit recorded
  steps,       \* root driver's transitions in this run()
  innerSteps,  \* inner driver's transitions in this run()
  lastEscape,  \* root driver's last_escape when run() has returned
  interrupts   \* how often Esc was pressed

turn == <<mode, st, inner, ch, ckpt, steps, innerSteps, lastEscape>>
vars == <<policy, advisory, turn, interrupts>>

(* running: inside Driver.run.  suspended: it returned with a query.       *)
(* interrupted: Esc, the next message resumes.  done: it returned and the  *)
(* turn is over.  failed: an exception ended the turn.                     *)
Modes == {"running", "suspended", "interrupted", "done", "failed"}

NoChild == NewSession

-----------------------------------------------------------------------------
(* Entering and leaving Driver.run.                                        *)

(* The top of the driver loop with a registered node: it starts, and if it *)
(* is the subgraph its own driver starts on the forked state.              *)
EnterNode(s) ==
  /\ mode' = "running"
  /\ st' = s
  /\ inner' = (s.node = "implement_loop")
  /\ ch' = IF s.node = "implement_loop" THEN Fork(s) ELSE NoChild
  /\ innerSteps' = 0

(* run(state) is called, with `state` as the live state.                   *)
Begin(s) ==
  /\ EnterNode(s)
  /\ ckpt' = s
  /\ steps' = 0
  /\ lastEscape' = None
  /\ UNCHANGED <<policy, advisory>>

Leave(s, m, escape) ==
  /\ mode' = m
  /\ st' = s
  /\ inner' = FALSE
  /\ ch' = NoChild
  /\ steps' = 0
  /\ innerSteps' = 0
  /\ lastEscape' = escape
  /\ UNCHANGED <<policy, advisory, interrupts>>

(* run_headless: a turn that ends without a report is stamped ABANDONED.   *)
Stamped(s) ==
  IF policy = "FULL_AUTO" /\ s.report = None
  THEN [s EXCEPT !.report = "abandoned"]
  ELSE s

(* run() returned with no query pending: the turn is over.                 *)
Return(s, escape) == Leave(Stamped(s), "done", escape)

(* An exception the driver does not catch: TurnFailed, or exit code 1.     *)
Fail == Leave(st, "failed", None) /\ UNCHANGED ckpt

-----------------------------------------------------------------------------
(* The driver forgets to count: the 500 step backstop never bites.         *)
CountedMutant(n) == n

(* steps += 1                                                              *)
Counted(n) == n + 1

(* One transition too many is let through.                                 *)
SpentMutant(n) == n > StepBudget

(* steps >= GLOBAL_STEP_BUDGET                                             *)
Spent(n) == n >= StepBudget

(* The root driver applies result r of its current node and moves on.      *)
DriverStep(r) ==
  LET nxt == Route(st.node, r, policy)
      s   == AdvancingTo(r.state, st.node, nxt)
      q   == [r.state EXCEPT !.pending = r.query]
  IN  \/ /\ r.query # None                        \* suspend, cursor stays
         /\ Leave(q, "suspended", None)
         /\ ckpt' = q
      \/ /\ r.query = None
         /\ nxt = Stop                            \* terminal: no checkpoint
         /\ Return(r.state, None)
         /\ UNCHANGED ckpt
      \/ /\ r.query = None
         /\ nxt # Stop
         /\ Spent(Counted(steps))                 \* runaway backstop
         /\ Return(s, "budget")
         /\ ckpt' = s
      \/ /\ r.query = None
         /\ nxt # Stop
         /\ ~Spent(Counted(steps))
         /\ ckpt' = s
         /\ \/ /\ ~Registered(nxt, policy)        \* park
               /\ Return(s, "parked")
            \/ /\ Registered(nxt, policy)
               /\ EnterNode(s)
               /\ steps' = Counted(steps)
               /\ lastEscape' = lastEscape
               /\ UNCHANGED <<policy, advisory, interrupts>>

(* CompiledGraph.run returns a verdict its driver could not place: the     *)
(* child state is dropped, the outer state goes on as it was.              *)
Bubble(r) == [r EXCEPT !.state = st]

(* The inner driver applies result r of its current node and moves on.     *)
InnerStep(r) ==
  LET nxt == InnerRoute(ch.node, r)
      c   == AdvancingTo(r.state, ch.node, nxt)
  IN  \/ nxt = Escape /\ DriverStep(Bubble(r))
      \/ nxt = Stop   /\ DriverStep(Produced(MergeFinished(st, r.state), "done"))
      \/ /\ nxt \notin {Escape, Stop}
         /\ nxt \notin InnerNodes \/ Spent(Counted(innerSteps))
         /\ DriverStep(Escalate(st))              \* parked, or budget spent
      \/ /\ nxt \in InnerNodes
         /\ ~Spent(Counted(innerSteps))
         /\ ch' = c
         /\ innerSteps' = Counted(innerSteps)
         /\ ckpt' = MergeCheckpoint(st, c)
         /\ UNCHANGED <<policy, advisory, mode, st, inner, steps, lastEscape, interrupts>>

At(node)      == mode = "running" /\ ~inner /\ st.node = node
InnerAt(node) == mode = "running" /\ inner /\ ch.node = node

-----------------------------------------------------------------------------
(* The nodes of the root graph.                                            *)

Router ==
  /\ At("router")
  /\ \E kind \in {"engineering", "lightweight"} : DriverStep(Produced(st, kind))

Explorer ==
  /\ At("explorer")
  /\ \E found \in BOOLEAN : DriverStep(Produced([st EXCEPT !.located = found], None))

(* A spent budget bounces once more.                                       *)
GateResultMutant(valid, advise, bounces, budget, layer) ==
  IF valid \/ advise THEN Approve(st)
  ELSE IF bounces > budget THEN Escalate(st) ELSE Repair(st, layer)

(* GateNode.run: advance, or bounce while the budget lasts, then escalate. *)
GateResult(valid, advise, bounces, budget, layer) ==
  IF valid \/ advise THEN Approve(st)
  ELSE IF bounces >= budget THEN Escalate(st) ELSE Repair(st, layer)

UnderstandingGate ==
  /\ At("understanding_gate")
  /\ DriverStep(GateResult(st.located, FALSE, st.history["understanding_gate"],
                           UnderstandingBudget, "understanding"))

(* ~at_cap: every answer of the turn counts, the gates' too.               *)
MayAsk(s) == Interview(s) < MaxRounds

(* Interviewer: ask while there are rounds left, or emit the Requirement.  *)
Interviewer ==
  /\ At("interviewer")
  /\ \/ MayAsk(st) /\ DriverStep(Ask(st, "interviewer"))
     \/ DriverStep(Produced(st, None))

(* An answer all of whose bounces are made still counts as fresh.          *)
FreshAnswerMutant(s, g) == s.given[g] >= s.history[g]

(* _fresh_answer: more answers on record than bounces this gate made.      *)
FreshAnswer(s, g) == s.given[g] > s.history[g]

(* The gate gives in one change request early.                             *)
MayBounceMutant(s, g) == s.history[g] + 1 < ConfirmCap

(* The gate's repair_cap is not reached yet.                               *)
MayBounce(s, g) == s.history[g] < ConfirmCap

(* _ConfirmGate.run                                                        *)
ConfirmGate(g, layer) ==
  /\ At(g)
  /\ \/ policy = "FULL_AUTO" /\ DriverStep(Produced(st, None))
     \/ /\ policy # "FULL_AUTO"
        /\ \/ ~FreshAnswer(st, g) /\ DriverStep(Ask(st, g))
           \/ /\ FreshAnswer(st, g)
              /\ IF st.latest[g] = "approve" \/ ~MayBounce(st, g)
                 THEN DriverStep(Produced(st, None))
                 ELSE DriverStep(Repair(st, layer))

SpecConfirmGate == ConfirmGate("spec_confirm_gate", "acceptance")
PlanConfirmGate == ConfirmGate("plan_confirm_gate", "plan")

Planner ==
  /\ At("planner")
  /\ \E shape \in PlanShapes :
       DriverStep(Produced([st EXCEPT !.plan = FreshPlan(shape)], None))

(* PlanGate._has_cycle: some tasks each wait for another of them.          *)
HasCycle(plan) ==
  \E S \in SUBSET plan.tasks \ {{}} : \A t \in S : DepsOf(plan, t) \cap S # {}

(* Dependencies are accepted as they come.                                 *)
ValidPlanMutant(plan) ==
  /\ plan.tasks # {} /\ plan.sound
  /\ plan.deps \subseteq plan.tasks \X plan.tasks

(* PlanGate._invalid_hint is None.                                         *)
ValidPlan(plan) ==
  /\ plan.tasks # {} /\ plan.sound
  /\ plan.deps \subseteq plan.tasks \X plan.tasks
  /\ ~HasCycle(plan)

PlanGate ==
  /\ At("plan_gate")
  /\ DriverStep(GateResult(ValidPlan(st.plan), advisory, st.history["plan_gate"],
                           PlanBudget, "plan"))

PlanReviewer ==
  /\ At("plan_reviewer")
  /\ \E ok \in BOOLEAN :
       DriverStep(CASE ok -> Approve(st)
                    [] ~ok /\ st.history["plan_reviewer"] >= ReviewCap -> Escalate(st)
                    [] OTHER -> Repair(st, "plan"))

Provisioner == At("provisioner") /\ DriverStep(Produced(st, None))

(* GlobalValidator.run: a regression reopens one finished task, else asks  *)
(* for a new plan, else - both budgets spent - the build passes anyway.    *)
GlobalValidator ==
  /\ At("global_validator")
  /\ \/ DriverStep(Produced(st, "pass"))
     \/ \E verdict \in {"repair_impl", "repair_plan"}, culprit \in {NoTask} \cup TaskIds :
          LET scoped == /\ verdict = "repair_impl"
                        /\ culprit # NoTask
                        /\ st.history["scoped_fixup"] < MaxScopedFixups
                        /\ IsDone(st.plan, culprit)
          IN  DriverStep(
                CASE scoped -> Repair(WithTaskStatus(st, culprit, "pending"),
                                      "implementation")
                  [] ~scoped /\ st.history["replan_fixup"] < MaxFixups -> Repair(st, "plan")
                  [] OTHER -> Produced(st, "pass"))

Reporter ==
  At("reporter") /\ DriverStep(Produced([st EXCEPT !.report = "succeeded"], None))

FastPath == At("fast_path") /\ DriverStep(Produced(st, None))

-----------------------------------------------------------------------------
(* The nodes of implement_loop.                                            *)

(* A task is runnable whatever it waits for.                               *)
RunnableMutant(plan, t) == t \in plan.tasks /\ plan.status[t] \in {"pending", "active"}

Runnable(plan, t) ==
  /\ t \in plan.tasks
  /\ plan.status[t] \in {"pending", "active"}
  /\ \A d \in DepsOf(plan, t) : IsDone(plan, d)

TaskSelector ==
  /\ InnerAt("task_selector")
  /\ \/ \E t \in TaskIds :
          /\ Runnable(ch.plan, t)
          /\ \A u \in TaskIds : u < t => ~Runnable(ch.plan, u)
          /\ InnerStep(Produced(WithActiveTask(ch, t), "task"))
     \/ /\ \A t \in TaskIds : ~Runnable(ch.plan, t)
        /\ InnerStep(Produced(ch, "done"))

(* The assertion "cursor task_id not in plan" of composer, implementer and *)
(* verifier, which ends the turn when it does not hold.                    *)
TaskAssertionFails ==
  /\ \E node \in {"composer", "implementer", "verifier"} : InnerAt(node)
  /\ ch.task \notin ch.plan.tasks
  /\ Fail

Composer ==
  /\ InnerAt("composer")
  /\ ch.task \in ch.plan.tasks
  /\ InnerStep(Produced(ch, None))

(* Implementer.run.  A step whose gate never turns green escalates to a    *)
(* new plan, unless the attempt found on entry has used up its rounds.     *)
Implementer ==
  /\ InnerAt("implementer")
  /\ ch.task \in ch.plan.tasks
  /\ \/ InnerStep(Produced(WithAttempt(ch, ch.task), None))
     \/ /\ ch.plan.rounds[ch.task] < MaxAttempts
        /\ InnerStep(Repair(WithAttempt(ch, ch.task), "plan"))

RoundsSpent(rounds) == rounds = NoAttempt \/ rounds >= MaxAttempts

(* VerifierNode.run.  An "advance" without backing observations counts as  *)
(* repair_impl, and repair_impl with its rounds spent as done.  Completing *)
(* a task that has no attempt raises.                                      *)
Verifier ==
  /\ InnerAt("verifier")
  /\ ch.task \in ch.plan.tasks
  /\ \E raw \in {"advance", "repair_impl", "repair_plan"}, backed \in BOOLEAN :
       LET rounds == ch.plan.rounds[ch.task]
           done   == \/ raw = "advance" /\ backed
                     \/ raw # "repair_plan" /\ RoundsSpent(rounds)
       IN  \/ done /\ rounds = NoAttempt /\ Fail
           \/ /\ done /\ rounds # NoAttempt
              /\ InnerStep(Produced(WithTaskStatus(ch, ch.task, "done"), "done"))
           \/ ~done /\ raw = "repair_plan" /\ InnerStep(Repair(ch, "plan"))
           \/ /\ ~done /\ raw # "repair_plan"
              /\ InnerStep(Repair(ch, "implementation"))

-----------------------------------------------------------------------------
(* Failures of a node's own model call.  The router falls back instead.    *)
Inferring      == {"explorer", "interviewer", "planner", "plan_reviewer",
                   "provisioner", "global_validator"}
InnerInferring == {"implementer", "verifier"}

(* StructuredOutputError or LLMCallTimeout: the driver escalates.          *)
InferenceFails == \E node \in Inferring : At(node) /\ DriverStep(Escalate(st))

InnerInferenceFails ==
  /\ \E node \in InnerInferring : InnerAt(node)
  /\ ch.task \in ch.plan.tasks
  /\ InnerStep(Escalate(ch))

(* Any other exception.                                                    *)
NodeRaises ==
  /\ \/ \E node \in Inferring \cup {"fast_path"} : At(node)
     \/ \E node \in InnerInferring : InnerAt(node)
  /\ Fail

-----------------------------------------------------------------------------
(* The turn around the driver.                                             *)

(* answer_query / submit on a parked query: the run goes on at the node    *)
(* that asked.  For a gate the answer is its approve option, or anything   *)
(* else, which is a change request.                                        *)
AnswerQuery ==
  /\ mode = "suspended"
  /\ \E a \in {"approve", "change"} : Begin(Answered(st, a))
  /\ UNCHANGED interrupts

(* action_interrupt: the run is cancelled inside a node and its state is   *)
(* lost; the turn keeps the live state, or the parked query it is at.  A   *)
(* node that finishes despite the cancellation changes nothing: the driver *)
(* stops at its next loop top and the app ignores what it returns.         *)
Interrupt ==
  /\ mode \in {"running", "suspended"}
  /\ policy = "SUPERVISED"                       \* headless never cancels
  /\ interrupts < MaxInterrupts
  /\ interrupts' = interrupts + 1
  /\ mode' = "interrupted"
  /\ st' = IF mode = "suspended" THEN st ELSE ckpt
  /\ inner' = FALSE
  /\ ch' = NoChild
  /\ steps' = 0
  /\ innerSteps' = 0
  /\ lastEscape' = None
  /\ UNCHANGED <<policy, advisory, ckpt>>

(* submit after Esc: the message steers, the pending query is dropped, and *)
(* the run goes on at the cursor.                                          *)
Resume ==
  /\ mode = "interrupted"
  /\ Begin(WithoutPendingQuery(st))
  /\ UNCHANGED interrupts

(* The turn is over; nothing more happens to it.                           *)
TurnOver == mode \in {"done", "failed"} /\ UNCHANGED vars

-----------------------------------------------------------------------------
Init ==
  /\ policy \in PolicyChoices
  /\ advisory \in AdvisoryChoices
  /\ mode = "running"
  /\ st = NewSession
  /\ inner = FALSE
  /\ ch = NoChild
  /\ ckpt = NewSession
  /\ steps = 0
  /\ innerSteps = 0
  /\ lastEscape = None
  /\ interrupts = 0

OuterNode ==
  \/ Router \/ Explorer \/ UnderstandingGate \/ Interviewer \/ SpecConfirmGate
  \/ Planner \/ PlanGate \/ PlanReviewer \/ PlanConfirmGate \/ Provisioner
  \/ GlobalValidator \/ Reporter \/ FastPath \/ InferenceFails

InnerNode ==
  \/ TaskSelector \/ Composer \/ Implementer \/ Verifier
  \/ TaskAssertionFails \/ InnerInferenceFails

(* The node that runs comes to an end.                                     *)
NodeEnds == OuterNode \/ InnerNode \/ NodeRaises

Next == NodeEnds \/ AnswerQuery \/ Interrupt \/ Resume \/ TurnOver

Spec == Init /\ [][Next]_vars

(* Every model call, tool call and gate command of a node has a timeout,   *)
(* so a node that runs ends.  That a user answers or resumes is a promise  *)
(* of nobody and is not assumed.                                           *)
FairSpec == Spec /\ WF_vars(NodeEnds)

-----------------------------------------------------------------------------
(* PROPERTIES                                                              *)

(* The state whose data is current: the inner driver's while it runs.      *)
Work == IF inner THEN ch ELSE st

(* Type invariant of the turn: every driver state is a Session, and no     *)
(* node starts with GLOBAL_STEP_BUDGET transitions behind it.              *)
TypeOK ==
  /\ policy \in Policies
  /\ advisory \in BOOLEAN
  /\ mode \in Modes
  /\ st \in Session /\ ch \in Session /\ ckpt \in Session
  /\ inner \in BOOLEAN
  /\ steps \in 0 .. StepBudget - 1 /\ innerSteps \in 0 .. StepBudget - 1
  /\ lastEscape \in {None, "parked", "budget"}
  /\ interrupts \in 0 .. MaxInterrupts

(* Each node that counts its own bounces in state.history stays within its *)
(* cap, through every interleaving of the loops that pass through it: a    *)
(* plan bounced by one gate comes back through the others.                 *)
BouncesCapped ==
  LET h == Work.history
  IN  /\ h["understanding_gate"] <= UnderstandingBudget
      /\ h["plan_gate"] <= PlanBudget
      /\ h["plan_reviewer"] <= ReviewCap
      /\ \A g \in ConfirmGates : h[g] <= ConfirmCap
      /\ h["scoped_fixup"] <= MaxScopedFixups
      /\ h["replan_fixup"] <= MaxFixups

(* A confirmation gate never loses or reuses a change request: it has      *)
(* bounced once per answer, but for the one it is still to act on (or the  *)
(* last one, which let it advance), and asks only when none is left.       *)
AnswersActedOn ==
  \A g \in ConfirmGates :
    /\ st.given[g] - st.history[g] \in {0, 1}
    /\ st.pending = g => st.given[g] = st.history[g]

(* The user is asked a bounded number of questions in a turn, interviewer  *)
(* and gates together, however often the loops come back to them.          *)
QuestionsBounded == Interview(st) <= MaxRounds + 2 * (ConfirmCap + 1)

(* Where a plan is being carried out.                                      *)
Executing == Work.node \in {"provisioner", "implement_loop", "global_validator", "reporter"}
                             \cup InnerNodes

(* A plan the user asked to change is not carried out, unless the gate had *)
(* already bounced as often as it may.                                     *)
RejectedPlanNotBuilt ==
  Executing /\ Work.plan.decision = "change"
    => Work.history["plan_confirm_gate"] >= ConfirmCap

(* Without the advisory experiment a SUCCEEDED report, and the whole-build *)
(* validation before it, only ever see a plan whose tasks are all DONE: no *)
(* dependency shape, reopening or repair lets the selector leave with work *)
(* it could not start.                                                     *)
SuccessMeansAllDone ==
  ~advisory /\ (st.node \in {"global_validator", "reporter"} \/ st.report = "succeeded")
    => st.plan.tasks # {} /\ AllDone(st.plan)

(* The cursor's task is in the plan wherever the code asserts it is.       *)
CursorTaskInPlan ==
  inner /\ ch.node \in {"composer", "implementer", "verifier"}
    => ch.task \in ch.plan.tasks

(* Esc loses no more than the node in flight: the live state it would keep *)
(* has the data of the run and leads back to the node that is running,     *)
(* inside the subgraph too.                                                *)
CheckpointFollowsRun ==
  mode = "running" =>
    /\ inner => LET back == Fork(ckpt)
                IN  /\ back.node = ch.node /\ back.task = ch.task
                    /\ back.plan = ch.plan /\ back.history = ch.history
    /\ ~inner => ckpt = st

(* A task becomes DONE only when the tasks it depends on are.              *)
DoneOnlyAfterDeps ==
  [][\A t \in TaskIds :
       ~IsDone(Work.plan, t) /\ IsDone(Work'.plan, t)
         => \A d \in DepsOf(Work.plan, t) : IsDone(Work.plan, d)]_vars

(* A finished task stays finished until the planner runs, the loop is left *)
(* by an unresolved verdict or an exception, or global validation reopens  *)
(* it: merging, checkpointing and resuming never lose one.                 *)
DoneStaysDone ==
  [][\A t \in TaskIds :
       IsDone(Work.plan, t) /\ ~IsDone(Work'.plan, t)
         => \/ st.node = "planner"
            \/ inner /\ (st'.node \in {"planner", "user"} \/ mode' = "failed")
            \/ Work'.history["scoped_fixup"] > Work.history["scoped_fixup"]]_vars

(* Driver.run always returns: GLOBAL_STEP_BUDGET ends even the loops that  *)
(* no cap of their own bounds.                                             *)
RunReturns == mode = "running" ~> mode # "running"

(* A user who keeps answering, and resumes what was interrupted, sees the  *)
(* turn end: questions and runs cannot alternate forever.                  *)
TurnEnds ==
  WF_vars(AnswerQuery) /\ WF_vars(Resume) => <>(mode \in {"done", "failed"})

-----------------------------------------------------------------------------
(* What the repository says and the code does not do.                      *)

(* "once approved the gate advances and is never re-entered": every plan   *)
(* that is carried out under SUPERVISED was put to the user.               *)
BuiltPlanWasConfirmed ==
  Executing /\ policy = "SUPERVISED" => Work.plan.decision # "none"
=============================================================================
