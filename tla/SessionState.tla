---------------------------- MODULE SessionState ----------------------------
(***************************************************************************)
(* The immutable SessionState the driver threads through the graph, cut    *)
(* down to what control depends on (domain/session/models.py):             *)
(*                                                                         *)
(*   node, task   cursor.current_node and cursor.task_id (NoTask = None)   *)
(*   located      the CodeContext has candidates, a greenfield verdict or  *)
(*                notes, so understanding_gate accepts it                  *)
(*   plan         the Plan with its tasks, deps and latest attempts        *)
(*   history      how often each back edge a node counts was taken         *)
(*   asked        answers to interviewer questions in `interview`          *)
(*   given, latest  per confirmation gate: answers in `interview`, last one *)
(*   pending      the node whose Query is pending, or None                 *)
(*   saved        driver_control.subgraph_cursors["implement_loop"]        *)
(*   report       None, or the outcome of the Report                       *)
(*                                                                         *)
(* Task ids are 1..NTasks in plan order; a plan holds any subset of them.  *)
(***************************************************************************)
EXTENDS Integers, FiniteSets, HarnessGraph

CONSTANTS
  NTasks         \* task ids a planner can emit

ASSUME NTasksAssumption == NTasks \in Nat

TaskIds   == 1 .. NTasks
NoTask    == 0
NoAttempt == -1          \* adversarial_rounds of a task without attempts
Statuses  == {"pending", "active", "done"}
Decisions == {"none", "approve", "change"}
NoCursor  == [node |-> None, task |-> NoTask]

-----------------------------------------------------------------------------
(* What a planner's output decides: the task ids, the dependencies (a      *)
(* depends_on may name no task at all) and whether PlanGate's structural   *)
(* checks other than the dependency ones accept it.                        *)
PlanShape ==
  [tasks : SUBSET TaskIds, deps : SUBSET (TaskIds \X TaskIds), sound : BOOLEAN]

(* A Plan: its shape and, per task, the status and the adversarial_rounds  *)
(* of its latest attempt.  `decision` is the user's answer on this very    *)
(* plan: the code keeps no such field, only the properties read it.        *)
Plan ==
  [tasks : SUBSET TaskIds, deps : SUBSET (TaskIds \X TaskIds), sound : BOOLEAN,
   status : [TaskIds -> Statuses], rounds : [TaskIds -> Int],
   decision : Decisions]

(* Planner.parse: every task PENDING, without attempts.                    *)
FreshPlan(shape) ==
  [tasks |-> shape.tasks, deps |-> shape.deps, sound |-> shape.sound,
   status |-> [t \in TaskIds |-> "pending"],
   rounds |-> [t \in TaskIds |-> NoAttempt],
   decision |-> "none"]

NoPlan == FreshPlan([tasks |-> {}, deps |-> {}, sound |-> FALSE])

DepsOf(plan, t) == {d \in TaskIds : <<t, d>> \in plan.deps}
IsDone(plan, t) == t \in plan.tasks /\ plan.status[t] = "done"
AllDone(plan)   == \A t \in plan.tasks : plan.status[t] = "done"

-----------------------------------------------------------------------------
(* The back edges some node counts in `history`.  Nobody counts the one    *)
(* from implement_loop to the planner.                                     *)
Bounces ==
  {"understanding_gate", "plan_gate", "plan_reviewer", "spec_confirm_gate",
   "plan_confirm_gate", "scoped_fixup", "replan_fixup"}

BounceOf(from, to) ==
  CASE from = "understanding_gate" /\ to = "explorer"      -> "understanding_gate"
    [] from = "plan_gate" /\ to = "planner"                -> "plan_gate"
    [] from = "plan_reviewer" /\ to = "planner"            -> "plan_reviewer"
    [] from = "spec_confirm_gate" /\ to = "interviewer"    -> "spec_confirm_gate"
    [] from = "plan_confirm_gate" /\ to = "planner"        -> "plan_confirm_gate"
    [] from = "global_validator" /\ to = "implement_loop"  -> "scoped_fixup"
    [] from = "global_validator" /\ to = "planner"         -> "replan_fixup"
    [] OTHER                                               -> None

(* No saved cursor, or one that stands at a node of the loop.              *)
SavedCursors == {NoCursor} \cup [node : InnerNodes, task : TaskIds \cup {NoTask}]

Session ==
  [node : OuterNodes \cup InnerNodes \cup {"user"}, task : TaskIds \cup {NoTask},
   located : BOOLEAN, plan : Plan, history : [Bounces -> Nat],
   asked : Nat, given : [ConfirmGates -> Nat], latest : [ConfirmGates -> Decisions],
   pending : {None, "interviewer"} \cup ConfirmGates,
   saved : SavedCursors,
   report : {None, "succeeded", "abandoned"}]

(* A fresh turn: submit()'s and main()'s initial state, cursor on router.  *)
NewSession ==
  [node |-> "router", task |-> NoTask, located |-> FALSE, plan |-> NoPlan,
   history |-> [b \in Bounces |-> 0], asked |-> 0,
   given |-> [g \in ConfirmGates |-> 0], latest |-> [g \in ConfirmGates |-> "none"],
   pending |-> None, saved |-> NoCursor, report |-> None]

(* len(state.interview): every answer recorded, whoever asked.             *)
Interview(s) ==
  s.asked + s.given["spec_confirm_gate"] + s.given["plan_confirm_gate"]

-----------------------------------------------------------------------------
(* `history + (Transition(...),)`                                          *)
Logged(history, b) == IF b = None THEN history ELSE [history EXCEPT ![b] = @ + 1]

(* advancing_to: move the cursor, keep its task, log the transition.       *)
AdvancingTo(s, from, to) ==
  [s EXCEPT !.node = to, !.history = Logged(@, BounceOf(from, to))]

(* An answer to the pending query of node g.                               *)
Answered(s, a) ==
  LET g == s.pending
  IN  IF g \in ConfirmGates
      THEN [s EXCEPT !.pending = None, !.given[g] = @ + 1, !.latest[g] = a,
                     !.plan.decision = IF g = "plan_confirm_gate" THEN a ELSE @]
      ELSE [s EXCEPT !.pending = None, !.asked = @ + 1]

WithoutPendingQuery(s) == [s EXCEPT !.pending = None]

WithTaskStatus(s, t, status) == [s EXCEPT !.plan.status[t] = status]

(* The cursor keeps the task it had.                                       *)
WithActiveTaskMutant(s, t) == WithTaskStatus(s, t, "active")

(* SelectedTask.apply_to: the task is ACTIVE and on the cursor.            *)
WithActiveTask(s, t) == [WithTaskStatus(s, t, "active") EXCEPT !.task = t]

(* The attempt the implementer leaves behind.  No validation runner is     *)
(* wired, so a second visit refines the one attempt in place and only its  *)
(* adversarial_rounds grow.                                                *)
WithAttempt(s, t) == [s EXCEPT !.plan.rounds[t] = @ + 1]

-----------------------------------------------------------------------------
(* implement_loop's fork: all data shared, the cursor at the loop entry -  *)
(* unless a cursor saved by an earlier checkpoint says where to resume.    *)
Fork(s) ==
  IF s.saved = NoCursor
  THEN [s EXCEPT !.node = "task_selector"]
  ELSE [s EXCEPT !.node = s.saved.node, !.task = s.saved.task]

(* merge: the child's data under the parent's cursor.                      *)
Merge(parent, child) == [child EXCEPT !.node = parent.node, !.task = parent.task]

(* What the loop did to the plan stays in the loop.                        *)
MergeFinishedMutant(parent, child) == [parent EXCEPT !.saved = NoCursor]

(* _Merge.apply_to, when the loop finished: the saved cursor goes.         *)
MergeFinished(parent, child) == [Merge(parent, child) EXCEPT !.saved = NoCursor]

(* The parent is checkpointed as it was when the loop began.               *)
MergeCheckpointMutant(parent, child) ==
  [parent EXCEPT !.saved = [node |-> child.node, task |-> child.task]]

(* CompiledGraph.child_step: what a step inside the loop checkpoints.      *)
MergeCheckpoint(parent, child) ==
  [Merge(parent, child) EXCEPT !.saved = [node |-> child.node, task |-> child.task]]
=============================================================================
