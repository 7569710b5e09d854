------------------------------ MODULE TaskBuild ------------------------------
(***************************************************************************)
(* One task inside implement_loop: the implementer drives the steps of the *)
(* task, each with its gate, records the patch it made as an attempt, and  *)
(* the verifier judges the attempt against the criteria.  The implementer  *)
(* lives as long as the driver of the app, longer than a plan or a turn,   *)
(* and keeps a baseline of the work tree per task id; Esc throws away what *)
(* a node did, but not what it wrote to the work tree.                     *)
(*                                                                         *)
(* Harness has the graph around it, ToolLoop what happens while a model    *)
(* works with its tools: here that is one action, which may change files.  *)
(***************************************************************************)
EXTENDS Integers, FiniteSets, Sequences

CONSTANTS
  TaskIds,       \* ids the planner gives to tasks, in every plan again
  StepPlans,     \* task.steps a planner may emit
  Criteria,      \* requirement.acceptance
  StepRepairCap, \* implementer.STEP_REPAIR_CAP
  MaxAttempts,   \* execution.MAX_ATTEMPTS
  MaxPlans,      \* bound of the model: plans carried out
  MaxInterrupts  \* bound of the model: how often Esc is pressed

(* A step with neither `run` nor a how_to_validate of its task has no gate *)
(* command.                                                                *)
Step == [kind : {"test", "impl", "run"}, gated : BOOLEAN]

ASSUME StepsAssumption == \A steps \in StepPlans : steps \in Seq(Step)
ASSUME CapsAssumption ==
  /\ StepRepairCap \in Nat \ {0} /\ MaxAttempts \in Nat
  /\ MaxPlans \in Nat \ {0} /\ MaxInterrupts \in Nat

VARIABLES
  plan,       \* number of the plan carried out
  task,       \* cursor.task_id
  steps,      \* its steps
  at,         \* where the loop is, see Places
  pos,        \* the step driven
  tries,      \* how often the step was authored
  suspect,    \* `escalate`: the plan is to be made anew
  attempt,    \* task.attempts[-1]
  ckpt,       \* node and attempt of the last checkpoint
  made,       \* which Implementer object this is: a new model makes a new one
  baselines,  \* Implementer._baselines
  tree,       \* the work tree: the pieces of work done in it
  interrupts, \* how often Esc was pressed
  visits,     \* history: finished visits of the implementer to this task,
              \* counted up to MaxAttempts + 1
  greens,     \* history: steps of this visit whose last gate passed
  verdict     \* history: how the task was accepted, and on which criteria

file  == <<made, baselines, tree>>
visit == <<pos, tries, suspect, greens>>
given == <<plan, task, steps>>
vars  == <<given, at, visit, attempt, ckpt, file, interrupts, visits, verdict>>

(* enter: the implementer is the next node.  author: its model works on    *)
(* the step.  gate: the step's command runs.  record: the patch is taken.  *)
(* verify: the verifier is the next node.  done, replan, over: the task is *)
(* accepted, its plan given up, the turn ended.                            *)
Places  == {"enter", "author", "gate", "record", "verify", "done", "replan", "over"}
Settled == {"done", "replan", "over"}

(* A piece of work: which plan's, which object's, in which visit.          *)
Work == [plan : 1 .. MaxPlans, made : 1 .. MaxInterrupts + 1, visit : 0 .. MaxAttempts + 1]

(* An Attempt: its adversarial_rounds, and what its patch contains.        *)
NoAttempt == [rounds |-> 0, patch |-> {}, id |-> FALSE]
Attempt   == [rounds : Nat, patch : SUBSET Work, id : BOOLEAN]

Unjudged == [how |-> "open", met |-> {}]

(* SelectedTask and the composer: the implementer is entered for a task.   *)
Selected(t, s) ==
  /\ task' = t
  /\ steps' = s
  /\ at' = "enter"
  /\ attempt' = NoAttempt
  /\ ckpt' = [at |-> "enter", attempt |-> NoAttempt]
  /\ pos' = 1 /\ tries' = 0 /\ suspect' = FALSE
  /\ visits' = 0 /\ greens' = {} /\ verdict' = Unjudged

Init ==
  /\ plan = 1
  /\ task \in TaskIds
  /\ steps \in StepPlans
  /\ at = "enter"
  /\ attempt = NoAttempt
  /\ ckpt = [at |-> "enter", attempt |-> NoAttempt]
  /\ pos = 1 /\ tries = 0 /\ suspect = FALSE
  /\ made = 1
  /\ baselines = << >>
  /\ tree = {}
  /\ interrupts = 0
  /\ visits = 0 /\ greens = {} /\ verdict = Unjudged

-----------------------------------------------------------------------------
(* The implementer.                                                        *)

(* Every visit takes its own.                                              *)
BaselinedMutant == [t \in DOMAIN baselines \cup {task} |->
                      IF t = task THEN tree ELSE baselines[t]]

(* `if task.id not in self._baselines`: the tree as it is now.             *)
Baselined == [t \in DOMAIN baselines \cup {task} |->
                IF t \in DOMAIN baselines THEN baselines[t] ELSE tree]

(* A task without steps is one free run of the tool loop.                  *)
Enter ==
  /\ at = "enter"
  /\ baselines' = Baselined
  /\ at' = IF steps = << >> \/ steps[1].kind # "run" THEN "author" ELSE "gate"
  /\ pos' = 1 /\ tries' = 0 /\ suspect' = FALSE /\ greens' = {}
  /\ UNCHANGED <<given, attempt, ckpt, made, tree, interrupts, visits, verdict>>

(* _author_step, or _loop: the model writes what it likes, or nothing.     *)
Author ==
  /\ at = "author"
  /\ tree' \in {tree, tree \cup {[plan |-> plan, made |-> made, visit |-> visits]}}
  /\ tries' = tries + 1
  /\ at' = IF steps = << >> THEN "record" ELSE "gate"
  /\ UNCHANGED <<given, pos, suspect, greens, attempt, ckpt, made, baselines,
                 interrupts, visits, verdict>>

(* _drive_steps goes on: the next step, or the end of them.                *)
NextStep ==
  /\ suspect' = FALSE
  /\ tries' = 0
  /\ pos' = pos + 1
  /\ at' = CASE pos = Len(steps)               -> "record"
             [] pos < Len(steps) /\ steps[pos + 1].kind = "run" -> "gate"
             [] OTHER                          -> "author"

(* The step is authored again, with the result of its gate.                *)
Again ==
  /\ at' = "author"
  /\ UNCHANGED <<pos, tries, suspect>>

(* The loop over the steps goes on.                                        *)
GiveUpMutant == NextStep

(* _drive_impl_step after its last try: escalate, and the loop over the    *)
(* steps ends; best effort if the attempt found on entry is at its cap.    *)
GiveUp ==
  IF attempt.id /\ attempt.rounds >= MaxAttempts
  THEN NextStep
  ELSE /\ suspect' = TRUE
       /\ at' = "record"
       /\ UNCHANGED <<pos, tries>>

(* _run_gate and what is made of its exit code: a test has to fail, an     *)
(* implementation to pass, a run step is only run.  Without a command the  *)
(* code is 0.                                                              *)
Gate ==
  /\ at = "gate"
  /\ \E green \in BOOLEAN :
       /\ ~steps[pos].gated => green
       /\ greens' = IF green THEN greens \cup {pos} ELSE greens \ {pos}
       /\ \/ steps[pos].kind = "test" /\ ~green /\ NextStep
          \/ steps[pos].kind = "impl" /\ green /\ NextStep
          \/ steps[pos].kind = "run" /\ NextStep
          \/ /\ steps[pos].kind = "test" /\ green
             /\ IF tries < StepRepairCap THEN Again ELSE NextStep
          \/ /\ steps[pos].kind = "impl" /\ ~green
             /\ IF tries < StepRepairCap THEN Again ELSE GiveUp
  /\ UNCHANGED <<given, attempt, ckpt, file, interrupts, visits, verdict>>

(* Each visit is an attempt of its own.                                    *)
RoundsMutant == 0

(* The live attempt is refined; no validation_runner gives it a result.    *)
Rounds == IF attempt.id THEN attempt.rounds + 1 ELSE 0

(* diff_since: the work tree now, whoever wrote it, against a tree kept.   *)
PatchSince(base) == tree \ base

(* _extract_attempt: the diff since the baseline.  An escalation leaves    *)
(* the loop, whose state is dropped; else on_step and the verifier.        *)
Record ==
  LET extracted == [rounds |-> Rounds, patch |-> PatchSince(baselines[task]), id |-> TRUE]
  IN  /\ at = "record"
      /\ visits' = IF visits > MaxAttempts THEN visits ELSE visits + 1
      /\ attempt' = extracted
      /\ IF suspect
         THEN at' = "replan" /\ UNCHANGED ckpt
         ELSE at' = "verify" /\ ckpt' = [at |-> "verify", attempt |-> extracted]
      /\ UNCHANGED <<given, visit, file, interrupts, verdict>>

-----------------------------------------------------------------------------
(* The verifier.                                                           *)

(* _observation_backed: no criterion is binding, for no acceptance spec is *)
(* made any more, so what counts is that every check the judge emitted, at *)
(* least one, has output that was seen and meets the criterion.            *)
ObservationBacked(listed, met) == listed # {} /\ listed \subseteq met

(* The task is let through one refinement early.                           *)
RoundsSpentMutant == attempt.rounds + 1 >= MaxAttempts

(* The live attempt has been refined as often as it may be.                *)
RoundsSpent == attempt.rounds >= MaxAttempts

(* TaskCompleted                                                           *)
Done(how, met) ==
  /\ at' = "done"
  /\ verdict' = [how |-> how, met |-> met]
  /\ UNCHANGED ckpt

(* VerifierNode.run: listed are the criteria the judge has checks for, met *)
(* those it saw satisfied.                                                 *)
Judge ==
  /\ at = "verify"
  /\ \E raw \in {"advance", "repair_impl", "repair_plan"}, listed \in SUBSET Criteria :
     \E met \in SUBSET listed :
       LET advance == raw = "advance" /\ ObservationBacked(listed, met)
       IN  \/ advance /\ Done("observed", met)
           \/ raw = "repair_plan" /\ at' = "replan" /\ UNCHANGED <<ckpt, verdict>>
           \/ raw # "repair_plan" /\ ~advance /\ RoundsSpent /\ Done("spent", met)
           \/ /\ raw # "repair_plan" /\ ~advance /\ ~RoundsSpent
              /\ at' = "enter"
              /\ ckpt' = [at |-> "enter", attempt |-> attempt]
              /\ UNCHANGED verdict
  /\ UNCHANGED <<given, visit, attempt, file, interrupts, visits>>

-----------------------------------------------------------------------------
(* Around them.                                                            *)

(* A new plan: the planner's after a repair_plan, or the next turn's.      *)
NewPlan ==
  /\ at \in Settled
  /\ plan < MaxPlans
  /\ plan' = plan + 1
  /\ \E t \in TaskIds, s \in StepPlans : Selected(t, s)
  /\ UNCHANGED <<file, interrupts>>

(* Esc and the message that resumes: the checkpoint's node runs again from *)
(* its start.  While the turn is paused the user may choose another model: *)
(* set_llm builds a new driver, and with it a new Implementer.             *)
Interrupt ==
  /\ at \notin Settled
  /\ interrupts < MaxInterrupts
  /\ interrupts' = interrupts + 1
  /\ at' = ckpt.at
  /\ attempt' = ckpt.attempt
  /\ pos' = 1 /\ tries' = 0 /\ suspect' = FALSE /\ greens' = {}
  /\ \/ UNCHANGED <<made, baselines>>
     \/ made' = made + 1 /\ baselines' = << >>
  /\ UNCHANGED <<given, ckpt, tree, visits, verdict>>

(* The node's model gives no usable answer, or it raises: the turn ends.   *)
NodeFails ==
  /\ at \in {"enter", "author", "verify"}
  /\ at' = "over"
  /\ UNCHANGED <<given, visit, attempt, ckpt, file, interrupts, visits, verdict>>

Proceed == Enter \/ Author \/ Gate \/ Record \/ Judge

Next == Proceed \/ NewPlan \/ Interrupt \/ NodeFails

Spec == Init /\ [][Next]_vars

(* Tool loops end (ToolLoop.NodeEnds) and gate commands time out.          *)
FairSpec == Spec /\ WF_vars(Proceed)

-----------------------------------------------------------------------------

(* The variables have the types of the implementer's and the cursor's      *)
(* fields.                                                                 *)
TypeOK ==
  /\ plan \in 1 .. MaxPlans /\ task \in TaskIds /\ steps \in StepPlans
  /\ at \in Places
  /\ pos \in 1 .. Len(steps) + 1
  /\ tries \in 0 .. StepRepairCap
  /\ suspect \in BOOLEAN
  /\ attempt \in Attempt
  /\ ckpt.at \in {"enter", "verify"} /\ ckpt.attempt \in Attempt
  /\ made \in 1 .. MaxInterrupts + 1
  /\ DOMAIN baselines \subseteq TaskIds
  /\ \A t \in DOMAIN baselines : baselines[t] \subseteq Work
  /\ tree \subseteq Work
  /\ interrupts \in 0 .. MaxInterrupts
  /\ visits \in 0 .. MaxAttempts + 1
  /\ greens \subseteq 1 .. Len(steps)
  /\ verdict.how \in {"open", "observed", "spent"} /\ verdict.met \subseteq Criteria

(* No step is worked on while an implementation step before it fails its   *)
(* gate, in whatever order retries and Esc come ("each step must pass its  *)
(* gate before the next", implementer.py:56-59).  So the best effort of    *)
(* _drive_impl_step is never made: the attempt found on entry is always    *)
(* below its cap.                                                          *)
GreenBeforeNext ==
  at \in {"author", "gate"} =>
    \A i \in 1 .. pos - 1 : steps[i].kind = "impl" => i \in greens

(* What the verifier and the report are shown as the patch of the task     *)
(* contains all that was written for it, in earlier visits and in visits   *)
(* Esc cut short too, since this Implementer was made.                     *)
PatchCoversWork ==
  at = "verify" => {w \in tree : w.plan = plan /\ w.made = made} \subseteq attempt.patch

(* A task the verifier did not see work is accepted only after MAX_ATTEMPTS*)
(* refinements, each a finished visit of the implementer: one that Esc cut *)
(* short does not count, one that was checkpointed does.                   *)
UnseenOnlyWhenSpent == verdict.how = "spent" => visits > MaxAttempts

(* The implementer and the verifier do not send a task to each other for   *)
(* ever: it is accepted, given up or cut off.                              *)
TaskSettles == []<>(at \in Settled)
=============================================================================
