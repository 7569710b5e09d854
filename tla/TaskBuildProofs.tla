--------------------------- MODULE TaskBuildProofs ---------------------------
(***************************************************************************)
(* What the implementer and the verifier keep between them, proved for     *)
(* every set of tasks, every plan of steps, every cap and every number of  *)
(* plans and interrupts.  The properties follow from an invariant in four  *)
(* parts: where in the steps the loop can be, how the counts of attempts   *)
(* and visits are related, what a baseline and a patch hold of the work    *)
(* tree, and which gates have passed.                                      *)
(***************************************************************************)
EXTENDS TaskBuild, TLAPS

Driving == {"enter", "author", "gate", "record"}

(* The loop is at a step of the plan, with a try left when it authors.     *)
Placed ==
  /\ at \in {"author", "gate"} => steps = << >> \/ pos \in 1 .. Len(steps)
  /\ at = "author" => tries < StepRepairCap
  /\ at = "gate" => steps # << >>

(* While the implementer works, the attempt it refines is below its cap;   *)
(* an attempt has one round less than there were finished visits.  The     *)
(* same holds of the attempt that Esc would bring back.                    *)
Counted(a) == a.id => a.rounds <= MaxAttempts /\ a.rounds < visits

Refinable(a) == a.id => a.rounds < MaxAttempts

Rounded ==
  /\ Counted(attempt) /\ Counted(ckpt.attempt)
  /\ at \in Driving => Refinable(attempt)
  /\ ckpt.at = "enter" => Refinable(ckpt.attempt)
  /\ at = "verify" => attempt.id
  /\ ckpt.at = "verify" => ckpt.attempt.id /\ at \in {"verify"} \cup Settled

(* The work of this plan's and this object's visits.                       *)
Own == {w \in tree : w.plan = plan /\ w.made = made}

(* The work tree holds nothing of the future; a baseline is an earlier     *)
(* tree, and that of the task at hand was taken before its first piece of  *)
(* work.  A patch that is or will be judged holds all of it.               *)
Baselines ==
  /\ made <= interrupts + 1
  /\ \A w \in tree : w.plan <= plan /\ w.made <= made
  /\ \A t \in DOMAIN baselines : baselines[t] \subseteq tree
  /\ task \in DOMAIN baselines => baselines[task] \cap Own = {}
  /\ task \notin DOMAIN baselines => Own = {}
  /\ at \in {"author", "gate", "record"} => task \in DOMAIN baselines
  /\ at = "verify" => Own \subseteq attempt.patch
  /\ ckpt.at = "verify" => Own \subseteq ckpt.attempt.patch

BuildInv ==
  TypeOK /\ Placed /\ Rounded /\ Baselines /\ GreenBeforeNext /\ UnseenOnlyWhenSpent
-----------------------------------------------------------------------------
(* The steps of a task are a finite sequence of steps.                     *)
LEMMA StepsAreSteps ==
  ASSUME TypeOK
  PROVE  /\ Len(steps) \in Nat /\ DOMAIN steps = 1 .. Len(steps)
         /\ \A i \in 1 .. Len(steps) : steps[i] \in Step
         /\ steps # << >> => Len(steps) >= 1
<1>1. steps \in Seq(Step)
  BY StepsAssumption DEF TypeOK
<1> QED
  BY <1>1

(* The steps before a step.                                                *)
LEMMA Below == \A n \in Nat : \A i \in 1 .. n - 1 : i \in Nat /\ 1 <= i /\ i < n
OBVIOUS

LEMMA InitBuilds == Init => BuildInv
<1> SUFFICES ASSUME Init PROVE BuildInv
  OBVIOUS
<1>1. steps \in Seq(Step)
  BY StepsAssumption DEF Init
<1>2. TypeOK
  <2>1. NoAttempt \in Attempt
    BY DEF NoAttempt, Attempt
  <2>2. pos \in 1 .. Len(steps) + 1 /\ greens \subseteq 1 .. Len(steps)
    BY <1>1 DEF Init
  <2>3. DOMAIN baselines = {}
    BY DEF Init
  <2>4. ckpt.at \in {"enter", "verify"} /\ ckpt.attempt \in Attempt
    BY <2>1 DEF Init
  <2>5. verdict.how \in {"open", "observed", "spent"} /\ verdict.met \subseteq Criteria
    BY DEF Init, Unjudged
  <2>6. /\ plan \in 1 .. MaxPlans /\ made \in 1 .. MaxInterrupts + 1
        /\ tries \in 0 .. StepRepairCap /\ interrupts \in 0 .. MaxInterrupts
        /\ visits \in 0 .. MaxAttempts + 1
    BY CapsAssumption DEF Init
  <2>7. task \in TaskIds /\ steps \in StepPlans /\ at \in Places /\ suspect \in BOOLEAN
        /\ tree \subseteq Work /\ attempt \in Attempt
    BY <2>1 DEF Init, Places
  <2> QED
    BY <2>2, <2>3, <2>4, <2>5, <2>6, <2>7 DEF TypeOK
<1>3. Placed /\ Rounded /\ Baselines
  BY CapsAssumption
  DEF Init, Placed, Rounded, Counted, Refinable, Driving, Baselines, Own, NoAttempt
<1>4. GreenBeforeNext /\ UnseenOnlyWhenSpent
  BY DEF Init, GreenBeforeNext, UnseenOnlyWhenSpent, Unjudged
<1> QED
  BY <1>2, <1>3, <1>4 DEF BuildInv

LEMMA EnterBuilds == BuildInv /\ Enter => BuildInv'
<1> SUFFICES ASSUME BuildInv, Enter PROVE BuildInv'
  OBVIOUS
<1> USE DEF BuildInv, Enter, given, visit
<1>1. TypeOK'
  <2>1. pos' \in 1 .. Len(steps) + 1 /\ tries' \in 0 .. StepRepairCap
    BY StepsAreSteps, CapsAssumption
  <2>2. DOMAIN baselines' \subseteq TaskIds
        /\ \A t \in DOMAIN baselines' : baselines'[t] \subseteq Work
    BY DEF TypeOK, Baselined
  <2> QED
    BY <2>1, <2>2 DEF TypeOK, Places
<1>2. Placed'
  BY StepsAreSteps, CapsAssumption DEF Placed
<1>3. Rounded'
  BY DEF Rounded, Counted, Refinable, Driving, Settled
<1>4. Baselines'
  <2>1. Own' = Own
    BY DEF Own
  <2>2. ckpt.at = "enter"
    BY DEF TypeOK, Rounded, Settled
  <2> QED
    BY <2>1, <2>2 DEF Baselines, Baselined, Own
<1>5. GreenBeforeNext' /\ UnseenOnlyWhenSpent'
  BY DEF GreenBeforeNext, UnseenOnlyWhenSpent
<1> QED
  BY <1>1, <1>2, <1>3, <1>4, <1>5

LEMMA AuthorBuilds == BuildInv /\ Author => BuildInv'
<1> SUFFICES ASSUME BuildInv, Author PROVE BuildInv'
  OBVIOUS
<1> USE DEF BuildInv, Author, given
<1>1. TypeOK'
  <2>1. [plan |-> plan, made |-> made, visit |-> visits] \in Work
    BY DEF TypeOK, Work
  <2>2. tree' \subseteq Work
    BY <2>1 DEF TypeOK
  <2>3. tries' \in 0 .. StepRepairCap
    BY CapsAssumption DEF TypeOK, Placed
  <2> QED
    BY <2>2, <2>3 DEF TypeOK, Places
<1>2. Placed'
  BY DEF Placed
<1>3. Rounded'
  BY DEF Rounded, Counted, Refinable, Driving, Settled
<1>4. Baselines'
  <2> DEFINE piece == [plan |-> plan, made |-> made, visit |-> visits]
  <2>1. ckpt.at = "enter"
    BY DEF TypeOK, Rounded, Settled
  <2>2. tree \subseteq tree' /\ tree' \subseteq tree \cup {piece}
    OBVIOUS
  <2>3. piece.plan = plan /\ piece.made = made
    OBVIOUS
  <2>4. plan' <= plan /\ made' <= made
    BY DEF TypeOK
  <2>5. \A w \in tree' : w.plan <= plan' /\ w.made <= made'
    BY <2>2, <2>3, <2>4 DEF Baselines, TypeOK
  <2>6. \A t \in DOMAIN baselines' : baselines'[t] \subseteq tree'
    BY <2>2 DEF Baselines
  <2>7. task \in DOMAIN baselines
    BY DEF Baselines
  <2>8. baselines'[task'] \cap Own' = {}
    BY <2>7 DEF Baselines, Own
  <2> QED
    BY <2>1, <2>5, <2>6, <2>7, <2>8 DEF Baselines
<1>5. GreenBeforeNext' /\ UnseenOnlyWhenSpent'
  BY DEF GreenBeforeNext, UnseenOnlyWhenSpent
<1> QED
  BY <1>1, <1>2, <1>3, <1>4, <1>5

(* The ways the loop over the steps goes on after a gate: to the next step,*)
(* back to the model, or out of the loop.                                  *)
GoesOn ==
  /\ pos \in 1 .. Len(steps)
  /\ \/ /\ suspect' = FALSE /\ tries' = 0 /\ pos' = pos + 1
        /\ at' \in {"author", "gate", "record"}
        /\ at' # "record" => pos < Len(steps)
        /\ steps[pos].kind = "impl" => pos \in greens'
     \/ /\ suspect' = suspect /\ tries' = tries /\ pos' = pos
        /\ at' = "author" /\ tries < StepRepairCap
     \/ suspect' = TRUE /\ tries' = tries /\ pos' = pos /\ at' = "record"
  /\ greens' \in {greens \cup {pos}, greens \ {pos}}

(* The best effort of _drive_impl_step is never made.                      *)
LEMMA GateOutcomes == BuildInv /\ Gate => GoesOn
<1> SUFFICES ASSUME BuildInv, Gate PROVE GoesOn
  OBVIOUS
<1>1. pos \in 1 .. Len(steps) /\ steps[pos] \in Step
  BY StepsAreSteps DEF BuildInv, Gate, Placed
<1>2. ~(attempt.id /\ attempt.rounds >= MaxAttempts)
  BY CapsAssumption DEF BuildInv, Gate, Rounded, Refinable, Driving, TypeOK, Attempt
<1>3. GiveUp => suspect' = TRUE /\ at' = "record" /\ UNCHANGED <<pos, tries>>
  BY <1>2 DEF GiveUp
<1>4. PICK green \in BOOLEAN :
        /\ greens' = IF green THEN greens \cup {pos} ELSE greens \ {pos}
        /\ \/ steps[pos].kind = "test" /\ ~green /\ NextStep
           \/ steps[pos].kind = "impl" /\ green /\ NextStep
           \/ steps[pos].kind = "run" /\ NextStep
           \/ /\ steps[pos].kind = "test" /\ green
              /\ IF tries < StepRepairCap THEN Again ELSE NextStep
           \/ /\ steps[pos].kind = "impl" /\ ~green
              /\ IF tries < StepRepairCap THEN Again ELSE GiveUp
  BY DEF Gate
<1>5. NextStep => /\ suspect' = FALSE /\ tries' = 0 /\ pos' = pos + 1
                  /\ at' \in {"author", "gate", "record"}
                  /\ at' # "record" => pos < Len(steps)
  BY <1>1, StepsAreSteps DEF NextStep, BuildInv
<1>6. Again => suspect' = suspect /\ tries' = tries /\ pos' = pos /\ at' = "author"
  BY DEF Again
<1> QED
  BY <1>1, <1>3, <1>4, <1>5, <1>6 DEF GoesOn

LEMMA GateBuilds == BuildInv /\ Gate => BuildInv'
<1> SUFFICES ASSUME BuildInv, Gate PROVE BuildInv'
  OBVIOUS
<1> USE DEF given, file
<1>0. /\ at = "gate" /\ TypeOK /\ Placed /\ Rounded /\ Baselines
      /\ GreenBeforeNext /\ UnseenOnlyWhenSpent
      /\ UNCHANGED <<given, attempt, ckpt, file, interrupts, visits, verdict>>
  BY DEF BuildInv, Gate
<1>a. GoesOn /\ Len(steps) \in Nat
  BY GateOutcomes, StepsAreSteps DEF BuildInv
<1>1. pos \in 1 .. Len(steps) /\ Len(steps) \in Nat /\ pos' \in {pos, pos + 1}
      /\ at' \in {"author", "gate", "record"}
      /\ (at' \in {"author", "gate"} => pos' \in 1 .. Len(steps))
  BY <1>0, <1>a DEF GoesOn
<1>2. tries' \in 0 .. StepRepairCap /\ (at' = "author" => tries' < StepRepairCap)
  BY <1>0, <1>a, CapsAssumption DEF GoesOn, TypeOK
<1>3. suspect' \in BOOLEAN
  BY <1>0, <1>a DEF GoesOn, TypeOK
<1>4. greens' \subseteq 1 .. Len(steps)
  BY <1>0, <1>a, <1>1 DEF GoesOn, TypeOK
<1>5. TypeOK'
  BY <1>0, <1>1, <1>2, <1>3, <1>4 DEF TypeOK, Places
<1>6. Placed'
  BY <1>0, <1>1, <1>2 DEF Placed
<1>7. Rounded'
  BY <1>0, <1>1 DEF Rounded, Counted, Refinable, Driving, Settled
<1>8. Baselines'
  <2>1. Own' = Own
    BY <1>0 DEF Own
  <2>2. ckpt.at = "enter"
    BY <1>0 DEF TypeOK, Rounded, Settled
  <2> QED
    BY <1>0, <1>1, <2>1, <2>2 DEF Baselines
<1>9. GreenBeforeNext'
  <2> SUFFICES ASSUME at' \in {"author", "gate"}, NEW i \in 1 .. pos' - 1,
                      steps[i].kind = "impl"
               PROVE  i \in greens'
    BY <1>0 DEF GreenBeforeNext
  <2>a. pos \in Nat /\ pos' \in Nat
    BY <1>1
  <2>b. i \in Nat /\ 1 <= i /\ i < pos'
    BY <2>a, Below
  <2>1. CASE i = pos
    BY <1>0, <1>a, <2>a, <2>b, <2>1 DEF GoesOn
  <2>2. CASE i # pos
    <3>1. i \in 1 .. pos - 1
      BY <1>1, <2>a, <2>b, <2>2
    <3> QED
      BY <1>0, <1>1, <1>a, <2>2, <3>1 DEF GoesOn, GreenBeforeNext
  <2> QED
    BY <2>1, <2>2
<1>10. UnseenOnlyWhenSpent'
  BY <1>0 DEF UnseenOnlyWhenSpent
<1> QED
  BY <1>5, <1>6, <1>7, <1>8, <1>9, <1>10 DEF BuildInv

LEMMA RecordBuilds == BuildInv /\ Record => BuildInv'
<1> SUFFICES ASSUME BuildInv, Record PROVE BuildInv'
  OBVIOUS
<1> USE DEF given, visit, file
<1> DEFINE extracted == [rounds |-> Rounds, patch |-> PatchSince(baselines[task]), id |-> TRUE]
<1>0. /\ TypeOK /\ Placed /\ Rounded /\ Baselines
      /\ GreenBeforeNext /\ UnseenOnlyWhenSpent
  BY DEF BuildInv
<1>1. /\ at = "record" /\ UNCHANGED <<given, visit, file, interrupts, verdict>>
      /\ visits' = IF visits > MaxAttempts THEN visits ELSE visits + 1
      /\ attempt' = extracted
      /\ \/ at' = "replan" /\ UNCHANGED ckpt
         \/ at' = "verify" /\ ckpt' = [at |-> "verify", attempt |-> extracted]
  BY DEF Record
<1>2. Rounds \in Nat /\ Rounds <= MaxAttempts /\ Rounds < visits' /\ visits' >= visits
      /\ visits' \in 0 .. MaxAttempts + 1
  BY <1>0, <1>1, CapsAssumption
  DEF Rounds, TypeOK, Attempt, Rounded, Counted, Refinable, Driving
<1>3. PatchSince(baselines[task]) = tree \ baselines[task] /\ task \in DOMAIN baselines
  BY <1>0, <1>1 DEF PatchSince, Baselines
<1>4. extracted \in Attempt
  <2>1. PatchSince(baselines[task]) \in SUBSET Work
    BY <1>0, <1>3 DEF TypeOK
  <2> QED
    BY <1>2, <2>1 DEF Attempt
<1>5. TypeOK'
  <2> HIDE DEF extracted
  <2>1. ckpt'.at \in {"enter", "verify"} /\ ckpt'.attempt \in Attempt
    BY <1>0, <1>1, <1>4 DEF TypeOK
  <2>2. attempt' \in Attempt /\ at' \in Places
    BY <1>1, <1>4 DEF Places
  <2> QED
    BY <1>0, <1>1, <1>2, <2>1, <2>2 DEF TypeOK
<1>6. Placed'
  BY <1>1 DEF Placed
<1>7. Rounded'
  <2>1. Counted(attempt)' /\ attempt'.id
    BY <1>1, <1>2 DEF Counted
  <2>2. Counted(ckpt.attempt)'
    BY <1>0, <1>1, <1>2 DEF Counted, Rounded, TypeOK, Attempt
  <2> QED
    BY <1>0, <1>1, <2>1, <2>2 DEF Rounded, Refinable, Driving, Settled
<1>8. Baselines'
  <2>1. Own' = Own
    BY <1>1 DEF Own
  <2>2. Own \subseteq extracted.patch
    BY <1>0, <1>3 DEF Baselines, Own
  <2>3. ckpt.at = "enter"
    BY <1>0, <1>1 DEF TypeOK, Rounded, Settled
  <2> QED
    BY <1>0, <1>1, <2>1, <2>2, <2>3 DEF Baselines
<1>9. GreenBeforeNext' /\ UnseenOnlyWhenSpent'
  BY <1>0, <1>1, <1>2, CapsAssumption DEF GreenBeforeNext, UnseenOnlyWhenSpent, TypeOK
<1> QED
  BY <1>5, <1>6, <1>7, <1>8, <1>9 DEF BuildInv

LEMMA JudgeBuilds == BuildInv /\ Judge => BuildInv'
<1> SUFFICES ASSUME BuildInv, Judge PROVE BuildInv'
  OBVIOUS
<1> USE DEF given, visit, file
<1>0. /\ TypeOK /\ Placed /\ Rounded /\ Baselines
      /\ GreenBeforeNext /\ UnseenOnlyWhenSpent
  BY DEF BuildInv
<1>1. /\ at = "verify" /\ UNCHANGED <<given, visit, attempt, file, interrupts, visits>>
      /\ \/ \E met \in SUBSET Criteria : Done("observed", met)
         \/ at' = "replan" /\ UNCHANGED <<ckpt, verdict>>
         \/ \E met \in SUBSET Criteria : RoundsSpent /\ Done("spent", met)
         \/ /\ ~RoundsSpent
            /\ at' = "enter"
            /\ ckpt' = [at |-> "enter", attempt |-> attempt]
            /\ UNCHANGED verdict
  BY DEF Judge
<1>2. CASE /\ ~RoundsSpent
           /\ at' = "enter"
           /\ ckpt' = [at |-> "enter", attempt |-> attempt]
           /\ UNCHANGED verdict
  <2>1. attempt.rounds < MaxAttempts
    BY <1>0, <1>2, CapsAssumption DEF RoundsSpent, TypeOK, Attempt
  <2>2. TypeOK'
    BY <1>0, <1>1, <1>2 DEF TypeOK, Places
  <2>3. Rounded'
    BY <1>0, <1>1, <1>2, <2>1 DEF Rounded, Counted, Refinable, Driving, Settled
  <2>4. Own' = Own
    BY <1>1 DEF Own
  <2>5. Baselines'
    BY <1>0, <1>1, <1>2, <2>4 DEF Baselines
  <2> QED
    BY <1>0, <1>1, <1>2, <2>2, <2>3, <2>5
    DEF BuildInv, Placed, GreenBeforeNext, UnseenOnlyWhenSpent
<1>3. CASE /\ at' \in {"done", "replan"} /\ UNCHANGED ckpt
           /\ verdict'.how \in {"open", "observed", "spent"} /\ verdict'.met \subseteq Criteria
           /\ verdict'.how = "spent" => visits > MaxAttempts
  <2>1. TypeOK'
    BY <1>0, <1>1, <1>3 DEF TypeOK, Places
  <2>2. Rounded'
    BY <1>0, <1>1, <1>3 DEF Rounded, Counted, Refinable, Driving, Settled
  <2>3. Own' = Own
    BY <1>1 DEF Own
  <2>4. Baselines'
    BY <1>0, <1>1, <1>3, <2>3 DEF Baselines
  <2> QED
    BY <1>0, <1>1, <1>3, <2>1, <2>2, <2>4
    DEF BuildInv, Placed, GreenBeforeNext, UnseenOnlyWhenSpent
<1>4. RoundsSpent => visits > MaxAttempts
  BY <1>0, <1>1, CapsAssumption DEF RoundsSpent, Rounded, Counted, TypeOK, Attempt
<1> QED
  BY <1>0, <1>1, <1>2, <1>3, <1>4 DEF Done, TypeOK, UnseenOnlyWhenSpent

LEMMA NewPlanBuilds == BuildInv /\ NewPlan => BuildInv'
<1> SUFFICES ASSUME BuildInv, NewPlan PROVE BuildInv'
  OBVIOUS
<1> USE DEF file
<1>0. TypeOK /\ Baselines
  BY DEF BuildInv
<1>1. PICK t \in TaskIds, s \in StepPlans : Selected(t, s)
  BY DEF NewPlan
<1>2. plan < MaxPlans /\ plan' = plan + 1 /\ UNCHANGED <<file, interrupts>>
  BY DEF NewPlan
<1>3. /\ task' = t /\ steps' = s /\ at' = "enter"
      /\ attempt' = NoAttempt /\ ckpt'.at = "enter" /\ ckpt'.attempt = NoAttempt
      /\ pos' = 1 /\ tries' = 0 /\ suspect' = FALSE
      /\ visits' = 0 /\ greens' = {} /\ verdict' = Unjudged
  BY <1>1 DEF Selected
<1>4. TypeOK'
  <2>1. NoAttempt \in Attempt
    BY DEF NoAttempt, Attempt
  <2>2. s \in Seq(Step)
    BY StepsAssumption
  <2>3. pos' \in 1 .. Len(steps') + 1 /\ greens' \subseteq 1 .. Len(steps')
    BY <1>3, <2>2
  <2>4. plan' \in 1 .. MaxPlans
    BY <1>0, <1>2, CapsAssumption DEF TypeOK
  <2>5. verdict'.how \in {"open", "observed", "spent"} /\ verdict'.met \subseteq Criteria
    BY <1>3 DEF Unjudged
  <2>6. tries' \in 0 .. StepRepairCap /\ visits' \in 0 .. MaxAttempts + 1
    BY <1>3, CapsAssumption
  <2>7. /\ task' \in TaskIds /\ steps' \in StepPlans /\ at' \in Places
        /\ suspect' \in BOOLEAN /\ attempt' \in Attempt
        /\ ckpt'.at \in {"enter", "verify"} /\ ckpt'.attempt \in Attempt
    BY <1>3, <2>1 DEF Places
  <2>8. /\ made' \in 1 .. MaxInterrupts + 1 /\ interrupts' \in 0 .. MaxInterrupts
        /\ DOMAIN baselines' \subseteq TaskIds
        /\ \A u \in DOMAIN baselines' : baselines'[u] \subseteq Work
        /\ tree' \subseteq Work
    BY <1>0, <1>2 DEF TypeOK
  <2> QED
    BY <2>3, <2>4, <2>5, <2>6, <2>7, <2>8 DEF TypeOK
<1>5. Placed' /\ Rounded'
  BY <1>3 DEF Placed, Rounded, Counted, Refinable, Driving, NoAttempt
<1>6. Baselines'
  <2>0. plan \in Nat /\ \A w \in tree : w.plan \in Nat /\ w.plan <= plan
    BY <1>0 DEF TypeOK, Work, Baselines
  <2>1. \A w \in tree : w.plan <= plan' /\ w.plan # plan'
    BY <1>2, <2>0
  <2>2. Own' = {}
    BY <1>2, <2>1 DEF Own
  <2> QED
    BY <1>0, <1>2, <1>3, <2>1, <2>2 DEF Baselines
<1>7. GreenBeforeNext' /\ UnseenOnlyWhenSpent'
  BY <1>3 DEF GreenBeforeNext, UnseenOnlyWhenSpent, Unjudged
<1> QED
  BY <1>4, <1>5, <1>6, <1>7 DEF BuildInv

LEMMA InterruptBuilds == BuildInv /\ Interrupt => BuildInv'
<1> SUFFICES ASSUME BuildInv, Interrupt PROVE BuildInv'
  OBVIOUS
<1> USE DEF given
<1>0. TypeOK /\ Rounded /\ Baselines /\ UnseenOnlyWhenSpent
  BY DEF BuildInv
<1>1. /\ at \notin Settled
      /\ interrupts < MaxInterrupts /\ interrupts' = interrupts + 1
      /\ at' = ckpt.at /\ attempt' = ckpt.attempt
      /\ pos' = 1 /\ tries' = 0 /\ suspect' = FALSE /\ greens' = {}
      /\ \/ UNCHANGED <<made, baselines>>
         \/ made' = made + 1 /\ baselines' = << >>
      /\ UNCHANGED <<given, ckpt, tree, visits, verdict>>
  BY DEF Interrupt
<1>2. /\ interrupts' \in 0 .. MaxInterrupts /\ made' \in 1 .. MaxInterrupts + 1
      /\ made' <= interrupts' + 1
  BY <1>0, <1>1, CapsAssumption DEF TypeOK, Baselines
<1>3. TypeOK'
  <2>1. pos' \in 1 .. Len(steps') + 1 /\ tries' \in 0 .. StepRepairCap
    BY <1>0, <1>1, StepsAreSteps, CapsAssumption
  <2>2. DOMAIN baselines' \subseteq TaskIds
        /\ \A t \in DOMAIN baselines' : baselines'[t] \subseteq Work
    BY <1>0, <1>1 DEF TypeOK
  <2> QED
    BY <1>0, <1>1, <1>2, <2>1, <2>2 DEF TypeOK, Places
<1>4. Placed'
  BY <1>0, <1>1 DEF Placed, TypeOK
<1>5. Rounded'
  BY <1>0, <1>1 DEF Rounded, Counted, Refinable, Driving, Settled, TypeOK
<1>6. Baselines'
  <2>0. made \in Nat /\ \A w \in tree : w.made \in Nat /\ w.made <= made
    BY <1>0 DEF TypeOK, Work, Baselines
  <2>1. CASE UNCHANGED <<made, baselines>>
    <3>1. Own' = Own
      BY <1>1, <2>1 DEF Own
    <3> QED
      BY <1>0, <1>1, <1>2, <2>1, <3>1 DEF Baselines, TypeOK
  <2>2. CASE made' = made + 1 /\ baselines' = << >>
    <3>1. \A w \in tree : w.made <= made' /\ w.made # made'
      BY <2>0, <2>2
    <3>2. Own' = {}
      BY <1>1, <3>1 DEF Own
    <3>3. DOMAIN baselines' = {}
      BY <2>2
    <3> QED
      BY <1>0, <1>1, <1>2, <3>1, <3>2, <3>3 DEF Baselines, TypeOK
  <2> QED
    BY <1>1, <2>1, <2>2
<1>7. GreenBeforeNext' /\ UnseenOnlyWhenSpent'
  BY <1>0, <1>1 DEF GreenBeforeNext, UnseenOnlyWhenSpent, TypeOK
<1> QED
  BY <1>3, <1>4, <1>5, <1>6, <1>7 DEF BuildInv

LEMMA NodeFailsBuilds == BuildInv /\ NodeFails => BuildInv'
<1> SUFFICES ASSUME BuildInv, NodeFails PROVE BuildInv'
  OBVIOUS
<1> USE DEF given, visit, file, BuildInv, NodeFails
<1>1. TypeOK'
  BY DEF TypeOK, Places
<1>2. Own' = Own
  BY DEF Own
<1>3. Placed' /\ Rounded' /\ Baselines'
  BY <1>2 DEF Placed, Rounded, Counted, Refinable, Driving, Settled, Baselines
<1> QED
  BY <1>1, <1>3 DEF GreenBeforeNext, UnseenOnlyWhenSpent

LEMMA StutterBuilds == BuildInv /\ UNCHANGED vars => BuildInv'
BY DEF vars, given, visit, file, BuildInv, TypeOK, Placed, Rounded, Counted, Refinable,
       Baselines, Own, GreenBeforeNext, UnseenOnlyWhenSpent

LEMMA BuildInvariant == Spec => []BuildInv
<1>1. BuildInv /\ [Next]_vars => BuildInv'
  BY EnterBuilds, AuthorBuilds, GateBuilds, RecordBuilds, JudgeBuilds, NewPlanBuilds,
     InterruptBuilds, NodeFailsBuilds, StutterBuilds
  DEF Next, Proceed
<1> QED
  BY <1>1, InitBuilds, PTL DEF Spec

-----------------------------------------------------------------------------
(* The implementer's and the cursor's fields have their types.             *)
THEOREM BuildTypeCorrect == Spec => []TypeOK
<1>1. BuildInv => TypeOK
  BY DEF BuildInv
<1> QED
  BY <1>1, BuildInvariant, PTL

(* "Each step must pass its gate before the next" (implementer.py:56-59):  *)
(* whatever the caps and the steps, and wherever Esc comes, no step is     *)
(* worked on while an implementation before it has not passed its gate.    *)
THEOREM GatesAlwaysGreenBeforeNext == Spec => []GreenBeforeNext
<1>1. BuildInv => GreenBeforeNext
  BY DEF BuildInv
<1> QED
  BY <1>1, BuildInvariant, PTL

(* The patch the verifier judges contains everything written for the task  *)
(* since the Implementer was made, visits cut short by Esc included.       *)
THEOREM PatchAlwaysCoversWork == Spec => []PatchCoversWork
<1>1. BuildInv => PatchCoversWork
  BY DEF BuildInv, Baselines, Own, PatchCoversWork
<1> QED
  BY <1>1, BuildInvariant, PTL

(* A task is accepted unseen only when all refinements are spent.          *)
THEOREM UnseenAlwaysSpent == Spec => []UnseenOnlyWhenSpent
<1>1. BuildInv => UnseenOnlyWhenSpent
  BY DEF BuildInv
<1> QED
  BY <1>1, BuildInvariant, PTL
=============================================================================
