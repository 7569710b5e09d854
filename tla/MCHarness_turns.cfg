\* Turns without Esc under both policies: every loop with a cap of 1, or 2,
\* all plan shapes, advisory gates or not.
SPECIFICATION FairSpec
CONSTANTS
  NTasks = 2
  PolicyChoices = {"SUPERVISED", "FULL_AUTO"}
  AdvisoryChoices = {TRUE, FALSE}
  PlanShapes <- TwoTaskShapes
  UnderstandingBudget = 1
  PlanBudget = 1
  ReviewCap = 1
  ConfirmCap = 1
  MaxFixups = 1
  MaxScopedFixups = 1
  MaxRounds = 1
  MaxAttempts = 1
  StepBudget = 20
  MaxInterrupts = 0
INVARIANTS
  TypeOK
  SuccessMeansAllDone
  BouncesCapped
  RejectedPlanNotBuilt
  CursorTaskInPlan
PROPERTIES
  DoneOnlyAfterDeps
