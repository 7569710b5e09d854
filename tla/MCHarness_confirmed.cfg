\* Confirmation: a plan the user never saw is carried out (no Esc needed).
SPECIFICATION Spec
CONSTANTS
  NTasks = 2
  PolicyChoices = {"SUPERVISED"}
  AdvisoryChoices = {FALSE}
  PlanShapes <- OneTaskShapes
  UnderstandingBudget = 1
  PlanBudget = 0
  ReviewCap = 0
  ConfirmCap = 1
  MaxFixups = 1
  MaxScopedFixups = 1
  MaxRounds = 1
  MaxAttempts = 1
  StepBudget = 30
  MaxInterrupts = 0
INVARIANTS
  BuiltPlanWasConfirmed
