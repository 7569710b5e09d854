\* Two plans that may use the same task id, Esc with or without a new
\* model, both caps small enough to be reached.
SPECIFICATION FairSpec
CONSTANTS
  TaskIds = {t1, t2}
  StepPlans <- ManyStepPlans
  Criteria = {c1, c2}
  StepRepairCap = 2
  MaxAttempts = 2
  MaxPlans = 2
  MaxInterrupts = 1
INVARIANTS
  GreenBeforeNext
  PatchCoversWork
  UnseenOnlyWhenSpent
PROPERTIES
  TaskSettles
CHECK_DEADLOCK FALSE
