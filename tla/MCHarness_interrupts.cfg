\* The TUI and the headless entry point with Esc anywhere, once, and the
\* message that resumes the turn.  A small step budget keeps the graph small
\* enough for the liveness check; every run() spins until it is spent.
SPECIFICATION FairSpec
CONSTANTS
  NTasks = 2
  PolicyChoices = {"SUPERVISED", "FULL_AUTO"}
  AdvisoryChoices = {FALSE}
  PlanShapes <- FewShapes
  UnderstandingBudget = 1
  PlanBudget = 0
  ReviewCap = 0
  ConfirmCap = 1
  MaxFixups = 1
  MaxScopedFixups = 1
  MaxRounds = 1
  MaxAttempts = 1
  StepBudget = 10
  MaxInterrupts = 1
INVARIANTS
  AnswersActedOn
  CheckpointFollowsRun
PROPERTIES
  DoneStaysDone
  RunReturns
  TurnEnds
