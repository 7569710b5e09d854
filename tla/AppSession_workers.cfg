\* Messages and Esc against workers that run and unwind.  An idle prompt may
\* stay idle, and the model bounds the messages: no deadlock check.
SPECIFICATION FairSpec
CONSTANTS
  MaxTurns = 2
  MaxRuns = 4
  MaxWork = 2
  SmartChoices = {TRUE, FALSE}
  CalmChoices = {TRUE, FALSE}
INVARIANTS
  QuestionAnswerable
  BusyHasWorker
  OneDriver
  MessagesKept
  PausedTurnKept
PROPERTIES
  ClosedStaysClosed
  PromptReopens
  ImplementsTurn
CHECK_DEADLOCK FALSE
