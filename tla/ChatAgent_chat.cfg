\* Turns of the chat agent over bash calls, each cancelled once at most.  The
\* bounds stop the system: no deadlock check.
SPECIFICATION Spec
CONSTANTS
  Shells = {s1}
  Cancels = {"esc", "event"}
  MaxIterations = 2
  MaxCalls = 2
  MaxTurns = 2
INVARIANTS
  ExitIsTruthful
  RequestWellFormed
PROPERTIES
  OrphanKillsGroup
  TurnEnds
CHECK_DEADLOCK FALSE
