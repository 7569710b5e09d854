\* One call with its retries, three ways to name tool calls.  The clock stops:
\* no deadlock check.
SPECIFICATION StreamSpec
CONSTANTS
  MaxRetries = 2
  CallTimeout = 3
  IdleTimeout = 2
  MaxCalls = 2
  MaxPieces = 4
  MaxClock = 6
INVARIANTS
  HeardFromOneAttempt
  CallsArriveWhole
  NothingAfterBudget
CHECK_DEADLOCK FALSE
