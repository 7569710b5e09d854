\* Node runs over one cache, with Esc, files that change under them and
\* threads that outlive their node.  The bounds stop the system: no deadlock
\* check.
SPECIFICATION FairSpec
CONSTANTS
  Paths = {p1, p2}
  Ranges = {r1}
  Roles = {"explorer", "verifier", "decider", "implementer"}
  MaxRounds = 2
  Attempts = 2
  Receivers = 1
  CacheCap = 1
  Fine = {TRUE}
  MaxCalls = 2
  MaxWrites = 1
  MaxRuns = 2
INVARIANTS
  RequestWellFormed
  StubIsTrue
PROPERTIES
  NothingAfterEsc
  NodeEnds
CHECK_DEADLOCK FALSE
