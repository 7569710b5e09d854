\* One turn after another with questions, Esc, steering, tools and nested
\* nodes; frames may come between any two steps.  An idle prompt may stay
\* idle and the bounds stop a turn: no deadlock check.
SPECIFICATION Spec
CONSTANTS
  Nodes = {n1}
  Graphs = {g}
  Streams = {"thinking"}
  CallIds = {c1}
  MaxTurns = 2
  MaxSegments = 5
  MaxLag = 2
INVARIANTS
  SettledLogShowsTurn
  OpenQuestionIsLive
CHECK_DEADLOCK FALSE
