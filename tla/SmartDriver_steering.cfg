\* Three messages after the request and Esc twice, feedback for a node of either
\* graph, for two nodes, for the loop, or for all.  A turn ends and messages run
\* out: no deadlock check.
SPECIFICATION Spec
CONSTANTS
  Targets = {{"planner"}, {"implementer", "verifier"}, {"implement_loop"}, {"*"}}
  MaxTtl = 2
  MaxNotes = 3
  MaxInterrupts = 2
INVARIANTS
  NotesHeard
  FeedbackNotLost
CHECK_DEADLOCK FALSE
