\* A node's foreground command, and Esc while it runs.
SPECIFICATION NodeSpec
CONSTANT Shells = {s1}
PROPERTY CancelledGroupDies
CHECK_DEADLOCK FALSE
