\* Two processes over one directory, with failed writes and crashes.  They
\* end: no deadlock check.
SPECIFICATION Spec
CONSTANTS
  Procs = {p1, p2}
  Tasks = {t1, t2}
  PlanTasks = {u1}
  MaxSteps = 1
  MaxFailures = 1
SYMMETRY Symmetry
INVARIANTS
  NeverTorn
  ActiveTaskOnDisk
CHECK_DEADLOCK FALSE
