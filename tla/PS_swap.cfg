SPECIFICATION Spec
CONSTANTS
  Order <- Entries
  Optional = {"subs", "trickplay"}
  Failures = {"call", "undo", "crash"}
  MaxRuns = 3
  MaxFaults = 2
CHECK_DEADLOCK FALSE
INVARIANTS WholeAtRest OneGap
PROPERTY GraceHonoured
