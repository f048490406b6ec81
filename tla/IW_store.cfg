SPECIFICATION FairSpec
CONSTANTS
  Layout = "store"
  Kinds = {"encode", "asIs"}
  Failures = {"crash"}
  Races = {}
  MaxBuilds = 3
  MaxEvents = 3
  MaxFaults = 2
CHECK_DEADLOCK FALSE
INVARIANT DoneIsCurrent
PROPERTIES HandoffUsed Settles
