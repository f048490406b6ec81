SPECIFICATION FairSpec
CONSTANTS
  Pods = {"a", "b"}
  Layouts = {"store", "library"}
  Kinds = {"encode", "asIs"}
  Failures = {"crash", "read", "write", "commit"}
  Stops = 1
  MaxBuilds = 2
  MaxEvents = 2
  MaxFaults = 2
CHECK_DEADLOCK FALSE
INVARIANT ReadyIsTaken
PROPERTIES ReadyStays CommittedIsSaid ReadyWorks
