SPECIFICATION FairSpec
CONSTANTS
  SubFiles = {"text", "styled"}
  Attachable = {"attached"}
  Failures = {"call", "undo", "crash"}
  Races = {"attach"}
  MaxBuilds = 2
  MaxFaults = 2
CHECK_DEADLOCK FALSE
INVARIANTS CompleteIsWhole OnePackage
PROPERTIES TakenStays RestKept Completes
