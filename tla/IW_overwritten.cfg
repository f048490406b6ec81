SPECIFICATION Spec
CONSTANTS
  Layout = "store"
  Kinds = {"encode", "asIs"}
  Failures = {"write"}
  Races = {}
  MaxBuilds = 2
  MaxEvents = 3
  MaxFaults = 1
CHECK_DEADLOCK FALSE
PROPERTY ServedStays
