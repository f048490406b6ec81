SPECIFICATION Spec
CONSTANTS
  Layout = "library"
  Kinds = {"encode", "asIs"}
  Failures = {"crash", "read", "write"}
  Races = {"rebuild"}
  MaxBuilds = 3
  MaxEvents = 3
  MaxFaults = 3
CHECK_DEADLOCK FALSE
INVARIANT GuardedDone
PROPERTIES ServedStays ServedIsWanted WrittenIsSettled
