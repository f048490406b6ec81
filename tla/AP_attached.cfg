SPECIFICATION Spec
CONSTANTS
  SubFiles = {"text", "styled"}
  Attachable = {"attached"}
  Failures = {"call"}
  Races = {"attach"}
  MaxBuilds = 1
  MaxFaults = 1
CHECK_DEADLOCK FALSE
PROPERTY AttachedStay
