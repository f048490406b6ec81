SPECIFICATION Spec
CONSTANTS
  w1 = w1
  w2 = w2
  s1 = s1
  s2 = s2
  i1 = i1
  v1 = v1
  v2 = v2
  v3 = v3
  Workers = {w1}
  Sweepers = {s1}
  Items = {i1}
  Versions = {v1, v2, v3}
  ItemOf <- OneItem
  Mode <- ModeOf
  Races = {}
  MaxFaults = 2
CHECK_DEADLOCK FALSE
INVARIANTS OriginalKept StagedIsNoted RecordIsWhole
PROPERTIES ImplementsRecord OtherFilesStay
