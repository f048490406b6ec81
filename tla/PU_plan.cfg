SPECIFICATION Spec
CONSTANTS
  Languages = {"en", "de"}
  Shown = {"en"}
  MaxTracks = 3
  MaxSegments = 3
  MaxSize = 128
  CHROMA_UNITS = 2
  LUMA_UNITS = 3
  MaxChroma = 5
  MaxLuma = 9
  MaxLight = 3
  InitSizes = {0, 8}
  FileNames = {"seg", "vtt"}
  MaxEdits = 2
  UUIDS = {"i", "s", "v", "e"}
  NameTags <- Tagged
  SourceSize = 3
  Levels = {700, 450, 390, 310, 300, 250, 240}
  MaxCalls = 2
  Ttls = {20, 60}
CHECK_DEADLOCK FALSE
INVARIANTS AudioIsOffered MasterHolds GateIsExact PicturePlays ChainTells NamesTellTracks JobLands LevelsHold StreamsLineUp RunIsTold RecordTellsOriginal CallsAreOnce
