SPECIFICATION Spec
CONSTANTS
  Codecs = {"text", "ass", "pgs", "vobsub", "dvb"}
  Scripts = {"srt", "ass"}
  Ranges = {"pq", "sdr"}
  MaxRungs = 2
  MaxTracks = 3
  MaxFaults = 2
CHECK_DEADLOCK FALSE
INVARIANTS PlacedIsWhole OptionalCostsItself
