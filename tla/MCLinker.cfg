SPECIFICATION FairSpec
CONSTANTS
  Paths = {"a", "b", "c", "a.gsc"}
  Names = {"f", "g", "h"}
  Globals = {"x", "y", "z"}
  HostGlobals = {"x"}
  Disks <- CheckedDisks
  Trimmed <- Extension
  MaxLinks = 2
  MaxFaults = 1
  NONE = NONE
INVARIANTS NothingFromFailed NearestCalleeFound LinkedWithin DependenciesKnown InitialisedAsWritten
PROPERTIES LookupsStable CompileLoopEnds
CHECK_DEADLOCK FALSE
