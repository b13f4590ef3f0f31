SPECIFICATION FairSpec
CONSTANTS
  max_threads = 3
  MaxEvents = 1
  MaxEndon = 1
  Names = {n1}
  Objects = {o1}
  Durations = {1}
  Dts = {1}
  NULL = NULL
PROPERTIES EveryThreadDispatched PendingEventServed
