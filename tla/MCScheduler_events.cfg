\* Two names and three pending events, so that an older event can be consumed
\* between two others; no timed waits and no endon.
SPECIFICATION Spec
CONSTANTS
  max_threads = 3
  MaxEvents = 3
  MaxEndon = 0
  Names = {n1, n2}
  Objects = {o1}
  Durations = {}
  Dts = {1}
  NULL = NULL
PROPERTIES ImplementsEventBoard
