SPECIFICATION DisciplinedSpec
CONSTANTS
  max_threads = 3
  MaxEvents = 2
  MaxEndon = 1
  Names = {n1, n2}
  Objects = {o1, o2}
  Durations = {}
  Dts = {1}
  EndonNames = {n1}
  NULL = NULL
PROPERTIES EndonStopsThread EndonHeedsRegistration NoLostWakeup NoStaleWakeup
SYMMETRY ObjectSymmetry
