SPECIFICATION CheckedSpec
CONSTANTS
  IntBits = 6
  MAX_INSTRUCTIONS = 200
  COMPILER_MAX_SCOPES = 8
  MAX_PENDING_JUMPS = 16
  MAX_CASES = 4
  Globals = {"g", "last"}
  Programs <- ClobberPrograms
  Cases <- CompiledPrograms
  StackSize = 8
  FrameSize = 3
  Cells = {1,2,3,4,5,6,7,8,9,10,11,12}
  MaxThreads = 4
  MaxEvents = 1
  MaxEventArgs = 1
  MaxEndon = 1
  Entries = {}
  Fuel = 40
PROPERTY ReturnSlotIsPlaceholder
CHECK_DEADLOCK FALSE
