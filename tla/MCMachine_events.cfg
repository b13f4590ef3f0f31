SPECIFICATION CheckedSpec
CONSTANTS
  IntBits = 6
  MAX_INSTRUCTIONS = 200
  COMPILER_MAX_SCOPES = 8
  MAX_PENDING_JUMPS = 16
  MAX_CASES = 4
  Globals = {"g", "last"}
  Programs <- EventPrograms
  Cases <- CompiledPrograms
  StackSize = 8
  FrameSize = 3
  Cells = {1,2,3,4,5,6,7,8,9}
  MaxThreads = 3
  MaxEvents = 2
  MaxEventArgs = 2
  MaxEndon = 1
  Entries = {"h"}
  Fuel = 40
INVARIANTS DeliveryTargetsAlive NoCellShared CodeVerified
CHECK_DEADLOCK FALSE
