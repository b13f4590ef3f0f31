SPECIFICATION FairSpec
CONSTANTS
  IntBits = 6
  MAX_INSTRUCTIONS = 200
  COMPILER_MAX_SCOPES = 5
  MAX_PENDING_JUMPS = 16
  MAX_CASES = 4
  Globals = {"g", "last"}
  Programs <- AllPrograms
  Cases <- CompiledPrograms
  StackSize = 12
  FrameSize = 4
  Cells = {1,2,3,4,5,6,7,8,9,10,11,12,13,14,15,16}
  MaxThreads = 4
  MaxEvents = 1
  MaxEventArgs = 1
  MaxEndon = 1
  Entries = {}
  Fuel = 40
INVARIANTS TypeOK MatchesSource NoInternalError CodeVerified FinishedThreadsLeaveNothing CellsOwned
PROPERTY Finishes
CHECK_DEADLOCK FALSE
