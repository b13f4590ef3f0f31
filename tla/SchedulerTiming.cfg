\* The ring at its smallest interesting size (two threads fit, three exist), with
\* uneven and empty ticks, zero and longer waits.
SPECIFICATION TSpec
CONSTANTS
  max_threads = 3
  MaxEvents = 1
  MaxEndon = 1
  Names = {n1}
  Objects = {o1}
  Durations = {0, 3}
  Dts = {0, 2}
  NULL = NULL
INVARIANTS ThreadPartition RoundNeverShort AbortOnlyWhenExhausted
PROPERTIES ImplementsRunQueue EachDueThreadOncePerTick WaitNeverEarly ResumesInSecondTick
