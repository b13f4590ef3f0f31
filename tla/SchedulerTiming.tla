--------------------------- MODULE SchedulerTiming ---------------------------
(***************************************************************************)
(* History variables beside the scheduler's own actions: which threads a   *)
(* tick still owes a visit, how much time the host has reported since a    *)
(* thread began its wait, and how many ticks have begun since that time    *)
(* reached what the thread asked for.                                      *)
(***************************************************************************)
EXTENDS SchedulerRefinement

VARIABLES
  due,      \* threads in the ring when the tick began and not yet visited
  asked,    \* duration of the wait a thread is in
  slept,    \* sum of the dt of the ticks that began since
  resting,  \* threads between their OP_WAIT and the next run of their script
  overdue   \* ticks that began since the time of a resting thread was up

hvars == <<vars, due, asked, slept, resting, overdue>>

TInit ==
  /\ Init
  /\ due = {}
  /\ asked = [t \in Threads |-> 0]
  /\ slept = [t \in Threads |-> 0]
  /\ resting = {}
  /\ overdue = [t \in Threads |-> 0]

Waiting(t) == state[t] = "WAITING_TIME"

TickBegins == pc = "host" /\ pc' = "loop"

\* The script of t runs, or runs on, from this step.
Runs(t) == pc' = "run" /\ cur' = t

NextDue ==
  due' = IF TickBegins THEN Ringed
         ELSE IF pc = "loop" THEN due \ {cur'}
         ELSE due

NextAsked ==
  IF \E d \in Durations : OP_WAIT(d)
  THEN \E d \in Durations : OP_WAIT(d) /\ asked' = [asked EXCEPT ![cur] = d]
  ELSE asked' = [t \in Threads |-> IF Waiting(t)' THEN asked[t] ELSE 0]

NextSlept ==
  slept' = [t \in Threads |->
             IF ~(Waiting(t) /\ Waiting(t)') THEN 0
             ELSE IF TickBegins THEN slept[t] + dt' ELSE slept[t]]

NextResting ==
  resting' = {t \in Threads :
               \/ Waiting(t)'
               \/ t \in resting /\ state'[t] = "ACTIVE" /\ ~Runs(t)}

\* A thread that vm_run_threads has woken stays resting until its script runs.
TimeUp(t) == Waiting(t) => slept[t] >= asked[t]

NextOverdue ==
  overdue' = [t \in Threads |->
               IF t \notin resting' THEN 0
               ELSE IF TickBegins /\ TimeUp(t) THEN overdue[t] + 1 ELSE overdue[t]]

TNext == Next /\ NextDue /\ NextAsked /\ NextSlept /\ NextResting /\ NextOverdue

TSpec == TInit /\ [][TNext]_hvars

\* A tick visits every thread that was in the ring when it began, exactly once,
\* and none that was spawned during it (N is read once, at the top of
\* vm_run_threads; OP_CALL appends the child behind the round).
EachDueThreadOncePerTick ==
  /\ [][cur' # cur /\ cur' # NULL => cur' \in due]_hvars
  /\ [](pc = "compact" => due = {})

\* A timed wait never ends before its time: when vm_run_threads makes the
\* thread ACTIVE again, the host has reported at least the duration asked for,
\* although the counter is decremented once per visit and not by a clock.
WaitNeverEarly ==
  [][\A t \in Threads :
       Waiting(t) /\ state'[t] = "ACTIVE" => slept[t] >= asked[t]]_hvars

\* A script that waited runs on in the second tick that begins after the time
\* ticked has reached its duration: not in the first, whose visit finds the
\* counter at or below 0 and only makes the thread ACTIVE (the switch breaks
\* and the thread goes back into the ring), and never later, however short,
\* long or empty the ticks are.
ResumesInSecondTick ==
  /\ [](\A t \in Threads : overdue[t] <= 2)
  /\ [][\A t \in resting : pc = "dispatch" /\ Runs(t) => overdue[t] = 2]_hvars
=============================================================================
