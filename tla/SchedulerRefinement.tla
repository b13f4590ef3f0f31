------------------------- MODULE SchedulerRefinement -------------------------
(***************************************************************************)
(* The scheduler implements a FIFO run queue and an event board.           *)
(***************************************************************************)
EXTENDS Scheduler

\* The window of the ring, oldest thread first.
Queue ==
  [k \in 1 .. thread_count |-> thread_buffer[(thread_read_idx + k - 1) % max_threads]]

RQ == INSTANCE RunQueue WITH
  Capacity <- max_threads - 1, queue <- Queue, current <- cur

\* The active events.  While the compaction runs, positions up to write hold
\* the survivors and positions from j on have not been looked at; outside it
\* j = 1 and write = 0, so that the whole array counts.
Counted == {k \in 1 .. event_count : events[k].active /\ (k <= write \/ k >= j)}

Sent == [k \in 1 .. event_count |-> [name |-> events[k].name, object |-> events[k].object]]

PendingUpto[k \in 0 .. event_count] ==
  IF k = 0 THEN <<>>
  ELSE IF k \in Counted THEN Append(PendingUpto[k - 1], Sent[k]) ELSE PendingUpto[k - 1]

Pending == PendingUpto[event_count]

Awaiting ==
  [t \in Threads |-> IF state[t] = "WAITING_EVENT" THEN waittill[t] ELSE NoKey]

EB == INSTANCE EventBoard WITH
  Capacity <- MaxEvents, None <- NoKey, pending <- Pending, awaiting <- Awaiting

\* add_thread, remove_thread and the free list behave as a bounded FIFO queue:
\* wrapping indices, spawns in the middle of a round and returns included.
ImplementsRunQueue == RQ!Spec

\* vm_notify_args, the waittill scan and the in-place compaction at the end of
\* a tick behave as a list of notifications, each taken once and oldest first:
\* compaction neither drops, duplicates nor reorders a pending event.
ImplementsEventBoard == EB!Spec
=============================================================================
