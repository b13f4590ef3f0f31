------------------------------ MODULE Scheduler ------------------------------
(***************************************************************************)
(* The cooperative scheduler of the virtual machine (vm.c, library.c): the *)
(* thread pool, the ring of live threads, one tick of vm_run_threads, the  *)
(* event list, and the instructions of a script that change any of them.   *)
(*                                                                         *)
(* The program is single threaded.  What interleaves is the host, which    *)
(* calls gsc_update, gsc_call and gsc_notify in any order, and the script  *)
(* threads, each of which runs from its dispatch until it waits or         *)
(* returns.  A tick is therefore several steps: pc says where in           *)
(* vm_run_threads the machine is.                                          *)
(*                                                                         *)
(* A thread is its index in the pool; an interned event name and an Object *)
(* pointer are opaque values; time is counted in integer units.  Stacks,   *)
(* frames and event arguments belong to the module Machine.                *)
(***************************************************************************)
EXTENDS Integers, Sequences, FiniteSets

CONSTANTS
  max_threads,   \* gsc_CreateOptions.max_threads
  MaxEvents,     \* VM_MAX_EVENTS
  MaxEndon,      \* VM_MAX_ENDON_STRINGS
  Names,         \* interned event names
  Objects,       \* objects that events are sent to
  Durations,     \* what scripts pass to wait
  Dts,           \* what the host passes to gsc_update
  NULL           \* no thread

ASSUME MaxThreadsAssumption == max_threads \in Nat \ {0}
ASSUME BoundsAssumption == MaxEvents \in Nat /\ MaxEndon \in Nat
ASSUME TimeAssumption == Durations \subseteq Int /\ Dts \subseteq Nat
ASSUME NullAssumption == NULL \notin 1 .. max_threads

Threads == 1 .. max_threads

Slots == 0 .. max_threads - 1

States == {"INACTIVE", "ACTIVE", "WAITING_TIME", "WAITING_FRAME", "WAITING_EVENT"}

\* What a thread waits for or an event carries.
Keys == [name : Names, object : Objects]

VMEvent == [name : Names, object : Objects, active : BOOLEAN]

Errors == {"none", "ring", "pool", "events", "endon"}

VARIABLES
  thread_buffer, thread_read_idx, thread_write_idx,   \* the ring
  pool,                                               \* free list, head first
  state, wait, waittill, endon,                       \* fields of Thread
  events,                                             \* vm->events[0..event_count-1]
  pc, error,                                          \* place in the C code; vm_error's reason
  N, i, dt,                                           \* locals of vm_run_threads
  cur,                                                \* t of vm_run_threads / vm->thread
  j, write                                            \* locals of the compaction loop

ring == <<thread_buffer, thread_read_idx, thread_write_idx>>
threadvars == <<state, wait, waittill, endon>>
tick == <<N, i, dt>>
compact == <<j, write>>
vars == <<ring, pool, threadvars, events, pc, error, tick, cur, compact>>

NoKey == [name |-> NULL, object |-> NULL]

-----------------------------------------------------------------------------
(* The ring. *)

\* Mutant: the wrapped case counts the gap instead of the threads.
BugThreadCount ==
  IF thread_write_idx >= thread_read_idx
  THEN thread_write_idx - thread_read_idx
  ELSE thread_read_idx - thread_write_idx

thread_count ==
  IF thread_write_idx >= thread_read_idx
  THEN thread_write_idx - thread_read_idx
  ELSE max_threads - (thread_read_idx - thread_write_idx)

Succ(idx) == (idx + 1) % max_threads

\* Mutant: the ring is declared full one thread early.
BugRingFull == Succ(Succ(thread_write_idx)) = thread_read_idx

RingFull == Succ(thread_write_idx) = thread_read_idx

\* Mutant: the index is advanced before the store.
BugAddThread(t) ==
  /\ ~RingFull
  /\ thread_buffer' = [thread_buffer EXCEPT ![Succ(thread_write_idx)] = t]
  /\ thread_write_idx' = Succ(thread_write_idx)
  /\ UNCHANGED thread_read_idx

\* add_thread when it does not raise.
add_thread(t) ==
  /\ ~RingFull
  /\ thread_buffer' = [thread_buffer EXCEPT ![thread_write_idx] = t]
  /\ thread_write_idx' = Succ(thread_write_idx)
  /\ UNCHANGED thread_read_idx

\* remove_thread.  The slot keeps a dead pointer in C, which nothing reads
\* again; the model clears it.
remove_thread ==
  /\ thread_read_idx # thread_write_idx
  /\ cur' = thread_buffer[thread_read_idx]
  /\ thread_buffer' = [thread_buffer EXCEPT ![thread_read_idx] = NULL]
  /\ thread_read_idx' = Succ(thread_read_idx)
  /\ UNCHANGED thread_write_idx

(* vm_error prints, frees the context and aborts: nothing runs afterwards. *)
vm_error(reason) ==
  /\ pc' = "abort"
  /\ error' = reason
  /\ UNCHANGED <<ring, pool, threadvars, events, tick, cur, compact>>

-----------------------------------------------------------------------------
(* The pool.  allocate takes the head of the free list and memset clears the *)
(* struct; deallocate pushes it back.  The fields of a free struct are dead, *)
(* so the model keeps them cleared.                                          *)

\* Mutant: memset is left out, the struct keeps the names of its last thread.
BugCleared(t, st) ==
  /\ state' = [state EXCEPT ![t] = st]
  /\ wait' = [wait EXCEPT ![t] = 0]
  /\ waittill' = [waittill EXCEPT ![t] = NoKey]
  /\ UNCHANGED endon

Cleared(t, st) ==
  /\ state' = [state EXCEPT ![t] = st]
  /\ wait' = [wait EXCEPT ![t] = 0]
  /\ waittill' = [waittill EXCEPT ![t] = NoKey]
  /\ endon' = [endon EXCEPT ![t] = <<>>]

object_pool_allocate(t) ==
  /\ pool # <<>>
  /\ t = Head(pool)
  /\ pool' = Tail(pool)
  /\ Cleared(t, "ACTIVE")

object_pool_deallocate(t) ==
  /\ pool' = <<t>> \o pool
  /\ Cleared(t, "INACTIVE")

-----------------------------------------------------------------------------
(* Events. *)

event_count == Len(events)

Event(key) == [name |-> key.name, object |-> key.object, active |-> TRUE]

vm_notify_args(key) ==
  /\ event_count < MaxEvents
  /\ events' = Append(events, Event(key))

\* Mutant: the scan stops before the last event.
BugDoomed(t) ==
  \E e \in 1 .. event_count - 1, k \in 1 .. Len(endon[t]) :
    events[e].active /\ events[e].name = endon[t][k]

\* The endon scan: any active event with a registered name, whatever its object.
Doomed(t) ==
  \E e \in 1 .. event_count, k \in 1 .. Len(endon[t]) :
    events[e].active /\ events[e].name = endon[t][k]

\* Mutant: the object is not compared.
BugMatches(e, t) == events[e].active /\ events[e].name = waittill[t].name

Matches(e, t) ==
  /\ events[e].active
  /\ events[e].name = waittill[t].name
  /\ events[e].object = waittill[t].object

\* Mutant: the newest match is taken.
BugFirstMatch(e, t) ==
  Matches(e, t) /\ \A f \in e + 1 .. event_count : ~Matches(f, t)

\* The waittill scan stops at the first match.
FirstMatch(e, t) ==
  Matches(e, t) /\ \A f \in 1 .. e - 1 : ~Matches(f, t)

-----------------------------------------------------------------------------
Init ==
  /\ thread_buffer = [s \in Slots |-> NULL]
  /\ thread_read_idx = 0
  /\ thread_write_idx = 0
  /\ pool = [k \in 1 .. max_threads |-> k]
  /\ state = [t \in Threads |-> "INACTIVE"]
  /\ wait = [t \in Threads |-> 0]
  /\ waittill = [t \in Threads |-> NoKey]
  /\ endon = [t \in Threads |-> <<>>]
  /\ events = <<>>
  /\ pc = "host"
  /\ error = "none"
  /\ N = 0 /\ i = 0 /\ dt = 0
  /\ cur = NULL
  /\ j = 1 /\ write = 0

-----------------------------------------------------------------------------
(* The host, between ticks. *)

\* gsc_call of a script function: a new thread is appended to the ring.
gsc_call ==
  /\ pc = "host"
  /\ \/ \E t \in Threads :
          /\ object_pool_allocate(t)
          /\ add_thread(t)
          /\ UNCHANGED <<events, pc, error, tick, cur, compact>>
     \/ pool = <<>> /\ vm_error("pool")
     \/ pool # <<>> /\ RingFull /\ vm_error("ring")

gsc_notify(key) ==
  /\ pc = "host"
  /\ \/ vm_notify_args(key)
        /\ UNCHANGED <<ring, pool, threadvars, pc, error, tick, cur, compact>>
     \/ event_count >= MaxEvents /\ vm_error("events")

\* Mutant: the round is one thread short.
BugUpdate(d) ==
  /\ pc = "host"
  /\ pc' = "loop"
  /\ N' = thread_count - 1
  /\ i' = 0
  /\ dt' = d
  /\ UNCHANGED <<ring, pool, threadvars, events, error, cur, compact>>

gsc_update(d) ==
  /\ pc = "host"
  /\ pc' = "loop"
  /\ N' = thread_count
  /\ i' = 0
  /\ dt' = d
  /\ UNCHANGED <<ring, pool, threadvars, events, error, cur, compact>>

-----------------------------------------------------------------------------
(* vm_run_threads: remove a thread, scan endon, switch on its state, re-add. *)

\* Mutant: the loop runs until the ring is empty.
BugRemove ==
  /\ pc = "loop"
  /\ remove_thread
  /\ pc' = "dispatch"
  /\ UNCHANGED <<pool, threadvars, events, error, tick, compact>>

Remove ==
  /\ pc = "loop" /\ i < N
  /\ remove_thread
  /\ pc' = "dispatch"
  /\ UNCHANGED <<pool, threadvars, events, error, tick, compact>>

\* Mutant: t is not reset after the struct is freed.
BugDispatchInactive ==
  /\ pc = "dispatch"
  /\ state[cur] = "INACTIVE" \/ Doomed(cur)
  /\ object_pool_deallocate(cur)
  /\ pc' = "requeue"
  /\ UNCHANGED <<ring, events, error, tick, cur, compact>>

\* case VM_THREAD_INACTIVE, reached by a thread that returned or that the
\* endon scan has just stopped: the struct is freed, the frames are not.
DispatchInactive ==
  /\ pc = "dispatch"
  /\ state[cur] = "INACTIVE" \/ Doomed(cur)
  /\ object_pool_deallocate(cur)
  /\ cur' = NULL
  /\ i' = i + 1
  /\ pc' = "loop"
  /\ UNCHANGED <<ring, events, error, N, dt, compact>>

\* Mutant: the test is strict.
BugDispatchTimeStrict ==
  /\ pc = "dispatch"
  /\ state[cur] = "WAITING_TIME" /\ ~Doomed(cur)
  /\ state' = [state EXCEPT ![cur] = IF wait[cur] < 0 THEN "ACTIVE" ELSE @]
  /\ wait' = [wait EXCEPT ![cur] = @ - dt]
  /\ pc' = "requeue"
  /\ UNCHANGED <<ring, pool, waittill, endon, events, error, tick, cur, compact>>

\* case VM_THREAD_WAITING_TIME: the test precedes the subtraction.
DispatchTime ==
  /\ pc = "dispatch"
  /\ state[cur] = "WAITING_TIME" /\ ~Doomed(cur)
  /\ state' = [state EXCEPT ![cur] = IF wait[cur] <= 0 THEN "ACTIVE" ELSE @]
  /\ wait' = [wait EXCEPT ![cur] = @ - dt]
  /\ pc' = "requeue"
  /\ UNCHANGED <<ring, pool, waittill, endon, events, error, tick, cur, compact>>

DispatchFrame ==
  /\ pc = "dispatch"
  /\ state[cur] = "WAITING_FRAME" /\ ~Doomed(cur)
  /\ state' = [state EXCEPT ![cur] = "ACTIVE"]
  /\ pc' = "requeue"
  /\ UNCHANGED <<ring, pool, wait, waittill, endon, events, error, tick, cur, compact>>

\* case VM_THREAD_WAITING_EVENT with a match: the event is consumed.
DispatchEvent ==
  /\ pc = "dispatch"
  /\ state[cur] = "WAITING_EVENT" /\ ~Doomed(cur)
  /\ \E e \in 1 .. event_count :
       /\ FirstMatch(e, cur)
       /\ events' = [events EXCEPT ![e].active = FALSE]
  /\ state' = [state EXCEPT ![cur] = "ACTIVE"]
  /\ pc' = "requeue"
  /\ UNCHANGED <<ring, pool, wait, waittill, endon, error, tick, cur, compact>>

DispatchNoEvent ==
  /\ pc = "dispatch"
  /\ state[cur] = "WAITING_EVENT" /\ ~Doomed(cur)
  /\ \A e \in 1 .. event_count : ~Matches(e, cur)
  /\ pc' = "requeue"
  /\ UNCHANGED <<ring, pool, threadvars, events, error, tick, cur, compact>>

DispatchActive ==
  /\ pc = "dispatch"
  /\ state[cur] = "ACTIVE" /\ ~Doomed(cur)
  /\ pc' = "run"
  /\ UNCHANGED <<ring, pool, threadvars, events, error, tick, cur, compact>>

\* add_thread(vm, t) at the end of the loop body.
Requeue ==
  /\ pc = "requeue"
  /\ \/ /\ add_thread(cur)
        /\ cur' = NULL
        /\ i' = i + 1
        /\ pc' = "loop"
        /\ UNCHANGED <<pool, threadvars, events, error, N, dt, compact>>
     \/ RingFull /\ vm_error("ring")

-----------------------------------------------------------------------------
(* The instructions of the running thread that touch the scheduler. *)

OP_NOTIFY(key) ==
  /\ pc = "run"
  /\ \/ vm_notify_args(key)
        /\ UNCHANGED <<ring, pool, threadvars, pc, error, tick, cur, compact>>
     \/ event_count >= MaxEvents /\ vm_error("events")

\* The object operand is popped and dropped.
OP_ENDON(key) ==
  /\ pc = "run"
  /\ \/ /\ Len(endon[cur]) < MaxEndon
        /\ endon' = [endon EXCEPT ![cur] = Append(@, key.name)]
        /\ UNCHANGED <<ring, pool, state, wait, waittill, events, pc, error, tick, cur, compact>>
     \/ Len(endon[cur]) >= MaxEndon /\ vm_error("endon")

\* Mutant: the duration is not stored.
BugOP_WAIT(d) ==
  /\ pc = "run"
  /\ state' = [state EXCEPT ![cur] = "WAITING_TIME"]
  /\ pc' = "requeue"
  /\ UNCHANGED <<ring, pool, wait, waittill, endon, events, error, tick, cur, compact>>

\* wait d: the loop of run_thread ends because the state is no longer ACTIVE.
OP_WAIT(d) ==
  /\ pc = "run"
  /\ wait' = [wait EXCEPT ![cur] = d]
  /\ state' = [state EXCEPT ![cur] = "WAITING_TIME"]
  /\ pc' = "requeue"
  /\ UNCHANGED <<ring, pool, waittill, endon, events, error, tick, cur, compact>>

\* OP_WAIT with an undefined operand: waittillframeend.
OP_WAIT_FRAME ==
  /\ pc = "run"
  /\ state' = [state EXCEPT ![cur] = "WAITING_FRAME"]
  /\ pc' = "requeue"
  /\ UNCHANGED <<ring, pool, wait, waittill, endon, events, error, tick, cur, compact>>

OP_WAITTILL(key) ==
  /\ pc = "run"
  /\ waittill' = [waittill EXCEPT ![cur] = key]
  /\ state' = [state EXCEPT ![cur] = "WAITING_EVENT"]
  /\ pc' = "requeue"
  /\ UNCHANGED <<ring, pool, wait, endon, events, error, tick, cur, compact>>

\* OP_CALL with VM_CALL_FLAG_THREADED: the child is appended now, the caller
\* only when it yields.
OP_CALL_THREADED ==
  /\ pc = "run"
  /\ \/ \E t \in Threads :
          /\ object_pool_allocate(t)
          /\ add_thread(t)
          /\ UNCHANGED <<events, pc, error, tick, cur, compact>>
     \/ pool = <<>> /\ vm_error("pool")
     \/ pool # <<>> /\ RingFull /\ vm_error("ring")

\* OP_RET of the outermost frame: the thread goes round the ring once more
\* before DispatchInactive frees it.
OP_RET ==
  /\ pc = "run"
  /\ state' = [state EXCEPT ![cur] = "INACTIVE"]
  /\ pc' = "requeue"
  /\ UNCHANGED <<ring, pool, wait, waittill, endon, events, error, tick, cur, compact>>

-----------------------------------------------------------------------------
(* The end of vm_run_threads: consumed events are squeezed out in place. *)

EndOfRound ==
  /\ pc = "loop" /\ i >= N
  /\ j' = 1 /\ write' = 0
  /\ pc' = "compact"
  /\ UNCHANGED <<ring, pool, threadvars, events, error, tick, cur>>

CompactEvent ==
  /\ pc = "compact" /\ j <= event_count
  /\ \/ /\ events[j].active
        /\ events' = [events EXCEPT ![write + 1] = events[j]]
        /\ write' = write + 1
     \/ /\ ~events[j].active
        /\ UNCHANGED <<events, write>>
  /\ j' = j + 1
  /\ UNCHANGED <<ring, pool, threadvars, pc, error, tick, cur>>

\* Mutant: the last survivor is cut off.
BugEndOfTick ==
  /\ pc = "compact" /\ j > event_count
  /\ events' = SubSeq(events, 1, write - 1)
  /\ j' = 1 /\ write' = 0
  /\ N' = 0 /\ i' = 0 /\ dt' = 0
  /\ pc' = "host"
  /\ UNCHANGED <<ring, pool, threadvars, error, cur>>

EndOfTick ==
  /\ pc = "compact" /\ j > event_count
  /\ events' = SubSeq(events, 1, write)
  /\ j' = 1 /\ write' = 0
  /\ N' = 0 /\ i' = 0 /\ dt' = 0
  /\ pc' = "host"
  /\ UNCHANGED <<ring, pool, threadvars, error, cur>>

Aborted == pc = "abort" /\ UNCHANGED vars

-----------------------------------------------------------------------------
Host ==
  \/ gsc_call
  \/ \E key \in Keys : gsc_notify(key)
  \/ \E d \in Dts : gsc_update(d)

Dispatch ==
  \/ Remove \/ DispatchInactive \/ DispatchTime \/ DispatchFrame
  \/ DispatchEvent \/ DispatchNoEvent \/ DispatchActive \/ Requeue

Yield ==
  \/ \E d \in Durations : OP_WAIT(d)
  \/ OP_WAIT_FRAME
  \/ \E key \in Keys : OP_WAITTILL(key)
  \/ OP_RET

Script ==
  \/ \E key \in Keys : OP_NOTIFY(key)
  \/ \E key \in Keys : OP_ENDON(key)
  \/ OP_CALL_THREADED
  \/ Yield

Finish == EndOfRound \/ CompactEvent \/ EndOfTick

Next == Host \/ Dispatch \/ Script \/ Finish \/ Aborted

Spec == Init /\ [][Next]_vars

(* The host keeps calling gsc_update (the loop of examples/gsc.c), the C code *)
(* of a tick runs to its end, and a script thread eventually waits or         *)
(* returns: run_thread has no time slice, so a script that does neither hangs *)
(* the host.                                                                  *)
Fairness ==
  /\ WF_vars(Dispatch)
  /\ WF_vars(Finish)
  /\ WF_vars(Yield)
  /\ WF_vars(\E d \in Dts : d > 0 /\ gsc_update(d))

FairSpec == Spec /\ Fairness

-----------------------------------------------------------------------------
(* The threads in the ring, oldest first. *)

InWindow(s) ==
  IF thread_read_idx <= thread_write_idx
  THEN thread_read_idx <= s /\ s < thread_write_idx
  ELSE thread_read_idx <= s \/ s < thread_write_idx

Ringed == {thread_buffer[s] : s \in {x \in Slots : InWindow(x)}}

Free == {pool[k] : k \in 1 .. Len(pool)}

-----------------------------------------------------------------------------
(* Properties. *)

TypeOK ==
  /\ thread_buffer \in [Slots -> Threads \cup {NULL}]
  /\ thread_read_idx \in Slots
  /\ thread_write_idx \in Slots
  /\ pool \in Seq(Threads)
  /\ state \in [Threads -> States]
  /\ wait \in [Threads -> Int]
  /\ waittill \in [Threads -> Keys \cup {NoKey}]
  /\ endon \in [Threads -> Seq(Names)]
  /\ events \in Seq(VMEvent)
  /\ pc \in {"host", "loop", "dispatch", "run", "requeue", "compact", "abort"}
  /\ error \in Errors
  /\ N \in Nat /\ i \in Nat /\ dt \in Nat
  /\ cur \in Threads \cup {NULL}
  /\ j \in Nat \ {0} /\ write \in Nat

\* Every thread struct is in exactly one place: the free list, one slot of the
\* ring's window, or the hands of vm_run_threads.  No thread is lost, dispatched
\* from two slots, or freed while it is still queued (add_thread, remove_thread,
\* object_pool_allocate, object_pool_deallocate).
ThreadPartition ==
  /\ \A s1, s2 \in Slots :
       InWindow(s1) /\ InWindow(s2) /\ thread_buffer[s1] = thread_buffer[s2] => s1 = s2
  /\ \A k1, k2 \in 1 .. Len(pool) : pool[k1] = pool[k2] => k1 = k2
  /\ \A s \in Slots : InWindow(s) => thread_buffer[s] \in Threads
  /\ cur \notin Ringed \cup Free
  /\ Ringed \cap Free = {}
  /\ Threads \subseteq Ringed \cup Free \cup {cur}

\* The round of a tick never runs dry: the threads that vm_run_threads has yet
\* to visit are still in the ring, so the `if(!t) break` of the loop is dead
\* code and no thread of the round is skipped.
RoundNeverShort ==
  /\ pc = "loop" => thread_count >= N - i
  /\ pc \in {"dispatch", "run", "requeue"} => thread_count >= N - i - 1

\* vm_error is raised for the ring only when every other thread struct of the
\* pool is live: max_threads - 1 threads always fit.
AbortOnlyWhenExhausted ==
  /\ error = "ring" => thread_count = max_threads - 1
  /\ error = "pool" => thread_count = max_threads - 1 /\ cur # NULL
  /\ error = "events" => event_count = MaxEvents

\* No thread starves: whatever the others do, a queued thread is dispatched
\* again, because a tick visits the thread_count threads it found.
EveryThreadDispatched ==
  \A t \in Threads : t \in Ringed ~> (cur = t \/ pc = "abort")

\* An event that a thread is blocked on does not stay pending beside it: it is
\* delivered, to this thread or to another, or the thread is stopped.
PendingEventServed ==
  \A t \in Threads :
    (state[t] = "WAITING_EVENT" /\ \E e \in 1 .. event_count : Matches(e, t))
      ~> (\/ pc = "abort"
          \/ ~(state[t] = "WAITING_EVENT" /\ \E e \in 1 .. event_count : Matches(e, t)))
=============================================================================
