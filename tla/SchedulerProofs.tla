--------------------------- MODULE SchedulerProofs ---------------------------
(***************************************************************************)
(* The scheduler's invariants, for every number of threads and events.     *)
(***************************************************************************)
EXTENDS Scheduler, SequenceTheorems, TLAPS

\* The ring part of the type invariant, all that the ring lemmas need.
RingOK ==
  /\ thread_buffer \in [Slots -> Threads \cup {NULL}]
  /\ thread_read_idx \in Slots
  /\ thread_write_idx \in Slots

\* Where vm_run_threads holds a thread and where it does not.
CurInv ==
  /\ pc \in {"dispatch", "run", "requeue"} => cur \in Threads
  /\ pc \in {"host", "loop", "compact"} => cur = NULL

\* The compaction writes behind the place it reads.
CompactInv ==
  /\ write < j
  /\ j <= event_count + 1
  /\ pc \notin {"compact", "abort"} => j = 1

\* Invariants of the ring and the pool, as functions of the window.
WindowInjective ==
  \A s1, s2 \in Slots :
    InWindow(s1) /\ InWindow(s2) /\ thread_buffer[s1] = thread_buffer[s2] => s1 = s2

PoolInjective == \A k1, k2 \in 1 .. Len(pool) : pool[k1] = pool[k2] => k1 = k2

WindowTyped == \A s \in Slots : InWindow(s) => thread_buffer[s] \in Threads

IInv ==
  /\ TypeOK
  /\ ThreadPartition
  /\ RoundNeverShort
  /\ CurInv
  /\ CompactInv

-----------------------------------------------------------------------------
(* The ring. *)

\* The modulo of add_thread and remove_thread is a wrap to 0.
LEMMA SuccValue ==
  ASSUME NEW idx \in Slots
  PROVE  /\ Succ(idx) = IF idx + 1 = max_threads THEN 0 ELSE idx + 1
         /\ Succ(idx) \in Slots
BY MaxThreadsAssumption DEF Succ, Slots

\* add_thread appends: one more thread, in a slot that was outside the window.
LEMMA AddThread ==
  ASSUME RingOK, NEW t \in Threads, add_thread(t)
  PROVE  /\ RingOK'
         /\ thread_count' = thread_count + 1
         /\ ~InWindow(thread_write_idx)
         /\ \A s \in Slots : InWindow(s)' <=> InWindow(s) \/ s = thread_write_idx
         /\ thread_buffer'[thread_write_idx] = t
         /\ \A s \in Slots : InWindow(s) => thread_buffer'[s] = thread_buffer[s]
<1>1. /\ Succ(thread_write_idx) \in Slots
      /\ Succ(thread_write_idx) =
           IF thread_write_idx + 1 = max_threads THEN 0 ELSE thread_write_idx + 1
  BY SuccValue DEF RingOK
<1>2. RingOK'
  BY <1>1 DEF RingOK, add_thread
<1>3. ~InWindow(thread_write_idx)
  BY MaxThreadsAssumption DEF RingOK, InWindow, Slots
<1>4. thread_count' = thread_count + 1
  BY <1>1, MaxThreadsAssumption DEF RingOK, add_thread, RingFull, thread_count, Slots
<1>5. \A s \in Slots : InWindow(s)' <=> InWindow(s) \/ s = thread_write_idx
  BY <1>1, MaxThreadsAssumption DEF RingOK, add_thread, RingFull, InWindow, Slots
<1>6. /\ thread_buffer'[thread_write_idx] = t
      /\ \A s \in Slots : InWindow(s) => thread_buffer'[s] = thread_buffer[s]
  BY <1>3 DEF RingOK, add_thread
<1> QED BY <1>2, <1>3, <1>4, <1>5, <1>6

\* remove_thread takes the oldest: one thread fewer, its slot leaves the window.
LEMMA RemoveThread ==
  ASSUME RingOK, remove_thread
  PROVE  /\ RingOK'
         /\ thread_count' = thread_count - 1
         /\ InWindow(thread_read_idx)
         /\ \A s \in Slots : InWindow(s)' <=> InWindow(s) /\ s # thread_read_idx
         /\ cur' = thread_buffer[thread_read_idx]
         /\ \A s \in Slots : s # thread_read_idx => thread_buffer'[s] = thread_buffer[s]
<1>1. /\ Succ(thread_read_idx) \in Slots
      /\ Succ(thread_read_idx) =
           IF thread_read_idx + 1 = max_threads THEN 0 ELSE thread_read_idx + 1
  BY SuccValue DEF RingOK
<1>2. RingOK'
  BY <1>1 DEF RingOK, remove_thread
<1>3. InWindow(thread_read_idx)
  BY DEF RingOK, remove_thread, InWindow, Slots
<1>4. thread_count' = thread_count - 1
  BY <1>1, MaxThreadsAssumption DEF RingOK, remove_thread, thread_count, Slots
<1>5. \A s \in Slots : InWindow(s)' <=> InWindow(s) /\ s # thread_read_idx
  BY <1>1, MaxThreadsAssumption DEF RingOK, remove_thread, InWindow, Slots
<1>6. /\ cur' = thread_buffer[thread_read_idx]
      /\ \A s \in Slots : s # thread_read_idx => thread_buffer'[s] = thread_buffer[s]
  BY DEF RingOK, remove_thread
<1> QED BY <1>2, <1>3, <1>4, <1>5, <1>6

\* A nonempty round finds a nonempty ring.
LEMMA CountPositive ==
  ASSUME RingOK
  PROVE  /\ thread_count \in 0 .. max_threads - 1
         /\ thread_count > 0 <=> thread_read_idx # thread_write_idx
BY MaxThreadsAssumption DEF RingOK, thread_count, Slots

-----------------------------------------------------------------------------
(* The free list. *)

\* Allocation takes a thread out of the free list.
LEMMA PoolAllocate ==
  ASSUME pool \in Seq(Threads), PoolInjective, NEW t, object_pool_allocate(t)
  PROVE  /\ t \in Free
         /\ pool' \in Seq(Threads)
         /\ PoolInjective'
         /\ Free' = Free \ {t}
<1>1. /\ pool' \in Seq(Threads)
      /\ Len(pool') = Len(pool) - 1
      /\ Len(pool) \in Nat \ {0}
      /\ \A k \in 1 .. Len(pool') : pool'[k] = pool[k + 1]
      /\ t = pool[1]
  BY DEF object_pool_allocate
<1>2. PoolInjective'
  BY <1>1 DEF PoolInjective
<1>3. t \in Free
  BY <1>1 DEF Free
<1>4. Free' \subseteq Free \ {t}
  <2> SUFFICES ASSUME NEW k \in 1 .. Len(pool')
               PROVE  pool'[k] \in Free /\ pool'[k] # t
    BY DEF Free
  <2> QED BY <1>1 DEF Free, PoolInjective
<1>5. Free \ {t} \subseteq Free'
  <2> SUFFICES ASSUME NEW k \in 1 .. Len(pool), pool[k] # t
               PROVE  pool[k] \in Free'
    BY DEF Free
  <2>1. k - 1 \in 1 .. Len(pool') /\ pool[k] = pool'[k - 1]
    BY <1>1
  <2> QED BY <2>1 DEF Free
<1> QED BY <1>1, <1>2, <1>3, <1>4, <1>5

\* Deallocation puts a thread that was not in the free list back.
LEMMA PoolDeallocate ==
  ASSUME pool \in Seq(Threads), PoolInjective, NEW t \in Threads, t \notin Free,
         object_pool_deallocate(t)
  PROVE  /\ pool' \in Seq(Threads)
         /\ PoolInjective'
         /\ Free' = Free \cup {t}
<1>1. /\ pool' \in Seq(Threads)
      /\ Len(pool') = Len(pool) + 1
      /\ Len(pool) \in Nat
      /\ pool'[1] = t
      /\ \A k \in 1 .. Len(pool) : pool'[k + 1] = pool[k]
  BY DEF object_pool_deallocate
<1>2. \A k \in 2 .. Len(pool') : k - 1 \in 1 .. Len(pool) /\ pool'[k] = pool[k - 1]
  BY <1>1
<1>3. PoolInjective'
  <2> SUFFICES ASSUME NEW k1 \in 1 .. Len(pool'), NEW k2 \in 1 .. Len(pool'),
                      pool'[k1] = pool'[k2]
               PROVE  k1 = k2
    BY DEF PoolInjective
  <2>1. CASE k1 = 1 /\ k2 = 1
    BY <2>1
  <2>2. CASE k1 = 1 /\ k2 # 1
    BY <1>1, <1>2, <2>2 DEF Free
  <2>3. CASE k1 # 1 /\ k2 = 1
    BY <1>1, <1>2, <2>3 DEF Free
  <2>4. CASE k1 # 1 /\ k2 # 1
    <3>1. /\ k1 - 1 \in 1 .. Len(pool) /\ k2 - 1 \in 1 .. Len(pool)
          /\ pool[k1 - 1] = pool[k2 - 1]
      BY <1>1, <1>2, <2>4
    <3>2. k1 - 1 = k2 - 1
      BY <3>1 DEF PoolInjective
    <3> QED BY <1>1, <3>2
  <2> QED BY <2>1, <2>2, <2>3, <2>4
<1>4. Free' \subseteq Free \cup {t}
  <2> SUFFICES ASSUME NEW k \in 1 .. Len(pool'), k # 1
               PROVE  pool'[k] \in Free
    BY <1>1 DEF Free
  <2> QED BY <1>1, <1>2 DEF Free
<1>5. Free \cup {t} \subseteq Free'
  <2>1. t \in Free'
    BY <1>1 DEF Free
  <2>2. ASSUME NEW k \in 1 .. Len(pool)
        PROVE  pool[k] \in Free'
    BY <1>1 DEF Free
  <2> QED BY <2>1, <2>2 DEF Free
<1> QED BY <1>1, <1>3, <1>4, <1>5

-----------------------------------------------------------------------------
(* The threads in the ring. *)

LEMMA RingedAdd ==
  ASSUME RingOK, WindowInjective, WindowTyped,
         NEW t \in Threads, t \notin Ringed, add_thread(t)
  PROVE  /\ Ringed' = Ringed \cup {t}
         /\ WindowInjective'
         /\ WindowTyped'
<1>1. /\ \A s \in Slots : InWindow(s)' <=> InWindow(s) \/ s = thread_write_idx
      /\ thread_buffer'[thread_write_idx] = t
      /\ \A s \in Slots : InWindow(s) => thread_buffer'[s] = thread_buffer[s]
      /\ thread_write_idx \in Slots
  BY AddThread DEF RingOK
<1>2. \A s \in Slots : InWindow(s) => thread_buffer[s] \in Ringed
  BY DEF Ringed
<1>3. WindowInjective'
  BY <1>1, <1>2 DEF WindowInjective
<1>4. WindowTyped'
  BY <1>1 DEF WindowTyped
<1>5. Ringed' \subseteq Ringed \cup {t}
  BY <1>1, <1>2 DEF Ringed
<1>6. Ringed \cup {t} \subseteq Ringed'
  BY <1>1 DEF Ringed
<1> QED BY <1>3, <1>4, <1>5, <1>6

LEMMA RingedRemove ==
  ASSUME RingOK, WindowInjective, WindowTyped, remove_thread
  PROVE  /\ Ringed' = Ringed \ {cur'}
         /\ cur' \in Ringed
         /\ cur' \in Threads
         /\ WindowInjective'
         /\ WindowTyped'
<1>1. /\ InWindow(thread_read_idx)
      /\ \A s \in Slots : InWindow(s)' <=> InWindow(s) /\ s # thread_read_idx
      /\ cur' = thread_buffer[thread_read_idx]
      /\ \A s \in Slots : s # thread_read_idx => thread_buffer'[s] = thread_buffer[s]
      /\ thread_read_idx \in Slots
  BY RemoveThread DEF RingOK
<1>2. cur' \in Ringed /\ cur' \in Threads
  BY <1>1 DEF Ringed, WindowTyped
<1>3. WindowInjective'
  BY <1>1 DEF WindowInjective
<1>4. WindowTyped'
  BY <1>1 DEF WindowTyped
<1>5. Ringed' \subseteq Ringed \ {cur'}
  BY <1>1 DEF Ringed, WindowInjective
<1>6. Ringed \ {cur'} \subseteq Ringed'
  BY <1>1 DEF Ringed
<1> QED BY <1>2, <1>3, <1>4, <1>5, <1>6

\* The named parts of ThreadPartition.
LEMMA PartitionParts ==
  ThreadPartition <=>
    /\ WindowInjective /\ PoolInjective /\ WindowTyped
    /\ cur \notin Ringed \cup Free
    /\ Ringed \cap Free = {}
    /\ Threads \subseteq Ringed \cup Free \cup {cur}
BY DEF ThreadPartition, WindowInjective, PoolInjective, WindowTyped

LEMMA PartitionPartsNext ==
  ThreadPartition' <=>
    /\ WindowInjective' /\ PoolInjective' /\ WindowTyped'
    /\ cur' \notin Ringed' \cup Free'
    /\ Ringed' \cap Free' = {}
    /\ Threads \subseteq Ringed' \cup Free' \cup {cur'}
BY DEF ThreadPartition, WindowInjective, PoolInjective, WindowTyped, Threads

-----------------------------------------------------------------------------
(* Each kind of step keeps the partition. *)

\* Spawning: free list to ring.
LEMMA PartitionSpawn ==
  ASSUME RingOK, pool \in Seq(Threads), ThreadPartition,
         NEW t \in Threads, object_pool_allocate(t), add_thread(t), cur' = cur
  PROVE  ThreadPartition'
<1>1. t \in Free /\ Free' = Free \ {t} /\ PoolInjective'
  BY PoolAllocate, PartitionParts
<1>2. t \notin Ringed
  BY <1>1, PartitionParts
<1>3. Ringed' = Ringed \cup {t} /\ WindowInjective' /\ WindowTyped'
  BY <1>2, RingedAdd, PartitionParts
<1> QED BY <1>1, <1>2, <1>3, PartitionParts, PartitionPartsNext

\* Dispatch: ring to hand.
LEMMA PartitionTake ==
  ASSUME RingOK, ThreadPartition, cur = NULL, remove_thread, UNCHANGED pool
  PROVE  ThreadPartition' /\ cur' \in Threads
<1>1. /\ Ringed' = Ringed \ {cur'} /\ cur' \in Ringed /\ cur' \in Threads
      /\ WindowInjective' /\ WindowTyped'
  BY RingedRemove, PartitionParts
<1>2. Free' = Free /\ PoolInjective'
  BY PartitionParts DEF Free, PoolInjective
<1>3. cur \notin Threads
  BY NullAssumption DEF Threads
<1> QED BY <1>1, <1>2, <1>3, PartitionParts, PartitionPartsNext

\* Freeing: hand to free list.
LEMMA PartitionFree ==
  ASSUME pool \in Seq(Threads), ThreadPartition, cur \in Threads,
         object_pool_deallocate(cur), cur' = NULL, UNCHANGED ring
  PROVE  ThreadPartition'
<1>1. cur \notin Free /\ cur \notin Ringed
  BY PartitionParts
<1>2. Free' = Free \cup {cur} /\ PoolInjective'
  BY <1>1, PoolDeallocate, PartitionParts
<1>3. Ringed' = Ringed /\ WindowInjective' /\ WindowTyped'
  BY PartitionParts DEF Ringed, WindowInjective, WindowTyped, InWindow, ring
<1>4. Ringed \subseteq Threads /\ Free \subseteq Threads
  BY PartitionParts DEF Ringed, WindowTyped, Free
<1>5. NULL \notin Threads
  BY NullAssumption DEF Threads
<1> QED BY <1>1, <1>2, <1>3, <1>4, <1>5, PartitionParts, PartitionPartsNext

\* Requeueing: hand to ring.
LEMMA PartitionRequeue ==
  ASSUME RingOK, pool \in Seq(Threads), ThreadPartition, cur \in Threads,
         add_thread(cur), cur' = NULL, UNCHANGED pool
  PROVE  ThreadPartition'
<1>1. cur \notin Free /\ cur \notin Ringed
  BY PartitionParts
<1>2. Ringed' = Ringed \cup {cur} /\ WindowInjective' /\ WindowTyped'
  BY <1>1, RingedAdd, PartitionParts
<1>3. Free' = Free /\ PoolInjective'
  BY PartitionParts DEF Free, PoolInjective
<1>4. Ringed \subseteq Threads /\ Free \subseteq Threads
  BY PartitionParts DEF Ringed, WindowTyped, Free
<1>5. NULL \notin Threads
  BY NullAssumption DEF Threads
<1> QED BY <1>1, <1>2, <1>3, <1>4, <1>5, PartitionParts, PartitionPartsNext

\* Every other step.
LEMMA PartitionQuiet ==
  ASSUME ThreadPartition, UNCHANGED <<ring, pool, cur>>
  PROVE  ThreadPartition'
BY DEF ThreadPartition, Ringed, Free, InWindow, ring

-----------------------------------------------------------------------------
(* The invariant. *)

LEMMA InitInv == Init => IInv
<1> SUFFICES ASSUME Init PROVE IInv
  OBVIOUS
<1>0. NULL \notin Threads
  BY NullAssumption DEF Threads
<1>1. 0 \in Slots
  BY MaxThreadsAssumption DEF Slots
<1>2. pool \in Seq(Threads) /\ Len(pool) = max_threads /\ \A k \in 1 .. max_threads : pool[k] = k
  BY MaxThreadsAssumption DEF Init, Threads
<1>3. TypeOK
  <2>1. /\ thread_buffer \in [Slots -> Threads \cup {NULL}]
        /\ thread_read_idx \in Slots /\ thread_write_idx \in Slots
        /\ pool \in Seq(Threads)
    BY <1>1, <1>2 DEF Init
  <2>2. /\ state \in [Threads -> States]
        /\ wait \in [Threads -> Int]
        /\ waittill \in [Threads -> Keys \cup {NoKey}]
        /\ endon \in [Threads -> Seq(Names)]
        /\ events \in Seq(VMEvent)
    BY DEF Init, States
  <2>3. /\ pc \in {"host", "loop", "dispatch", "run", "requeue", "compact", "abort"}
        /\ error \in Errors
        /\ N \in Nat /\ i \in Nat /\ dt \in Nat
        /\ cur \in Threads \cup {NULL}
        /\ j \in Nat \ {0} /\ write \in Nat
    BY DEF Init, Errors
  <2> QED BY <2>1, <2>2, <2>3 DEF TypeOK
<1>4. ThreadPartition
  <2>1. \A s \in Slots : ~InWindow(s)
    BY MaxThreadsAssumption DEF Init, InWindow, Slots
  <2>2. Ringed = {}
    BY <2>1 DEF Ringed
  <2>3. Free = Threads
    BY <1>2 DEF Free, Threads
  <2> QED BY <1>0, <1>2, <2>1, <2>2, <2>3 DEF ThreadPartition, Init
<1>5. RoundNeverShort /\ CurInv /\ CompactInv
  BY DEF Init, RoundNeverShort, CurInv, CompactInv, event_count
<1> QED BY <1>3, <1>4, <1>5 DEF IInv

LEMMA ErrorStep ==
  ASSUME IInv, NEW r \in Errors, vm_error(r)
  PROVE  IInv'
<1>1. TypeOK'
  BY DEF IInv, TypeOK, vm_error, ring, threadvars, tick, compact
<1>2. ThreadPartition'
  BY PartitionQuiet DEF IInv, vm_error
<1>3. RoundNeverShort' /\ CurInv'
  BY DEF vm_error, RoundNeverShort, CurInv
<1>4. CompactInv'
  BY DEF IInv, TypeOK, CompactInv, vm_error, compact, event_count, CurInv
<1> QED BY <1>1, <1>2, <1>3, <1>4 DEF IInv

-----------------------------------------------------------------------------
(* Every action keeps the invariant.  The actions that raise an error are      *)
(* covered by ErrorStep; the others are the steps below.                       *)

vmvars == <<ring, pool, cur>>

\* A step that leaves ring, pool and hand alone and keeps pc among the places
\* where the hand is what it was.
LEMMA QuietStep ==
  ASSUME IInv, UNCHANGED vmvars, TypeOK',
         \/ pc = "host" /\ pc' = "host" /\ UNCHANGED <<N, i>>
         \/ pc \in {"dispatch", "run"} /\ pc' \in {"run", "requeue"} /\ UNCHANGED <<N, i>>,
         UNCHANGED compact, event_count' >= event_count
  PROVE  IInv'
<1>1. ThreadPartition'
  BY PartitionQuiet DEF IInv, vmvars
<1>2. thread_count' = thread_count
  BY DEF vmvars, ring, thread_count
<1>3. RoundNeverShort'
  BY <1>2 DEF IInv, RoundNeverShort
<1>4. CurInv'
  BY DEF IInv, CurInv, vmvars
<1>5. CompactInv'
  BY DEF IInv, TypeOK, CompactInv, compact, event_count
<1> QED BY <1>1, <1>3, <1>4, <1>5 DEF IInv

\* OP_CALL_THREADED and gsc_call put one more thread behind the round.
LEMMA SpawnStep ==
  ASSUME IInv, pc \in {"host", "run"},
         NEW t \in Threads, object_pool_allocate(t), add_thread(t),
         UNCHANGED <<events, pc, error, tick, cur, compact>>
  PROVE  IInv'
<1>1. RingOK /\ pool \in Seq(Threads)
  BY DEF IInv, TypeOK, RingOK
<1>2. RingOK' /\ thread_count' = thread_count + 1
  BY <1>1, AddThread
<1>3. pool' \in Seq(Threads)
  BY <1>1, PoolAllocate, PartitionParts DEF IInv
<1>4. ThreadPartition'
  BY <1>1, PartitionSpawn DEF IInv
<1>5. TypeOK'
  <2>1. /\ state' \in [Threads -> States]
        /\ wait' \in [Threads -> Int]
        /\ waittill' \in [Threads -> Keys \cup {NoKey}]
        /\ endon' \in [Threads -> Seq(Names)]
    BY DEF IInv, TypeOK, object_pool_allocate, Cleared, States
  <2> QED BY <1>2, <1>3, <2>1 DEF IInv, TypeOK, RingOK, tick, compact
<1>6. RoundNeverShort'
  BY <1>1, <1>2, CountPositive DEF IInv, TypeOK, RoundNeverShort, tick
<1>7. CurInv' /\ CompactInv'
  BY DEF IInv, CurInv, CompactInv, compact, event_count
<1> QED BY <1>4, <1>5, <1>6, <1>7 DEF IInv

LEMMA NotifyStep ==
  ASSUME IInv, pc \in {"host", "run"}, NEW key \in Keys, vm_notify_args(key),
         UNCHANGED <<ring, pool, threadvars, pc, error, tick, cur, compact>>
  PROVE  IInv'
<1>1. Event(key) \in VMEvent
  BY DEF Event, Keys, VMEvent
<1>2. /\ events' \in Seq(VMEvent)
      /\ event_count' >= event_count
  BY <1>1 DEF IInv, TypeOK, vm_notify_args, event_count
<1>3. TypeOK'
  BY <1>2 DEF IInv, TypeOK, ring, threadvars, tick, compact
<1> QED BY <1>2, <1>3, QuietStep DEF vmvars, tick

LEMMA UpdateStep ==
  ASSUME IInv, NEW d \in Dts, gsc_update(d)
  PROVE  IInv'
<1>1. thread_count \in Nat
  BY CountPositive, MaxThreadsAssumption DEF IInv, TypeOK, RingOK
<1>2. TypeOK'
  BY <1>1, TimeAssumption DEF IInv, TypeOK, gsc_update, ring, threadvars, compact
<1>3. ThreadPartition'
  BY PartitionQuiet DEF IInv, gsc_update
<1>4. RoundNeverShort'
  BY <1>1 DEF gsc_update, RoundNeverShort, thread_count, ring
<1>5. CurInv' /\ CompactInv'
  BY DEF IInv, gsc_update, CurInv, CompactInv, compact, event_count
<1> QED BY <1>2, <1>3, <1>4, <1>5 DEF IInv

LEMMA RemoveStep ==
  ASSUME IInv, Remove
  PROVE  IInv'
<1>1. RingOK /\ cur = NULL
  BY DEF IInv, TypeOK, RingOK, CurInv, Remove
<1>2. RingOK' /\ thread_count' = thread_count - 1
  BY <1>1, RemoveThread DEF Remove
<1>3. ThreadPartition' /\ cur' \in Threads
  BY <1>1, PartitionTake DEF IInv, Remove
<1>4. TypeOK'
  BY <1>2, <1>3 DEF IInv, TypeOK, RingOK, Remove, threadvars, tick, compact
<1>5. RoundNeverShort'
  BY <1>1, <1>2, CountPositive DEF IInv, TypeOK, Remove, RoundNeverShort, tick
<1>6. CurInv' /\ CompactInv'
  BY <1>3 DEF IInv, Remove, CurInv, CompactInv, compact, event_count
<1> QED BY <1>3, <1>4, <1>5, <1>6 DEF IInv

LEMMA DispatchInactiveStep ==
  ASSUME IInv, DispatchInactive
  PROVE  IInv'
<1>1. cur \in Threads /\ cur \notin Free /\ pool \in Seq(Threads) /\ PoolInjective
  BY PartitionParts DEF IInv, TypeOK, CurInv, DispatchInactive
<1>2. ThreadPartition'
  BY <1>1, PartitionFree DEF IInv, DispatchInactive
<1>3. pool' \in Seq(Threads)
  BY <1>1, PoolDeallocate DEF DispatchInactive
<1>4. TypeOK'
  <2>1. /\ state' \in [Threads -> States]
        /\ wait' \in [Threads -> Int]
        /\ waittill' \in [Threads -> Keys \cup {NoKey}]
        /\ endon' \in [Threads -> Seq(Names)]
    <3>1. Cleared(cur, "INACTIVE")
      BY DEF DispatchInactive, object_pool_deallocate
    <3>2. /\ state \in [Threads -> States] /\ wait \in [Threads -> Int]
          /\ waittill \in [Threads -> Keys \cup {NoKey}]
          /\ endon \in [Threads -> Seq(Names)]
      BY DEF IInv, TypeOK
    <3>3. state' \in [Threads -> States] /\ wait' \in [Threads -> Int]
      BY <1>1, <3>1, <3>2 DEF Cleared, States
    <3>4. waittill' \in [Threads -> Keys \cup {NoKey}]
      BY <1>1, <3>1, <3>2 DEF Cleared
    <3>5. endon' \in [Threads -> Seq(Names)]
      BY <1>1, <3>1, <3>2 DEF Cleared
    <3> QED BY <3>3, <3>4, <3>5
  <2> QED BY <1>3, <2>1 DEF IInv, TypeOK, DispatchInactive, ring, compact
<1>5. thread_count' = thread_count
  BY DEF DispatchInactive, ring, thread_count
<1>6. RoundNeverShort'
  BY <1>5, CountPositive DEF IInv, TypeOK, RingOK, DispatchInactive, RoundNeverShort
<1>7. CurInv' /\ CompactInv'
  BY DEF IInv, DispatchInactive, CurInv, CompactInv, compact, event_count
<1> QED BY <1>2, <1>4, <1>6, <1>7 DEF IInv

\* The cases of the switch that keep the thread.
LEMMA DispatchOtherStep ==
  ASSUME IInv,
         DispatchTime \/ DispatchFrame \/ DispatchEvent \/ DispatchNoEvent \/ DispatchActive
  PROVE  IInv'
<1>1. CASE DispatchTime
  <2>1. TypeOK'
    <3>1. /\ state' \in [Threads -> States]
          /\ wait' \in [Threads -> Int]
      BY <1>1 DEF IInv, TypeOK, CurInv, DispatchTime, States
    <3> QED BY <1>1, <3>1 DEF IInv, TypeOK, DispatchTime, ring, tick, compact
  <2> QED BY <1>1, <2>1, QuietStep DEF IInv, TypeOK, DispatchTime, vmvars, tick, event_count
<1>2. CASE DispatchFrame
  <2>1. TypeOK'
    BY <1>2 DEF IInv, TypeOK, DispatchFrame, States, ring, tick, compact
  <2>2. event_count' = event_count /\ event_count \in Nat
    BY <1>2 DEF IInv, TypeOK, DispatchFrame, event_count
  <2> QED BY <1>2, <2>1, <2>2, QuietStep DEF DispatchFrame, vmvars, tick
<1>3. CASE DispatchEvent
  <2>1. PICK e \in 1 .. event_count : events' = [events EXCEPT ![e].active = FALSE]
    BY <1>3 DEF DispatchEvent
  <2>2. /\ events' \in Seq(VMEvent)
        /\ event_count' = event_count
    <3> DEFINE ev == [events[e] EXCEPT !.active = FALSE]
    <3>1. events \in Seq(VMEvent) /\ e \in 1 .. Len(events)
      BY DEF IInv, TypeOK, event_count
    <3>2. events[e] \in VMEvent
      BY <3>1
    <3>3. ev \in VMEvent
      BY <3>2 DEF VMEvent
    <3>4. events' = [events EXCEPT ![e] = ev]
      BY <2>1
    <3> HIDE DEF ev
    <3> QED BY <3>1, <3>3, <3>4, ExceptSeq DEF event_count
  <2>3. TypeOK'
    BY <1>3, <2>2 DEF IInv, TypeOK, DispatchEvent, States, ring, tick, compact
  <2>4. event_count \in Nat
    BY DEF IInv, TypeOK, event_count
  <2> QED BY <1>3, <2>2, <2>3, <2>4, QuietStep DEF DispatchEvent, vmvars, tick
<1>4. CASE DispatchNoEvent
  <2>1. TypeOK'
    BY <1>4 DEF IInv, TypeOK, DispatchNoEvent, ring, threadvars, tick, compact
  <2> QED BY <1>4, <2>1, QuietStep DEF IInv, TypeOK, DispatchNoEvent, vmvars, tick, event_count
<1>5. CASE DispatchActive
  <2>1. TypeOK'
    BY <1>5 DEF IInv, TypeOK, DispatchActive, ring, threadvars, tick, compact
  <2> QED BY <1>5, <2>1, QuietStep DEF IInv, TypeOK, DispatchActive, vmvars, tick, event_count
<1> QED BY <1>1, <1>2, <1>3, <1>4, <1>5

LEMMA RequeueStep ==
  ASSUME IInv, Requeue
  PROVE  IInv'
<1>1. CASE RingFull /\ vm_error("ring")
  BY <1>1, ErrorStep DEF Errors
<1>2. CASE /\ add_thread(cur)
           /\ cur' = NULL
           /\ i' = i + 1
           /\ pc' = "loop"
           /\ UNCHANGED <<pool, threadvars, events, error, N, dt, compact>>
  <2>1. RingOK /\ cur \in Threads /\ pool \in Seq(Threads)
    BY DEF IInv, TypeOK, RingOK, CurInv, Requeue
  <2>2. RingOK' /\ thread_count' = thread_count + 1
    BY <1>2, <2>1, AddThread
  <2>3. ThreadPartition'
    BY <1>2, <2>1, PartitionRequeue DEF IInv
  <2>4. TypeOK'
    BY <1>2, <2>2 DEF IInv, TypeOK, RingOK, threadvars, compact
  <2>5. RoundNeverShort'
    BY <1>2, <2>1, <2>2, CountPositive DEF IInv, TypeOK, Requeue, RoundNeverShort
  <2>6. CurInv' /\ CompactInv'
    BY <1>2 DEF IInv, Requeue, CurInv, CompactInv, compact, event_count
  <2> QED BY <2>3, <2>4, <2>5, <2>6 DEF IInv
<1> QED BY <1>1, <1>2 DEF Requeue

\* The instructions that end the thread's turn.
LEMMA YieldStep ==
  ASSUME IInv, Yield
  PROVE  IInv'
<1>1. CASE \E w \in Durations : OP_WAIT(w)
  <2>1. PICK w \in Durations : OP_WAIT(w)
    BY <1>1
  <2>2. TypeOK'
    <3>1. /\ state' \in [Threads -> States]
          /\ wait' \in [Threads -> Int]
      BY <2>1, TimeAssumption DEF IInv, TypeOK, OP_WAIT, States
    <3> QED BY <2>1, <3>1 DEF IInv, TypeOK, OP_WAIT, ring, tick, compact
  <2> QED BY <2>1, <2>2, QuietStep DEF IInv, TypeOK, OP_WAIT, vmvars, tick, event_count
<1>2. CASE OP_WAIT_FRAME
  <2>1. TypeOK'
    BY <1>2 DEF IInv, TypeOK, OP_WAIT_FRAME, States, ring, tick, compact
  <2> QED BY <1>2, <2>1, QuietStep DEF IInv, TypeOK, OP_WAIT_FRAME, vmvars, tick, event_count
<1>3. CASE \E key \in Keys : OP_WAITTILL(key)
  <2>1. PICK key \in Keys : OP_WAITTILL(key)
    BY <1>3
  <2>2. TypeOK'
    BY <2>1 DEF IInv, TypeOK, OP_WAITTILL, States, ring, tick, compact
  <2> QED BY <2>1, <2>2, QuietStep DEF IInv, TypeOK, OP_WAITTILL, vmvars, tick, event_count
<1>4. CASE OP_RET
  <2>1. TypeOK'
    BY <1>4 DEF IInv, TypeOK, OP_RET, States, ring, tick, compact
  <2> QED BY <1>4, <2>1, QuietStep DEF IInv, TypeOK, OP_RET, vmvars, tick, event_count
<1> QED BY <1>1, <1>2, <1>3, <1>4 DEF Yield

LEMMA EndonStep ==
  ASSUME IInv, NEW key \in Keys, OP_ENDON(key)
  PROVE  IInv'
<1>1. CASE Len(endon[cur]) >= MaxEndon /\ vm_error("endon")
  BY <1>1, ErrorStep DEF Errors
<1>2. CASE /\ endon' = [endon EXCEPT ![cur] = Append(@, key.name)]
           /\ UNCHANGED <<ring, pool, state, wait, waittill, events, pc, error, tick, cur, compact>>
  <2>1. cur \in Threads /\ key.name \in Names
    BY DEF IInv, CurInv, OP_ENDON, Keys
  <2>2. endon' \in [Threads -> Seq(Names)]
    BY <1>2, <2>1 DEF IInv, TypeOK
  <2>3. TypeOK'
    BY <1>2, <2>2 DEF IInv, TypeOK, ring, tick, compact
  <2> QED BY <1>2, <2>3, QuietStep DEF IInv, TypeOK, OP_ENDON, vmvars, tick, event_count
<1> QED BY <1>1, <1>2 DEF OP_ENDON

\* The end of a tick.
LEMMA FinishStep ==
  ASSUME IInv, Finish
  PROVE  IInv'
<1>1. CASE EndOfRound
  <2>1. TypeOK'
    BY <1>1 DEF IInv, TypeOK, EndOfRound, ring, threadvars, tick
  <2>2. ThreadPartition'
    BY <1>1, PartitionQuiet DEF IInv, EndOfRound
  <2>3. RoundNeverShort' /\ CurInv' /\ CompactInv'
    BY <1>1 DEF IInv, TypeOK, EndOfRound, RoundNeverShort, CurInv, CompactInv, event_count
  <2> QED BY <2>1, <2>2, <2>3 DEF IInv
<1>2. CASE CompactEvent
  <2>1. /\ events' \in Seq(VMEvent)
        /\ event_count' = event_count
        /\ write' \in Nat /\ write' <= write + 1
    <3>1. events[j] \in VMEvent
      <4>1. events \in Seq(VMEvent)
        BY DEF IInv, TypeOK
      <4>2. j \in 1 .. Len(events)
        BY <1>2 DEF IInv, TypeOK, CompactEvent, event_count
      <4> QED BY <4>1, <4>2, ElementOfSeq
    <3>2. write + 1 \in 1 .. Len(events)
      <4>1. write \in Nat /\ j \in Nat /\ events \in Seq(VMEvent)
        BY DEF IInv, TypeOK
      <4>2. write < j /\ j <= Len(events)
        BY <1>2 DEF IInv, CompactInv, CompactEvent, event_count
      <4> QED BY <4>1, <4>2
    <3>3. write \in Nat /\ events \in Seq(VMEvent)
      BY DEF IInv, TypeOK
    <3>4. CASE events' = [events EXCEPT ![write + 1] = events[j]] /\ write' = write + 1
      BY <3>1, <3>2, <3>3, <3>4, ExceptSeq DEF event_count
    <3>5. CASE UNCHANGED <<events, write>>
      BY <3>3, <3>5 DEF event_count
    <3> QED BY <1>2, <3>4, <3>5 DEF CompactEvent
  <2>2. TypeOK'
    BY <1>2, <2>1 DEF IInv, TypeOK, CompactEvent, ring, threadvars, tick
  <2>3. ThreadPartition'
    BY <1>2, PartitionQuiet DEF IInv, CompactEvent
  <2>4. RoundNeverShort' /\ CurInv'
    BY <1>2 DEF IInv, CompactEvent, RoundNeverShort, CurInv
  <2>5. CompactInv'
    BY <1>2, <2>1 DEF IInv, TypeOK, CompactEvent, CompactInv, event_count
  <2> QED BY <2>2, <2>3, <2>4, <2>5 DEF IInv
<1>3. CASE EndOfTick
  <2>1. write \in 0 .. Len(events)
    BY DEF IInv, TypeOK, CompactInv, event_count
  <2>2. /\ events' \in Seq(VMEvent)
        /\ event_count' = write
    <3>1. /\ events \in Seq(VMEvent)
          /\ events' = SubSeq(events, 1, write)
      BY <1>3 DEF IInv, TypeOK, EndOfTick
    <3>2. \A x \in 1 .. write : events[x] \in VMEvent
      BY <2>1, <3>1
    <3> QED BY <2>1, <3>1, <3>2, SubSeqProperties DEF event_count
  <2>3. TypeOK'
    BY <1>3, <2>2 DEF IInv, TypeOK, EndOfTick, ring, threadvars
  <2>4. ThreadPartition'
    BY <1>3, PartitionQuiet DEF IInv, EndOfTick
  <2>5. RoundNeverShort' /\ CurInv' /\ CompactInv'
    BY <1>3, <2>1, <2>2 DEF IInv, EndOfTick, RoundNeverShort, CurInv, CompactInv, event_count
  <2> QED BY <2>3, <2>4, <2>5 DEF IInv
<1> QED BY <1>1, <1>2, <1>3 DEF Finish

\* The instructions of the running thread.
LEMMA ScriptStep ==
  ASSUME IInv, Script
  PROVE  IInv'
<1>1. CASE \E key \in Keys : OP_NOTIFY(key)
  <2>1. PICK key \in Keys : OP_NOTIFY(key)
    BY <1>1
  <2> QED BY <2>1, NotifyStep, ErrorStep DEF OP_NOTIFY, Errors
<1>2. CASE \E key \in Keys : OP_ENDON(key)
  BY <1>2, EndonStep
<1>3. CASE OP_CALL_THREADED
  BY <1>3, SpawnStep, ErrorStep DEF OP_CALL_THREADED, Errors
<1>4. CASE Yield
  BY <1>4, YieldStep
<1> QED BY <1>1, <1>2, <1>3, <1>4 DEF Script

\* The host's calls.
LEMMA HostStep ==
  ASSUME IInv, Host
  PROVE  IInv'
<1>1. CASE gsc_call
  BY <1>1, SpawnStep, ErrorStep DEF gsc_call, Errors
<1>2. CASE \E key \in Keys : gsc_notify(key)
  <2>1. PICK key \in Keys : gsc_notify(key)
    BY <1>2
  <2> QED BY <2>1, NotifyStep, ErrorStep DEF gsc_notify, Errors
<1>3. CASE \E d \in Dts : gsc_update(d)
  BY <1>3, UpdateStep
<1> QED BY <1>1, <1>2, <1>3 DEF Host

LEMMA StutterStep ==
  ASSUME IInv, UNCHANGED vars
  PROVE  IInv'
<1>1. TypeOK'
  BY DEF IInv, TypeOK, vars, ring, threadvars, tick, compact
<1>2. ThreadPartition'
  BY PartitionQuiet DEF IInv, vars
<1>3. RoundNeverShort' /\ CurInv' /\ CompactInv'
  BY DEF IInv, RoundNeverShort, CurInv, CompactInv, thread_count, event_count, vars, ring, tick, compact
<1> QED BY <1>1, <1>2, <1>3 DEF IInv

LEMMA NextInv == IInv /\ [Next]_vars => IInv'
<1> SUFFICES ASSUME IInv, [Next]_vars PROVE IInv'
  OBVIOUS
<1>1. CASE Host
  BY <1>1, HostStep
<1>2. CASE Dispatch
  BY <1>2, RemoveStep, DispatchInactiveStep, DispatchOtherStep, RequeueStep DEF Dispatch
<1>3. CASE Script
  BY <1>3, ScriptStep
<1>4. CASE Finish
  BY <1>4, FinishStep
<1>5. CASE Aborted \/ UNCHANGED vars
  BY <1>5, StutterStep DEF Aborted
<1> QED BY <1>1, <1>2, <1>3, <1>4, <1>5 DEF Next

-----------------------------------------------------------------------------
(* When vm_error may be raised.  The thread structs are counted rather than   *)
(* collected: one in the hands of vm_run_threads, the others in the ring or   *)
(* on the free list.                                                          *)

held == IF cur = NULL THEN 0 ELSE 1

ThreadsCounted == Len(pool) + thread_count + held = max_threads

ExhaustionInv ==
  /\ IInv
  /\ ThreadsCounted
  /\ event_count <= MaxEvents
  /\ pc # "abort" => error = "none"
  /\ AbortOnlyWhenExhausted

\* add_thread finds the ring full exactly when it holds max_threads - 1 threads.
LEMMA RingFullCount ==
  ASSUME RingOK
  PROVE  RingFull <=> thread_count = max_threads - 1
<1>1. Succ(thread_write_idx) =
        IF thread_write_idx + 1 = max_threads THEN 0 ELSE thread_write_idx + 1
  BY SuccValue DEF RingOK
<1> QED BY <1>1, MaxThreadsAssumption DEF RingOK, RingFull, thread_count, Slots

LEMMA InitExhaustion == Init => ExhaustionInv
<1> SUFFICES ASSUME Init PROVE ExhaustionInv
  OBVIOUS
<1>1. Len(pool) = max_threads /\ thread_count = 0 /\ held = 0
  BY MaxThreadsAssumption DEF Init, thread_count, held
<1>2. event_count = 0
  BY DEF Init, event_count
<1> QED BY <1>1, <1>2, InitInv, MaxThreadsAssumption, BoundsAssumption
     DEF ExhaustionInv, ThreadsCounted, AbortOnlyWhenExhausted, Init

\* A step that raises no error need only keep the counts.
LEMMA NoErrorStep ==
  ASSUME ExhaustionInv, IInv', ThreadsCounted', event_count' <= MaxEvents,
         pc # "abort", UNCHANGED error
  PROVE  ExhaustionInv'
BY DEF ExhaustionInv, AbortOnlyWhenExhausted

\* An error leaves everything as it found it, so it must be true of that state.
LEMMA RaisedStep ==
  ASSUME ExhaustionInv, IInv', NEW r \in Errors, vm_error(r),
         r = "ring" => thread_count = max_threads - 1,
         r = "pool" => thread_count = max_threads - 1 /\ cur # NULL,
         r = "events" => event_count = MaxEvents
  PROVE  ExhaustionInv'
<1>1. UNCHANGED <<thread_count, event_count, held, pool, cur>>
  BY DEF vm_error, thread_count, event_count, held, ring
<1>2. error' = r /\ pc' = "abort"
  BY DEF vm_error
<1> QED BY <1>1, <1>2 DEF ExhaustionInv, ThreadsCounted, AbortOnlyWhenExhausted

LEMMA SpawnExhaustion ==
  ASSUME ExhaustionInv, IInv', pc # "abort",
         \/ \E t \in Threads :
              /\ object_pool_allocate(t)
              /\ add_thread(t)
              /\ UNCHANGED <<events, pc, error, tick, cur, compact>>
         \/ pool = <<>> /\ vm_error("pool")
         \/ pool # <<>> /\ RingFull /\ vm_error("ring")
  PROVE  ExhaustionInv'
<1>0. /\ RingOK /\ pool \in Seq(Threads)
      /\ thread_count \in 0 .. max_threads - 1 /\ held \in {0, 1}
  BY CountPositive DEF ExhaustionInv, IInv, TypeOK, RingOK, held
<1>1. CASE pool = <<>> /\ vm_error("pool")
  <2>1. Len(pool) = 0
    BY <1>1
  <2>2. held = 1 /\ thread_count = max_threads - 1
    BY <1>0, <2>1, MaxThreadsAssumption DEF ExhaustionInv, ThreadsCounted
  <2> QED BY <1>1, <2>2, RaisedStep DEF held, Errors
<1>2. CASE RingFull /\ vm_error("ring")
  BY <1>0, <1>2, RingFullCount, RaisedStep DEF Errors
<1>3. ASSUME NEW t \in Threads, object_pool_allocate(t), add_thread(t),
             UNCHANGED <<events, pc, error, tick, cur, compact>>
      PROVE  ExhaustionInv'
  <2>1. thread_count' = thread_count + 1
    BY <1>0, <1>3, AddThread
  <2>2. Len(pool') = Len(pool) - 1 /\ Len(pool) \in Nat
    BY <1>0, <1>3 DEF object_pool_allocate
  <2>3. held' = held /\ event_count' = event_count
    BY <1>3 DEF held, event_count
  <2>4. ThreadsCounted'
    BY <1>0, <2>1, <2>2, <2>3 DEF ExhaustionInv, ThreadsCounted
  <2> QED BY <1>3, <2>3, <2>4, NoErrorStep DEF ExhaustionInv
<1> QED BY <1>1, <1>2, <1>3

LEMMA NotifyExhaustion ==
  ASSUME ExhaustionInv, IInv', pc # "abort", NEW key \in Keys,
         \/ /\ vm_notify_args(key)
            /\ UNCHANGED <<ring, pool, threadvars, pc, error, tick, cur, compact>>
         \/ event_count >= MaxEvents /\ vm_error("events")
  PROVE  ExhaustionInv'
<1>0. event_count \in Nat /\ event_count <= MaxEvents
  BY DEF ExhaustionInv, IInv, TypeOK, event_count
<1>1. CASE event_count >= MaxEvents /\ vm_error("events")
  <2>1. event_count = MaxEvents
    BY <1>0, <1>1, BoundsAssumption
  <2> QED BY <1>1, <2>1, RaisedStep DEF Errors
<1>2. CASE /\ vm_notify_args(key)
           /\ UNCHANGED <<ring, pool, threadvars, pc, error, tick, cur, compact>>
  <2>1. event_count' = event_count + 1
    BY <1>2 DEF vm_notify_args, event_count, ExhaustionInv, IInv, TypeOK
  <2>2. event_count' <= MaxEvents
    BY <1>0, <1>2, <2>1, BoundsAssumption DEF vm_notify_args
  <2>3. ThreadsCounted'
    BY <1>2 DEF ExhaustionInv, ThreadsCounted, thread_count, held, ring
  <2> QED BY <1>2, <2>2, <2>3, NoErrorStep
<1> QED BY <1>1, <1>2

\* Steps that neither move a thread nor raise an error; only the end of a tick
\* changes the number of events, and it drops some.
LEMMA QuietExhaustion ==
  ASSUME ExhaustionInv, IInv', pc # "abort", UNCHANGED <<ring, pool, cur, error>>,
         event_count' <= event_count
  PROVE  ExhaustionInv'
<1>1. ThreadsCounted'
  BY DEF ExhaustionInv, ThreadsCounted, thread_count, held, ring
<1>2. event_count \in Nat /\ event_count' \in Nat
  BY DEF ExhaustionInv, IInv, TypeOK, event_count
<1>3. event_count' <= MaxEvents
  BY <1>2, BoundsAssumption DEF ExhaustionInv
<1> QED BY <1>1, <1>3, NoErrorStep

LEMMA DispatchExhaustion ==
  ASSUME ExhaustionInv, IInv', Dispatch
  PROVE  ExhaustionInv'
<1>0. /\ RingOK /\ pool \in Seq(Threads) /\ IInv
      /\ thread_count \in 0 .. max_threads - 1 /\ held \in {0, 1} /\ event_count \in Nat
  <2>1. RingOK /\ pool \in Seq(Threads) /\ IInv /\ events \in Seq(VMEvent)
    BY DEF ExhaustionInv, IInv, TypeOK, RingOK
  <2> QED BY <2>1, CountPositive DEF held, event_count
<1>n. NULL \notin Threads
  BY NullAssumption DEF Threads
<1>1. CASE Remove
  <2>1. cur = NULL /\ cur' \in Threads
    BY <1>0, <1>1, PartitionTake DEF Remove, IInv, CurInv
  <2>2. thread_count' = thread_count - 1 /\ held = 0 /\ held' = 1
    BY <1>0, <1>n, <1>1, <2>1, RemoveThread DEF Remove, held
  <2>3. ThreadsCounted' /\ event_count' = event_count
    BY <1>0, <1>1, <2>2 DEF Remove, ExhaustionInv, ThreadsCounted, event_count
  <2> QED BY <1>1, <2>3, NoErrorStep DEF Remove, ExhaustionInv
<1>2. CASE DispatchInactive
  <2>1. cur \in Threads /\ cur' = NULL /\ pool' = <<cur>> \o pool
    BY <1>0, <1>2 DEF DispatchInactive, object_pool_deallocate, IInv, CurInv
  <2>2. Len(pool') = Len(pool) + 1 /\ Len(pool) \in Nat
    BY <1>0, <2>1
  <2>3. thread_count' = thread_count /\ held = 1 /\ held' = 0 /\ event_count' = event_count
    BY <1>n, <1>2, <2>1 DEF DispatchInactive, thread_count, held, ring, event_count
  <2>4. ThreadsCounted'
    BY <1>0, <2>2, <2>3 DEF ExhaustionInv, ThreadsCounted
  <2> QED BY <1>2, <2>3, <2>4, NoErrorStep DEF DispatchInactive, ExhaustionInv
<1>3. CASE Requeue
  <2>1. CASE RingFull /\ vm_error("ring")
    BY <1>0, <2>1, RingFullCount, RaisedStep DEF Errors
  <2>2. CASE add_thread(cur) /\ cur' = NULL /\ UNCHANGED <<pool, events, error>>
    <3>1. cur \in Threads
      BY <1>0, <1>3 DEF Requeue, IInv, CurInv
    <3>2. thread_count' = thread_count + 1 /\ held = 1 /\ held' = 0 /\ event_count' = event_count
      BY <1>0, <1>n, <2>2, <3>1, AddThread DEF held, event_count
    <3>3. ThreadsCounted'
      BY <1>0, <2>2, <3>2 DEF ExhaustionInv, ThreadsCounted
    <3> QED BY <1>3, <2>2, <3>2, <3>3, NoErrorStep DEF Requeue, ExhaustionInv
  <2> QED BY <1>3, <2>1, <2>2 DEF Requeue
<1>4. CASE DispatchTime \/ DispatchFrame \/ DispatchNoEvent \/ DispatchActive
  <2>1. event_count' = event_count /\ UNCHANGED <<ring, pool, cur, error>> /\ pc # "abort"
    BY <1>4 DEF DispatchTime, DispatchFrame, DispatchNoEvent, DispatchActive, event_count
  <2> QED BY <1>0, <2>1, QuietExhaustion
<1>5. CASE DispatchEvent
  <2>1. event_count' = event_count /\ UNCHANGED <<ring, pool, cur, error>> /\ pc # "abort"
    BY <1>0, <1>5 DEF DispatchEvent, event_count, IInv, TypeOK
  <2> QED BY <1>0, <2>1, QuietExhaustion
<1> QED BY <1>1, <1>2, <1>3, <1>4, <1>5 DEF Dispatch

LEMMA ScriptExhaustion ==
  ASSUME ExhaustionInv, IInv', Script
  PROVE  ExhaustionInv'
<1>1. ASSUME NEW key \in Keys, OP_NOTIFY(key) PROVE ExhaustionInv'
  BY <1>1, NotifyExhaustion DEF OP_NOTIFY
<1>2. ASSUME NEW key \in Keys, OP_ENDON(key) PROVE ExhaustionInv'
  <2>1. CASE vm_error("endon")
    BY <2>1, RaisedStep DEF Errors
  <2>2. CASE UNCHANGED <<ring, pool, cur, error, events>>
    <3>1. event_count' = event_count /\ event_count \in Nat
      BY <2>2 DEF event_count, ExhaustionInv, IInv, TypeOK
    <3> QED BY <1>2, <2>2, <3>1, QuietExhaustion DEF OP_ENDON
  <2> QED BY <1>2, <2>1, <2>2 DEF OP_ENDON
<1>3. CASE OP_CALL_THREADED
  BY <1>3, SpawnExhaustion DEF OP_CALL_THREADED
<1>4. CASE Yield
  <2>1. UNCHANGED <<ring, pool, cur, error, events>> /\ pc # "abort"
    BY <1>4 DEF Yield, OP_WAIT, OP_WAIT_FRAME, OP_WAITTILL, OP_RET
  <2>2. event_count' = event_count /\ event_count \in Nat
    BY <2>1 DEF event_count, ExhaustionInv, IInv, TypeOK
  <2> QED BY <2>1, <2>2, QuietExhaustion
<1> QED BY <1>1, <1>2, <1>3, <1>4 DEF Script

LEMMA FinishExhaustion ==
  ASSUME ExhaustionInv, IInv', Finish
  PROVE  ExhaustionInv'
<1>0. event_count \in Nat /\ events \in Seq(VMEvent)
  BY DEF ExhaustionInv, IInv, TypeOK, event_count
<1>1. CASE EndOfRound \/ CompactEvent
  <2>1. event_count' = event_count
    BY <1>0, <1>1 DEF EndOfRound, CompactEvent, event_count
  <2> QED BY <1>0, <1>1, <2>1, QuietExhaustion DEF EndOfRound, CompactEvent
<1>2. CASE EndOfTick
  <2>1. write \in 0 .. Len(events)
    BY DEF ExhaustionInv, IInv, TypeOK, CompactInv, event_count
  <2>2. Len(events') = write
    BY <1>0, <1>2, <2>1 DEF EndOfTick
  <2> QED BY <1>0, <1>2, <2>1, <2>2, QuietExhaustion DEF EndOfTick, event_count
<1> QED BY <1>1, <1>2 DEF Finish

LEMMA NextExhaustion == ExhaustionInv /\ [Next]_vars => ExhaustionInv'
<1> SUFFICES ASSUME ExhaustionInv, [Next]_vars PROVE ExhaustionInv'
  OBVIOUS
<1>0. IInv'
  BY NextInv DEF ExhaustionInv
<1>1. CASE Host
  <2>1. CASE gsc_call
    BY <1>0, <2>1, SpawnExhaustion DEF gsc_call
  <2>2. ASSUME NEW key \in Keys, gsc_notify(key) PROVE ExhaustionInv'
    BY <1>0, <2>2, NotifyExhaustion DEF gsc_notify
  <2>3. ASSUME NEW d \in Dts, gsc_update(d) PROVE ExhaustionInv'
    <3>1. UNCHANGED <<ring, pool, cur, error, events>> /\ pc # "abort"
      BY <2>3 DEF gsc_update
    <3>2. event_count' = event_count /\ event_count \in Nat
      BY <3>1 DEF event_count, ExhaustionInv, IInv, TypeOK
    <3> QED BY <1>0, <3>1, <3>2, QuietExhaustion
  <2> QED BY <1>1, <2>1, <2>2, <2>3 DEF Host
<1>2. CASE Dispatch
  BY <1>0, <1>2, DispatchExhaustion
<1>3. CASE Script
  BY <1>0, <1>3, ScriptExhaustion
<1>4. CASE Finish
  BY <1>0, <1>4, FinishExhaustion
<1>5. CASE UNCHANGED vars
  BY <1>0, <1>5 DEF ExhaustionInv, ThreadsCounted, AbortOnlyWhenExhausted,
     thread_count, held, event_count, vars, ring
<1> QED BY <1>1, <1>2, <1>3, <1>4, <1>5 DEF Next, Aborted

-----------------------------------------------------------------------------
(* The steps that matter to events, and what the others leave alone.  The    *)
(* theorems about events need two more facts: only an ACTIVE thread runs, and *)
(* a free struct is cleared.                                                 *)

RunInv ==
  /\ pc = "run" => state[cur] = "ACTIVE"
  /\ \A t \in Free : state[t] = "INACTIVE" /\ endon[t] = <<>>

Posts(key) ==
  /\ pc \in {"host", "run"} /\ event_count < MaxEvents
  /\ events' = Append(events, Event(key))
  /\ UNCHANGED <<pool, threadvars, pc, cur, compact>>

Registers(key) ==
  /\ pc = "run" /\ endon' = [endon EXCEPT ![cur] = Append(@, key.name)]
  /\ UNCHANGED <<pool, state, waittill, events, pc, cur, compact>>

Spawns(t) ==
  /\ pc \in {"host", "run"} /\ object_pool_allocate(t)
  /\ UNCHANGED <<events, pc, cur, compact>>

Blocks(key) ==
  /\ pc = "run" /\ pc' = "requeue"
  /\ waittill' = [waittill EXCEPT ![cur] = key]
  /\ state' = [state EXCEPT ![cur] = "WAITING_EVENT"]
  /\ UNCHANGED <<pool, endon, events, cur, compact>>

\* Neither the events nor what anybody waits for or registered changes.
Quiet ==
  /\ pc' # "abort"
  /\ UNCHANGED <<pool, waittill, endon, events>>
  /\ \A t \in Threads :
       state'[t] = state[t] \/ (t = cur /\ state[t] # "WAITING_EVENT" /\ state'[t] # "WAITING_EVENT")
  /\ pc' = "run" => state'[cur'] = "ACTIVE"
  /\ UNCHANGED compact

\* What an error leaves: everything but the place in the code and the reason.
Raises == pc' = "abort" /\ UNCHANGED <<pool, threadvars, events, cur, compact>>

\* Before and after the compaction its indices are where it starts.
LEMMA CompactIdle ==
  ASSUME IInv, pc \notin {"compact", "abort"}
  PROVE  j = 1 /\ write = 0
BY DEF IInv, TypeOK, CompactInv

LEMMA Idle ==
  ASSUME UNCHANGED <<pool, threadvars, events, compact>>, pc' # "abort",
         pc' = "run" => state[cur'] = "ACTIVE"
  PROVE  Quiet
BY DEF Quiet, threadvars

\* A thread wakes from a wait or goes to sleep, but for no event.
LEMMA Sleeps ==
  ASSUME IInv, cur \in Threads, state[cur] # "WAITING_EVENT",
         NEW s, s # "WAITING_EVENT", state' = [state EXCEPT ![cur] = s],
         UNCHANGED <<pool, waittill, endon, events, compact>>, pc' \notin {"run", "abort"}
  PROVE  Quiet
<1>1. state \in [Threads -> States]
  BY DEF IInv, TypeOK
<1>2. \A t \in Threads : state'[t] = IF t = cur THEN s ELSE state[t]
  BY <1>1
<1>3. \A t \in Threads :
        state'[t] = state[t] \/ (t = cur /\ state[t] # "WAITING_EVENT" /\ state'[t] # "WAITING_EVENT")
  BY <1>2
<1> QED BY <1>3 DEF Quiet, compact

LEMMA HostSteps ==
  ASSUME IInv, Host
  PROVE  \/ Raises \/ Quiet
         \/ \E key \in Keys : Posts(key)
         \/ \E t \in Threads : Spawns(t)
<1>1. CASE gsc_call
  BY <1>1 DEF gsc_call, Spawns, Raises, vm_error
<1>2. CASE \E key \in Keys : gsc_notify(key)
  BY <1>2 DEF gsc_notify, vm_notify_args, Posts, Raises, vm_error
<1>3. CASE \E d \in Dts : gsc_update(d)
  <2>1. PICK d \in Dts : gsc_update(d)
    BY <1>3
  <2>2. UNCHANGED <<pool, threadvars, events, compact>> /\ pc' = "loop"
    BY <2>1 DEF gsc_update
  <2> QED BY <2>2, Idle
<1> QED BY <1>1, <1>2, <1>3 DEF Host

LEMMA DispatchSteps ==
  ASSUME IInv, Dispatch
  PROVE  Raises \/ Quiet \/ DispatchInactive \/ DispatchEvent
<1>0. state \in [Threads -> States] /\ (pc \in {"dispatch", "run", "requeue"} => cur \in Threads)
  BY DEF IInv, TypeOK, CurInv
<1>1. CASE Remove
  <2>1. UNCHANGED <<pool, threadvars, events, compact>> /\ pc' = "dispatch"
    BY <1>1 DEF Remove
  <2> QED BY <2>1, Idle
<1>2. CASE DispatchTime
  <2>1. /\ cur \in Threads /\ state[cur] = "WAITING_TIME" /\ pc' = "requeue"
        /\ UNCHANGED <<pool, waittill, endon, events, compact>>
        /\ state' = [state EXCEPT ![cur] = IF wait[cur] <= 0 THEN "ACTIVE" ELSE state[cur]]
    BY <1>0, <1>2 DEF DispatchTime
  <2>2. PICK s : s = (IF wait[cur] <= 0 THEN "ACTIVE" ELSE state[cur]) /\ s # "WAITING_EVENT"
    BY <2>1
  <2> QED BY <2>1, <2>2, Sleeps
<1>3. CASE DispatchFrame
  <2>1. /\ cur \in Threads /\ state[cur] = "WAITING_FRAME" /\ pc' = "requeue"
        /\ UNCHANGED <<pool, waittill, endon, events, compact>>
        /\ state' = [state EXCEPT ![cur] = "ACTIVE"]
    BY <1>0, <1>3 DEF DispatchFrame
  <2> QED BY <2>1, Sleeps
<1>4. CASE DispatchNoEvent \/ DispatchActive
  <2>1. /\ UNCHANGED <<pool, threadvars, events, cur, compact>> /\ pc' \in {"requeue", "run"}
        /\ pc' = "run" => state[cur] = "ACTIVE"
    BY <1>4 DEF DispatchNoEvent, DispatchActive
  <2> QED BY <2>1, Idle
<1>5. CASE Requeue
  <2>1. CASE vm_error("ring")
    BY <2>1 DEF Raises, vm_error
  <2>2. CASE UNCHANGED <<pool, threadvars, events, compact>> /\ pc' = "loop"
    BY <2>2, Idle
  <2> QED BY <1>5, <2>1, <2>2 DEF Requeue
<1> QED BY <1>1, <1>2, <1>3, <1>4, <1>5 DEF Dispatch

LEMMA ScriptSteps ==
  ASSUME IInv, RunInv, Script
  PROVE  \/ Raises \/ Quiet
         \/ \E key \in Keys : Posts(key) \/ Registers(key) \/ Blocks(key)
         \/ \E t \in Threads : Spawns(t)
<1>0. state \in [Threads -> States] /\ (pc = "run" => cur \in Threads /\ state[cur] = "ACTIVE")
  BY DEF IInv, TypeOK, CurInv, RunInv
<1>1. CASE \E key \in Keys : OP_NOTIFY(key)
  BY <1>1 DEF OP_NOTIFY, vm_notify_args, Posts, Raises, vm_error
<1>2. CASE \E key \in Keys : OP_ENDON(key)
  BY <1>2 DEF OP_ENDON, Registers, Raises, vm_error
<1>3. CASE OP_CALL_THREADED
  BY <1>3 DEF OP_CALL_THREADED, Spawns, Raises, vm_error
<1>4. CASE \E key \in Keys : OP_WAITTILL(key)
  BY <1>4 DEF OP_WAITTILL, Blocks
<1>5. CASE (\E d \in Durations : OP_WAIT(d)) \/ OP_WAIT_FRAME \/ OP_RET
  <2>1. PICK s \in {"WAITING_TIME", "WAITING_FRAME", "INACTIVE"} :
          /\ pc = "run" /\ pc' = "requeue" /\ state' = [state EXCEPT ![cur] = s]
          /\ UNCHANGED <<pool, waittill, endon, events, compact>>
    BY <1>5 DEF OP_WAIT, OP_WAIT_FRAME, OP_RET
  <2>2. cur \in Threads /\ state[cur] # "WAITING_EVENT" /\ s # "WAITING_EVENT"
    BY <1>0, <2>1
  <2> QED BY <2>1, <2>2, Sleeps
<1> QED BY <1>1, <1>2, <1>3, <1>4, <1>5 DEF Script, Yield

LEMMA FinishSteps ==
  ASSUME IInv, Finish
  PROVE  Quiet \/ CompactEvent \/ EndOfTick
<1>1. CASE EndOfRound
  <2>1. j = 1 /\ write = 0
    BY <1>1, CompactIdle DEF EndOfRound
  <2>2. UNCHANGED <<pool, threadvars, events, compact>> /\ pc' = "compact"
    BY <1>1, <2>1 DEF EndOfRound, compact
  <2> QED BY <2>2, Idle
<1> QED BY <1>1 DEF Finish

LEMMA Steps ==
  ASSUME IInv, RunInv, Next
  PROVE  \/ Raises \/ Quiet \/ DispatchInactive \/ DispatchEvent \/ CompactEvent \/ EndOfTick
         \/ \E key \in Keys : Posts(key) \/ Registers(key) \/ Blocks(key)
         \/ \E t \in Threads : Spawns(t)
<1>1. CASE Aborted
  BY <1>1 DEF Aborted, Raises, vars
<1> QED BY <1>1, HostSteps, DispatchSteps, ScriptSteps, FinishSteps DEF Next

\* A thread in hand is not free, and a free thread is nobody's.
LEMMA HandNotFree ==
  ASSUME IInv
  PROVE  /\ cur \notin Free /\ Free \subseteq Threads /\ pool \in Seq(Threads) /\ PoolInjective
         /\ NULL \notin Threads
         /\ endon \in [Threads -> Seq(Names)] /\ waittill \in [Threads -> Keys \cup {NoKey}]
         /\ state \in [Threads -> States]
<1>1. pool \in Seq(Threads) /\ cur \notin Free /\ PoolInjective
  BY PartitionParts DEF IInv, TypeOK
<1>2. Free \subseteq Threads
  BY <1>1 DEF Free
<1>3. NULL \notin Threads
  BY NullAssumption DEF Threads
<1> QED BY <1>1, <1>2, <1>3 DEF IInv, TypeOK

LEMMA RunInit == Init => RunInv
<1> SUFFICES ASSUME Init PROVE RunInv
  OBVIOUS
<1>1. \A t \in Free : t \in Threads
  BY InitInv, HandNotFree
<1>2. \A t \in Free : state[t] = "INACTIVE" /\ endon[t] = <<>>
  BY <1>1 DEF Init
<1> QED BY <1>2 DEF Init, RunInv

LEMMA RunStep ==
  ASSUME IInv, RunInv, Next
  PROVE  RunInv'
<1>0. /\ cur \notin Free /\ Free \subseteq Threads /\ pool \in Seq(Threads) /\ PoolInjective
      /\ NULL \notin Threads
      /\ endon \in [Threads -> Seq(Names)] /\ waittill \in [Threads -> Keys \cup {NoKey}]
      /\ state \in [Threads -> States] /\ (pc = "run" => cur \in Threads /\ state[cur] = "ACTIVE")
      /\ \A t \in Free : state[t] = "INACTIVE" /\ endon[t] = <<>>
  BY HandNotFree DEF RunInv, IInv, CurInv
<1>1. CASE Raises
  BY <1>1 DEF Raises, RunInv, Free, threadvars
<1>2. CASE Quiet
  <2>1. Free' = Free /\ \A t \in Free : state'[t] = state[t] /\ endon'[t] = endon[t]
    BY <1>0, <1>2 DEF Quiet, Free
  <2> QED BY <1>2, <2>1 DEF Quiet, RunInv
<1>3. CASE DispatchInactive
  <2>1. Free' = Free \cup {cur} /\ cur \in Threads
    BY <1>0, <1>3, PoolDeallocate DEF DispatchInactive, IInv, CurInv
  <2>2. \A t \in Free' : state'[t] = "INACTIVE" /\ endon'[t] = <<>>
    BY <1>0, <1>3, <2>1 DEF DispatchInactive, object_pool_deallocate, Cleared
  <2> QED BY <1>3, <2>2 DEF DispatchInactive, RunInv
<1>4. CASE DispatchEvent
  <2>1. Free' = Free /\ (\A t \in Free : state'[t] = state[t]) /\ pc' = "requeue" /\ endon' = endon
    BY <1>0, <1>4 DEF DispatchEvent, Free
  <2> QED BY <1>0, <2>1 DEF RunInv
<1>5. CASE CompactEvent \/ EndOfTick
  <2>1. pc' # "run" /\ UNCHANGED <<pool, state, endon>>
    BY <1>5 DEF CompactEvent, EndOfTick, threadvars
  <2> QED BY <1>0, <2>1 DEF RunInv, Free
<1>6. CASE \E key \in Keys : Posts(key) \/ Registers(key) \/ Blocks(key)
  BY <1>0, <1>6 DEF Posts, Registers, Blocks, RunInv, Free, threadvars
<1>7. CASE \E t \in Threads : Spawns(t)
  <2>1. PICK t \in Threads : Spawns(t)
    BY <1>7
  <2>2. t \in Free /\ Free' = Free \ {t}
    BY <1>0, <2>1, PoolAllocate DEF Spawns
  <2>3. t # cur
    BY <1>0, <2>2
  <2>4. \A u \in Threads : u # t => state'[u] = state[u] /\ endon'[u] = endon[u]
    BY <1>0, <2>1 DEF Spawns, object_pool_allocate, Cleared
  <2> QED BY <1>0, <2>1, <2>2, <2>3, <2>4 DEF Spawns, RunInv
<1> QED BY <1>1, <1>2, <1>3, <1>4, <1>5, <1>6, <1>7, Steps

-----------------------------------------------------------------------------
(* The theorems. *)

\* Every variable of the scheduler keeps its type: in particular the indices
\* of the ring stay inside thread_buffer, whatever max_threads is.
THEOREM TypeCorrect == Spec => []TypeOK
<1>1. Init => IInv
  BY InitInv
<1>2. IInv /\ [Next]_vars => IInv'
  BY NextInv
<1>3. IInv => TypeOK
  BY DEF IInv
<1> QED BY <1>1, <1>2, <1>3, PTL DEF Spec

\* No thread struct is lost or in two places (vm_run_threads, the thread pool).
THEOREM ThreadsPartitioned == Spec => []ThreadPartition
<1>1. Init => IInv
  BY InitInv
<1>2. IInv /\ [Next]_vars => IInv'
  BY NextInv
<1>3. IInv => ThreadPartition
  BY DEF IInv
<1> QED BY <1>1, <1>2, <1>3, PTL DEF Spec

\* A tick never finds the ring empty before its round is over, so the loop of
\* vm_run_threads visits every one of the thread_count threads it counted.
THEOREM RoundsComplete == Spec => []RoundNeverShort
<1>1. Init => IInv
  BY InitInv
<1>2. IInv /\ [Next]_vars => IInv'
  BY NextInv
<1>3. IInv => RoundNeverShort
  BY DEF IInv
<1> QED BY <1>1, <1>2, <1>3, PTL DEF Spec

\* vm_error for a full ring, an empty pool or a full event list is raised only
\* when that really is used up: wrapping indices and freed structs cost nothing.
THEOREM AbortsJustified == Spec => []AbortOnlyWhenExhausted
<1>1. ExhaustionInv => AbortOnlyWhenExhausted
  BY DEF ExhaustionInv
<1> QED BY <1>1, InitExhaustion, NextExhaustion, PTL DEF Spec
=============================================================================
