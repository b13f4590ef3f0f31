---------------------- MODULE SchedulerRefinementProofs ----------------------
(***************************************************************************)
(* The scheduler refines the run queue and the event board, for every      *)
(* number of threads and events: the ring with its wrapping indices is a   *)
(* queue, whoever appends to it and whenever, in the middle of a round     *)
(* included; and the event array, its scans and its compaction in place    *)
(* are a list of notifications in the order they were sent.                *)
(*                                                                         *)
(* On the queue rests what a tick does to each thread: it visits the       *)
(* threads it found, once each and in the order of the queue, and so the   *)
(* counters of timed waits, decremented once per visit, agree with the     *)
(* time the host has reported.                                             *)
(***************************************************************************)
EXTENDS SchedulerTiming, SchedulerProofs, Induction

\* The slot of the k-th thread of a queue that starts at slot r.
Position(r, k) == (r + k - 1) % max_threads

\* Two sequences with the same elements are the same.
LEMMA AppendIntro ==
  ASSUME NEW S, NEW s \in Seq(S), NEW e \in S, NEW q \in Seq(S),
         Len(q) = Len(s) + 1, \A k \in 1 .. Len(s) : q[k] = s[k], q[Len(s) + 1] = e
  PROVE  q = Append(s, e)
<1>1. Append(s, e) \in Seq(S) /\ Len(Append(s, e)) = Len(s) + 1 /\ Len(s) \in Nat
  BY AppendProperties, LenProperties
<1>2. \A k \in 1 .. Len(q) : q[k] = Append(s, e)[k]
  BY <1>1, AppendProperties
<1> QED BY <1>1, <1>2, SeqEqual

LEMMA TailIntro ==
  ASSUME NEW S, NEW s \in Seq(S), s # <<>>, NEW q \in Seq(S),
         Len(q) = Len(s) - 1, \A k \in 1 .. Len(s) - 1 : q[k] = s[k + 1]
  PROVE  q = Tail(s)
<1>1. /\ Tail(s) \in Seq(S) /\ Len(Tail(s)) = Len(s) - 1
      /\ \A k \in 1 .. Len(s) - 1 : Tail(s)[k] = s[k + 1]
  BY HeadTailProperties
<1> QED BY <1>1, SeqEqual

\* The modulo of the window wraps at most once.
LEMMA WrapOnce ==
  ASSUME NEW x \in Nat, x < 2 * max_threads
  PROVE  x % max_threads = IF x < max_threads THEN x ELSE x - max_threads
<1>1. ASSUME NEW r \in 0 .. max_threads - 1
      PROVE  r % max_threads = r /\ (r + max_threads) % max_threads = r
  BY MaxThreadsAssumption
<1>2. CASE x < max_threads
  BY <1>1, <1>2, MaxThreadsAssumption
<1>3. CASE ~(x < max_threads)
  <2>1. x - max_threads \in 0 .. max_threads - 1 /\ (x - max_threads) + max_threads = x
    BY <1>3, MaxThreadsAssumption
  <2> QED BY <1>1, <1>3, <2>1
<1> QED BY <1>2, <1>3

LEMMA PositionValue ==
  ASSUME NEW r \in Slots, NEW k \in 1 .. max_threads
  PROVE  Position(r, k) = IF r + k - 1 < max_threads THEN r + k - 1 ELSE r + k - 1 - max_threads
<1>1. PICK x \in Nat : x = r + k - 1
  BY MaxThreadsAssumption DEF Slots
<1>2. x < 2 * max_threads
  BY <1>1, MaxThreadsAssumption DEF Slots
<1>3. PICK y : y = x % max_threads
  OBVIOUS
<1>4. y = IF x < max_threads THEN x ELSE x - max_threads
  BY <1>2, <1>3, WrapOnce
<1>5. Position(r, k) = y
  BY <1>1, <1>3 DEF Position
<1> QED BY <1>1, <1>4, <1>5, MaxThreadsAssumption DEF Slots

\* The queue is the window of the ring, oldest first.
QueueOK ==
  /\ thread_count \in 0 .. max_threads - 1
  /\ Queue \in Seq(Threads \cup {NULL})
  /\ Len(Queue) = thread_count
  /\ \A k \in 1 .. thread_count :
       /\ Position(thread_read_idx, k) \in Slots
       /\ InWindow(Position(thread_read_idx, k))
       /\ Queue[k] = thread_buffer[Position(thread_read_idx, k)]
       /\ Queue[k] \in Ringed

LEMMA QueueIsWindow == RingOK => QueueOK
<1> SUFFICES ASSUME RingOK PROVE QueueOK
  OBVIOUS
<1>1. thread_count \in 0 .. max_threads - 1
  BY CountPositive
<1>2. ASSUME NEW k \in 1 .. thread_count
      PROVE  Position(thread_read_idx, k) \in Slots /\ InWindow(Position(thread_read_idx, k))
  <2>1. k \in 1 .. max_threads
    BY <1>1, MaxThreadsAssumption
  <2> QED BY <2>1, PositionValue, MaxThreadsAssumption DEF RingOK, Slots, thread_count, InWindow
<1>3. /\ Queue = [k \in 1 .. thread_count |-> thread_buffer[Position(thread_read_idx, k)]]
      /\ thread_count \in Nat
  BY <1>1, MaxThreadsAssumption DEF Queue, Position
<1>4. \A k \in 1 .. thread_count : thread_buffer[Position(thread_read_idx, k)] \in Threads \cup {NULL}
  BY <1>2 DEF RingOK
<1>5. Queue \in Seq(Threads \cup {NULL}) /\ Len(Queue) = thread_count
  BY <1>3, <1>4
<1>6. \A k \in 1 .. thread_count :
        Queue[k] = thread_buffer[Position(thread_read_idx, k)] /\ Queue[k] \in Ringed
  BY <1>2, <1>3 DEF Ringed
<1> QED BY <1>1, <1>2, <1>5, <1>6 DEF QueueOK

LEMMA QueueIsWindowNext == RingOK' => QueueOK'
BY QueueIsWindow, PTL

\* add_thread appends to the queue.
LEMMA AddAppends ==
  ASSUME RingOK, NEW t \in Threads, add_thread(t)
  PROVE  Queue' = Append(Queue, t) /\ Len(Queue) < max_threads - 1
<1>1. /\ RingOK' /\ thread_count' = thread_count + 1
      /\ thread_buffer'[thread_write_idx] = t
      /\ \A s \in Slots : InWindow(s) => thread_buffer'[s] = thread_buffer[s]
      /\ thread_read_idx' = thread_read_idx
  BY AddThread DEF add_thread
<1>2. QueueOK /\ QueueOK'
  BY <1>1, QueueIsWindow, QueueIsWindowNext
<1>3. /\ thread_count \in 0 .. max_threads - 1
      /\ thread_count + 1 \in 0 .. max_threads - 1
      /\ Len(Queue) = thread_count /\ Len(Queue') = thread_count + 1
      /\ Queue \in Seq(Threads \cup {NULL}) /\ Queue' \in Seq(Threads \cup {NULL})
  BY <1>1, <1>2 DEF QueueOK
<1>4. \A k \in 1 .. thread_count : Queue'[k] = Queue[k]
  BY <1>1, <1>2, <1>3 DEF QueueOK
<1>5. Position(thread_read_idx, thread_count + 1) = thread_write_idx
  <2>1. thread_count + 1 \in 1 .. max_threads
    BY <1>3, MaxThreadsAssumption
  <2>2. Position(thread_read_idx, thread_count + 1) =
          IF thread_read_idx + (thread_count + 1) - 1 < max_threads
          THEN thread_read_idx + (thread_count + 1) - 1
          ELSE thread_read_idx + (thread_count + 1) - 1 - max_threads
    BY <2>1, PositionValue DEF RingOK
  <2> QED BY <2>2, MaxThreadsAssumption DEF RingOK, Slots, thread_count
<1>6. Queue'[thread_count + 1] = t
  <2>1. thread_count + 1 \in 1 .. thread_count'
    BY <1>1, <1>3
  <2>2. Queue'[thread_count + 1] = thread_buffer'[Position(thread_read_idx', thread_count + 1)]
    BY <1>2, <2>1 DEF QueueOK
  <2> QED BY <1>1, <1>5, <2>2
<1>7. Queue' = Append(Queue, t)
  <2>1. /\ t \in Threads \cup {NULL}
        /\ Len(Queue') = Len(Queue) + 1
        /\ \A k \in 1 .. Len(Queue) : Queue'[k] = Queue[k]
        /\ Queue'[Len(Queue) + 1] = t
    BY <1>3, <1>4, <1>6
  <2> QED BY <1>3, <2>1, AppendIntro
<1>8. Len(Queue) < max_threads - 1
  BY <1>3, MaxThreadsAssumption
<1> QED BY <1>7, <1>8

\* remove_thread takes the head of the queue.
LEMMA RemoveTakesHead ==
  ASSUME RingOK, remove_thread
  PROVE  Queue # <<>> /\ cur' = Head(Queue) /\ Queue' = Tail(Queue)
<1>1. /\ RingOK' /\ thread_count' = thread_count - 1
      /\ cur' = thread_buffer[thread_read_idx]
      /\ \A s \in Slots : s # thread_read_idx => thread_buffer'[s] = thread_buffer[s]
      /\ thread_read_idx' = IF thread_read_idx + 1 = max_threads THEN 0 ELSE thread_read_idx + 1
  BY RemoveThread, SuccValue DEF remove_thread, RingOK
<1>2. QueueOK /\ QueueOK'
  BY <1>1, QueueIsWindow, QueueIsWindowNext
<1>3. /\ thread_count \in 1 .. max_threads - 1
      /\ Len(Queue) = thread_count /\ Len(Queue') = thread_count - 1
      /\ Queue \in Seq(Threads \cup {NULL}) /\ Queue' \in Seq(Threads \cup {NULL})
  BY <1>1, <1>2, CountPositive DEF QueueOK, remove_thread
<1>4. Position(thread_read_idx, 1) = thread_read_idx
  <2>1. Position(thread_read_idx, 1) = IF thread_read_idx + 1 - 1 < max_threads
                      THEN thread_read_idx + 1 - 1
                      ELSE thread_read_idx + 1 - 1 - max_threads
    BY PositionValue, MaxThreadsAssumption DEF RingOK
  <2> QED BY <2>1, MaxThreadsAssumption DEF RingOK, Slots
<1>5. ASSUME NEW k \in 1 .. thread_count - 1
      PROVE  Position(thread_read_idx', k) = Position(thread_read_idx, k + 1) /\ Position(thread_read_idx, k + 1) # thread_read_idx
  <2>1. k \in 1 .. max_threads /\ k + 1 \in 1 .. max_threads
    BY <1>3, MaxThreadsAssumption
  <2>2. Position(thread_read_idx', k) = IF thread_read_idx' + k - 1 < max_threads
                       THEN thread_read_idx' + k - 1
                       ELSE thread_read_idx' + k - 1 - max_threads
    BY <1>1, <2>1, PositionValue DEF RingOK
  <2>3. Position(thread_read_idx, k + 1) = IF thread_read_idx + (k + 1) - 1 < max_threads
                          THEN thread_read_idx + (k + 1) - 1
                          ELSE thread_read_idx + (k + 1) - 1 - max_threads
    BY <2>1, PositionValue DEF RingOK
  <2> QED BY <1>1, <1>3, <2>2, <2>3, MaxThreadsAssumption DEF RingOK, Slots
<1>6. \A k \in 1 .. thread_count - 1 : Queue'[k] = Queue[k + 1]
  <2> SUFFICES ASSUME NEW k \in 1 .. thread_count - 1
               PROVE  Queue'[k] = Queue[k + 1]
    OBVIOUS
  <2>1. k \in 1 .. thread_count' /\ k + 1 \in 1 .. thread_count
    BY <1>1, <1>3
  <2>2. Queue'[k] = thread_buffer'[Position(thread_read_idx', k)]
    BY <1>2, <2>1 DEF QueueOK
  <2>3. Queue[k + 1] = thread_buffer[Position(thread_read_idx, k + 1)] /\ Position(thread_read_idx, k + 1) \in Slots
    BY <1>2, <2>1 DEF QueueOK
  <2> QED BY <1>1, <1>5, <2>2, <2>3
<1>7. Queue # <<>> /\ Head(Queue) = Queue[1]
  BY <1>3
<1>8. Queue' = Tail(Queue)
  BY <1>3, <1>6, <1>7, TailIntro
<1>9. Queue[1] = thread_buffer[Position(thread_read_idx, 1)]
  BY <1>2, <1>3 DEF QueueOK
<1> QED BY <1>1, <1>4, <1>7, <1>8, <1>9

-----------------------------------------------------------------------------
(* Every step of the scheduler is a step of the run queue or none. *)

\* A new thread joins the queue behind the round, in a tick or between two.
LEMMA SpawnRefines ==
  ASSUME IInv, NEW t \in Threads, object_pool_allocate(t), add_thread(t), cur' = cur
  PROVE  RQ!Spawn(t)
<1>1. RingOK /\ pool \in Seq(Threads)
  BY DEF IInv, TypeOK, RingOK
<1>2. t \in Free /\ t \notin Ringed \cup {cur}
  BY <1>1, PoolAllocate, PartitionParts DEF IInv
<1>3. t \notin RQ!Queued
  BY <1>1, <1>2, QueueIsWindow DEF QueueOK, RQ!Queued
<1> QED BY <1>1, <1>2, <1>3, AddAppends DEF RQ!Spawn

LEMMA QuietRefines ==
  ASSUME UNCHANGED <<ring, cur>>
  PROVE  UNCHANGED <<Queue, cur>>
BY DEF Queue, thread_count, ring

LEMMA DispatchRefines ==
  ASSUME IInv, Dispatch
  PROVE  [RQ!Next]_<<Queue, cur>>
<1>0. RingOK /\ NULL \notin Threads
  BY NullAssumption DEF IInv, TypeOK, RingOK, Threads
<1>1. CASE Remove
  <2>1. cur = NULL /\ remove_thread
    BY <1>1 DEF Remove, IInv, CurInv
  <2> QED BY <1>0, <2>1, RemoveTakesHead DEF RQ!Take, RQ!Next
<1>2. CASE DispatchInactive
  <2>1. cur \in Threads /\ cur' = NULL /\ UNCHANGED ring
    BY <1>2 DEF DispatchInactive, IInv, CurInv
  <2>2. Queue' = Queue
    BY <2>1 DEF Queue, thread_count, ring
  <2> QED BY <1>0, <2>1, <2>2 DEF RQ!Retire, RQ!Next
<1>3. CASE Requeue
  <2>1. cur \in Threads
    BY <1>3 DEF Requeue, IInv, CurInv
  <2>2. CASE vm_error("ring")
    BY <2>2, QuietRefines DEF vm_error
  <2>3. CASE add_thread(cur) /\ cur' = NULL
    BY <1>0, <2>1, <2>3, AddAppends DEF RQ!PutBack, RQ!Next
  <2> QED BY <1>3, <2>2, <2>3 DEF Requeue
<1>4. CASE DispatchTime \/ DispatchFrame \/ DispatchEvent \/ DispatchNoEvent \/ DispatchActive
  BY <1>4, QuietRefines
     DEF DispatchTime, DispatchFrame, DispatchEvent, DispatchNoEvent, DispatchActive
<1> QED BY <1>1, <1>2, <1>3, <1>4 DEF Dispatch

LEMMA SpawnOrErrorRefines ==
  ASSUME IInv, gsc_call \/ OP_CALL_THREADED
  PROVE  [RQ!Next]_<<Queue, cur>>
<1>1. CASE \E t \in Threads : object_pool_allocate(t) /\ add_thread(t) /\ cur' = cur
  <2>1. PICK t \in Threads : object_pool_allocate(t) /\ add_thread(t) /\ cur' = cur
    BY <1>1
  <2> QED BY <2>1, SpawnRefines DEF RQ!Next
<1>2. CASE vm_error("pool") \/ vm_error("ring")
  BY <1>2, QuietRefines DEF vm_error
<1> QED BY <1>1, <1>2 DEF gsc_call, OP_CALL_THREADED

LEMMA StepRefines ==
  ASSUME IInv, [Next]_vars
  PROVE  [RQ!Next]_<<Queue, cur>>
<1>1. CASE Host
  <2>1. CASE gsc_call
    BY <2>1, SpawnOrErrorRefines
  <2>2. CASE (\E key \in Keys : gsc_notify(key)) \/ (\E d \in Dts : gsc_update(d))
    BY <2>2, QuietRefines DEF gsc_notify, gsc_update, vm_error
  <2> QED BY <1>1, <2>1, <2>2 DEF Host
<1>2. CASE Dispatch
  BY <1>2, DispatchRefines
<1>3. CASE Script
  <2>1. CASE OP_CALL_THREADED
    BY <2>1, SpawnOrErrorRefines
  <2>2. CASE (\E key \in Keys : OP_NOTIFY(key)) \/ (\E key \in Keys : OP_ENDON(key))
    BY <2>2, QuietRefines DEF OP_NOTIFY, OP_ENDON, vm_error
  <2>3. CASE Yield
    BY <2>3, QuietRefines DEF Yield, OP_WAIT, OP_WAIT_FRAME, OP_WAITTILL, OP_RET
  <2> QED BY <1>3, <2>1, <2>2, <2>3 DEF Script
<1>4. CASE Finish
  BY <1>4, QuietRefines DEF Finish, EndOfRound, CompactEvent, EndOfTick
<1>5. CASE Aborted \/ UNCHANGED vars
  BY <1>5, QuietRefines DEF Aborted, vars
<1> QED BY <1>1, <1>2, <1>3, <1>4, <1>5 DEF Next

LEMMA InitRefines == Init => RQ!Init
<1> SUFFICES ASSUME Init PROVE RQ!Init
  OBVIOUS
<1>1. thread_count = 0
  BY DEF Init, thread_count
<1>2. Queue = <<>>
  BY <1>1 DEF Queue
<1> QED BY <1>2 DEF Init, RQ!Init

-----------------------------------------------------------------------------
(* The events.  u gathers the items of the places in M, in their order:      *)
(* Pending is such a sequence, before and after each step.                   *)

Gathers(u, n, M, item) ==
  /\ u[0] = <<>>
  /\ \A k \in 1 .. n : u[k] = IF k \in M THEN Append(u[k - 1], item[k]) ELSE u[k - 1]

LEMMA PendingGathers == events \in Seq(VMEvent) => Gathers(PendingUpto, event_count, Counted, Sent)
<1> SUFFICES ASSUME events \in Seq(VMEvent)
             PROVE  Gathers(PendingUpto, event_count, Counted, Sent)
  OBVIOUS
<1>1. event_count \in Nat /\ 0 \in Int /\ event_count \in Int /\ 0 <= event_count
  BY DEF event_count
<1> DEFINE V == {Sent[k] : k \in 0 .. event_count}
           D == Seq(V)
           Longer(k, s) == IF k \in Counted THEN Append(s, Sent[k]) ELSE s
           step == [x \in (0 .. event_count) \X D |-> Longer(x[1], x[2])]
           Body(w) == [k \in 0 .. event_count |->
                         IF k = 0 THEN <<>>
                         ELSE IF k \in Counted THEN Append(w[k - 1], Sent[k]) ELSE w[k - 1]]
<1>2. \A k \in 0 .. event_count, s \in D : Longer(k, s) \in D
  <2> SUFFICES ASSUME NEW k \in 0 .. event_count, NEW s \in D PROVE Append(s, Sent[k]) \in D
    OBVIOUS
  <2>1. Sent[k] \in V
    OBVIOUS
  <2> HIDE DEF V
  <2> QED BY <2>1
<1>3. <<>> \in D /\ step \in [(0 .. event_count) \X D -> D]
  <2>1. <<>> \in D
    OBVIOUS
  <2> HIDE DEF D, Longer
  <2> QED BY <1>2, <2>1
<1>4. PICK w : Computes(w, 0, event_count, D, <<>>, step)
  <2> HIDE DEF D, step
  <2> QED BY <1>1, <1>3, Recursion
<1>5. w \in [0 .. event_count -> D] /\ w[0] = <<>>
  <2> HIDE DEF D, step
  <2> QED BY <1>1, <1>4 DEF Computes
<1>6. ASSUME NEW k \in 0 .. event_count, k # 0 PROVE w[k] = Longer(k, w[k - 1])
  <2>1. k - 1 \in 0 .. event_count
    BY <1>1, <1>6
  <2> HIDE DEF D, Longer
  <2>2. w[k - 1] \in D
    BY <1>5, <2>1
  <2>3. step[<<k, w[k - 1]>>] = Longer(k, w[k - 1])
    BY <2>2
  <2> HIDE DEF step
  <2> QED BY <1>4, <1>6, <2>3 DEF Computes
<1>7. w = Body(w)
  <2>1. \A k \in 0 .. event_count : w[k] = Body(w)[k]
    BY <1>5, <1>6
  <2>2. Body(w) = [k \in 0 .. event_count |-> Body(w)[k]]
    OBVIOUS
  <2>3. w = [k \in 0 .. event_count |-> w[k]]
    <3> HIDE DEF D
    <3> QED BY <1>5
  <2> HIDE DEF Body
  <2> QED BY <2>1, <2>2, <2>3
<1>8. PendingUpto = Body(PendingUpto)
  BY <1>7 DEF PendingUpto
<1>9. PendingUpto[0] = <<>>
  BY <1>1, <1>8
<1>10. ASSUME NEW k \in 1 .. event_count
       PROVE  PendingUpto[k] = IF k \in Counted THEN Append(PendingUpto[k - 1], Sent[k])
                               ELSE PendingUpto[k - 1]
  <2>1. k \in 0 .. event_count /\ k # 0
    BY <1>1
  <2> QED BY <1>8, <2>1
<1> QED BY <1>9, <1>10 DEF Gathers

LEMMA PendingGathersNext ==
  events' \in Seq(VMEvent) => Gathers(PendingUpto', event_count', Counted', Sent')
<1>1. (events \in Seq(VMEvent) => Gathers(PendingUpto, event_count, Counted, Sent))'
  BY PendingGathers, PTL
<1> QED BY <1>1 DEF Gathers

\* Where the same places are gathered, the same is added.
LEMMA GathersAlike ==
  ASSUME NEW u, NEW v, NEW n \in Nat, NEW m \in Nat, NEW M, NEW L, NEW x, NEW y,
         Gathers(u, n, M, x), Gathers(v, m, L, y),
         NEW a \in Nat, NEW b \in Nat, a <= b, b <= n, b <= m,
         u[a] = v[a],
         \A k \in a + 1 .. b : (k \in M <=> k \in L) /\ (k \in M => x[k] = y[k])
  PROVE  u[b] = v[b]
<1> DEFINE T == {k \in a .. b : u[k] = v[k]}
<1>1. a \in T
  OBVIOUS
<1>2. ASSUME NEW k \in a .. b, k # a, k - 1 \in T PROVE k \in T
  <2>1. k \in a + 1 .. b /\ k \in 1 .. n /\ k \in 1 .. m /\ u[k - 1] = v[k - 1]
    BY <1>2
  <2> QED BY <2>1 DEF Gathers
<1> HIDE DEF T
<1>3. a .. b \subseteq T
  BY <1>1, <1>2, IntervalInduction
<1>4. b \in T
  BY <1>3
<1> QED BY <1>4 DEF T

\* Where no place is gathered, nothing is added.
LEMMA GathersNothing ==
  ASSUME NEW u, NEW n \in Nat, NEW M, NEW x, Gathers(u, n, M, x),
         NEW a \in Nat, NEW b \in Nat, a <= b, b <= n,
         \A k \in a + 1 .. b : k \notin M
  PROVE  u[b] = u[a]
<1> DEFINE T == {k \in a .. b : u[k] = u[a]}
<1>1. a \in T
  OBVIOUS
<1>2. ASSUME NEW k \in a .. b, k # a, k - 1 \in T PROVE k \in T
  <2>1. k \in a + 1 .. b /\ k \in 1 .. n /\ u[k - 1] = u[a]
    BY <1>2
  <2> QED BY <2>1 DEF Gathers
<1> HIDE DEF T
<1>3. a .. b \subseteq T
  BY <1>1, <1>2, IntervalInduction
<1>4. b \in T
  BY <1>3
<1> QED BY <1>4 DEF T

\* What is gathered are items of the places, no more than there are places.
GathersOK(u, k, M, x, D) ==
  /\ u[k] \in Seq(D) /\ Len(u[k]) <= k
  /\ \A p \in 1 .. Len(u[k]) : \E l \in 1 .. k : l \in M /\ u[k][p] = x[l]

LEMMA GathersTyped ==
  ASSUME NEW u, NEW n \in Nat, NEW M, NEW x, NEW D, Gathers(u, n, M, x),
         \A k \in 1 .. n : x[k] \in D
  PROVE  \A k \in 0 .. n : GathersOK(u, k, M, x, D)
<1> DEFINE T == {k \in 0 .. n : GathersOK(u, k, M, x, D)}
<1>1. 0 \in T
  <2>1. u[0] = <<>> /\ <<>> \in Seq(D) /\ Len(<<>>) = 0 /\ 1 .. 0 = {}
    BY DEF Gathers
  <2>2. u[0] \in Seq(D) /\ Len(u[0]) = 0 /\ 1 .. Len(u[0]) = {}
    BY <2>1
  <2> QED BY <2>2 DEF GathersOK
<1>2. ASSUME NEW k \in 0 .. n, k # 0, k - 1 \in T PROVE k \in T
  <2>1. /\ k \in 1 .. n /\ x[k] \in D /\ 1 .. k = (1 .. k - 1) \cup {k}
        /\ GathersOK(u, k - 1, M, x, D)
    BY <1>2
  <2>2. PICK s : s = u[k - 1]
    OBVIOUS
  <2>3. /\ s \in Seq(D) /\ Len(s) <= k - 1 /\ Len(s) \in Nat
        /\ \A p \in 1 .. Len(s) : \E l \in 1 .. k - 1 : l \in M /\ s[p] = x[l]
    BY <2>1, <2>2 DEF GathersOK
  <2>4. CASE k \in M
    <3>1. u[k] = Append(s, x[k])
      BY <2>1, <2>2, <2>4 DEF Gathers
    <3>2. /\ u[k] \in Seq(D) /\ Len(u[k]) = Len(s) + 1
          /\ \A p \in 1 .. Len(s) : u[k][p] = s[p]
          /\ u[k][Len(s) + 1] = x[k]
      BY <2>1, <2>3, <3>1, AppendProperties
    <3>3. ASSUME NEW p \in 1 .. Len(u[k]) PROVE \E l \in 1 .. k : l \in M /\ u[k][p] = x[l]
      <4>1. CASE p = Len(s) + 1
        BY <2>1, <2>4, <3>2, <4>1
      <4>2. CASE p # Len(s) + 1
        <5>1. p \in 1 .. Len(s)
          BY <2>3, <3>2, <4>2
        <5> QED BY <2>1, <2>3, <3>2, <5>1
      <4> QED BY <4>1, <4>2
    <3>4. Len(u[k]) <= k
      BY <2>3, <3>2
    <3> QED BY <3>2, <3>3, <3>4 DEF GathersOK
  <2>5. CASE k \notin M
    <3>1. u[k] = s
      BY <2>1, <2>2, <2>5 DEF Gathers
    <3>2. Len(s) <= k
      BY <2>3
    <3> QED BY <2>1, <2>3, <3>1, <3>2 DEF GathersOK
  <2> QED BY <2>4, <2>5
<1> HIDE DEF T
<1>3. 0 .. n \subseteq T
  BY <1>1, <1>2, IntervalInduction
<1> QED BY <1>3 DEF T

-----------------------------------------------------------------------------
(* Taking a notification out of the middle. *)

LEMMA WithoutIs ==
  ASSUME NEW D, NEW s \in Seq(D), NEW p \in 1 .. Len(s)
  PROVE  /\ EB!Without(s, p) \in Seq(D) /\ Len(EB!Without(s, p)) = Len(s) - 1
         /\ \A q \in 1 .. p - 1 : EB!Without(s, p)[q] = s[q]
         /\ \A q \in p .. Len(s) - 1 : EB!Without(s, p)[q] = s[q + 1]
<1> DEFINE a == SubSeq(s, 1, p - 1)
           b == SubSeq(s, p + 1, Len(s))
<1>0. Len(s) \in Nat /\ p \in Nat /\ \A q \in 1 .. Len(s) : s[q] \in D
  OBVIOUS
<1>1. /\ a \in Seq(D) /\ Len(a) = p - 1
      /\ \A q \in 1 .. p - 1 : a[q] = s[q]
  <2>1. 1 \in Int /\ p - 1 \in Int /\ \A q \in 1 .. p - 1 : s[q] \in D
    BY <1>0
  <2>2. /\ a \in Seq(D) /\ Len(a) = IF 1 <= p - 1 THEN (p - 1) - 1 + 1 ELSE 0
        /\ \A q \in 1 .. (p - 1) - 1 + 1 : a[q] = s[1 + q - 1]
    BY <2>1, SubSeqProperties
  <2> HIDE DEF a
  <2> QED BY <1>0, <2>2
<1>2. /\ b \in Seq(D) /\ Len(b) = Len(s) - p
      /\ \A q \in 1 .. Len(s) - p : b[q] = s[p + q]
  <2>1. p + 1 \in Int /\ Len(s) \in Int /\ \A q \in p + 1 .. Len(s) : s[q] \in D
    BY <1>0
  <2>2. /\ b \in Seq(D) /\ Len(b) = IF p + 1 <= Len(s) THEN Len(s) - (p + 1) + 1 ELSE 0
        /\ \A q \in 1 .. Len(s) - (p + 1) + 1 : b[q] = s[(p + 1) + q - 1]
    BY <2>1, SubSeqProperties
  <2> HIDE DEF b
  <2>3. \A q \in 1 .. Len(s) - p : q \in 1 .. Len(s) - (p + 1) + 1 /\ (p + 1) + q - 1 = p + q
    BY <1>0
  <2> QED BY <1>0, <2>2, <2>3
<1>3. EB!Without(s, p) = a \o b
  BY DEF EB!Without
<1> HIDE DEF a, b
<1>4. /\ a \o b \in Seq(D) /\ Len(a \o b) = Len(a) + Len(b)
      /\ \A q \in 1 .. Len(a) + Len(b) : (a \o b)[q] = IF q <= Len(a) THEN a[q] ELSE b[q - Len(a)]
  BY <1>1, <1>2, ConcatProperties
<1>5. ASSUME NEW q \in 1 .. p - 1 PROVE (a \o b)[q] = s[q]
  BY <1>0, <1>1, <1>2, <1>4
<1>6. ASSUME NEW q \in p .. Len(s) - 1 PROVE (a \o b)[q] = s[q + 1]
  <2>1. q \in 1 .. Len(a) + Len(b) /\ ~(q <= Len(a)) /\ q - Len(a) \in 1 .. Len(s) - p
    BY <1>0, <1>1, <1>2
  <2>2. (a \o b)[q] = b[q - Len(a)] /\ b[q - Len(a)] = s[p + (q - Len(a))]
    BY <1>2, <1>4, <2>1
  <2>3. p + (q - Len(a)) = q + 1
    BY <1>0, <1>1
  <2> QED BY <2>2, <2>3
<1>7. Len(a \o b) = Len(s) - 1
  BY <1>0, <1>1, <1>2, <1>4
<1> QED BY <1>3, <1>4, <1>5, <1>6, <1>7

LEMMA WithoutAppend ==
  ASSUME NEW D, NEW s \in Seq(D), NEW e \in D, NEW p \in 1 .. Len(s)
  PROVE  EB!Without(Append(s, e), p) = Append(EB!Without(s, p), e)
<1>1. PICK w : w = EB!Without(s, p)
  OBVIOUS
<1>2. PICK t : t = Append(s, e)
  OBVIOUS
<1>3. PICK v : v = EB!Without(t, p)
  OBVIOUS
<1>4. /\ w \in Seq(D) /\ Len(w) = Len(s) - 1 /\ Len(s) \in Nat
      /\ \A q \in 1 .. p - 1 : w[q] = s[q]
      /\ \A q \in p .. Len(s) - 1 : w[q] = s[q + 1]
  BY <1>1, WithoutIs
<1>5. /\ t \in Seq(D) /\ Len(t) = Len(s) + 1
      /\ \A q \in 1 .. Len(s) : t[q] = s[q]
      /\ t[Len(s) + 1] = e
  BY <1>2, AppendProperties
<1>6. p \in 1 .. Len(t)
  BY <1>4, <1>5
<1>7. /\ v \in Seq(D) /\ Len(v) = Len(t) - 1
      /\ \A q \in 1 .. p - 1 : v[q] = t[q]
      /\ \A q \in p .. Len(t) - 1 : v[q] = t[q + 1]
  BY <1>3, <1>5, <1>6, WithoutIs
<1>8. ASSUME NEW q \in 1 .. Len(w) PROVE v[q] = w[q]
  <2>1. CASE q \in 1 .. p - 1
    BY <1>4, <1>5, <1>7, <2>1
  <2>2. CASE q \notin 1 .. p - 1
    <3>1. q \in p .. Len(s) - 1 /\ q \in p .. Len(t) - 1 /\ q + 1 \in 1 .. Len(s)
      BY <1>4, <1>5, <2>2
    <3> QED BY <1>4, <1>5, <1>7, <3>1
  <2> QED BY <2>1, <2>2
<1>9. Len(v) = Len(w) + 1 /\ v[Len(w) + 1] = e
  <2>1. Len(w) + 1 = Len(s) /\ Len(s) \in p .. Len(t) - 1
    BY <1>4, <1>5
  <2> QED BY <1>4, <1>5, <1>7, <2>1
<1>10. v = Append(w, e)
  BY <1>4, <1>7, <1>8, <1>9, AppendIntro
<1> QED BY <1>1, <1>2, <1>3, <1>10

LEMMA WithoutLast ==
  ASSUME NEW D, NEW s \in Seq(D), NEW e \in D
  PROVE  EB!Without(Append(s, e), Len(s) + 1) = s
<1>1. PICK t : t = Append(s, e)
  OBVIOUS
<1>2. /\ t \in Seq(D) /\ Len(t) = Len(s) + 1 /\ Len(s) \in Nat
      /\ \A q \in 1 .. Len(s) : t[q] = s[q]
  BY <1>1, AppendProperties
<1>3. PICK p : p = Len(s) + 1
  OBVIOUS
<1>4. p \in 1 .. Len(t)
  BY <1>2, <1>3
<1>5. PICK v : v = EB!Without(t, p)
  OBVIOUS
<1>6. /\ v \in Seq(D) /\ Len(v) = Len(t) - 1
      /\ \A q \in 1 .. p - 1 : v[q] = t[q]
  BY <1>2, <1>4, <1>5, WithoutIs
<1>7. v = s
  <2>1. Len(v) = Len(s) /\ \A q \in 1 .. Len(s) : v[q] = s[q]
    BY <1>2, <1>3, <1>6
  <2> QED BY <1>6, <2>1, SeqEqual
<1> QED BY <1>1, <1>3, <1>5, <1>7

TakesOut(u, v, n, M, x, e) ==
  \E p \in 1 .. Len(u[n]) :
    /\ u[n][p] = x[e]
    /\ \A q \in 1 .. p - 1 : \E l \in 1 .. e - 1 : l \in M /\ u[n][q] = x[l]
    /\ v[n] = EB!Without(u[n], p)

\* Gathering one place less takes its item out, behind the items before it.
LEMMA GathersWithout ==
  ASSUME NEW u, NEW v, NEW n \in Nat, NEW M, NEW x, NEW D, NEW e \in 1 .. n, e \in M,
         Gathers(u, n, M, x), Gathers(v, n, M \ {e}, x), \A k \in 1 .. n : x[k] \in D
  PROVE  TakesOut(u, v, n, M, x, e)
<1>0. /\ e - 1 \in 0 .. n /\ e \in Nat /\ x[e] \in D
      /\ GathersOK(u, e - 1, M, x, D) /\ \A k \in 0 .. n : u[k] \in Seq(D)
  <2>1. e - 1 \in 0 .. n /\ e \in Nat /\ x[e] \in D
    OBVIOUS
  <2>2. \A k \in 0 .. n : GathersOK(u, k, M, x, D)
    BY GathersTyped
  <2>3. \A k \in 0 .. n : u[k] \in Seq(D)
    BY <2>2 DEF GathersOK
  <2> QED BY <2>1, <2>2, <2>3
<1>1. PICK s : s = u[e - 1]
  OBVIOUS
<1>2. /\ s \in Seq(D) /\ Len(s) \in Nat
      /\ \A q \in 1 .. Len(s) : \E l \in 1 .. e - 1 : l \in M /\ s[q] = x[l]
  BY <1>0, <1>1 DEF GathersOK
<1>3. v[e - 1] = s
  <2>1. 0 \in Nat /\ e - 1 \in Nat /\ 0 <= e - 1 /\ e - 1 <= n /\ u[0] = v[0]
    BY <1>0 DEF Gathers
  <2>2. \A k \in 0 + 1 .. e - 1 : (k \in M <=> k \in M \ {e}) /\ (k \in M => x[k] = x[k])
    BY <1>0
  <2> QED BY <1>1, <2>1, <2>2, GathersAlike
<1>4. v[e] = s /\ u[e] = Append(s, x[e])
  BY <1>1, <1>3 DEF Gathers
<1>5. PICK p : p = Len(s) + 1
  OBVIOUS
<1>6. PICK t : t = u[e]
  OBVIOUS
<1>7. /\ t \in Seq(D) /\ Len(t) = p /\ p \in Nat \ {0}
      /\ \A q \in 1 .. p - 1 : t[q] = s[q]
      /\ t[p] = x[e]
  BY <1>0, <1>2, <1>4, <1>5, <1>6, AppendProperties
<1>8. v[e] = EB!Without(t, p)
  BY <1>0, <1>2, <1>4, <1>5, <1>6, WithoutLast
<1> DEFINE P(k) == /\ p <= Len(u[k]) /\ v[k] = EB!Without(u[k], p)
                   /\ \A q \in 1 .. p : u[k][q] = t[q]
           T == {k \in e .. n : P(k)}
<1>9. e \in T
  <2>1. e \in e .. n
    BY <1>0
  <2>2. P(e)
    BY <1>6, <1>7, <1>8
  <2> HIDE DEF P
  <2> QED BY <2>1, <2>2
<1>10. ASSUME NEW k \in e .. n, k # e, k - 1 \in T PROVE k \in T
  <2>1. /\ k \in 1 .. n /\ k - 1 \in 0 .. n /\ (k \in M \ {e} <=> k \in M) /\ x[k] \in D
        /\ P(k - 1)
    BY <1>0, <1>10
  <2>2. PICK r \in Seq(D) : r = u[k - 1]
    BY <1>0, <2>1
  <2>3. p <= Len(r) /\ v[k - 1] = EB!Without(r, p) /\ (\A q \in 1 .. p : r[q] = t[q]) /\ Len(r) \in Nat
    BY <2>1, <2>2
  <2>4. CASE k \in M
    <3>1. u[k] = Append(r, x[k]) /\ v[k] = Append(EB!Without(r, p), x[k])
      BY <2>1, <2>2, <2>3, <2>4 DEF Gathers
    <3>2. Len(u[k]) = Len(r) + 1 /\ \A q \in 1 .. Len(r) : u[k][q] = r[q]
      BY <2>1, <3>1, AppendProperties
    <3>3. v[k] = EB!Without(u[k], p)
      <4>1. p \in 1 .. Len(r)
        BY <1>7, <2>3
      <4> QED BY <2>1, <3>1, <4>1, WithoutAppend
    <3>4. p <= Len(u[k]) /\ \A q \in 1 .. p : u[k][q] = t[q]
      <4>1. p \in Nat /\ \A q \in 1 .. p : q \in 1 .. Len(r)
        BY <1>7, <2>3
      <4>2. p <= Len(u[k])
        BY <2>3, <3>2, <4>1
      <4> QED BY <2>3, <3>2, <4>1, <4>2
    <3>5. P(k)
      BY <3>3, <3>4
    <3> HIDE DEF P
    <3> QED BY <3>5
  <2>5. CASE k \notin M
    <3>1. u[k] = r /\ v[k] = EB!Without(r, p)
      BY <2>1, <2>2, <2>3, <2>5 DEF Gathers
    <3>2. P(k)
      BY <2>3, <3>1
    <3> HIDE DEF P
    <3> QED BY <3>2
  <2> QED BY <2>4, <2>5
<1> HIDE DEF T
<1>11. e .. n \subseteq T
  <2>1. e \in Int /\ n \in Int /\ \A k \in e .. n : k # e /\ k - 1 \in T => k \in T
    BY <1>10
  <2> QED BY <1>9, <2>1, IntervalInduction
<1>12. P(n)
  <2>1. n \in T
    BY <1>0, <1>11
  <2> QED BY <2>1 DEF T
<1>13. p \in 1 .. Len(u[n]) /\ u[n][p] = x[e]
  <2>1. Len(u[n]) \in Nat
    BY <1>0
  <2> QED BY <1>7, <1>12, <2>1
<1>14. ASSUME NEW q \in 1 .. p - 1 PROVE \E l \in 1 .. e - 1 : l \in M /\ u[n][q] = x[l]
  <2>1. q \in 1 .. p /\ q \in 1 .. Len(s)
    BY <1>2, <1>5
  <2>2. u[n][q] = s[q]
    BY <1>7, <1>12, <2>1
  <2> QED BY <1>2, <2>1, <2>2
<1> QED BY <1>12, <1>13, <1>14 DEF TakesOut

-----------------------------------------------------------------------------
(* Every step of the scheduler is a step of the event board or none. *)

LEMMA EventsTyped ==
  ASSUME IInv
  PROVE  /\ events \in Seq(VMEvent) /\ event_count \in Nat
         /\ Gathers(PendingUpto, event_count, Counted, Sent)
         /\ Counted \subseteq 1 .. event_count
         /\ \A k \in 1 .. event_count : Sent[k] \in Keys
         /\ j \in Nat \ {0} /\ write \in Nat /\ write < j /\ j <= event_count + 1
<1>1. events \in Seq(VMEvent) /\ event_count \in Nat
  BY DEF IInv, TypeOK, event_count
<1>2. Gathers(PendingUpto, event_count, Counted, Sent)
  BY <1>1, PendingGathers
<1>3. ASSUME NEW k \in 1 .. event_count PROVE Sent[k] \in Keys
  <2>1. events[k] \in VMEvent
    BY <1>1 DEF event_count
  <2>2. events[k].name \in Names /\ events[k].object \in Objects
    BY <2>1 DEF VMEvent
  <2> QED BY <2>2 DEF Sent, Keys
<1>4. Counted \subseteq 1 .. event_count
  BY DEF Counted
<1> QED BY <1>1, <1>2, <1>3, <1>4 DEF IInv, TypeOK, CompactInv

LEMMA EventsTypedNext ==
  ASSUME IInv'
  PROVE  /\ events' \in Seq(VMEvent) /\ event_count' \in Nat
         /\ Gathers(PendingUpto', event_count', Counted', Sent')
<1>1. events' \in Seq(VMEvent) /\ event_count' \in Nat
  BY DEF IInv, TypeOK, event_count
<1> QED BY <1>1, PendingGathersNext

\* The same events in the same state of the compaction.
LEMMA SamePending ==
  ASSUME IInv, IInv', event_count' = event_count, Sent' = Sent, Counted' = Counted
  PROVE  Pending' = Pending
<1>1. /\ event_count \in Nat
      /\ Gathers(PendingUpto, event_count, Counted, Sent)
      /\ Gathers(PendingUpto', event_count, Counted, Sent)
  BY EventsTyped, EventsTypedNext
<1>2. 0 \in Nat /\ 0 <= event_count /\ PendingUpto[0] = PendingUpto'[0]
  BY <1>1 DEF Gathers
<1>3. \A k \in 0 + 1 .. event_count :
        (k \in Counted <=> k \in Counted) /\ (k \in Counted => Sent[k] = Sent[k])
  OBVIOUS
<1>4. PendingUpto[event_count] = PendingUpto'[event_count]
  BY <1>1, <1>2, <1>3, GathersAlike
<1> QED BY <1>4 DEF Pending

LEMMA EventsKept ==
  ASSUME IInv, IInv', UNCHANGED <<events, compact>>
  PROVE  Pending' = Pending
BY SamePending DEF Counted, Sent, event_count, compact

\* What each thread waits for, as a function of its state and its key.
LEMMA SameAwaiting ==
  ASSUME \A t \in Threads :
           \/ state'[t] = state[t] /\ waittill'[t] = waittill[t]
           \/ state'[t] # "WAITING_EVENT" /\ state[t] # "WAITING_EVENT"
  PROVE  Awaiting' = Awaiting
BY DEF Awaiting, Threads, NoKey

LEMMA OtherAwaiting ==
  ASSUME NEW t \in Threads, NEW key,
         \A u \in Threads : u # t => state'[u] = state[u] /\ waittill'[u] = waittill[u],
         IF state'[t] = "WAITING_EVENT" THEN waittill'[t] = key ELSE key = NoKey
  PROVE  Awaiting' = [Awaiting EXCEPT ![t] = key]
BY DEF Awaiting, Threads, NoKey

LEMMA PostRefines ==
  ASSUME IInv, IInv', NEW key \in Keys, Posts(key)
  PROVE  EB!Post(key)
<1>1. /\ events \in Seq(VMEvent) /\ event_count \in Nat /\ event_count < MaxEvents
      /\ Gathers(PendingUpto, event_count, Counted, Sent)
      /\ Gathers(PendingUpto', event_count', Counted', Sent')
      /\ \A k \in 1 .. event_count : Sent[k] \in Keys
      /\ j = 1 /\ write = 0 /\ j' = 1 /\ write' = 0
  BY EventsTyped, EventsTypedNext, CompactIdle DEF Posts, compact
<1>2. Event(key) \in VMEvent /\ Event(key).active
      /\ key = [name |-> Event(key).name, object |-> Event(key).object]
  BY DEF Event, VMEvent, Keys
<1>3. /\ event_count' = event_count + 1
      /\ \A k \in 1 .. event_count : events'[k] = events[k]
      /\ events'[event_count + 1] = Event(key)
  BY <1>1, <1>2, AppendProperties DEF Posts, event_count
<1>4. \A k \in 1 .. event_count : (k \in Counted <=> k \in Counted') /\ Sent[k] = Sent'[k]
  BY <1>1, <1>3 DEF Counted, Sent
<1>5. event_count + 1 \in Counted' /\ Sent'[event_count + 1] = key
  BY <1>1, <1>2, <1>3 DEF Counted, Sent
<1>6. PendingUpto[event_count] = PendingUpto'[event_count]
  <2>1. 0 \in Nat /\ 0 <= event_count /\ event_count <= event_count'
        /\ PendingUpto[0] = PendingUpto'[0] /\ event_count' \in Nat
    BY <1>1, <1>3 DEF Gathers
  <2>2. \A k \in 0 + 1 .. event_count :
          (k \in Counted <=> k \in Counted') /\ (k \in Counted => Sent[k] = Sent'[k])
    BY <1>4
  <2> QED BY <1>1, <2>1, <2>2, GathersAlike
<1>7. Pending' = Append(Pending, key)
  <2>1. event_count + 1 \in 1 .. event_count' /\ (event_count + 1) - 1 = event_count
    BY <1>1, <1>3
  <2>2. PendingUpto'[event_count + 1] = Append(PendingUpto'[event_count], key)
    BY <1>1, <1>5, <2>1 DEF Gathers
  <2> QED BY <1>3, <1>6, <2>2 DEF Pending
<1>8. Len(Pending) < MaxEvents
  <2>1. GathersOK(PendingUpto, event_count, Counted, Sent, Keys)
    BY <1>1, GathersTyped
  <2>2. Len(Pending) <= event_count /\ Len(Pending) \in Nat
    BY <2>1 DEF GathersOK, Pending
  <2> QED BY <1>1, <2>2, BoundsAssumption
<1>9. Awaiting' = Awaiting
  BY SameAwaiting DEF Posts, threadvars
<1> QED BY <1>7, <1>8, <1>9 DEF EB!Post

LEMMA BlockRefines ==
  ASSUME IInv, IInv', RunInv, NEW key \in Keys, Blocks(key)
  PROVE  EB!Block(cur, key) /\ cur \in Threads
<1>1. /\ cur \in Threads /\ state[cur] = "ACTIVE" /\ Pending' = Pending
      /\ state \in [Threads -> States] /\ waittill \in [Threads -> Keys \cup {NoKey}]
  BY EventsKept DEF Blocks, IInv, TypeOK, CurInv, RunInv
<1>2. Awaiting[cur] = NoKey
  BY <1>1 DEF Awaiting
<1>3. Awaiting' = [Awaiting EXCEPT ![cur] = key]
  BY <1>1, OtherAwaiting DEF Blocks
<1> QED BY <1>1, <1>2, <1>3 DEF EB!Block

\* A blocked thread that is stopped waits no longer; what it waited for stays.
LEMMA StopRefines ==
  ASSUME IInv, IInv', DispatchInactive
  PROVE  (EB!Stop(cur) /\ cur \in Threads) \/ UNCHANGED <<Pending, Awaiting>>
<1>1. /\ cur \in Threads /\ Pending' = Pending
      /\ state \in [Threads -> States] /\ waittill \in [Threads -> Keys \cup {NoKey}]
  BY EventsKept DEF DispatchInactive, IInv, TypeOK, CurInv
<1>2. Awaiting' = [Awaiting EXCEPT ![cur] = NoKey]
  BY <1>1, OtherAwaiting DEF DispatchInactive, object_pool_deallocate, Cleared
<1>3. CASE Awaiting[cur] = NoKey
  <2>1. Awaiting' = Awaiting
    BY <1>1, <1>2, <1>3 DEF Awaiting
  <2> QED BY <1>1, <2>1
<1> QED BY <1>1, <1>2, <1>3 DEF EB!Stop

\* The first match of the scan is the oldest pending notification of the key.
LEMMA DeliverRefines ==
  ASSUME IInv, IInv', DispatchEvent
  PROVE  EB!Deliver(cur) /\ cur \in Threads
<1>1. /\ cur \in Threads /\ state[cur] = "WAITING_EVENT"
      /\ state \in [Threads -> States] /\ waittill \in [Threads -> Keys \cup {NoKey}]
  BY DEF DispatchEvent, IInv, TypeOK, CurInv
<1>2. PICK e \in 1 .. event_count :
        FirstMatch(e, cur) /\ events' = [events EXCEPT ![e].active = FALSE]
  BY DEF DispatchEvent
<1>3. /\ events \in Seq(VMEvent) /\ event_count \in Nat
      /\ Gathers(PendingUpto, event_count, Counted, Sent)
      /\ Gathers(PendingUpto', event_count', Counted', Sent')
      /\ \A k \in 1 .. event_count : Sent[k] \in Keys
      /\ j = 1 /\ write = 0 /\ j' = 1 /\ write' = 0
  BY EventsTyped, EventsTypedNext, CompactIdle DEF DispatchEvent, compact
<1>4. /\ event_count' = event_count
      /\ \A k \in 1 .. event_count :
           /\ events'[k].name = events[k].name /\ events'[k].object = events[k].object
           /\ events'[k].active <=> events[k].active /\ k # e
  BY <1>2, <1>3 DEF event_count, VMEvent
<1>5. Sent' = Sent
  BY <1>4 DEF Sent
<1>6. Counted' = Counted \ {e}
  BY <1>3, <1>4 DEF Counted
<1>7. \A k \in 1 .. event_count : k \in Counted <=> events[k].active
  BY <1>3 DEF Counted
<1>8. e \in Counted
  BY <1>2, <1>7 DEF FirstMatch, Matches
<1>9. PICK p \in 1 .. Len(Pending) :
        /\ Pending[p] = Sent[e]
        /\ \A q \in 1 .. p - 1 : \E l \in 1 .. e - 1 : l \in Counted /\ Pending[q] = Sent[l]
        /\ Pending' = EB!Without(Pending, p)
  <2>1. Gathers(PendingUpto', event_count, Counted \ {e}, Sent)
    BY <1>3, <1>4, <1>5, <1>6
  <2>2. PICK u, v, n, M, x : /\ u = PendingUpto /\ v = PendingUpto' /\ n = event_count
                             /\ M = Counted /\ x = Sent
    OBVIOUS
  <2>3. /\ n \in Nat /\ e \in 1 .. n /\ e \in M
        /\ Gathers(u, n, M, x) /\ Gathers(v, n, M \ {e}, x)
        /\ \A k \in 1 .. n : x[k] \in Keys
    BY <1>3, <1>8, <2>1, <2>2
  <2>4. TakesOut(u, v, n, M, x, e)
    BY <2>3, GathersWithout
  <2>5. u[n] = Pending /\ v[n] = Pending'
    BY <1>4, <2>2 DEF Pending
  <2> QED BY <2>2, <2>4, <2>5 DEF TakesOut
<1>10. Awaiting[cur] = waittill[cur]
  BY <1>1 DEF Awaiting
<1>11. ASSUME NEW k \in 1 .. event_count
       PROVE  Sent[k] = waittill[cur] <=>
                events[k].name = waittill[cur].name /\ events[k].object = waittill[cur].object
  <2>1. waittill[cur] \in Keys \cup {NoKey}
    BY <1>1
  <2>2. PICK a, b : waittill[cur] = [name |-> a, object |-> b]
    BY <2>1 DEF Keys, NoKey
  <2> QED BY <2>2 DEF Sent
<1>12. Pending[p] = Awaiting[cur]
  BY <1>2, <1>9, <1>10, <1>11 DEF FirstMatch, Matches
<1>13. ASSUME NEW q \in 1 .. p - 1 PROVE Pending[q] # Awaiting[cur]
  <2>1. PICK l \in 1 .. e - 1 : l \in Counted /\ Pending[q] = Sent[l]
    BY <1>9
  <2>2. l \in 1 .. event_count /\ events[l].active /\ ~Matches(l, cur)
    BY <1>2, <1>3, <1>7, <2>1 DEF FirstMatch
  <2> QED BY <1>10, <1>11, <2>1, <2>2 DEF Matches
<1>14. Awaiting' = [Awaiting EXCEPT ![cur] = NoKey]
  BY <1>1, OtherAwaiting DEF DispatchEvent
<1> QED BY <1>1, <1>9, <1>12, <1>13, <1>14 DEF EB!Deliver

\* Moving an event down and cutting the rest off keeps what is pending.
LEMMA CompactionRefines ==
  ASSUME IInv, IInv', CompactEvent \/ EndOfTick
  PROVE  UNCHANGED <<Pending, Awaiting>>
<1>0. Awaiting' = Awaiting
  BY SameAwaiting DEF CompactEvent, EndOfTick, threadvars
<1>1. /\ events \in Seq(VMEvent) /\ event_count \in Nat /\ event_count' \in Nat
      /\ Gathers(PendingUpto, event_count, Counted, Sent)
      /\ Gathers(PendingUpto', event_count', Counted', Sent')
      /\ j \in Nat \ {0} /\ write \in Nat /\ write < j /\ j <= event_count + 1
  BY EventsTyped, EventsTypedNext
<1>2. PendingUpto[0] = PendingUpto'[0] /\ 0 \in Nat
  BY <1>1 DEF Gathers
<1>3. CASE CompactEvent /\ ~events[j].active
  <2>1. j' = j + 1 /\ UNCHANGED <<events, write>>
    BY <1>3 DEF CompactEvent
  <2>2. Counted' = Counted
    BY <1>1, <1>3, <2>1 DEF Counted, event_count
  <2> QED BY <1>0, <2>1, <2>2, SamePending DEF Sent, event_count
<1>4. CASE CompactEvent /\ events[j].active
  <2>1. /\ j <= event_count /\ j' = j + 1 /\ write' = write + 1
        /\ events' = [events EXCEPT ![write + 1] = events[j]]
    BY <1>4 DEF CompactEvent
  <2>2. /\ j \in 1 .. event_count /\ write + 1 \in 1 .. event_count /\ write + 1 <= j
        /\ event_count' = event_count
        /\ \A k \in 1 .. event_count : events'[k] = IF k = write + 1 THEN events[j] ELSE events[k]
    BY <1>1, <2>1 DEF event_count
  <2>3. PendingUpto[write] = PendingUpto'[write]
    <3>1. write <= event_count /\ write <= event_count' /\ 0 <= write
      BY <1>1, <2>2
    <3>2. \A k \in 0 + 1 .. write :
            (k \in Counted <=> k \in Counted') /\ (k \in Counted => Sent[k] = Sent'[k])
      BY <1>1, <2>1, <2>2 DEF Counted, Sent
    <3> QED BY <1>1, <1>2, <3>1, <3>2, GathersAlike
  <2>4. PendingUpto[j] = Append(PendingUpto[write], Sent[j])
    <3>1. j - 1 \in Nat /\ write <= j - 1 /\ j - 1 <= event_count
      BY <1>1, <2>2
    <3>2. \A k \in write + 1 .. j - 1 : k \notin Counted
      BY <1>1 DEF Counted
    <3>3. PendingUpto[j - 1] = PendingUpto[write]
      BY <1>1, <3>1, <3>2, GathersNothing
    <3>4. j \in Counted
      BY <1>1, <1>4, <2>2 DEF Counted
    <3> QED BY <1>1, <2>2, <3>3, <3>4 DEF Gathers
  <2>5. PendingUpto'[j] = Append(PendingUpto'[write], Sent[j])
    <3>1. /\ write + 1 \in Nat /\ j \in Nat /\ write + 1 <= j /\ j <= event_count'
          /\ write + 1 \in 1 .. event_count' /\ (write + 1) - 1 = write
      BY <1>1, <2>2
    <3>2. \A k \in (write + 1) + 1 .. j : k \notin Counted'
      BY <1>1, <2>1, <2>2 DEF Counted
    <3>3. PendingUpto'[j] = PendingUpto'[write + 1]
      BY <1>1, <3>1, <3>2, GathersNothing
    <3>4. write + 1 \in Counted' /\ Sent'[write + 1] = Sent[j]
      BY <1>1, <1>4, <2>1, <2>2 DEF Counted, Sent
    <3> QED BY <1>1, <3>1, <3>3, <3>4 DEF Gathers
  <2>6. PendingUpto[event_count] = PendingUpto'[event_count]
    <3>1. j \in Nat /\ j <= event_count /\ event_count <= event_count'
          /\ PendingUpto[j] = PendingUpto'[j]
      BY <1>1, <2>2, <2>3, <2>4, <2>5
    <3>2. \A k \in j + 1 .. event_count :
            (k \in Counted <=> k \in Counted') /\ (k \in Counted => Sent[k] = Sent'[k])
      BY <1>1, <2>1, <2>2 DEF Counted, Sent
    <3> QED BY <1>1, <3>1, <3>2, GathersAlike
  <2> QED BY <1>0, <2>2, <2>6 DEF Pending
<1>5. CASE EndOfTick
  <2>1. /\ j = event_count + 1 /\ j' = 1 /\ write' = 0
        /\ events' = SubSeq(events, 1, write)
    BY <1>1, <1>5 DEF EndOfTick
  <2>2. /\ write <= event_count /\ event_count' = write
        /\ \A k \in 1 .. write : events'[k] = events[k]
    BY <1>1, <2>1 DEF event_count
  <2>3. PendingUpto[write] = PendingUpto'[write]
    <3>1. write <= event_count' /\ 0 <= write
      BY <1>1, <2>2
    <3>2. \A k \in 0 + 1 .. write :
            (k \in Counted <=> k \in Counted') /\ (k \in Counted => Sent[k] = Sent'[k])
      BY <1>1, <2>1, <2>2 DEF Counted, Sent
    <3> QED BY <1>1, <1>2, <2>2, <3>1, <3>2, GathersAlike
  <2>4. PendingUpto[event_count] = PendingUpto[write]
    <3>1. \A k \in write + 1 .. event_count : k \notin Counted
      BY <1>1, <2>1 DEF Counted
    <3>2. event_count <= event_count /\ write <= event_count
      BY <1>1, <2>2
    <3> QED BY <1>1, <3>1, <3>2, GathersNothing
  <2> QED BY <1>0, <2>2, <2>3, <2>4 DEF Pending
<1> QED BY <1>3, <1>4, <1>5 DEF CompactEvent

LEMMA EventStepRefines ==
  ASSUME IInv, RunInv, IInv', [Next]_vars
  PROVE  [EB!Next]_<<Pending, Awaiting>>
<1>0. /\ state \in [Threads -> States] /\ waittill \in [Threads -> Keys \cup {NoKey}]
      /\ \A t \in Free : state[t] = "INACTIVE"
  BY DEF IInv, TypeOK, RunInv
<1>1. CASE Raises \/ UNCHANGED vars
  <2>1. UNCHANGED <<events, compact, state, waittill>>
    BY <1>1 DEF Raises, vars, threadvars
  <2> QED BY <2>1, EventsKept, SameAwaiting
<1>2. CASE Quiet
  <2>1. UNCHANGED <<events, compact>> /\ Awaiting' = Awaiting
    BY <1>2, SameAwaiting DEF Quiet
  <2> QED BY <2>1, EventsKept
<1>3. CASE DispatchInactive
  BY <1>3, StopRefines DEF EB!Next
<1>4. CASE DispatchEvent
  BY <1>4, DeliverRefines DEF EB!Next
<1>5. CASE CompactEvent \/ EndOfTick
  BY <1>5, CompactionRefines
<1>6. ASSUME NEW key \in Keys, Posts(key) PROVE [EB!Next]_<<Pending, Awaiting>>
  BY <1>6, PostRefines DEF EB!Next
<1>7. ASSUME NEW key \in Keys, Blocks(key) PROVE [EB!Next]_<<Pending, Awaiting>>
  BY <1>7, BlockRefines DEF EB!Next
<1>8. ASSUME NEW key \in Keys, Registers(key) PROVE [EB!Next]_<<Pending, Awaiting>>
  BY <1>8, EventsKept, SameAwaiting DEF Registers
<1>9. ASSUME NEW t \in Threads, Spawns(t) PROVE [EB!Next]_<<Pending, Awaiting>>
  <2>1. t \in Free /\ UNCHANGED <<events, compact>>
    BY <1>9, HandNotFree, PoolAllocate DEF Spawns
  <2>2. /\ state'[t] = "ACTIVE" /\ state[t] = "INACTIVE"
        /\ \A u \in Threads : u # t => state'[u] = state[u] /\ waittill'[u] = waittill[u]
    BY <1>0, <1>9, <2>1 DEF Spawns, object_pool_allocate, Cleared
  <2>3. \A u \in Threads :
           \/ state'[u] = state[u] /\ waittill'[u] = waittill[u]
           \/ state'[u] # "WAITING_EVENT" /\ state[u] # "WAITING_EVENT"
    BY <2>2
  <2> QED BY <2>1, <2>3, EventsKept, SameAwaiting
<1> QED BY <1>1, <1>2, <1>3, <1>4, <1>5, <1>6, <1>7, <1>8, <1>9, Steps

LEMMA EventInitRefines == Init => EB!Init
<1> SUFFICES ASSUME Init PROVE EB!Init
  OBVIOUS
<1>1. event_count = 0
  BY DEF Init, event_count
<1>2. Pending = <<>>
  BY <1>1, InitInv, EventsTyped DEF Pending, Gathers
<1>3. Awaiting = [t \in Threads |-> NoKey]
  BY DEF Init, Awaiting
<1> QED BY <1>2, <1>3 DEF EB!Init

-----------------------------------------------------------------------------
\* add_thread, remove_thread and the free list behave as a bounded first-in
\* first-out queue of max_threads - 1 places, for every max_threads.
THEOREM RefinesRunQueue == Spec => ImplementsRunQueue
<1>1. Init => RQ!Init
  BY InitRefines
<1>2. IInv /\ [Next]_vars => [RQ!Next]_<<Queue, cur>>
  BY StepRefines
<1> QED BY <1>1, <1>2, InitInv, NextInv, PTL DEF Spec, ImplementsRunQueue, RQ!Spec

\* vm_notify_args, the scan of a blocked thread and the compaction at the end
\* of a tick keep a list of notifications in the order they were sent, and a
\* thread wakes by taking the oldest one of its key: for every number of
\* threads and events, and whatever else a tick does in between.
THEOREM RefinesEventBoard == Spec => ImplementsEventBoard
<1>1. Init => IInv /\ RunInv /\ EB!Init
  BY InitInv, RunInit, EventInitRefines
<1>2. IInv /\ RunInv /\ [Next]_vars => IInv' /\ RunInv'
  <2> SUFFICES ASSUME IInv, RunInv, [Next]_vars PROVE IInv' /\ RunInv'
    OBVIOUS
  <2>1. CASE Next
    BY <2>1, NextInv, RunStep
  <2>2. CASE UNCHANGED vars
    BY <2>2, NextInv DEF RunInv, Free, vars, threadvars
  <2> QED BY <2>1, <2>2
<1>3. IInv /\ RunInv /\ [Next]_vars => [EB!Next]_<<Pending, Awaiting>>
  BY NextInv, EventStepRefines
<1> QED BY <1>1, <1>2, <1>3, PTL DEF Spec, ImplementsEventBoard, EB!Spec

-----------------------------------------------------------------------------
(* Visits and waits *)

Turn == {"dispatch", "run", "requeue"}

Front(q, n) == {q[k] : k \in 1 .. n}

\* The threads a tick still has to visit are the first of the queue: N - i of
\* them, or one fewer while one is out of the queue.  A spawned thread is
\* behind them.
DueInv ==
  /\ pc = "loop" => due = Front(Queue, N - i)
  /\ pc \in Turn => due = Front(Queue, N - i - 1)
  /\ pc \in {"host", "compact"} => due = {}

-----------------------------------------------------------------------------
(* The queue. *)

\* Each thread is in the queue at one place, and every thread of the ring is.
LEMMA QueueOnce ==
  ASSUME RingOK, WindowInjective
  PROVE  /\ \A k1, k2 \in 1 .. thread_count : Queue[k1] = Queue[k2] => k1 = k2
         /\ Ringed = Front(Queue, thread_count)
<1>0. QueueOK /\ thread_count \in 0 .. max_threads - 1
  BY QueueIsWindow DEF QueueOK
<1>1. ASSUME NEW k \in 1 .. thread_count
      PROVE  Position(thread_read_idx, k) =
               IF thread_read_idx + k - 1 < max_threads
               THEN thread_read_idx + k - 1
               ELSE thread_read_idx + k - 1 - max_threads
  <2>1. k \in 1 .. max_threads
    BY <1>0, MaxThreadsAssumption
  <2> QED BY <2>1, PositionValue DEF RingOK
<1>2. ASSUME NEW k1 \in 1 .. thread_count, NEW k2 \in 1 .. thread_count, Queue[k1] = Queue[k2]
      PROVE  k1 = k2
  <2>1. Position(thread_read_idx, k1) = Position(thread_read_idx, k2)
    BY <1>0, <1>2 DEF QueueOK, WindowInjective
  <2> QED BY <1>0, <1>1, <2>1, MaxThreadsAssumption DEF RingOK, Slots
<1>3. Front(Queue, thread_count) \subseteq Ringed
  BY <1>0 DEF QueueOK, Front
<1>4. ASSUME NEW s \in Slots, InWindow(s)
      PROVE  \E k \in 1 .. thread_count : Position(thread_read_idx, k) = s
  <2>1. CASE thread_read_idx <= s
    <3>1. s - thread_read_idx + 1 \in 1 .. thread_count
      BY <1>4, <2>1, MaxThreadsAssumption DEF RingOK, Slots, InWindow, thread_count
    <3>2. Position(thread_read_idx, s - thread_read_idx + 1) = s
      BY <1>1, <3>1, MaxThreadsAssumption DEF RingOK, Slots
    <3> QED BY <3>1, <3>2
  <2>2. CASE s < thread_read_idx
    <3>1. s - thread_read_idx + 1 + max_threads \in 1 .. thread_count
      BY <1>4, <2>2, MaxThreadsAssumption DEF RingOK, Slots, InWindow, thread_count
    <3>2. Position(thread_read_idx, s - thread_read_idx + 1 + max_threads) = s
      BY <1>1, <3>1, <2>2, MaxThreadsAssumption DEF RingOK, Slots
    <3> QED BY <3>1, <3>2
  <2> QED BY <2>1, <2>2 DEF RingOK, Slots
<1>5. Ringed \subseteq Front(Queue, thread_count)
  <2> SUFFICES ASSUME NEW s \in Slots, InWindow(s)
               PROVE  thread_buffer[s] \in Front(Queue, thread_count)
    BY DEF Ringed
  <2>1. PICK k \in 1 .. thread_count : Position(thread_read_idx, k) = s
    BY <1>4
  <2> QED BY <1>0, <2>1 DEF QueueOK, Front
<1> QED BY <1>2, <1>3, <1>5

LEMMA FrontOfAppend ==
  ASSUME NEW S, NEW q \in Seq(S), NEW t \in S, NEW n \in Int, n <= Len(q)
  PROVE  Front(Append(q, t), n) = Front(q, n)
BY AppendProperties DEF Front

LEMMA FrontOfTail ==
  ASSUME NEW S, NEW q \in Seq(S), NEW n \in 1 .. Len(q),
         \A k1, k2 \in 1 .. Len(q) : q[k1] = q[k2] => k1 = k2
  PROVE  Front(Tail(q), n - 1) = Front(q, n) \ {Head(q)} /\ Head(q) \in Front(q, n)
<1>1. /\ q # <<>> /\ Len(q) \in Nat /\ Head(q) = q[1]
      /\ \A k \in 1 .. Len(q) - 1 : Tail(q)[k] = q[k + 1]
  BY HeadTailProperties
<1>2. Head(q) \in Front(q, n)
  BY <1>1 DEF Front
<1>3. ASSUME NEW k \in 1 .. n - 1 PROVE Tail(q)[k] \in Front(q, n) \ {Head(q)}
  <2>1. k + 1 \in 1 .. n /\ k + 1 # 1 /\ Tail(q)[k] = q[k + 1]
    BY <1>1
  <2> QED BY <1>1, <2>1 DEF Front
<1>4. ASSUME NEW k \in 1 .. n, q[k] # Head(q) PROVE q[k] \in Front(Tail(q), n - 1)
  <2>1. k - 1 \in 1 .. n - 1 /\ k - 1 \in 1 .. Len(q) - 1 /\ (k - 1) + 1 = k
    BY <1>1, <1>4
  <2>2. Tail(q)[k - 1] = q[k]
    BY <1>1, <2>1
  <2> QED BY <2>1, <2>2 DEF Front
<1>5. Front(Tail(q), n - 1) \subseteq Front(q, n) \ {Head(q)}
  BY <1>3 DEF Front
<1>6. Front(q, n) \ {Head(q)} \subseteq Front(Tail(q), n - 1)
  BY <1>4 DEF Front
<1> QED BY <1>2, <1>5, <1>6

-----------------------------------------------------------------------------
(* Who is due. *)

LEMMA InitDue == TInit => DueInv
BY DEF TInit, Init, DueInv, Turn

\* remove_thread takes a thread that is due off the front.
LEMMA RemoveDue ==
  ASSUME IInv, DueInv, Remove, NextDue
  PROVE  DueInv' /\ cur' \in due /\ due' = due \ {cur'}
<1>0. /\ RingOK /\ WindowInjective /\ N \in Nat /\ i \in Nat /\ remove_thread
      /\ pc = "loop" /\ i < N /\ pc' = "dispatch" /\ N' = N /\ i' = i
  BY PartitionParts DEF IInv, TypeOK, RingOK, Remove, tick
<1>1. /\ Queue \in Seq(Threads \cup {NULL}) /\ Len(Queue) = thread_count
      /\ N - i \in 1 .. thread_count
  <2>1. thread_count >= N - i /\ thread_count \in 0 .. max_threads - 1
    BY <1>0, CountPositive DEF IInv, RoundNeverShort
  <2> QED BY <1>0, <2>1, QueueIsWindow, MaxThreadsAssumption DEF QueueOK
<1>2. Queue' = Tail(Queue) /\ cur' = Head(Queue)
  BY <1>0, RemoveTakesHead
<1>3. \A k1, k2 \in 1 .. Len(Queue) : Queue[k1] = Queue[k2] => k1 = k2
  BY <1>0, <1>1, QueueOnce
<1>4. /\ Front(Tail(Queue), N - i - 1) = Front(Queue, N - i) \ {Head(Queue)}
      /\ Head(Queue) \in Front(Queue, N - i)
  BY <1>1, <1>3, FrontOfTail
<1>5. due = Front(Queue, N - i) /\ due' = due \ {cur'}
  BY <1>0 DEF DueInv, NextDue, TickBegins
<1>6. due' = Front(Queue', N' - i' - 1)
  BY <1>0, <1>2, <1>4, <1>5
<1> QED BY <1>0, <1>2, <1>4, <1>5, <1>6 DEF DueInv, Turn

\* A thread appended by a spawn or a requeue is behind the threads that are due.
LEMMA AppendDue ==
  ASSUME IInv, NEW t \in Threads, add_thread(t), NEW n \in Int, n <= thread_count
  PROVE  Front(Queue', n) = Front(Queue, n)
<1>1. RingOK
  BY DEF IInv, TypeOK, RingOK
<1>2. Queue' = Append(Queue, t) /\ Queue \in Seq(Threads \cup {NULL}) /\ Len(Queue) = thread_count
  BY <1>1, AddAppends, QueueIsWindow DEF QueueOK
<1>3. t \in Threads \cup {NULL}
  OBVIOUS
<1> QED BY <1>2, <1>3, FrontOfAppend

\* Steps within a turn, or outside a round, that leave the queue alone.
LEMMA SameDue ==
  ASSUME DueInv, NextDue, UNCHANGED <<ring, N, i>>, pc # "loop",
         \/ pc \in Turn /\ pc' \in Turn
         \/ pc \in {"host", "compact"} /\ pc' \in {"host", "compact"}
         \/ pc' = "abort"
  PROVE  DueInv' /\ due' = due
<1>1. Queue' = Queue
  BY DEF Queue, thread_count, ring
<1>2. due' = due
  BY DEF NextDue, TickBegins, Turn
<1> QED BY <1>1, <1>2 DEF DueInv, Turn

LEMMA SpawnDue ==
  ASSUME IInv, DueInv, NextDue, pc \in {"host", "run"},
         NEW t \in Threads, add_thread(t), UNCHANGED <<pc, tick>>
  PROVE  DueInv' /\ due' = due
<1>1. due' = due
  BY DEF NextDue, TickBegins
<1>2. CASE pc = "host"
  BY <1>1, <1>2 DEF DueInv, Turn
<1>3. CASE pc = "run"
  <2>1. N - i - 1 \in Int /\ N - i - 1 <= thread_count
    BY <1>3 DEF IInv, TypeOK, RoundNeverShort
  <2>2. Front(Queue', N - i - 1) = Front(Queue, N - i - 1)
    BY <2>1, AppendDue
  <2> QED BY <1>1, <1>3, <2>2 DEF DueInv, Turn, tick
<1> QED BY <1>2, <1>3

LEMMA UpdateDue ==
  ASSUME IInv, NextDue, NEW d \in Dts, gsc_update(d)
  PROVE  DueInv' /\ due' = Ringed
<1>1. due' = Ringed /\ pc' = "loop"
  BY DEF gsc_update, NextDue, TickBegins
<1>2. Ringed = Front(Queue, thread_count) /\ thread_count \in Nat
  BY QueueOnce, PartitionParts, CountPositive, MaxThreadsAssumption DEF IInv, TypeOK, RingOK
<1>3. Queue' = Queue /\ N' - i' = thread_count
  BY <1>2 DEF gsc_update, Queue, thread_count, ring
<1> QED BY <1>1, <1>2, <1>3 DEF DueInv, Turn

\* The end of a turn: the round has one visit fewer to make.
LEMMA EndTurnDue ==
  ASSUME IInv, DueInv, NextDue, pc \in Turn, pc' = "loop", N' = N, i' = i + 1,
         UNCHANGED ring \/ \E t \in Threads : add_thread(t)
  PROVE  DueInv' /\ due' = due
<1>1. due' = due /\ due = Front(Queue, N - i - 1)
  BY DEF NextDue, TickBegins, DueInv, Turn
<1>2. N - i - 1 \in Int /\ N - i - 1 <= thread_count /\ N' - i' = N - i - 1
  BY DEF IInv, TypeOK, RoundNeverShort, Turn
<1>3. CASE UNCHANGED ring
  <2>1. Queue' = Queue
    BY <1>3 DEF Queue, thread_count, ring
  <2> QED BY <1>1, <1>2, <2>1 DEF DueInv, Turn
<1>4. CASE \E t \in Threads : add_thread(t)
  <2>1. Front(Queue', N - i - 1) = Front(Queue, N - i - 1)
    BY <1>2, <1>4, AppendDue
  <2> QED BY <1>1, <1>2, <2>1 DEF DueInv, Turn
<1> QED BY <1>3, <1>4

\* The round is over when nobody is due.
LEMMA EndOfRoundDue ==
  ASSUME IInv, DueInv, NextDue, EndOfRound
  PROVE  DueInv' /\ due = {} /\ due' = {}
<1>1. due = Front(Queue, N - i) /\ N - i <= 0 /\ N - i \in Int /\ due' = due \ {cur'} /\ pc' = "compact"
  BY DEF IInv, TypeOK, EndOfRound, DueInv, NextDue, TickBegins
<1>2. due = {}
  BY <1>1 DEF Front
<1> QED BY <1>1, <1>2 DEF DueInv, Turn

LEMMA SpawnOrErrorDue ==
  ASSUME IInv, DueInv, NextDue, gsc_call \/ OP_CALL_THREADED
  PROVE  DueInv'
<1>0. pc \in {"host", "run"}
  BY DEF gsc_call, OP_CALL_THREADED
<1>1. CASE \E t \in Threads : add_thread(t) /\ UNCHANGED <<pc, tick>>
  BY <1>0, <1>1, SpawnDue
<1>2. CASE vm_error("pool") \/ vm_error("ring")
  BY <1>0, <1>2, SameDue DEF vm_error, tick
<1> QED BY <1>1, <1>2 DEF gsc_call, OP_CALL_THREADED

LEMMA NextDueInv ==
  ASSUME IInv, DueInv, (Next /\ NextDue) \/ UNCHANGED <<vars, due>>
  PROVE  DueInv'
<1>0. CASE UNCHANGED <<vars, due>>
  <2>1. Queue' = Queue
    BY <1>0 DEF Queue, thread_count, vars, ring
  <2> QED BY <1>0, <2>1 DEF DueInv, Turn, vars, tick
<1>. SUFFICES ASSUME Next, NextDue PROVE DueInv'
  BY <1>0
<1>1. CASE Host
  <2>1. CASE gsc_call
    BY <2>1, SpawnOrErrorDue
  <2>2. CASE \E key \in Keys : gsc_notify(key)
    BY <2>2, SameDue DEF gsc_notify, vm_error, tick
  <2>3. CASE \E d \in Dts : gsc_update(d)
    BY <2>3, UpdateDue
  <2> QED BY <1>1, <2>1, <2>2, <2>3 DEF Host
<1>2. CASE Dispatch
  <2>1. CASE Remove
    BY <2>1, RemoveDue
  <2>2. CASE DispatchInactive
    BY <2>2, EndTurnDue DEF DispatchInactive, Turn
  <2>3. CASE Requeue
    <3>1. CASE vm_error("ring")
      BY <2>3, <3>1, SameDue DEF Requeue, vm_error, tick
    <3>2. CASE add_thread(cur) /\ i' = i + 1 /\ pc' = "loop" /\ UNCHANGED N
      <4>1. cur \in Threads /\ pc = "requeue"
        BY <2>3 DEF Requeue, IInv, CurInv
      <4> QED BY <3>2, <4>1, EndTurnDue DEF Turn
    <3> QED BY <2>3, <3>1, <3>2 DEF Requeue
  <2>4. CASE DispatchTime \/ DispatchFrame \/ DispatchEvent \/ DispatchNoEvent \/ DispatchActive
    BY <2>4, SameDue
       DEF DispatchTime, DispatchFrame, DispatchEvent, DispatchNoEvent, DispatchActive, Turn, tick
  <2> QED BY <1>2, <2>1, <2>2, <2>3, <2>4 DEF Dispatch
<1>3. CASE Script
  <2>1. CASE OP_CALL_THREADED
    BY <2>1, SpawnOrErrorDue
  <2>2. CASE (\E key \in Keys : OP_NOTIFY(key)) \/ (\E key \in Keys : OP_ENDON(key))
    BY <2>2, SameDue DEF OP_NOTIFY, OP_ENDON, vm_error, Turn, tick
  <2>3. CASE Yield
    BY <2>3, SameDue DEF Yield, OP_WAIT, OP_WAIT_FRAME, OP_WAITTILL, OP_RET, Turn, tick
  <2> QED BY <1>3, <2>1, <2>2, <2>3 DEF Script
<1>4. CASE Finish
  <2>1. CASE EndOfRound
    BY <2>1, EndOfRoundDue
  <2>2. CASE CompactEvent
    BY <2>2, SameDue DEF CompactEvent, tick
  <2>3. CASE EndOfTick
    BY <2>3 DEF EndOfTick, DueInv, NextDue, TickBegins, Turn
  <2> QED BY <1>4, <2>1, <2>2, <2>3 DEF Finish
<1>5. CASE Aborted
  BY <1>5, SameDue DEF Aborted, vars, tick
<1> QED BY <1>1, <1>2, <1>3, <1>4, <1>5 DEF Next

\* A tick visits every thread that was in the ring when it began, exactly once,
\* and none that was spawned during it, for every max_threads.
THEOREM DueThreadsVisited == TSpec => EachDueThreadOncePerTick
<1> DEFINE Inv == IInv /\ DueInv
<1>1. TInit => Inv
  BY InitInv, InitDue DEF TInit
<1>2. Inv /\ [TNext]_hvars => Inv'
  <2> SUFFICES ASSUME IInv, DueInv, [TNext]_hvars PROVE IInv' /\ DueInv'
    OBVIOUS
  <2>1. [Next]_vars /\ ((Next /\ NextDue) \/ UNCHANGED <<vars, due>>)
    BY DEF TNext, hvars
  <2> QED BY <2>1, NextInv, NextDueInv
<1>3. Inv /\ [TNext]_hvars => [cur' # cur /\ cur' # NULL => cur' \in due]_hvars
  <2> SUFFICES ASSUME IInv, DueInv, TNext, cur' # cur, cur' # NULL PROVE cur' \in due
    BY DEF hvars
  <2>1. Next /\ NextDue
    BY DEF TNext
  <2>2. Remove
    BY <2>1 DEF Next, Host, Dispatch, Script, Finish, Aborted, Yield,
       gsc_call, gsc_notify, gsc_update, vm_error, DispatchInactive, DispatchTime,
       DispatchFrame, DispatchEvent, DispatchNoEvent, DispatchActive, Requeue,
       OP_NOTIFY, OP_ENDON, OP_CALL_THREADED, OP_WAIT, OP_WAIT_FRAME, OP_WAITTILL, OP_RET,
       EndOfRound, CompactEvent, EndOfTick, vars
  <2> QED BY <2>1, <2>2, RemoveDue
<1>4. Inv => (pc = "compact" => due = {})
  BY DEF DueInv
<1> HIDE DEF Inv
<1> QED BY <1>1, <1>2, <1>3, <1>4, PTL DEF TSpec, EachDueThreadOncePerTick

-----------------------------------------------------------------------------
(* Timed waits. *)

\* The tick has yet to visit the thread, or is just visiting it.
Unvisited(t) == t \in due \/ (pc = "dispatch" /\ cur = t)

\* What a tick still owes a thread: its dt, until the thread has been visited.
Owed(t) == IF Unvisited(t) THEN dt ELSE 0

\* The counter of a waiting thread and the time reported since it began to wait
\* agree; and it is overdue only in the tick whose visit will wake it.
Accounted(t) ==
  /\ slept[t] = asked[t] - wait[t] + Owed(t)
  /\ overdue[t] = IF Unvisited(t) /\ wait[t] <= 0 THEN 1 ELSE 0

\* A thread that was woken is one tick overdue, and a second one in the tick
\* whose visit will run it.
Woken(t) == t \in resting /\ ~Waiting(t)

RestInv ==
  /\ resting \subseteq Threads
  /\ \A t \in Threads :
       /\ overdue[t] \in 0 .. 2
       /\ t \notin resting => overdue[t] = 0
       /\ Waiting(t) => t \in resting
       /\ Woken(t) => state[t] = "ACTIVE"
  /\ overdue \in [Threads -> Int]
  /\ pc = "run" => cur \notin resting
  /\ pc # "abort" => \A t \in Threads :
       Woken(t) => overdue[t] = IF Unvisited(t) THEN 2 ELSE 1

SleepInv ==
  /\ \A t \in Free : state[t] = "INACTIVE"
  /\ pc = "run" => state[cur] = "ACTIVE"
  /\ asked \in [Threads -> Int] /\ slept \in [Threads -> Int]
  /\ pc # "abort" => \A t \in Threads : Waiting(t) => Accounted(t)

TInv == IInv /\ DueInv /\ SleepInv /\ RestInv

\* What the steps need to know of the types.
ThreadTypes ==
  /\ state \in [Threads -> States] /\ wait \in [Threads -> Int]
  /\ dt \in Nat
  /\ pc \in Turn => cur \in Threads
  /\ pc \in {"host", "loop", "compact"} => cur = NULL
  /\ NULL \notin Threads

LEMMA Types == IInv => ThreadTypes
BY NullAssumption DEF IInv, TypeOK, CurInv, ThreadTypes, Turn, Threads

LEMMA TypesNext == IInv' => ThreadTypes'
BY Types, PTL

\* Nobody who is due is out of the queue.
LEMMA DueQueued ==
  ASSUME IInv, DueInv, pc # "abort"
  PROVE  cur \notin due /\ due \cap Free = {}
<1>1. RingOK /\ thread_count \in 0 .. max_threads - 1
  BY CountPositive DEF IInv, TypeOK, RingOK
<1>2. ASSUME NEW n \in Int, n <= thread_count
      PROVE  Front(Queue, n) \subseteq Ringed
  BY <1>1, <1>2, QueueIsWindow DEF QueueOK, Front
<1>3. due \subseteq Ringed
  <2>1. /\ pc = "loop" => N - i \in Int /\ N - i <= thread_count
        /\ pc \in Turn => N - i - 1 \in Int /\ N - i - 1 <= thread_count
        /\ pc \in Turn \cup {"loop", "host", "compact"}
    BY <1>1 DEF IInv, TypeOK, RoundNeverShort, Turn
  <2> QED BY <1>2, <2>1 DEF DueInv
<1> QED BY <1>3, PartitionParts DEF IInv

LEMMA InitSleep == TInit => SleepInv /\ RestInv
<1> SUFFICES ASSUME TInit PROVE SleepInv /\ RestInv
  OBVIOUS
<1>1. \A t \in Threads : state[t] = "INACTIVE" /\ ~Waiting(t) /\ overdue[t] = 0
  BY DEF TInit, Init, Waiting
<1>2. Free \subseteq Threads
  BY InitInv, PartitionParts DEF TInit, IInv, TypeOK, Free
<1>3. SleepInv
  BY <1>1, <1>2 DEF TInit, Init, SleepInv
<1>4. RestInv
  BY <1>1 DEF TInit, Init, RestInv, Woken
<1> QED BY <1>3, <1>4

-----------------------------------------------------------------------------
(* Threads outside the ring. *)

\* A struct on the free list is INACTIVE and a running thread is ACTIVE.
LEMMA StatesKept ==
  ASSUME IInv, SleepInv, [Next]_vars
  PROVE  /\ \A t \in Free' : state'[t] = "INACTIVE"
         /\ pc' = "run" => state'[cur'] = "ACTIVE"
<1>0. /\ ThreadTypes /\ cur \notin Free /\ PoolInjective /\ pool \in Seq(Threads)
      /\ Free \subseteq Threads
      /\ \A t \in Free : state[t] = "INACTIVE"
      /\ pc = "run" => state[cur] = "ACTIVE"
  BY Types, PartitionParts DEF IInv, TypeOK, SleepInv, Free
<1>1. ASSUME UNCHANGED <<pool, state>>, pc' # "run" \/ UNCHANGED <<pc, cur>>
      PROVE  (\A t \in Free' : state'[t] = "INACTIVE") /\ (pc' = "run" => state'[cur'] = "ACTIVE")
  BY <1>0, <1>1 DEF Free
<1>2. ASSUME UNCHANGED pool, cur \in Threads, pc' # "run",
             NEW st \in States, state' = [state EXCEPT ![cur] = st]
      PROVE  \A t \in Free' : state'[t] = "INACTIVE"
  BY <1>0, <1>2 DEF Free, ThreadTypes
<1>3. CASE gsc_call \/ OP_CALL_THREADED
  <2>1. ASSUME NEW t \in Threads, object_pool_allocate(t), UNCHANGED <<pc, cur>>
        PROVE  (\A u \in Free' : state'[u] = "INACTIVE") /\ (pc' = "run" => state'[cur'] = "ACTIVE")
    <3>1. t \in Free /\ Free' = Free \ {t} /\ state' = [state EXCEPT ![t] = "ACTIVE"]
      BY <1>0, <2>1, PoolAllocate DEF object_pool_allocate, Cleared
    <3>2. \A u \in Threads : u # t => state'[u] = state[u]
      BY <1>0, <3>1 DEF ThreadTypes
    <3> QED BY <1>0, <2>1, <3>1, <3>2 DEF ThreadTypes, Turn
  <2> QED BY <1>1, <1>3, <2>1 DEF gsc_call, OP_CALL_THREADED, vm_error, threadvars
<1>4. CASE DispatchInactive
  <2>1. cur \in Threads /\ object_pool_deallocate(cur) /\ pc' = "loop"
    BY <1>0, <1>4 DEF DispatchInactive, ThreadTypes, Turn
  <2>2. Free' = Free \cup {cur} /\ state' = [state EXCEPT ![cur] = "INACTIVE"]
    BY <1>0, <2>1, PoolDeallocate DEF object_pool_deallocate, Cleared
  <2> QED BY <1>0, <2>1, <2>2 DEF ThreadTypes
<1>5. CASE DispatchTime \/ DispatchFrame \/ DispatchEvent \/ Yield
  <2>1. cur \in Threads
    BY <1>0, <1>5 DEF DispatchTime, DispatchFrame, DispatchEvent, Yield,
       OP_WAIT, OP_WAIT_FRAME, OP_WAITTILL, OP_RET, ThreadTypes, Turn
  <2>2. UNCHANGED pool /\ pc' # "run" /\ \E st \in States : state' = [state EXCEPT ![cur] = st]
    <3>1. CASE DispatchTime
      <4>1. state' = [state EXCEPT ![cur] = IF wait[cur] <= 0 THEN "ACTIVE" ELSE state[cur]]
        BY <3>1 DEF DispatchTime
      <4>2. (IF wait[cur] <= 0 THEN "ACTIVE" ELSE state[cur]) \in States
        BY <1>0, <2>1 DEF ThreadTypes, States
      <4> QED BY <3>1, <4>1, <4>2 DEF DispatchTime
    <3>2. CASE DispatchFrame \/ DispatchEvent
      BY <3>2 DEF DispatchFrame, DispatchEvent, States
    <3>3. CASE Yield
      BY <3>3 DEF Yield, OP_WAIT, OP_WAIT_FRAME, OP_WAITTILL, OP_RET, States
    <3> QED BY <1>5, <3>1, <3>2, <3>3
  <2> QED BY <1>2, <2>1, <2>2
<1>6. CASE DispatchActive
  BY <1>0, <1>6 DEF DispatchActive, Free, threadvars
<1>7. CASE \/ \E key \in Keys : gsc_notify(key) \/ OP_NOTIFY(key) \/ OP_ENDON(key)
           \/ \E d \in Dts : gsc_update(d)
           \/ Remove \/ DispatchNoEvent \/ Requeue \/ Finish
  BY <1>1, <1>7 DEF gsc_notify, OP_NOTIFY, OP_ENDON, gsc_update, Remove, DispatchNoEvent,
     Requeue, Finish, EndOfRound, CompactEvent, EndOfTick, vm_error, threadvars
<1>8. CASE Aborted \/ UNCHANGED vars
  BY <1>1, <1>8 DEF Aborted, vars, threadvars
<1> QED BY <1>3, <1>4, <1>5, <1>6, <1>7, <1>8 DEF Next, Host, Dispatch, Script

-----------------------------------------------------------------------------
(* The accounts. *)

Clocks == NextDue /\ NextAsked /\ NextSlept /\ NextResting /\ NextOverdue

\* What the clocks of a thread do when it goes on waiting.
LEMMA ClocksOfWaiting ==
  ASSUME SleepInv, RestInv, Clocks, NEW t \in Threads, Waiting(t), Waiting(t)',
         ~\E d \in Durations : t = cur /\ OP_WAIT(d)
  PROVE  /\ asked'[t] = asked[t]
         /\ slept'[t] = IF TickBegins THEN slept[t] + dt' ELSE slept[t]
         /\ overdue'[t] = IF TickBegins /\ slept[t] >= asked[t]
                          THEN overdue[t] + 1 ELSE overdue[t]
<1>1. asked'[t] = asked[t]
  <2>1. CASE \E d \in Durations : OP_WAIT(d)
    <3>1. PICK d \in Durations : OP_WAIT(d) /\ asked' = [asked EXCEPT ![cur] = d]
      BY <2>1 DEF NextAsked, Clocks
    <3> QED BY <3>1 DEF SleepInv
  <2>2. CASE ~\E d \in Durations : OP_WAIT(d)
    BY <2>2 DEF NextAsked, Clocks
  <2> QED BY <2>1, <2>2
<1>2. slept'[t] = IF TickBegins THEN slept[t] + dt' ELSE slept[t]
  BY DEF NextSlept, Clocks
<1>3. t \in resting'
  BY DEF NextResting, Clocks
<1>4. overdue'[t] = IF TickBegins /\ slept[t] >= asked[t] THEN overdue[t] + 1 ELSE overdue[t]
  BY <1>3 DEF NextOverdue, Clocks, TimeUp
<1> QED BY <1>1, <1>2, <1>4

\* A step that keeps a thread waiting, and is no new tick, leaves its account
\* alone when it leaves alone its counter and what the tick owes it.
LEMMA Undisturbed ==
  ASSUME ThreadTypes, SleepInv, RestInv, Clocks,
         NEW t \in Threads, Waiting(t), state'[t] = state[t], wait'[t] = wait[t],
         pc # "abort", ~TickBegins,
         UNCHANGED dt,
         (t \in due' \/ (pc' = "dispatch" /\ cur' = t)) <=> (t \in due \/ (pc = "dispatch" /\ cur = t))
  PROVE  Accounted(t)'
<1>1. Accounted(t) /\ Waiting(t)'
  BY DEF SleepInv, Waiting
<1>2. ~\E d \in Durations : t = cur /\ OP_WAIT(d)
  BY DEF OP_WAIT, SleepInv, Waiting
<1>3. asked'[t] = asked[t] /\ slept'[t] = slept[t] /\ overdue'[t] = overdue[t]
  BY <1>1, <1>2, ClocksOfWaiting
<1>4. Unvisited(t)' <=> Unvisited(t)
  BY DEF Unvisited
<1> QED BY <1>1, <1>3, <1>4 DEF Accounted, Owed

\* The clocks of a wait are integers.
LEMMA ClockTypes ==
  ASSUME ThreadTypes, ThreadTypes', SleepInv, RestInv, Clocks
  PROVE  /\ asked' \in [Threads -> Int] /\ slept' \in [Threads -> Int]
         /\ overdue' \in [Threads -> Int]
<1>1. asked' \in [Threads -> Int]
  <2>1. CASE \E d \in Durations : OP_WAIT(d)
    <3>1. PICK d \in Durations : asked' = [asked EXCEPT ![cur] = d]
      BY <2>1 DEF NextAsked, Clocks
    <3>2. d \in Int
      BY TimeAssumption
    <3> QED BY <3>1, <3>2 DEF SleepInv
  <2>2. CASE ~\E d \in Durations : OP_WAIT(d)
    BY <2>2 DEF NextAsked, SleepInv, Clocks
  <2> QED BY <2>1, <2>2
<1>2. slept' \in [Threads -> Int]
  BY DEF NextSlept, SleepInv, ThreadTypes, Clocks
<1>3. overdue' \in [Threads -> Int]
  BY DEF NextOverdue, RestInv, Clocks
<1> QED BY <1>1, <1>2, <1>3

LEMMA HostAccounts ==
  ASSUME TInv, Host, Clocks, pc' # "abort",
         NEW t \in Threads, Waiting(t)'
  PROVE  Accounted(t)'
<1>0. /\ ThreadTypes /\ SleepInv /\ RestInv /\ pc = "host" /\ due = {} /\ cur = NULL /\ NULL \notin Threads
      /\ state \in [Threads -> States] /\ wait \in [Threads -> Int]
  BY Types DEF TInv, Host, gsc_call, gsc_notify, gsc_update, DueInv, ThreadTypes
<1>1. CASE gsc_call
  <2>1. PICK u \in Threads : object_pool_allocate(u) /\ UNCHANGED <<pc, tick, cur>>
    BY <1>1 DEF gsc_call, vm_error
  <2>2. state' = [state EXCEPT ![u] = "ACTIVE"] /\ wait' = [wait EXCEPT ![u] = 0]
    BY <2>1 DEF object_pool_allocate, Cleared
  <2>3. t # u
    BY <1>0, <2>2 DEF Waiting
  <2>4. Waiting(t) /\ state'[t] = state[t] /\ wait'[t] = wait[t]
    BY <1>0, <2>2, <2>3 DEF Waiting
  <2> QED BY <1>0, <2>1, <2>4, Undisturbed DEF NextDue, tick, Clocks, TickBegins
<1>2. CASE \E key \in Keys : gsc_notify(key)
  BY <1>0, <1>2, Undisturbed DEF gsc_notify, vm_error, NextDue, TickBegins, tick, threadvars, Waiting,
     Clocks, TickBegins
<1>3. CASE \E d \in Dts : gsc_update(d)
  <2>1. /\ Waiting(t) /\ wait' = wait /\ pc' = "loop" /\ dt' \in Dts /\ TickBegins
    BY <1>0, <1>3 DEF gsc_update, threadvars, Waiting, TickBegins
  <2>2. Accounted(t)
    BY <1>0, <2>1 DEF SleepInv
  <2>3. t \in due'
    <3>1. t \notin Free
      BY <1>0, <2>1 DEF SleepInv, Waiting
    <3>2. due' = Ringed
      BY <2>1 DEF NextDue, TickBegins, Clocks
    <3> QED BY <1>0, <3>1, <3>2, PartitionParts DEF TInv, IInv
  <2>4. /\ asked'[t] = asked[t] /\ slept'[t] = slept[t] + dt'
        /\ overdue'[t] = IF slept[t] >= asked[t] THEN overdue[t] + 1 ELSE overdue[t]
    <3>1. ~\E d \in Durations : t = cur /\ OP_WAIT(d)
      BY <1>0 DEF OP_WAIT
    <3> QED BY <1>0, <2>1, <3>1, ClocksOfWaiting
  <2>5. dt' \in Int /\ wait[t] \in Int /\ asked[t] \in Int /\ slept[t] \in Int
    BY <1>0, <2>1, TimeAssumption DEF SleepInv
  <2>6. ~Unvisited(t) /\ Unvisited(t)'
    BY <1>0, <2>3 DEF Unvisited
  <2>7. slept[t] = asked[t] - wait[t] /\ overdue[t] = 0
    BY <2>2, <2>5, <2>6 DEF Accounted, Owed
  <2> QED BY <2>1, <2>4, <2>5, <2>6, <2>7 DEF Accounted, Owed
<1> QED BY <1>1, <1>2, <1>3 DEF Host

\* The counter of the thread that is visited pays what the tick owed it; and
\* it goes on waiting only when the counter was positive.
LEMMA DispatchAccounts ==
  ASSUME TInv, Dispatch, Clocks, pc' # "abort",
         NEW t \in Threads, Waiting(t)'
  PROVE  Accounted(t)'
<1>0. /\ ThreadTypes /\ SleepInv /\ RestInv /\ pc # "abort" /\ cur \notin due
      /\ ~TickBegins /\ NextDue
      /\ state \in [Threads -> States] /\ wait \in [Threads -> Int]
  BY Types, DueQueued DEF TInv, Dispatch, Remove, DispatchInactive, DispatchTime, DispatchFrame,
     DispatchEvent, DispatchNoEvent, DispatchActive, Requeue, ThreadTypes, Clocks, TickBegins
<1>1. CASE Remove
  <2>1. cur' \in due /\ due' = due \ {cur'}
    BY <1>0, <1>1, RemoveDue DEF TInv
  <2> QED BY <1>0, <1>1, <2>1, Undisturbed DEF Remove, threadvars, tick, Waiting
<1>2. CASE DispatchTime
  <2>0. /\ cur \in Threads /\ due' = due /\ dt' = dt /\ cur' = cur
        /\ pc = "dispatch" /\ pc' = "requeue"
        /\ state' = [state EXCEPT ![cur] = IF wait[cur] <= 0 THEN "ACTIVE" ELSE state[cur]]
        /\ wait' = [wait EXCEPT ![cur] = wait[cur] - dt]
    BY <1>0, <1>2 DEF DispatchTime, tick, NextDue, ThreadTypes, Turn, TickBegins
  <2>1. CASE t = cur
    <3>1. Waiting(t) /\ wait[t] > 0 /\ wait'[t] = wait[t] - dt
      BY <1>0, <2>0, <2>1 DEF Waiting
    <3>2. Accounted(t)
      BY <1>0, <3>1 DEF SleepInv
    <3>3. asked'[t] = asked[t] /\ slept'[t] = slept[t] /\ overdue'[t] = overdue[t]
      <4>1. ~\E d \in Durations : t = cur /\ OP_WAIT(d)
        BY <2>0 DEF OP_WAIT
      <4> QED BY <1>0, <3>1, <4>1, ClocksOfWaiting
    <3>4. dt \in Nat /\ wait[t] \in Int /\ asked[t] \in Int /\ slept[t] \in Int
      BY <1>0, <2>0 DEF SleepInv, ThreadTypes
    <3>5. Unvisited(t) /\ ~Unvisited(t)'
      BY <1>0, <2>0, <2>1 DEF Unvisited
    <3>6. slept[t] = asked[t] - wait[t] + dt /\ overdue[t] = 0
      BY <3>1, <3>2, <3>4, <3>5 DEF Accounted, Owed
    <3> QED BY <3>1, <3>3, <3>4, <3>5, <3>6 DEF Accounted, Owed
  <2>2. CASE t # cur
    <3>1. Waiting(t) /\ state'[t] = state[t] /\ wait'[t] = wait[t]
      BY <1>0, <2>0, <2>2 DEF Waiting
    <3> QED BY <1>0, <2>0, <2>2, <3>1, Undisturbed
  <2> QED BY <2>1, <2>2
<1>3. CASE DispatchInactive \/ DispatchFrame \/ DispatchEvent
  <2>0. /\ cur \in Threads /\ due' = due /\ dt' = dt /\ pc = "dispatch" /\ pc' \in {"requeue", "loop"}
    BY <1>0, <1>3
       DEF DispatchInactive, DispatchFrame, DispatchEvent, tick, NextDue, ThreadTypes, Turn, TickBegins
  <2>1. /\ \E st \in {"INACTIVE", "ACTIVE"} : state' = [state EXCEPT ![cur] = st]
        /\ wait' = wait \/ wait' = [wait EXCEPT ![cur] = 0]
    BY <1>3 DEF DispatchInactive, DispatchFrame, DispatchEvent, object_pool_deallocate, Cleared
  <2>2. t # cur
    BY <1>0, <2>0, <2>1 DEF Waiting
  <2>3. Waiting(t) /\ state'[t] = state[t] /\ wait'[t] = wait[t]
    BY <1>0, <2>1, <2>2 DEF Waiting
  <2> QED BY <1>0, <2>0, <2>2, <2>3, Undisturbed
<1>4. CASE DispatchNoEvent \/ DispatchActive
  <2>1. /\ due' = due /\ dt' = dt /\ pc = "dispatch" /\ pc' \in {"requeue", "run"}
        /\ UNCHANGED <<state, wait>> /\ Waiting(t)
    BY <1>0, <1>4 DEF DispatchNoEvent, DispatchActive, tick, threadvars, NextDue, Waiting, TickBegins
  <2>2. state[cur] # "WAITING_TIME"
    BY <1>4 DEF DispatchNoEvent, DispatchActive
  <2>3. t # cur
    BY <2>1, <2>2 DEF Waiting
  <2> QED BY <1>0, <2>1, <2>3, Undisturbed
<1>5. CASE Requeue
  <2>1. /\ due' = due /\ dt' = dt /\ pc = "requeue" /\ pc' = "loop"
        /\ UNCHANGED <<state, wait>> /\ Waiting(t)
    BY <1>0, <1>5 DEF Requeue, vm_error, threadvars, NextDue, Waiting, TickBegins
  <2> QED BY <1>0, <2>1, Undisturbed
<1> QED BY <1>1, <1>2, <1>3, <1>4, <1>5 DEF Dispatch

\* A wait begins when the tick owes the thread nothing: it is being run.
LEMMA ScriptAccounts ==
  ASSUME TInv, Script, Clocks, pc' # "abort",
         NEW t \in Threads, Waiting(t)'
  PROVE  Accounted(t)'
<1>0. /\ ThreadTypes /\ SleepInv /\ RestInv /\ ~TickBegins /\ NextDue /\ pc = "run" /\ cur \notin due /\ cur \in Threads
      /\ state[cur] = "ACTIVE"
      /\ state \in [Threads -> States] /\ wait \in [Threads -> Int]
  BY Types, DueQueued DEF TInv, SleepInv, Script, Yield, OP_NOTIFY, OP_ENDON, OP_CALL_THREADED,
     OP_WAIT, OP_WAIT_FRAME, OP_WAITTILL, OP_RET, ThreadTypes, Turn, Clocks, TickBegins
<1>1. due' = due
  BY <1>0 DEF NextDue, TickBegins
<1>2. CASE OP_CALL_THREADED
  <2>1. PICK u \in Threads : object_pool_allocate(u) /\ UNCHANGED <<pc, tick, cur>>
    BY <1>2 DEF OP_CALL_THREADED, vm_error
  <2>2. state' = [state EXCEPT ![u] = "ACTIVE"] /\ wait' = [wait EXCEPT ![u] = 0]
    BY <2>1 DEF object_pool_allocate, Cleared
  <2>3. t # u
    BY <1>0, <2>2 DEF Waiting
  <2>4. Waiting(t) /\ state'[t] = state[t] /\ wait'[t] = wait[t]
    BY <1>0, <2>2, <2>3 DEF Waiting
  <2> QED BY <1>0, <1>1, <2>1, <2>4, Undisturbed DEF tick
<1>3. CASE \E key \in Keys : OP_NOTIFY(key) \/ OP_ENDON(key)
  <2>1. UNCHANGED <<state, wait, pc, dt, cur>> /\ Waiting(t)
    BY <1>3 DEF OP_NOTIFY, OP_ENDON, vm_error, tick, threadvars, Waiting
  <2> QED BY <1>0, <1>1, <2>1, Undisturbed
<1>4. CASE \E d \in Durations : OP_WAIT(d)
  <2>1. PICK d \in Durations : OP_WAIT(d) /\ asked' = [asked EXCEPT ![cur] = d]
    BY <1>4 DEF NextAsked, Clocks
  <2>2. /\ wait' = [wait EXCEPT ![cur] = d] /\ state' = [state EXCEPT ![cur] = "WAITING_TIME"]
        /\ pc' = "requeue" /\ dt' = dt /\ cur' = cur
    BY <2>1 DEF OP_WAIT, tick
  <2>3. CASE t = cur
    <3>1. wait'[t] = d /\ asked'[t] = d /\ d \in Int
      BY <1>0, <2>1, <2>2, <2>3, TimeAssumption DEF SleepInv
    <3>2. slept'[t] = 0 /\ overdue'[t] = 0
      BY <1>0, <2>3 DEF NextSlept, NextOverdue, Clocks, Waiting, RestInv
    <3>3. ~Unvisited(t)'
      BY <1>0, <1>1, <2>2, <2>3 DEF Unvisited
    <3> QED BY <2>2, <3>1, <3>2, <3>3 DEF Accounted, Owed
  <2>4. CASE t # cur
    <3>1. Waiting(t) /\ state'[t] = state[t] /\ wait'[t] = wait[t]
      BY <1>0, <2>2, <2>4 DEF Waiting
    <3> QED BY <1>0, <1>1, <2>2, <3>1, Undisturbed
  <2> QED BY <2>3, <2>4
<1>5. CASE OP_WAIT_FRAME \/ (\E key \in Keys : OP_WAITTILL(key)) \/ OP_RET
  <2>1. /\ \E st \in {"WAITING_FRAME", "WAITING_EVENT", "INACTIVE"} :
             state' = [state EXCEPT ![cur] = st]
        /\ UNCHANGED <<wait, dt, cur>> /\ pc' = "requeue"
    BY <1>5 DEF OP_WAIT_FRAME, OP_WAITTILL, OP_RET, tick
  <2>2. t # cur
    BY <1>0, <2>1 DEF Waiting
  <2>3. Waiting(t) /\ state'[t] = state[t] /\ wait'[t] = wait[t]
    BY <1>0, <2>1, <2>2 DEF Waiting
  <2> QED BY <1>0, <1>1, <2>1, <2>3, Undisturbed
<1> QED BY <1>2, <1>3, <1>4, <1>5 DEF Script, Yield

\* Between rounds nobody is owed a visit.
LEMMA FinishAccounts ==
  ASSUME TInv, Finish, Clocks, pc' # "abort",
         NEW t \in Threads, Waiting(t)'
  PROVE  Accounted(t)'
<1>0. /\ ThreadTypes /\ SleepInv /\ RestInv /\ UNCHANGED <<state, wait, cur>> /\ cur # t
      /\ pc # "abort" /\ pc # "dispatch" /\ pc' # "dispatch" /\ ~TickBegins /\ NextDue
  BY Types DEF TInv, Finish, EndOfRound, CompactEvent, EndOfTick, ThreadTypes, threadvars,
     Clocks, TickBegins
<1>1. due = {} /\ due' = {}
  <2>1. CASE EndOfRound
    BY <1>0, <2>1, EndOfRoundDue DEF TInv
  <2>2. CASE CompactEvent \/ EndOfTick
    BY <1>0, <2>2 DEF CompactEvent, EndOfTick, NextDue, TickBegins, TInv, DueInv
  <2> QED BY <2>1, <2>2 DEF Finish
<1>2. Accounted(t) /\ Waiting(t) /\ ~\E d \in Durations : t = cur /\ OP_WAIT(d)
  BY <1>0 DEF SleepInv, Waiting, OP_WAIT, Finish, EndOfRound, CompactEvent, EndOfTick
<1>3. asked'[t] = asked[t] /\ slept'[t] = slept[t] /\ overdue'[t] = overdue[t]
  BY <1>0, <1>2, ClocksOfWaiting
<1> QED BY <1>0, <1>1, <1>2, <1>3 DEF Accounted, Owed, Unvisited

\* Only the visit of the clock's own case wakes a thread from a timed wait.
LEMMA WakesByClock ==
  ASSUME TInv, Next, NEW t \in Threads, Waiting(t), state'[t] = "ACTIVE"
  PROVE  DispatchTime /\ cur = t /\ wait[t] <= 0
<1>0. /\ ThreadTypes /\ SleepInv /\ Next /\ state[t] = "WAITING_TIME"
      /\ state \in [Threads -> States] /\ wait \in [Threads -> Int]
      /\ Free \subseteq Threads /\ \A u \in Free : state[u] = "INACTIVE"
  <2>1. IInv /\ SleepInv /\ Next /\ ThreadTypes
    BY Types DEF TInv, TNext
  <2>2. pool \in Seq(Threads)
    BY <2>1 DEF IInv, TypeOK
  <2>3. Free \subseteq Threads
    BY <2>2 DEF Free
  <2> QED BY <2>1, <2>3 DEF Waiting, ThreadTypes, SleepInv
<1>1. CASE DispatchTime
  <2>1. cur = t /\ wait[cur] <= 0 /\ pc = "dispatch"
    BY <1>0, <1>1 DEF DispatchTime
  <2> QED BY <1>1, <2>1
<1>2. CASE DispatchFrame \/ DispatchEvent
  <2>1. state[cur] # "WAITING_TIME" /\ state' = [state EXCEPT ![cur] = "ACTIVE"]
    BY <1>2 DEF DispatchFrame, DispatchEvent
  <2> QED BY <1>0, <2>1
<1>3. CASE gsc_call \/ OP_CALL_THREADED
  <2>1. UNCHANGED state
        \/ \E u \in Threads : object_pool_allocate(u)
    BY <1>3 DEF gsc_call, OP_CALL_THREADED, vm_error, threadvars
  <2>2. CASE \E u \in Threads : object_pool_allocate(u)
    <3>1. PICK u \in Threads : object_pool_allocate(u)
      BY <2>2
    <3>2. u \in Free /\ state' = [state EXCEPT ![u] = "ACTIVE"]
      BY <3>1, PoolAllocate, PartitionParts
         DEF TInv, IInv, TypeOK, object_pool_allocate, Cleared
    <3> QED BY <1>0, <3>2
  <2> QED BY <1>0, <2>1, <2>2
<1>4. CASE \/ DispatchInactive \/ OP_WAIT_FRAME \/ OP_RET
           \/ \E d \in Durations : OP_WAIT(d)
           \/ \E key \in Keys : OP_WAITTILL(key)
  <2>1. \E st \in States \ {"ACTIVE"} : state' = [state EXCEPT ![cur] = st]
    BY <1>4 DEF DispatchInactive, object_pool_deallocate, Cleared, OP_WAIT, OP_WAIT_FRAME,
       OP_WAITTILL, OP_RET, States
  <2> QED BY <1>0, <2>1
<1>5. CASE UNCHANGED state
  BY <1>0, <1>5
<1>6. \/ DispatchTime \/ DispatchFrame \/ DispatchEvent \/ gsc_call \/ OP_CALL_THREADED
      \/ DispatchInactive \/ OP_WAIT_FRAME \/ OP_RET
      \/ (\E d \in Durations : OP_WAIT(d)) \/ (\E key \in Keys : OP_WAITTILL(key))
      \/ UNCHANGED state
  <2>1. CASE Host \/ Finish \/ Aborted
    BY <2>1 DEF Host, Finish, Aborted, gsc_notify, gsc_update, vm_error, EndOfRound,
       CompactEvent, EndOfTick, vars, threadvars
  <2>2. CASE Dispatch
    BY <2>2 DEF Dispatch, Remove, DispatchNoEvent, DispatchActive, Requeue, vm_error, threadvars
  <2>3. CASE Script
    BY <2>3 DEF Script, Yield, OP_NOTIFY, OP_ENDON, vm_error, threadvars
  <2> QED BY <1>0, <2>1, <2>2, <2>3 DEF Next
<1> QED BY <1>1, <1>2, <1>3, <1>4, <1>5, <1>6

\* Whoever is ACTIVE and stays so without being run is visited by no step: the
\* only turn of an ACTIVE thread stops it or runs it.
LEMMA UnvisitedKept ==
  ASSUME TInv, Next, NextDue, pc # "abort", pc' # "abort", ~TickBegins,
         NEW t \in Threads, state[t] = "ACTIVE", state'[t] = "ACTIVE", ~Runs(t)
  PROVE  Unvisited(t)' <=> Unvisited(t)
<1>1. CASE Remove
  <2>1. cur' \in due /\ due' = due \ {cur'}
    BY <1>1, RemoveDue DEF TInv
  <2> QED BY <1>1, <2>1 DEF Remove, Unvisited
<1>2. CASE pc = "dispatch"
  <2>0. state \in [Threads -> States] /\ cur \in Threads /\ due' = due /\ pc' # "dispatch"
    BY <1>2, Types DEF TInv, ThreadTypes, Turn, NextDue, TickBegins, Next, Host, Dispatch, Script,
       Finish, Aborted, Yield, gsc_call, gsc_notify, gsc_update, Remove, DispatchInactive,
       DispatchTime, DispatchFrame, DispatchEvent, DispatchNoEvent, DispatchActive, Requeue,
       OP_NOTIFY, OP_ENDON, OP_CALL_THREADED, OP_WAIT, OP_WAIT_FRAME, OP_WAITTILL, OP_RET,
       EndOfRound, CompactEvent, EndOfTick
  <2>1. CASE cur = t
    <3>1. DispatchInactive \/ DispatchActive
      BY <1>2, <2>1 DEF Next, Host, Dispatch, Script,
         Finish, Aborted, Yield, gsc_call, gsc_notify, gsc_update, Remove,
         DispatchTime, DispatchFrame, DispatchEvent, DispatchNoEvent, Requeue,
         OP_NOTIFY, OP_ENDON, OP_CALL_THREADED, OP_WAIT, OP_WAIT_FRAME, OP_WAITTILL, OP_RET,
         EndOfRound, CompactEvent, EndOfTick
    <3>2. CASE DispatchInactive
      <4>1. state' = [state EXCEPT ![cur] = "INACTIVE"]
        BY <3>2 DEF DispatchInactive, object_pool_deallocate, Cleared
      <4> QED BY <2>0, <2>1, <4>1
    <3>3. CASE DispatchActive
      BY <2>1, <3>3 DEF DispatchActive, Runs
    <3> QED BY <3>1, <3>2, <3>3
  <2>2. CASE cur # t
    BY <1>2, <2>0, <2>2 DEF Unvisited
  <2> QED BY <2>1, <2>2
<1>3. CASE pc # "dispatch" /\ ~Remove
  <2>1. pc' # "dispatch"
    BY <1>3 DEF Next, Host, Dispatch, Script, Finish, Aborted, Yield, gsc_call, gsc_notify,
       gsc_update, vm_error, DispatchInactive, DispatchTime, DispatchFrame, DispatchEvent,
       DispatchNoEvent, DispatchActive, Requeue, OP_NOTIFY, OP_ENDON, OP_CALL_THREADED, OP_WAIT,
       OP_WAIT_FRAME, OP_WAITTILL, OP_RET, EndOfRound, CompactEvent, EndOfTick, vars
  <2>2. CASE pc = "loop"
    <3>1. EndOfRound
      BY <1>3, <2>2 DEF Next, Host, Dispatch, Script, Finish, Aborted, Yield, gsc_call, gsc_notify,
         gsc_update, vm_error, DispatchInactive, DispatchTime, DispatchFrame, DispatchEvent,
         DispatchNoEvent, DispatchActive, Requeue, OP_NOTIFY, OP_ENDON, OP_CALL_THREADED, OP_WAIT,
         OP_WAIT_FRAME, OP_WAITTILL, OP_RET, CompactEvent, EndOfTick
    <3>2. due = {} /\ due' = {}
      BY <3>1, EndOfRoundDue DEF TInv
    <3> QED BY <1>3, <2>1, <3>2 DEF Unvisited
  <2>3. CASE pc # "loop"
    BY <1>3, <2>1, <2>3 DEF NextDue, TickBegins, Unvisited
  <2> QED BY <2>2, <2>3
<1> QED BY <1>1, <1>2, <1>3

\* A thread that is found ACTIVE before a tick begins was in the ring.
LEMMA WokenOverdue ==
  ASSUME TInv, Next, Clocks, pc # "abort", pc' # "abort",
         NEW t \in Threads, Woken(t)'
  PROVE  overdue'[t] = IF Unvisited(t)' THEN 2 ELSE 1
<1>0. /\ IInv /\ SleepInv /\ RestInv /\ ThreadTypes /\ NextDue
      /\ t \in resting' /\ state'[t] = "ACTIVE" /\ t \in resting /\ ~Runs(t)
  BY Types DEF TInv, Clocks, Woken, NextResting
<1>1. CASE Waiting(t)
  <2>1. DispatchTime /\ cur = t /\ wait[t] <= 0
    BY <1>0, <1>1, WakesByClock
  <2>2. pc = "dispatch" /\ pc' = "requeue" /\ cur \notin due /\ due' = due
    BY <1>0, <2>1, DueQueued DEF TInv, DispatchTime, NextDue, TickBegins
  <2>3. Unvisited(t) /\ ~Unvisited(t)'
    BY <2>1, <2>2 DEF Unvisited
  <2>4. Accounted(t)
    BY <1>0, <1>1, <2>2 DEF SleepInv
  <2>5. overdue'[t] = overdue[t]
    BY <1>0, <2>2 DEF Clocks, NextOverdue, TickBegins
  <2> QED BY <2>1, <2>3, <2>4, <2>5 DEF Accounted
<1>2. CASE ~Waiting(t)
  <2>1. /\ Woken(t) /\ state[t] = "ACTIVE"
        /\ overdue[t] = IF Unvisited(t) THEN 2 ELSE 1
    BY <1>0, <1>2 DEF Woken, RestInv
  <2>2. CASE TickBegins
    <3>1. t \notin Free /\ cur = NULL /\ cur # t
      BY <1>0, <2>1, <2>2 DEF SleepInv, ThreadTypes, TickBegins
    <3>2. due = {} /\ due' = Ringed
      BY <1>0, <2>2 DEF TInv, DueInv, NextDue, TickBegins
    <3>3. t \in due'
      BY <1>0, <3>1, <3>2, PartitionParts DEF IInv
    <3>4. ~Unvisited(t) /\ Unvisited(t)'
      BY <2>2, <3>2, <3>3 DEF Unvisited, TickBegins
    <3>5. overdue'[t] = overdue[t] + 1
      BY <1>0, <1>2, <2>2 DEF Clocks, NextOverdue, TimeUp
    <3> QED BY <2>1, <3>4, <3>5
  <2>3. CASE ~TickBegins
    <3>1. Unvisited(t)' <=> Unvisited(t)
      BY <1>0, <2>1, <2>3, UnvisitedKept
    <3>2. overdue'[t] = overdue[t]
      BY <1>0, <2>3 DEF Clocks, NextOverdue
    <3> QED BY <2>1, <3>1, <3>2
  <2> QED BY <2>2, <2>3
<1> QED BY <1>1, <1>2

\* No tick begins with a thread already two ticks overdue.
LEMMA NextRestInv ==
  ASSUME TInv, IInv', SleepInv', [TNext]_hvars
  PROVE  RestInv'
<1>1. CASE UNCHANGED hvars
  <2>1. \A t \in Threads : (Unvisited(t)' <=> Unvisited(t)) /\ (Woken(t)' <=> Woken(t)) /\ (Waiting(t)' <=> Waiting(t))
    BY <1>1 DEF hvars, vars, threadvars, tick, Unvisited, Woken, Waiting
  <2>2. UNCHANGED <<resting, overdue, pc, cur, state>>
    BY <1>1 DEF hvars, vars, threadvars
  <2> QED BY <2>1, <2>2 DEF TInv, RestInv
<1>2. CASE TNext
  <2>0. IInv /\ SleepInv /\ RestInv /\ Next /\ Clocks /\ ThreadTypes /\ ThreadTypes'
    BY <1>2, Types, TypesNext DEF TInv, TNext, Clocks
  <2>1. resting' \subseteq Threads /\ overdue' \in [Threads -> Int]
    BY <2>0, ClockTypes DEF Clocks, NextResting
  <2>2. ASSUME NEW t \in Threads
        PROVE  /\ t \notin resting' => overdue'[t] = 0
               /\ Waiting(t)' => t \in resting'
               /\ Woken(t)' => state'[t] = "ACTIVE"
    BY <2>0 DEF Clocks, NextResting, NextOverdue, Woken
  <2>3. pc' = "run" => cur' \notin resting'
    BY <2>0 DEF Clocks, NextResting, Runs, SleepInv, Waiting
  <2>4. ASSUME pc' # "abort", NEW t \in Threads, Woken(t)'
        PROVE  overdue'[t] = IF Unvisited(t)' THEN 2 ELSE 1
    <3>1. pc # "abort"
      BY <2>0, <2>4 DEF Next, Host, Dispatch, Script, Finish, Aborted, Yield, gsc_call, gsc_notify,
         gsc_update, Remove, DispatchInactive, DispatchTime, DispatchFrame, DispatchEvent,
         DispatchNoEvent, DispatchActive, Requeue, OP_NOTIFY, OP_ENDON, OP_CALL_THREADED, OP_WAIT,
         OP_WAIT_FRAME, OP_WAITTILL, OP_RET, EndOfRound, CompactEvent, EndOfTick, vars
    <3> QED BY <2>0, <2>4, <3>1, WokenOverdue
  <2>5. ASSUME NEW t \in Threads
        PROVE  overdue'[t] \in 0 .. 2
    <3>1. CASE t \notin resting'
      BY <2>2, <3>1
    <3>2. CASE t \in resting' /\ pc' = "abort"
      BY <2>0, <3>2 DEF Clocks, NextOverdue, TickBegins, RestInv
    <3>3. CASE Woken(t)' /\ pc' # "abort"
      BY <2>4, <3>3
    <3>4. CASE Waiting(t)' /\ pc' # "abort"
      <4>1. Accounted(t)'
        BY <3>4 DEF SleepInv
      <4> QED BY <4>1 DEF Accounted
    <3> QED BY <3>1, <3>2, <3>3, <3>4 DEF Woken
  <2> QED BY <2>1, <2>2, <2>3, <2>4, <2>5 DEF RestInv
<1> QED BY <1>1, <1>2

LEMMA NextSleepInv ==
  ASSUME TInv, IInv', DueInv', [TNext]_hvars
  PROVE  SleepInv'
<1>1. [Next]_vars /\ SleepInv /\ IInv
  BY DEF TNext, hvars, TInv
<1>2. /\ \A t \in Free' : state'[t] = "INACTIVE"
      /\ pc' = "run" => state'[cur'] = "ACTIVE"
  BY <1>1, StatesKept
<1>3. asked' \in [Threads -> Int] /\ slept' \in [Threads -> Int]
  <2>1. CASE TNext
    BY <1>1, <2>1, Types, TypesNext, ClockTypes DEF TNext, TInv, Clocks
  <2>2. CASE UNCHANGED hvars
    BY <1>1, <2>2 DEF hvars, SleepInv
  <2> QED BY <2>1, <2>2
<1>4. ASSUME pc' # "abort", NEW t \in Threads, Waiting(t)'
      PROVE  Accounted(t)'
  <2>1. CASE UNCHANGED hvars
    BY <1>1, <1>4, <2>1
       DEF hvars, vars, threadvars, tick, SleepInv, Accounted, Owed, Unvisited, Waiting
  <2>2. CASE TNext
    <3>1. Next /\ Clocks
      BY <2>2 DEF TNext, Clocks
    <3>2. ~Aborted
      BY <1>4 DEF Aborted, vars
    <3> QED BY <1>4, <3>1, <3>2, HostAccounts, DispatchAccounts, ScriptAccounts, FinishAccounts
            DEF Next
  <2> QED BY <2>1, <2>2
<1> QED BY <1>2, <1>3, <1>4 DEF SleepInv

LEMMA TimingInv == TSpec => []TInv
<1>1. TInit => TInv
  BY InitInv, InitDue, InitSleep DEF TInit, TInv
<1>2. TInv /\ [TNext]_hvars => TInv'
  <2> SUFFICES ASSUME TInv, [TNext]_hvars PROVE TInv'
    OBVIOUS
  <2>1. IInv /\ DueInv /\ [Next]_vars /\ ((Next /\ NextDue) \/ UNCHANGED <<vars, due>>)
    BY DEF TNext, hvars, TInv
  <2>2. IInv' /\ DueInv'
    BY <2>1, NextInv, NextDueInv
  <2>3. SleepInv'
    BY <2>2, NextSleepInv
  <2> QED BY <2>2, <2>3, NextRestInv DEF TInv
<1> QED BY <1>1, <1>2, PTL DEF TSpec

\* A timed wait never ends before the time that was asked for, for every set
\* of durations (also negative ones) and of ticks.
THEOREM WaitsNeverEarly == TSpec => WaitNeverEarly
<1>1. TInv /\ [TNext]_hvars
        => [\A t \in Threads : Waiting(t) /\ state'[t] = "ACTIVE" => slept[t] >= asked[t]]_hvars
  <2> SUFFICES ASSUME TInv, TNext, NEW t \in Threads, Waiting(t), state'[t] = "ACTIVE"
               PROVE  slept[t] >= asked[t]
    BY DEF hvars
  <2>1. DispatchTime /\ cur = t /\ wait[t] <= 0
    BY WakesByClock DEF TNext
  <2>2. /\ Accounted(t) /\ wait[t] \in Int /\ asked[t] \in Int /\ slept[t] \in Int
        /\ dt \in Nat
    BY <2>1, Types DEF TInv, SleepInv, ThreadTypes, DispatchTime
  <2> QED BY <2>1, <2>2 DEF Accounted, Owed
<1> QED BY <1>1, TimingInv, PTL DEF TSpec, WaitNeverEarly

\* A script that waited runs on in the second tick that begins after its time
\* was up, neither earlier nor later, for every set of durations and of ticks.
THEOREM ResumesOnTime == TSpec => ResumesInSecondTick
<1>1. TInv => \A t \in Threads : overdue[t] <= 2
  BY DEF TInv, RestInv
<1>2. TInv /\ [TNext]_hvars
        => [\A t \in resting : pc = "dispatch" /\ Runs(t) => overdue[t] = 2]_hvars
  <2> SUFFICES ASSUME TInv, TNext, NEW t \in resting, pc = "dispatch", Runs(t)
               PROVE  overdue[t] = 2
    BY DEF hvars
  <2>1. DispatchActive /\ cur = t
    BY DEF TNext, Runs, Next, Host, Dispatch, Script, Finish, Aborted, Yield, gsc_call, gsc_notify,
       gsc_update, Remove, DispatchInactive, DispatchTime, DispatchFrame, DispatchEvent,
       DispatchNoEvent, DispatchActive, Requeue, OP_NOTIFY, OP_ENDON, OP_CALL_THREADED, OP_WAIT,
       OP_WAIT_FRAME, OP_WAITTILL, OP_RET, EndOfRound, CompactEvent, EndOfTick
  <2>2. Woken(t) /\ Unvisited(t) /\ t \in Threads
    BY <2>1 DEF DispatchActive, Woken, Waiting, Unvisited, TInv, RestInv
  <2> QED BY <2>2 DEF TInv, RestInv
<1> QED BY <1>1, <1>2, TimingInv, PTL DEF TSpec, ResumesInSecondTick
=============================================================================
