------------------------------- MODULE RunQueue -------------------------------
(***************************************************************************)
(* What the ring of threads promises its users: a bounded first-in         *)
(* first-out queue from which one thread at a time is taken, and to which  *)
(* it goes back, or from which it disappears.  No thread is in it twice.   *)
(***************************************************************************)
EXTENDS Naturals, Sequences

CONSTANTS Threads, Capacity, NULL

VARIABLES queue, current

Queued == {queue[k] : k \in 1 .. Len(queue)}

Init == queue = <<>> /\ current = NULL

\* A thread nobody holds joins at the end.
Spawn(t) ==
  /\ t \notin Queued \cup {current}
  /\ Len(queue) < Capacity
  /\ queue' = Append(queue, t)
  /\ UNCHANGED current

Take ==
  /\ current = NULL /\ queue # <<>>
  /\ current' = Head(queue)
  /\ queue' = Tail(queue)

PutBack ==
  /\ current # NULL
  /\ Len(queue) < Capacity
  /\ queue' = Append(queue, current)
  /\ current' = NULL

Retire ==
  /\ current # NULL
  /\ current' = NULL
  /\ UNCHANGED queue

Next == (\E t \in Threads : Spawn(t)) \/ Take \/ PutBack \/ Retire

Spec == Init /\ [][Next]_<<queue, current>>
=============================================================================
