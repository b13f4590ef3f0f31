------------------------------ MODULE EventBoard ------------------------------
(***************************************************************************)
(* What the event list promises: notifications are kept in the order they  *)
(* were sent until one waiter takes each of them; a waiter takes the       *)
(* oldest one it waits for, and wakes only by taking one.                  *)
(***************************************************************************)
EXTENDS Naturals, Sequences

CONSTANTS Threads, Keys, Capacity, None

VARIABLES
  pending,    \* keys of the notifications nobody has taken, oldest first
  awaiting    \* key a thread is blocked on, or None

Init == pending = <<>> /\ awaiting = [t \in Threads |-> None]

Post(key) ==
  /\ Len(pending) < Capacity
  /\ pending' = Append(pending, key)
  /\ UNCHANGED awaiting

Block(t, key) ==
  /\ awaiting[t] = None
  /\ awaiting' = [awaiting EXCEPT ![t] = key]
  /\ UNCHANGED pending

Without(s, k) == SubSeq(s, 1, k - 1) \o SubSeq(s, k + 1, Len(s))

Deliver(t) ==
  \E k \in 1 .. Len(pending) :
    /\ pending[k] = awaiting[t]
    /\ \A m \in 1 .. k - 1 : pending[m] # awaiting[t]
    /\ pending' = Without(pending, k)
    /\ awaiting' = [awaiting EXCEPT ![t] = None]

\* A blocked thread is stopped by endon; its notifications stay for others.
Stop(t) ==
  /\ awaiting[t] # None
  /\ awaiting' = [awaiting EXCEPT ![t] = None]
  /\ UNCHANGED pending

Next ==
  \/ \E key \in Keys : Post(key)
  \/ \E t \in Threads : Deliver(t) \/ Stop(t) \/ \E key \in Keys : Block(t, key)

Spec == Init /\ [][Next]_<<pending, awaiting>>
=============================================================================
