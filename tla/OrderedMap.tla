----------------------------- MODULE OrderedMap -----------------------------
(***************************************************************************)
(* What a hash trie promises: a list of keys, no two of them alike, that   *)
(* only grows at its end; a question is answered with the position of the  *)
(* key in that list, which it keeps.                                       *)
(***************************************************************************)
EXTENDS Naturals, Sequences

CONSTANTS Keys, NONE

VARIABLES
  class,    \* keys that are alike have the same class
  list,     \* the keys, oldest first
  asked,    \* [key, create] of the question that is open, or NONE
  answer    \* position of the key last asked for; 0: not there

Init ==
  /\ class \in [Keys -> Keys]
  /\ list = <<>>
  /\ asked = NONE
  /\ answer = 0

Ask(k, create) ==
  /\ asked = NONE
  /\ asked' = [key |-> k, create |-> create]
  /\ UNCHANGED <<class, list, answer>>

Positions == {i \in 1 .. Len(list) : class[list[i]] = class[asked.key]}

Answer(i) == asked' = NONE /\ answer' = i /\ UNCHANGED class

Found == asked # NONE /\ (\E i \in Positions : Answer(i)) /\ UNCHANGED list

Absent == asked # NONE /\ ~asked.create /\ Positions = {} /\ Answer(0) /\ UNCHANGED list

Added ==
  /\ asked # NONE /\ asked.create /\ Positions = {}
  /\ list' = Append(list, asked.key)
  /\ Answer(Len(list) + 1)

\* Storing a key may run out of memory, and changes nothing then.
OutOfMemory == asked # NONE /\ asked.create /\ Answer(0) /\ UNCHANGED list

Next ==
  \/ \E k \in Keys, create \in BOOLEAN : Ask(k, create)
  \/ Found \/ Absent \/ Added \/ OutOfMemory

Spec == Init /\ [][Next]_<<class, list, asked, answer>>
=============================================================================
