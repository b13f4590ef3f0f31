------------------------------ MODULE HashTrie ------------------------------
(***************************************************************************)
(* The hash tries (hash_trie.h, string_table.h, the fields of an object in *)
(* vm.c): a node's key decides nothing about its place; a walk takes two   *)
(* bits of the hash of the key it looks for at every level, past the nodes *)
(* whose key is another, and a new node is hung where it ends.  When the   *)
(* hash is used up the walk goes on through child 0.                       *)
(*                                                                         *)
(* kind tells whose trie it is: "trie" a HashTrie or the fields of an      *)
(* object, whose keys are compared without case, "strings" the string      *)
(* table, and "includes" the includes of a file, whose keys the parser     *)
(* rewrites after it has stored them.                                      *)
(***************************************************************************)
EXTENDS Naturals, Sequences

CONSTANTS
  Keys,       \* spellings
  lower,      \* the key in lower case
  Children,   \* 0 .. 2^HASH_TRIE_ARY - 1
  Digits,     \* levels the hash has bits for
  Capacity,   \* nodes memory has room for
  NONE

ASSUME LowerAssumption == lower \in [Keys -> Keys] /\ \A k \in Keys : lower[lower[k]] = lower[k]
ASSUME ChildrenAssumption == Children \subseteq Nat /\ 0 \in Children
ASSUME SizeAssumption == Digits \in Nat /\ Capacity \in Nat
ASSUME NoneAssumption == NONE \notin Keys

Kinds == {"trie", "strings", "includes"}
Nodes == 1 .. Capacity
NULL == 0

VARIABLES
  kind,
  hash,      \* of the spellings (strings), of the keys in lower case (others)
  key, child, next,   \* of each node
  rewritten, \* nodes whose key got other slashes after it was stored
  head, tail,\* the first node, and the last: *tail is its next, or head
  count,     \* nodes that exist, numbered as they were allocated
  goal, create,       \* the question: which key, and whether to store it
  slot, depth,        \* the pointer the walk has reached, and its level
  result     \* of the last question: a node, or NULL

shape == <<kind, hash>>
trie == <<key, child, next, rewritten, head, tail, count>>
vars == <<shape, trie, goal, create, slot, depth, result>>

AtHead == <<NULL, 0>>

Init ==
  /\ kind \in Kinds
  /\ hash \in [Keys -> [0 .. Digits - 1 -> Children]]
  /\ kind # "strings" => \A k \in Keys : hash[k] = hash[lower[k]]
  /\ key = [n \in Nodes |-> NONE]
  /\ child = [n \in Nodes |-> [c \in Children |-> NULL]]
  /\ next = [n \in Nodes |-> NULL]
  /\ rewritten = {}
  /\ head = NULL /\ tail = NULL
  /\ count = 0
  /\ goal = NONE /\ create = FALSE
  /\ slot = AtHead /\ depth = 0
  /\ result = NULL

\* strcmp or stricmp.
Spelled(k) == IF kind = "strings" THEN k ELSE lower[k]

\* h >> 62 after depth shifts by two bits.
Digit(k, d) == IF d < Digits THEN hash[Spelled(k)][d] ELSE 0

Pointee == IF slot = AtHead THEN head ELSE child[slot[1]][slot[2]]

\* A rewritten key has slashes, and what a script writes has backslashes.
Matches(n) == n \notin rewritten /\ Spelled(key[n]) = Spelled(goal)

\* A question without an allocator (NULL, or a NULL vm) stores nothing; the
\* string table and the parser always store.
Ask(k, a) ==
  /\ goal = NONE
  /\ kind \in {"strings", "includes"} => a
  /\ goal' = k /\ create' = a
  /\ slot' = AtHead /\ depth' = 0
  /\ UNCHANGED <<shape, trie, result>>

\* The walk's own variables are gone when it returns.
Return(n) ==
  /\ result' = n
  /\ goal' = NONE /\ create' = FALSE
  /\ slot' = AtHead /\ depth' = 0
  /\ UNCHANGED shape

Rewrite(n) == rewritten' = IF kind = "includes" THEN rewritten \cup {n} ELSE rewritten

Descend ==
  /\ goal # NONE
  /\ Pointee # NULL /\ ~Matches(Pointee)
  /\ slot' = <<Pointee, Digit(goal, depth)>>
  /\ depth' = IF depth < Digits THEN depth + 1 ELSE depth
  /\ UNCHANGED <<shape, trie, goal, create, result>>

Hit ==
  /\ goal # NONE
  /\ Pointee # NULL /\ Matches(Pointee)
  /\ Return(Pointee)
  /\ UNCHANGED trie

Miss ==
  /\ goal # NONE
  /\ Pointee = NULL
  /\ ~create \/ count = Capacity
  /\ Return(NULL)
  /\ UNCHANGED trie

\* Mutant: the new node is not cleared, and its first child is itself.
BugHang(n) ==
  IF slot = AtHead
  THEN head' = n /\ child' = [child EXCEPT ![n][0] = n]
  ELSE child' = [child EXCEPT ![slot[1]][slot[2]] = n, ![n][0] = n] /\ UNCHANGED head

\* *m = new_node
Hang(n) ==
  IF slot = AtHead
  THEN head' = n /\ UNCHANGED child
  ELSE child' = [child EXCEPT ![slot[1]][slot[2]] = n] /\ UNCHANGED head

\* Mutant: the tail stays where it was.
BugEnlist(n) ==
  /\ next' = IF tail = NULL THEN next ELSE [next EXCEPT ![tail] = n]
  /\ tail' = IF tail = NULL THEN n ELSE tail

\* *tail = new_node; tail = &new_node->next: the first node is the head as well.
Enlist(n) ==
  /\ next' = IF tail = NULL THEN next ELSE [next EXCEPT ![tail] = n]
  /\ tail' = n

NewNode(n) ==
  /\ goal # NONE
  /\ Pointee = NULL
  /\ create /\ count < Capacity /\ n = count + 1
  /\ key' = [key EXCEPT ![n] = goal]
  /\ Hang(n)
  /\ count' = n
  /\ Return(n)

Insert ==
  /\ kind # "strings"
  /\ \E n \in Nodes : NewNode(n) /\ Enlist(n) /\ Rewrite(n)

\* The entries of the string table are an array: their index is the handle.
Store ==
  /\ kind = "strings"
  /\ \E n \in Nodes : NewNode(n)
  /\ UNCHANGED <<next, tail, rewritten>>

Walk == Descend \/ Hit \/ Miss \/ Insert \/ Store

Next == (\E k \in Keys, a \in BOOLEAN : Ask(k, a)) \/ Walk

Spec == Init /\ [][Next]_vars

\* A call runs to its end.
FairSpec == Spec /\ WF_vars(Walk)
=============================================================================
