------------------------- MODULE HashTrieRefinement -------------------------
(***************************************************************************)
(* A hash trie implements an ordered map.                                  *)
(***************************************************************************)
EXTENDS HashTrie

\* The list as its users walk it: it = head; it; it = it->next; the string
\* table by its index.
Nth[i \in 1 .. Capacity] ==
  IF kind = "strings" THEN i
  ELSE IF i = 1 THEN head
  ELSE IF Nth[i - 1] = NULL THEN NULL ELSE next[Nth[i - 1]]

KeyAt(i) == key[Nth[i]]

Alike(k, l) == Spelled(k) = Spelled(l)

\* The includes hold a path once for every time it was written; linking a file
\* again changes nothing, so only the first of them counts.
Repeated(i) == kind = "includes" /\ \E j \in 1 .. i - 1 : Alike(KeyAt(j), KeyAt(i))

Upto[i \in 0 .. Capacity] ==
  IF i = 0 THEN <<>>
  ELSE IF Nth[i] = NULL \/ Repeated(i) THEN Upto[i - 1]
  ELSE Append(Upto[i - 1], KeyAt(i))

List == Upto[count]

Place(n) ==
  IF n = NULL THEN 0
  ELSE LET l == List IN CHOOSE i \in 1 .. Len(l) : Alike(l[i], key[n])

\* NONE is no question, either.
ASSUME QuestionAssumption == NONE \notin [key : Keys, create : BOOLEAN]

Class == [k \in Keys |-> Spelled(k)]
Question == IF goal = NONE THEN NONE ELSE [key |-> goal, create |-> create]
Position == Place(result)

Map == INSTANCE OrderedMap WITH
  class <- Class, list <- List, asked <- Question, answer <- Position

\* Whatever the hashes of the keys are, equal or alike in their first bits: a
\* key is found by every question after the one that stored it, at the same
\* place of the list (a handle of the string table never changes its string);
\* no two alike keys are stored; and the list is in the order of insertion.
ImplementsOrderedMap == Map!Spec

\* Every walk ends, even when whole hashes are equal.
LookupEnds == goal # NONE ~> goal = NONE
=============================================================================
