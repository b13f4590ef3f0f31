---------------------------- MODULE HashTrieProofs ----------------------------
(***************************************************************************)
(* A hash trie implements an ordered map for every set of keys, every hash *)
(* function and every number of levels: a walk for a key that is stored    *)
(* arrives at its node, whatever was hung in since.                        *)
(***************************************************************************)
EXTENDS HashTrieRefinement, Induction, SequenceTheorems, TLAPS

TypeOK ==
  /\ kind \in Kinds /\ hash \in [Keys -> [0 .. Digits - 1 -> Children]]
  /\ count \in 0 .. Capacity
  /\ key \in [Nodes -> Keys \cup {NONE}] /\ \A n \in 1 .. count : key[n] \in Keys
  /\ child \in [Nodes -> [Children -> 0 .. count]]
  /\ head = IF count = 0 THEN NULL ELSE 1
  /\ goal \in Keys \cup {NONE} /\ create \in BOOLEAN
  /\ slot \in {AtHead} \cup ((1 .. count) \X Children) /\ depth \in 0 .. Digits
  /\ result \in 0 .. count
  /\ kind \in {"strings", "includes"} /\ goal # NONE => create

\* The list is in the order of the numbers, and every include was rewritten.
Listed ==
  /\ rewritten = IF kind = "includes" THEN 1 .. count ELSE {}
  /\ kind # "strings" =>
       /\ tail = count
       /\ next \in [Nodes -> 0 .. Capacity]
       /\ \A n \in Nodes : next[n] = IF n < count THEN n + 1 ELSE NULL

-----------------------------------------------------------------------------
(* Walks.  A pair of a slot and a level is where a walk is; a walk for k     *)
(* goes on from it below the node it finds there.                            *)

At(s) == IF s = AtHead THEN head ELSE child[s[1]][s[2]]
Slots == {AtHead} \cup (Nodes \X Children)
Levels == 0 .. Digits
Deeper(d) == IF d < Digits THEN d + 1 ELSE d

\* S holds with each place the next one of a walk for k that stops at n.
Follows(S, k, n) ==
  \A s \in Slots, d \in Levels :
    <<s, d>> \in S /\ At(s) \notin {NULL, n} => <<<<At(s), Digit(k, d)>>, Deeper(d)>> \in S

\* The walk for k from there finds n.
Leads(s, d, k, n) ==
  \A S \in SUBSET (Slots \X Levels) :
    <<s, d>> \in S /\ Follows(S, k, n) =>
      \E u \in Slots, e \in Levels : <<u, e>> \in S /\ At(u) = n

\* Every walk for k from the first node on comes by this place.
OnTheWay(s, d, k) ==
  \A S \in SUBSET (Slots \X Levels) :
    <<AtHead, 0>> \in S /\ Follows(S, k, NULL) => <<s, d>> \in S

Finds(s, d, k) ==
  /\ OnTheWay(s, d, k)
  /\ \A n \in 1 .. count : Spelled(key[n]) = Spelled(k) => Leads(s, d, k, n)

\* Stored keys are found, and the walk that is going on will find its own.
WalksFind ==
  kind # "includes" =>
    /\ \A k \in Keys : Finds(AtHead, 0, k)
    /\ \A s \in Slots, d \in Levels, k \in Keys :
         s = slot /\ d = depth /\ k = goal => Finds(s, d, k)

HInv == TypeOK /\ Listed /\ WalksFind

-----------------------------------------------------------------------------
(* Types *)

LEMMA SlotTyped ==
  ASSUME TypeOK
  PROVE  /\ slot \in Slots /\ AtHead \in Slots /\ depth \in Levels
         /\ Pointee = At(slot)
         /\ \A s \in Slots : At(s) \in 0 .. count
<1>1. 1 .. count \subseteq Nodes
  BY SizeAssumption DEF TypeOK, Nodes
<1>2. slot \in Slots /\ AtHead \in Slots /\ depth \in Levels
  BY <1>1 DEF TypeOK, Slots, Levels
<1>3. Pointee = At(slot)
  BY DEF Pointee, At
<1>4. ASSUME NEW s \in Slots PROVE At(s) \in 0 .. count
  <2>1. CASE s = AtHead
    BY <2>1 DEF TypeOK, At, NULL
  <2>2. CASE s # AtHead
    <3>1. s[1] \in Nodes /\ s[2] \in Children
      BY <2>2 DEF Slots
    <3> QED BY <2>2, <3>1 DEF TypeOK, At
  <2> QED BY <2>1, <2>2
<1> QED BY <1>2, <1>3, <1>4

LEMMA SpelledTyped ==
  ASSUME NEW k \in Keys
  PROVE  Spelled(k) \in Keys
BY LowerAssumption DEF Spelled

LEMMA DigitTyped ==
  ASSUME TypeOK, NEW k \in Keys, NEW d \in Levels
  PROVE  Digit(k, d) \in Children
<1>1. CASE d < Digits
  <2>1. d \in 0 .. Digits - 1 /\ Spelled(k) \in Keys
    BY <1>1, SizeAssumption, SpelledTyped DEF Levels
  <2>2. hash[Spelled(k)] \in [0 .. Digits - 1 -> Children]
    BY <2>1 DEF TypeOK
  <2> QED BY <1>1, <2>1, <2>2 DEF Digit
<1>2. CASE ~(d < Digits)
  BY <1>2, ChildrenAssumption DEF Digit
<1> QED BY <1>1, <1>2

\* Alike keys take the same way.
LEMMA AlikeDigits ==
  ASSUME NEW k, NEW l, Spelled(k) = Spelled(l), NEW d
  PROVE  Digit(k, d) = Digit(l, d)
BY DEF Digit

LEMMA InitInv == Init => HInv
<1> SUFFICES ASSUME Init PROVE HInv
  OBVIOUS
<1>1. TypeOK
  <2>1. /\ count = 0 /\ head = 0 /\ result = 0 /\ goal = NONE /\ create = FALSE
        /\ slot = AtHead /\ depth = 0 /\ kind \in Kinds
        /\ hash \in [Keys -> [0 .. Digits - 1 -> Children]]
    BY DEF Init, NULL
  <2>2. /\ key \in [Nodes -> Keys \cup {NONE}] /\ child \in [Nodes -> [Children -> 0 .. 0]]
    BY DEF Init, NULL
  <2>3. 0 \in 0 .. Capacity /\ 0 \in 0 .. Digits /\ 0 \in 0 .. 0 /\ 1 .. 0 = {}
    BY SizeAssumption
  <2> QED BY <2>1, <2>2, <2>3 DEF TypeOK, NULL
<1>2. Listed
  <2>1. 1 .. 0 = {} /\ count = 0 /\ tail = 0 /\ rewritten = {} /\ next = [n \in Nodes |-> 0]
    BY DEF Init, NULL
  <2>2. 0 \in 0 .. Capacity /\ \A n \in Nodes : ~(n < 0)
    BY SizeAssumption DEF Nodes
  <2> QED BY <2>1, <2>2 DEF Listed, NULL
<1>3. WalksFind
  <2>0. count = 0 /\ 1 .. 0 = {}
    BY DEF Init
  <2>1. \A k \in Keys : Finds(AtHead, 0, k)
    BY <2>0 DEF Finds, OnTheWay
  <2>2. slot = AtHead /\ depth = 0
    BY DEF Init
  <2> QED BY <2>1, <2>2 DEF WalksFind
<1> QED BY <1>1, <1>2, <1>3 DEF HInv

\* What a walk changes before it stores anything.
Reading == UNCHANGED <<shape, trie>>

LEMMA ReadingLists ==
  ASSUME HInv, Reading
  PROVE  Listed'
BY DEF HInv, Reading, Listed, shape, trie

LEMMA ReadingFinds ==
  ASSUME Reading
  PROVE  \A s, d, k : Finds(s, d, k)' <=> Finds(s, d, k)
<1>1. \A s : At(s)' = At(s)
  BY DEF Reading, At, shape, trie
<1>2. \A k, d : Digit(k, d)' = Digit(k, d)
  BY DEF Reading, Digit, Spelled, shape, trie
<1>3. ASSUME NEW S, NEW k, NEW n PROVE Follows(S, k, n)' <=> Follows(S, k, n)
  BY <1>1, <1>2 DEF Follows
<1>4. ASSUME NEW s, NEW d, NEW k, NEW n PROVE Leads(s, d, k, n)' <=> Leads(s, d, k, n)
  BY <1>1, <1>3 DEF Leads
<1>5. ASSUME NEW s, NEW d, NEW k PROVE OnTheWay(s, d, k)' <=> OnTheWay(s, d, k)
  BY <1>3 DEF OnTheWay, NULL
<1>6. count' = count /\ \A n, k : (Spelled(key[n]) = Spelled(k))' <=> Spelled(key[n]) = Spelled(k)
  BY DEF Reading, Spelled, shape, trie
<1> QED BY <1>4, <1>5, <1>6 DEF Finds

LEMMA AskStep ==
  ASSUME HInv, NEW k \in Keys, NEW a \in BOOLEAN, Ask(k, a)
  PROVE  HInv'
<1>1. TypeOK /\ WalksFind /\ Reading /\ goal' = k /\ slot' = AtHead /\ depth' = 0
  BY DEF HInv, Ask, Reading
<1>2. TypeOK'
  BY <1>1, SizeAssumption DEF TypeOK, Ask, shape, trie
<1>3. kind' = kind
  BY <1>1 DEF Reading, shape
<1>4. WalksFind'
  BY <1>1, <1>3, ReadingFinds DEF WalksFind
<1> QED BY <1>1, <1>2, <1>4, ReadingLists DEF HInv

\* A walk that ends leaves no question.
LEMMA ReturnStep ==
  ASSUME HInv, Reading, NEW n \in 0 .. count, Return(n)
  PROVE  HInv'
<1>1. TypeOK /\ WalksFind /\ goal' = NONE /\ slot' = AtHead /\ depth' = 0 /\ kind' = kind
  BY DEF HInv, Return, Reading, shape
<1>2. TypeOK'
  <2>1. UNCHANGED <<kind, hash, key, child, head, count>> /\ create' = FALSE /\ result' = n
    BY DEF Reading, Return, shape, trie
  <2>2. 0 \in 0 .. Digits /\ FALSE \in BOOLEAN
    BY SizeAssumption
  <2> QED BY <1>1, <2>1, <2>2 DEF TypeOK
<1>3. WalksFind'
  BY <1>1, ReadingFinds, NoneAssumption DEF WalksFind
<1> QED BY <1>2, <1>3, ReadingLists DEF HInv

LEMMA DescendStep ==
  ASSUME HInv, Descend
  PROVE  HInv'
<1>1. TypeOK /\ Listed /\ WalksFind /\ Reading /\ goal' = goal /\ goal \in Keys /\ kind' = kind
  BY DEF HInv, Descend, Reading, TypeOK, shape
<1>2. /\ slot \in Slots /\ depth \in Levels /\ At(slot) = Pointee
      /\ Pointee \in 1 .. count /\ ~Matches(Pointee)
      /\ slot' = <<Pointee, Digit(goal, depth)>> /\ depth' = Deeper(depth)
  BY <1>1, SlotTyped DEF Descend, Deeper, NULL
<1>3. slot' \in (1 .. count) \X Children /\ depth' \in Levels /\ slot' \in Slots
  <2>1. Digit(goal, depth) \in Children
    BY <1>1, <1>2, DigitTyped
  <2>2. 1 .. count \subseteq Nodes
    BY <1>1, SizeAssumption DEF TypeOK, Nodes
  <2>3. depth' \in Levels
    BY <1>2, SizeAssumption DEF Deeper, Levels
  <2> QED BY <1>2, <2>1, <2>2, <2>3 DEF Slots
<1>4. TypeOK'
  BY <1>1, <1>3 DEF TypeOK, Descend, shape, trie, Levels
<1>5. PICK s \in Slots, d \in Levels, k \in Keys : s = slot /\ d = depth /\ k = goal
  BY <1>1, <1>2
<1>6. PICK t \in Slots, e \in Levels : t = slot' /\ e = depth'
  BY <1>3
<1>7. At(s) \notin {NULL} /\ t = <<At(s), Digit(k, d)>> /\ e = Deeper(d)
  BY <1>2, <1>5, <1>6 DEF NULL
<1>8. ASSUME kind # "includes" PROVE Finds(t, e, k)
  <2>1. Finds(s, d, k)
    BY <1>1, <1>5, <1>8 DEF WalksFind
  <2>2. OnTheWay(t, e, k)
    BY <1>7, <2>1 DEF Finds, OnTheWay, Follows
  <2>3. ASSUME NEW n \in 1 .. count, Spelled(key[n]) = Spelled(k),
               NEW S \in SUBSET (Slots \X Levels), <<t, e>> \in S, Follows(S, k, n)
        PROVE  \E u \in Slots, f \in Levels : <<u, f>> \in S /\ At(u) = n
    <3>1. Leads(s, d, k, n)
      BY <2>1, <2>3 DEF Finds
    <3>2. At(s) # n
      BY <1>1, <1>2, <1>5, <1>8, <2>3 DEF Matches, Listed
    <3> DEFINE T == S \cup {<<s, d>>}
    <3>3. T \in SUBSET (Slots \X Levels) /\ <<s, d>> \in T
      OBVIOUS
    <3>4. Follows(T, k, n)
      BY <1>7, <2>3 DEF Follows
    <3> HIDE DEF T
    <3>5. PICK u \in Slots, f \in Levels : <<u, f>> \in T /\ At(u) = n
      BY <3>1, <3>3, <3>4 DEF Leads
    <3> QED BY <3>2, <3>5 DEF T
  <2>4. \A n \in 1 .. count : Spelled(key[n]) = Spelled(k) => Leads(t, e, k, n)
    BY <2>3 DEF Leads
  <2> QED BY <2>2, <2>4 DEF Finds
<1>9. WalksFind'
  <2>1. ASSUME kind # "includes" PROVE Finds(t, e, k)'
    BY <1>8, <2>1, ReadingFinds, <1>1
  <2>2. ASSUME kind # "includes", NEW l \in Keys PROVE Finds(AtHead, 0, l)'
    BY <1>1, <2>2, ReadingFinds DEF WalksFind
  <2> QED BY <1>1, <1>5, <1>6, <2>1, <2>2 DEF WalksFind
<1> QED BY <1>1, <1>4, <1>9, ReadingLists DEF HInv

\* A walk ends at NULL only if its key is not stored.
LEMMA NotStored ==
  ASSUME HInv, goal # NONE, Pointee = NULL, kind # "includes"
  PROVE  \A n \in 1 .. count : Spelled(key[n]) # Spelled(goal)
<1>1. TypeOK /\ WalksFind
  BY DEF HInv
<1>2. PICK s \in Slots, d \in Levels, k \in Keys : s = slot /\ d = depth /\ k = goal /\ At(s) = NULL
  BY <1>1, SlotTyped DEF TypeOK
<1>3. SUFFICES ASSUME NEW n \in 1 .. count, Spelled(key[n]) = Spelled(k) PROVE FALSE
  BY <1>2
<1>4. Leads(s, d, k, n)
  BY <1>1, <1>2, <1>3 DEF WalksFind, Finds
<1> DEFINE S == {<<s, d>>}
<1>5. S \in SUBSET (Slots \X Levels) /\ <<s, d>> \in S
  OBVIOUS
<1>6. Follows(S, k, n)
  BY <1>2 DEF Follows
<1>7. \A u \in Slots, e \in Levels : <<u, e>> \in S => u = s
  OBVIOUS
<1> HIDE DEF S
<1>8. \E u \in Slots, e \in Levels : <<u, e>> \in S /\ At(u) = n
  BY <1>4, <1>5, <1>6 DEF Leads
<1> QED BY <1>2, <1>3, <1>7, <1>8 DEF NULL

-----------------------------------------------------------------------------
(* A new node: it hangs where the walk for its key ended, and no other walk  *)
(* goes another way.                                                         *)

LEMMA NewNodeHangs ==
  ASSUME HInv, NEW n \in Nodes, NewNode(n)
  PROVE  /\ \A s \in Slots : At(s) # NULL => At(s)' = At(s)
         /\ \A s \in Slots : s = slot => At(s)' = n
         /\ child' \in [Nodes -> [Children -> 0 .. n]]
         /\ head' = 1
<1>1. TypeOK /\ slot \in Slots /\ At(slot) = NULL /\ n = count + 1 /\ 1 .. count \subseteq Nodes
  BY SlotTyped, SizeAssumption DEF HInv, NewNode, TypeOK, Nodes
<1>2. CASE slot = AtHead
  <2>1. head = NULL /\ head' = n /\ child' = child
    BY <1>1, <1>2 DEF NewNode, Hang, At
  <2>2. count = 0
    BY <1>1, <2>1 DEF TypeOK, NULL
  <2>3. child' \in [Nodes -> [Children -> 0 .. n]]
    <3>1. 0 .. count \subseteq 0 .. n
      BY <1>1, <2>2
    <3> QED BY <1>1, <2>1, <3>1 DEF TypeOK
  <2>4. \A s \in Slots : At(s)' = IF s = AtHead THEN n ELSE child[s[1]][s[2]]
    BY <2>1 DEF At
  <2> QED BY <1>1, <1>2, <2>1, <2>2, <2>3, <2>4 DEF At
<1>3. CASE slot # AtHead
  <2>1. slot \in (1 .. count) \X Children
    BY <1>1, <1>3 DEF TypeOK
  <2> DEFINE x == slot[1]
             c == slot[2]
  <2>2. /\ x \in Nodes /\ c \in Children /\ x \in 1 .. count /\ slot = <<x, c>>
        /\ head' = head /\ child' = [child EXCEPT ![x][c] = n]
    BY <1>1, <1>3, <2>1 DEF NewNode, Hang
  <2>3. PICK y \in Nodes, b \in Children : y = x /\ b = c
    BY <2>2
  <2>4. child' = [child EXCEPT ![y][b] = n] /\ slot = <<y, b>>
    BY <2>2, <2>3
  <2> HIDE DEF x, c
  <2>5. \A z \in Nodes, a \in Children :
          child'[z][a] = IF z = y /\ a = b THEN n ELSE child[z][a]
    BY <1>1, <2>4 DEF TypeOK
  <2>6. child' \in [Nodes -> [Children -> 0 .. n]]
    <3>1. 0 .. count \subseteq 0 .. n /\ n \in 0 .. n
      BY <1>1 DEF TypeOK
    <3> QED BY <1>1, <2>4, <3>1 DEF TypeOK
  <2>7. head' = head /\ head = 1
    BY <1>1, <2>2 DEF TypeOK
  <2>8. ASSUME NEW s \in Slots PROVE At(s)' = IF s = slot THEN n ELSE At(s)
    <3>1. CASE s = AtHead
      BY <1>3, <2>7, <3>1 DEF At
    <3>2. CASE s # AtHead
      <4>1. PICK z \in Nodes, a \in Children : s = <<z, a>>
        BY <3>2 DEF Slots
      <4>2. At(s)' = child'[z][a] /\ At(s) = child[z][a]
        BY <3>2, <4>1 DEF At
      <4>3. s = slot <=> z = y /\ a = b
        BY <2>4, <4>1
      <4> QED BY <2>5, <4>2, <4>3
    <3> QED BY <3>1, <3>2
  <2> QED BY <1>1, <2>6, <2>7, <2>8
<1> QED BY <1>2, <1>3

LEMMA NewNodeFinds ==
  ASSUME HInv, NEW n \in Nodes, NewNode(n), kind # "includes"
  PROVE  WalksFind'
<1>1. /\ TypeOK /\ WalksFind /\ n = count + 1 /\ count' = n /\ goal \in Keys
      /\ goal' = NONE /\ slot' = AtHead /\ depth' = 0 /\ kind' = kind /\ hash' = hash
      /\ key' = [key EXCEPT ![n] = goal]
  BY DEF HInv, NewNode, Return, shape, TypeOK
<1>2. \A s \in Slots : At(s) # NULL => At(s)' = At(s)
  BY NewNodeHangs
<1>3. \A s \in Slots : At(s) \in 0 .. count
  BY <1>1, SlotTyped
<1>4. \A k, d : Digit(k, d)' = Digit(k, d)
  BY <1>1 DEF Digit, Spelled
<1>5. \A k : Spelled(k)' = Spelled(k)
  BY <1>1 DEF Spelled
<1>6. PICK s \in Slots, d \in Levels, g \in Keys : s = slot /\ d = depth /\ g = goal /\ At(s)' = n
  BY <1>1, NewNodeHangs, SlotTyped
<1>7. ASSUME NEW S, NEW k, NEW m \in 0 .. n, Follows(S, k, m)'
      PROVE  Follows(S, k, IF m = n THEN NULL ELSE m)
  BY <1>1, <1>2, <1>3, <1>4, <1>7 DEF Follows, NULL, TypeOK
<1>8. ASSUME NEW k \in Keys PROVE OnTheWay(AtHead, 0, k)'
  BY DEF OnTheWay
<1>9. ASSUME NEW k \in Keys, NEW m \in 1 .. n, Spelled(key'[m]) = Spelled(k),
             NEW S \in SUBSET (Slots \X Levels), <<AtHead, 0>> \in S, Follows(S, k, m)'
      PROVE  \E u \in Slots, e \in Levels : <<u, e>> \in S /\ At(u)' = m
  <2>1. CASE m # n
    <3>1. m \in 1 .. count /\ key'[m] = key[m] /\ m \in 0 .. n /\ m # NULL
      BY <1>1, <1>9, <2>1 DEF TypeOK, NULL
    <3>2. Leads(AtHead, 0, k, m)
      BY <1>1, <1>9, <3>1 DEF WalksFind, Finds
    <3>3. Follows(S, k, m)
      BY <1>7, <1>9, <2>1, <3>1
    <3>4. PICK u \in Slots, e \in Levels : <<u, e>> \in S /\ At(u) = m
      BY <1>9, <3>2, <3>3 DEF Leads
    <3> QED BY <1>2, <3>1, <3>4
  <2>2. CASE m = n
    <3>1. key'[m] = goal
      BY <1>1, <2>2 DEF TypeOK
    <3>2. Follows(S, k, NULL)
      <4>1. m \in 0 .. n
        BY <1>1, <2>2 DEF TypeOK
      <4> QED BY <1>7, <1>9, <2>2, <4>1
    <3>3. \A x : Digit(k, x) = Digit(g, x)
      BY <1>6, <1>9, <3>1, AlikeDigits
    <3>4. Follows(S, g, NULL)
      BY <3>2, <3>3 DEF Follows
    <3>5. <<s, d>> \in S
      BY <1>1, <1>6, <1>9, <3>4 DEF WalksFind, Finds, OnTheWay
    <3> QED BY <1>6, <2>2, <3>5
  <2> QED BY <2>1, <2>2
<1>10. ASSUME NEW k \in Keys PROVE Finds(AtHead, 0, k)'
  <2>1. \A m \in 1 .. n : Spelled(key'[m]) = Spelled(k) => Leads(AtHead, 0, k, m)'
    BY <1>9 DEF Leads
  <2> QED BY <1>1, <1>5, <1>8, <2>1 DEF Finds
<1> QED BY <1>1, <1>10, NoneAssumption DEF WalksFind

LEMMA NewNodeTyped ==
  ASSUME HInv, NEW n \in Nodes, NewNode(n)
  PROVE  TypeOK'
<1>1. /\ TypeOK /\ n = count + 1 /\ count' = n /\ goal \in Keys /\ result' = n
      /\ goal' = NONE /\ create' = FALSE /\ slot' = AtHead /\ depth' = 0
      /\ kind' = kind /\ hash' = hash
      /\ key' = [key EXCEPT ![n] = goal]
  BY DEF HInv, NewNode, Return, shape, TypeOK
<1>2. child' \in [Nodes -> [Children -> 0 .. n]] /\ head' = 1
  BY NewNodeHangs
<1>3. /\ n \in 0 .. Capacity /\ n \in 0 .. n /\ n # 0 /\ 0 \in 0 .. Digits
      /\ \A m \in 1 .. n : m = n \/ m \in 1 .. count
  BY <1>1, SizeAssumption DEF TypeOK, Nodes
<1>4. key' \in [Nodes -> Keys \cup {NONE}] /\ \A m \in 1 .. n : key'[m] \in Keys
  <2>1. \A m \in 1 .. n : m \in Nodes
    BY <1>3, SizeAssumption DEF Nodes
  <2>2. \A m \in Nodes : key'[m] = IF m = n THEN goal ELSE key[m]
    BY <1>1 DEF TypeOK
  <2>3. key' \in [Nodes -> Keys \cup {NONE}]
    BY <1>1 DEF TypeOK
  <2>4. \A m \in 1 .. count : key[m] \in Keys
    BY <1>1 DEF TypeOK
  <2> QED BY <1>1, <1>3, <2>1, <2>2, <2>3, <2>4
<1> QED BY <1>1, <1>2, <1>3, <1>4 DEF TypeOK

LEMMA InsertStep ==
  ASSUME HInv, Insert
  PROVE  HInv'
<1>1. PICK n \in Nodes : NewNode(n) /\ Enlist(n) /\ Rewrite(n) /\ kind # "strings"
  BY DEF Insert
<1>2. TypeOK /\ Listed /\ n = count + 1 /\ count' = n /\ kind' = kind
  BY <1>1 DEF HInv, NewNode, Return, shape
<1>3. TypeOK'
  BY <1>1, NewNodeTyped
<1>4. WalksFind'
  BY <1>1, <1>2, NewNodeFinds DEF WalksFind
<1>5. rewritten' = IF kind = "includes" THEN 1 .. n ELSE {}
  <2>1. 1 .. n = (1 .. count) \cup {n}
    BY <1>2 DEF TypeOK
  <2> QED BY <1>1, <1>2, <2>1 DEF Rewrite, Listed
<1>6. tail' = n /\ next' \in [Nodes -> 0 .. Capacity]
      /\ \A m \in Nodes : next'[m] = IF m < n THEN m + 1 ELSE NULL
  <2>1. /\ tail = count /\ next \in [Nodes -> 0 .. Capacity]
        /\ \A m \in Nodes : next[m] = IF m < count THEN m + 1 ELSE NULL
        /\ next' = (IF tail = NULL THEN next ELSE [next EXCEPT ![tail] = n]) /\ tail' = n
    BY <1>1, <1>2 DEF Listed, Enlist
  <2>2. n \in 0 .. Capacity /\ count \in Nat
    BY <1>2 DEF TypeOK, Nodes
  <2>3. CASE count = 0
    <3>1. \A m \in Nodes : ~(m < 1)
      BY DEF Nodes
    <3> QED BY <1>2, <2>1, <2>3, <3>1 DEF NULL
  <2>4. CASE count # 0
    <3>1. next' = [next EXCEPT ![count] = n]
      BY <2>1, <2>4 DEF NULL
    <3>2. next' \in [Nodes -> 0 .. Capacity]
      BY <2>1, <2>2, <3>1
    <3>3. \A m \in Nodes : next'[m] = IF m = count THEN n ELSE next[m]
      BY <2>1, <3>1
    <3>4. \A m \in Nodes : m < n <=> m = count \/ m < count
      BY <1>2, <2>2 DEF Nodes
    <3> QED BY <1>2, <2>1, <2>2, <3>2, <3>3, <3>4
  <2> QED BY <2>3, <2>4
<1> QED BY <1>2, <1>3, <1>4, <1>5, <1>6 DEF HInv, Listed

LEMMA StoreStep ==
  ASSUME HInv, Store
  PROVE  HInv'
<1>1. PICK n \in Nodes : NewNode(n) /\ kind = "strings" /\ rewritten' = rewritten
  BY DEF Store
<1>2. Listed /\ kind' = kind
  BY <1>1 DEF HInv, NewNode, Return, shape
<1>3. TypeOK' /\ WalksFind'
  BY <1>1, NewNodeTyped, NewNodeFinds
<1>4. Listed'
  BY <1>1, <1>2 DEF Listed
<1> QED BY <1>3, <1>4 DEF HInv

LEMMA NextInv == HInv /\ [Next]_vars => HInv'
<1> SUFFICES ASSUME HInv, [Next]_vars PROVE HInv'
  OBVIOUS
<1>1. TypeOK
  BY DEF HInv
<1>2. CASE \E k \in Keys, a \in BOOLEAN : Ask(k, a)
  BY <1>2, AskStep
<1>3. CASE Descend \/ Insert \/ Store
  BY <1>3, DescendStep, InsertStep, StoreStep
<1>4. CASE Hit
  <2>1. Pointee \in 0 .. count
    BY <1>1, SlotTyped
  <2>2. Return(Pointee) /\ Reading
    BY <1>4 DEF Hit, Reading, Return
  <2>3. PICK n \in 0 .. count : n = Pointee
    BY <2>1
  <2> QED BY <2>2, <2>3, ReturnStep
<1>5. CASE Miss
  <2>1. NULL \in 0 .. count
    BY <1>1 DEF TypeOK, NULL
  <2>2. Return(NULL) /\ Reading
    BY <1>5 DEF Miss, Reading, Return
  <2> QED BY <2>1, <2>2, ReturnStep
<1>6. CASE UNCHANGED vars
  <2>1. Reading /\ UNCHANGED <<goal, create, slot, depth, result>>
    BY <1>6 DEF vars, Reading
  <2>2. TypeOK'
    BY <1>1, <2>1 DEF TypeOK, Reading, shape, trie
  <2>3. WalksFind'
    BY <2>1, ReadingFinds DEF HInv, WalksFind, Reading, shape
  <2> QED BY <2>1, <2>2, <2>3, ReadingLists DEF HInv
<1> QED BY <1>2, <1>3, <1>4, <1>5, <1>6 DEF Next, Walk

-----------------------------------------------------------------------------
(* The list its users walk *)

\* The numbers of the nodes are their places.
LEMMA NthIs ==
  ASSUME HInv
  PROVE  \A i \in 1 .. count : Nth[i] = i
<1>1. TypeOK /\ Listed /\ Capacity \in Nat
  BY SizeAssumption DEF HInv
<1> DEFINE Body(w) == [i \in Nodes |->
                         IF kind = "strings" THEN i
                         ELSE IF i = 1 THEN head
                         ELSE IF w[i - 1] = NULL THEN NULL ELSE next[w[i - 1]]]
           u == [i \in Nodes |-> IF kind = "strings" \/ i <= count THEN i ELSE NULL]
<1>2. ASSUME NEW i \in Nodes PROVE u[i] = Body(u)[i]
  <2>1. CASE kind = "strings"
    BY <2>1
  <2>2. CASE kind # "strings" /\ i = 1
    BY <1>1, <2>2 DEF TypeOK
  <2>3. CASE kind # "strings" /\ i # 1
    <3>1. i - 1 \in Nodes /\ i \in Nat /\ i - 1 # 0 /\ count \in Nat
      BY <1>1, <2>3 DEF TypeOK, Nodes
    <3>2. u[i - 1] = IF i - 1 <= count THEN i - 1 ELSE NULL
      BY <2>3, <3>1
    <3>3. next[i - 1] = IF i - 1 < count THEN (i - 1) + 1 ELSE NULL
      BY <1>1, <2>3, <3>1 DEF Listed
    <3>4. u[i] = IF i <= count THEN i ELSE NULL
      BY <2>3
    <3>5. Body(u)[i] = IF u[i - 1] = NULL THEN NULL ELSE next[u[i - 1]]
      BY <2>3
    <3> HIDE DEF u, Body
    <3> QED BY <3>1, <3>2, <3>3, <3>4, <3>5 DEF NULL
  <2> QED BY <2>1, <2>2, <2>3
<1>3. u = Body(u)
  <2>1. u = [i \in Nodes |-> u[i]] /\ Body(u) = [i \in Nodes |-> Body(u)[i]]
    OBVIOUS
  <2> HIDE DEF u, Body
  <2> QED BY <1>2, <2>1
<1>4. Nth = Body(Nth)
  <2> HIDE DEF u
  <2> QED BY <1>3 DEF Nth, Nodes
<1> DEFINE T == {i \in 1 .. count : Nth[i] = i}
<1>5. \A i \in 1 .. count : i \in Nodes
  BY <1>1 DEF TypeOK, Nodes
<1>6. CASE count = 0
  BY <1>6
<1>7. CASE count # 0
  <2>1. 1 \in T
    <3>1. head = 1 /\ 1 \in 1 .. count /\ 1 \in Nodes
      BY <1>1, <1>5, <1>7 DEF TypeOK
    <3> QED BY <1>4, <3>1
  <2>2. ASSUME NEW i \in 1 .. count, i # 1, i - 1 \in T PROVE i \in T
    <3>1. i \in Nodes /\ i - 1 \in Nodes /\ i - 1 # 0 /\ i - 1 < count /\ i - 1 + 1 = i
      BY <1>1, <1>5, <2>2 DEF TypeOK, Nodes
    <3>2. Nth[i - 1] = i - 1
      BY <2>2
    <3>3. kind # "strings" => next[i - 1] = i
      BY <1>1, <3>1 DEF Listed
    <3> QED BY <1>4, <2>2, <3>1, <3>2, <3>3 DEF NULL
  <2>3. 1 \in Int /\ count \in Int
    BY <1>1 DEF TypeOK
  <2> HIDE DEF T
  <2>4. 1 .. count \subseteq T
    BY <2>1, <2>2, <2>3, IntervalInduction
  <2> QED BY <2>4 DEF T
<1> QED BY <1>6, <1>7

\* u is, up to each node, the list of the keys that are no repetition.
Builds(u, k, c) ==
  /\ u[0] = <<>>
  /\ \A i \in 1 .. c :
       u[i] = IF kind = "includes" /\ \E j \in 1 .. i - 1 : Alike(k[j], k[i])
              THEN u[i - 1] ELSE Append(u[i - 1], k[i])

LEMMA UptoBuilds == HInv => Builds(Upto, key, count)
<1> SUFFICES ASSUME HInv PROVE Builds(Upto, key, count)
  OBVIOUS
<1>1. TypeOK /\ Capacity \in Nat
  BY SizeAssumption DEF HInv
<1> DEFINE V == {KeyAt(i) : i \in 0 .. Capacity}
           D == Seq(V)
           Longer(i, s) == IF Nth[i] = NULL \/ Repeated(i) THEN s ELSE Append(s, KeyAt(i))
           step == [x \in (0 .. Capacity) \X D |-> Longer(x[1], x[2])]
           Body(w) == [i \in 0 .. Capacity |->
                         IF i = 0 THEN <<>>
                         ELSE IF Nth[i] = NULL \/ Repeated(i) THEN w[i - 1]
                         ELSE Append(w[i - 1], KeyAt(i))]
<1>2. \A i \in 0 .. Capacity, s \in D : Longer(i, s) \in D
  <2> SUFFICES ASSUME NEW i \in 0 .. Capacity, NEW s \in D PROVE Append(s, KeyAt(i)) \in D
    OBVIOUS
  <2>1. KeyAt(i) \in V
    OBVIOUS
  <2> HIDE DEF V
  <2> QED BY <2>1
<1>3. <<>> \in D /\ step \in [(0 .. Capacity) \X D -> D]
  <2>1. <<>> \in D
    OBVIOUS
  <2> HIDE DEF D, Longer
  <2> QED BY <1>2, <2>1
<1>4. 0 \in Int /\ Capacity \in Int /\ 0 <= Capacity
  BY <1>1
<1>5. PICK w : Computes(w, 0, Capacity, D, <<>>, step)
  <2> HIDE DEF D, step
  <2> QED BY <1>3, <1>4, Recursion
<1>6. w \in [0 .. Capacity -> D] /\ w[0] = <<>>
  <2> HIDE DEF D, step
  <2> QED BY <1>4, <1>5 DEF Computes
<1>7. ASSUME NEW i \in 0 .. Capacity, i # 0 PROVE w[i] = Longer(i, w[i - 1])
  <2>1. i - 1 \in 0 .. Capacity
    BY <1>1, <1>7
  <2> HIDE DEF D, Longer
  <2>2. w[i - 1] \in D
    BY <1>6, <2>1
  <2>3. step[<<i, w[i - 1]>>] = Longer(i, w[i - 1])
    BY <2>2
  <2> HIDE DEF step
  <2> QED BY <1>5, <1>7, <2>3 DEF Computes
<1>8. w = Body(w)
  <2>1. \A i \in 0 .. Capacity : w[i] = Body(w)[i]
    BY <1>6, <1>7
  <2>2. Body(w) = [i \in 0 .. Capacity |-> Body(w)[i]]
    OBVIOUS
  <2>3. w = [i \in 0 .. Capacity |-> w[i]]
    <3> HIDE DEF D
    <3> QED BY <1>6
  <2> HIDE DEF Body
  <2> QED BY <2>1, <2>2, <2>3
<1>9. Upto = Body(Upto)
  BY <1>8 DEF Upto
<1>10. \A i \in 1 .. count : i \in 0 .. Capacity /\ i # 0
  BY <1>1 DEF TypeOK
<1>11. \A i \in 1 .. count : Nth[i] = i /\ KeyAt(i) = key[i]
  BY NthIs DEF KeyAt
<1>12. \A i \in 1 .. count :
         Repeated(i) <=> kind = "includes" /\ \E j \in 1 .. i - 1 : Alike(key[j], key[i])
  <2> SUFFICES ASSUME NEW i \in 1 .. count
               PROVE  Repeated(i) <=> kind = "includes" /\ \E j \in 1 .. i - 1 : Alike(key[j], key[i])
    OBVIOUS
  <2>1. \A j \in 1 .. i - 1 : j \in 1 .. count
    BY <1>1 DEF TypeOK
  <2> QED BY <1>11, <2>1 DEF Repeated
<1>13. Upto[0] = <<>>
  BY <1>1, <1>9
<1>14. ASSUME NEW i \in 1 .. count
       PROVE  Upto[i] = IF kind = "includes" /\ \E j \in 1 .. i - 1 : Alike(key[j], key[i])
                        THEN Upto[i - 1] ELSE Append(Upto[i - 1], key[i])
  <2>1. Upto[i] = IF Nth[i] = NULL \/ Repeated(i) THEN Upto[i - 1] ELSE Append(Upto[i - 1], KeyAt(i))
    BY <1>9, <1>10
  <2>2. Nth[i] # NULL
    BY <1>11 DEF NULL
  <2> QED BY <1>11, <1>12, <2>1, <2>2
<1> QED BY <1>13, <1>14 DEF Builds

LEMMA UptoBuildsNext == HInv' => Builds(Upto, key, count)'
<1>1. (HInv => Builds(Upto, key, count))'
  BY UptoBuilds, PTL
<1> QED BY <1>1

\* The list holds the stored keys, and one alike to each of them.
LEMMA ListHolds ==
  ASSUME HInv
  PROVE  /\ List \in Seq(Keys)
         /\ \A n \in 1 .. count : \E j \in 1 .. Len(List) : Alike(List[j], key[n])
         /\ \A j \in 1 .. Len(List) : \E n \in 1 .. count : List[j] = key[n]
<1>1. TypeOK /\ Builds(Upto, key, count) /\ count \in Nat
  BY UptoBuilds DEF HInv, TypeOK
<1> DEFINE P(i) == /\ Upto[i] \in Seq(Keys)
                   /\ \A n \in 1 .. i : \E j \in 1 .. Len(Upto[i]) : Alike(Upto[i][j], key[n])
                   /\ \A j \in 1 .. Len(Upto[i]) : \E n \in 1 .. i : Upto[i][j] = key[n]
           T == {i \in 0 .. count : P(i)}
<1>2. 0 \in T
  <2>1. Upto[0] = <<>>
    BY <1>1 DEF Builds
  <2>2. <<>> \in Seq(Keys) /\ Len(<<>>) = 0 /\ 1 .. 0 = {}
    OBVIOUS
  <2>3. Upto[0] \in Seq(Keys) /\ 1 .. Len(Upto[0]) = {}
    BY <2>1, <2>2
  <2>4. 0 \in 0 .. count
    BY <1>1
  <2>5. P(0)
    BY <2>2, <2>3
  <2> HIDE DEF P
  <2> QED BY <2>4, <2>5
<1>3. ASSUME NEW i \in 0 .. count, i # 0, i - 1 \in T PROVE i \in T
  <2> DEFINE s == Upto[i - 1]
             t == Upto[i]
  <2>0. /\ i \in 1 .. count /\ i - 1 \in Nat /\ 1 .. i = (1 .. i - 1) \cup {i}
        /\ i - 1 \in 0 .. count
    BY <1>1, <1>3
  <2>1. /\ s \in Seq(Keys)
        /\ \A n \in 1 .. i - 1 : \E j \in 1 .. Len(s) : Alike(s[j], key[n])
        /\ \A j \in 1 .. Len(s) : \E n \in 1 .. i - 1 : s[j] = key[n]
    BY <1>3
  <2>2. key[i] \in Keys
    BY <1>1, <2>0 DEF TypeOK
  <2>3. t = IF kind = "includes" /\ \E j \in 1 .. i - 1 : Alike(key[j], key[i])
            THEN s ELSE Append(s, key[i])
    BY <1>1, <2>0 DEF Builds
  <2> HIDE DEF s, t
  <2>4. CASE t = s /\ \E j \in 1 .. i - 1 : Alike(key[j], key[i])
    <3>1. \E j \in 1 .. Len(s) : Alike(s[j], key[i])
      BY <2>1, <2>4 DEF Alike
    <3>2. /\ \A n \in 1 .. i : \E j \in 1 .. Len(t) : Alike(t[j], key[n])
          /\ \A j \in 1 .. Len(t) : \E n \in 1 .. i : t[j] = key[n]
      BY <2>0, <2>1, <2>4, <3>1
    <3> QED BY <2>0, <2>1, <2>4, <3>2 DEF t
  <2>5. CASE t = Append(s, key[i])
    <3>1. /\ t \in Seq(Keys) /\ Len(t) = Len(s) + 1 /\ Len(s) \in Nat
          /\ \A j \in 1 .. Len(s) : t[j] = s[j]
          /\ t[Len(s) + 1] = key[i]
      BY <2>1, <2>2, <2>5, AppendProperties
    <3>2. \A j \in 1 .. Len(s) : j \in 1 .. Len(t)
      BY <3>1
    <3>3. Len(t) \in 1 .. Len(t) /\ t[Len(t)] = key[i] /\ \A j \in 1 .. Len(t) : j = Len(t) \/ j \in 1 .. Len(s)
      BY <3>1
    <3>4. \A n \in 1 .. i : \E j \in 1 .. Len(t) : Alike(t[j], key[n])
      <4>1. \A n \in 1 .. i - 1 : \E j \in 1 .. Len(t) : Alike(t[j], key[n])
        BY <2>1, <3>1, <3>2
      <4>2. \E j \in 1 .. Len(t) : Alike(t[j], key[i])
        BY <3>3 DEF Alike
      <4> QED BY <2>0, <4>1, <4>2
    <3>5. \A j \in 1 .. Len(t) : \E n \in 1 .. i : t[j] = key[n]
      <4>1. i \in 1 .. i /\ \A n \in 1 .. i - 1 : n \in 1 .. i
        BY <2>0
      <4>2. \A j \in 1 .. Len(s) : \E n \in 1 .. i : t[j] = key[n]
        BY <2>1, <3>1, <4>1
      <4> QED BY <3>3, <4>1, <4>2
    <3> QED BY <2>0, <3>1, <3>4, <3>5 DEF t
  <2> QED BY <2>3, <2>4, <2>5
<1>4. 0 \in Int /\ count \in Int
  BY <1>1
<1> HIDE DEF P, T
<1>5. 0 .. count \subseteq T
  BY <1>2, <1>3, <1>4, IntervalInduction
<1>6. count \in T
  BY <1>1, <1>5
<1>7. P(count)
  BY <1>6 DEF T
<1> QED BY <1>7 DEF P, List

\* Equal keys, equal lists.
LEMMA BuildsAgree ==
  ASSUME NEW u, NEW v, NEW k, NEW l, NEW c \in Nat,
         Builds(u, k, c), Builds(v, l, c), \A i \in 1 .. c : l[i] = k[i]
  PROVE  v[c] = u[c]
<1> DEFINE T == {i \in 0 .. c : v[i] = u[i]}
<1>1. 0 \in T
  BY DEF Builds
<1>2. ASSUME NEW i \in 0 .. c, i # 0, i - 1 \in T PROVE i \in T
  <2>1. i \in 1 .. c /\ \A j \in 1 .. i - 1 : j \in 1 .. c
    BY <1>2
  <2>2. l[i] = k[i] /\ \A j \in 1 .. i - 1 : l[j] = k[j]
    BY <2>1
  <2>3. v[i - 1] = u[i - 1]
    BY <1>2
  <2>4. u[i] = IF kind = "includes" /\ \E j \in 1 .. i - 1 : Alike(k[j], k[i])
               THEN u[i - 1] ELSE Append(u[i - 1], k[i])
    BY <2>1 DEF Builds
  <2>5. v[i] = IF kind = "includes" /\ \E j \in 1 .. i - 1 : Alike(l[j], l[i])
               THEN v[i - 1] ELSE Append(v[i - 1], l[i])
    BY <2>1 DEF Builds
  <2>6. (\E j \in 1 .. i - 1 : Alike(l[j], l[i])) <=> (\E j \in 1 .. i - 1 : Alike(k[j], k[i]))
    BY <2>2
  <2>7. v[i] = u[i]
    BY <2>2, <2>3, <2>4, <2>5, <2>6
  <2> QED BY <2>7
<1>3. 0 \in Int /\ c \in Int
  OBVIOUS
<1> HIDE DEF T
<1>4. c \in T
  BY <1>1, <1>2, <1>3, IntervalInduction
<1> QED BY <1>4 DEF T

\* The list after a step, by the keys after it.
LEMMA NextBuilds ==
  ASSUME HInv', kind' = kind
  PROVE  Builds(Upto', key', count')
<1>1. Builds(Upto, key, count)'
  BY UptoBuildsNext
<1>2. \A k, l : Alike(k, l)' <=> Alike(k, l)
  BY DEF Alike, Spelled
<1> QED BY <1>1, <1>2 DEF Builds

\* Only a new node changes the list.
LEMMA ListKept ==
  ASSUME HInv, HInv', UNCHANGED <<kind, key, count>>
  PROVE  List' = List
<1>1. count \in Nat /\ count' = count
  BY DEF HInv, TypeOK
<1>2. Builds(Upto, key, count) /\ Builds(Upto', key', count)
  BY <1>1, UptoBuilds, NextBuilds
<1>3. Upto'[count] = Upto[count]
  BY <1>1, <1>2, BuildsAgree
<1> QED BY <1>1, <1>3 DEF List

\* It adds its key at the end, but for an include that was written before.
Stored == \E j \in 1 .. count : Alike(key[j], goal)

LEMMA ListGrown ==
  ASSUME HInv, HInv', NEW n \in Nodes, NewNode(n)
  PROVE  List' = IF kind = "includes" /\ Stored THEN List ELSE Append(List, goal)
<1>1. /\ count \in Nat /\ n = count + 1 /\ count' = n /\ kind' = kind
      /\ key \in [Nodes -> Keys \cup {NONE}] /\ key' = [key EXCEPT ![n] = goal]
  BY DEF HInv, TypeOK, NewNode, Return, shape
<1>2. key'[n] = goal /\ \A j \in 1 .. count : key'[j] = key[j]
  <2>1. \A j \in 1 .. count : j \in Nodes /\ j # n
    BY <1>1, SizeAssumption DEF Nodes
  <2> QED BY <1>1, <2>1
<1>3. Builds(Upto, key, count) /\ Builds(Upto', key', n)
  BY <1>1, UptoBuilds, NextBuilds
<1>4. Builds(Upto', key', count)
  <2>1. \A j \in 1 .. count : j \in 1 .. n
    BY <1>1
  <2> QED BY <1>3, <2>1 DEF Builds
<1>5. Upto'[count] = Upto[count]
  <2>1. count \in Nat
    BY <1>1
  <2>2. \A j \in 1 .. count : key'[j] = key[j]
    BY <1>2
  <2>3. Builds(Upto, key, count)
    BY <1>3
  <2> QED BY <1>4, <2>1, <2>2, <2>3, BuildsAgree
<1>6. n \in 1 .. n /\ n - 1 = count
  BY <1>1
<1>7. Upto'[n] = IF kind = "includes" /\ \E j \in 1 .. count : Alike(key'[j], key'[n])
                 THEN Upto'[count] ELSE Append(Upto'[count], key'[n])
  BY <1>3, <1>6 DEF Builds
<1>8. Stored <=> \E j \in 1 .. count : Alike(key'[j], key'[n])
  BY <1>2 DEF Stored
<1> QED BY <1>1, <1>2, <1>5, <1>7, <1>8 DEF List

\* The place of a node holds a key alike to its own.
Places == \A n \in 1 .. count : Place(n) \in 1 .. Len(List) /\ Alike(List[Place(n)], key[n])

LEMMA PlaceIs == HInv => Places
<1> SUFFICES ASSUME HInv, NEW n \in 1 .. count
             PROVE  Place(n) \in 1 .. Len(List) /\ Alike(List[Place(n)], key[n])
  BY DEF Places
<1>1. \E i \in 1 .. Len(List) : Alike(List[i], key[n])
  BY ListHolds
<1>2. n # NULL
  BY DEF NULL
<1>3. Place(n) = CHOOSE i \in 1 .. Len(List) : Alike(List[i], key[n])
  BY <1>2 DEF Place
<1> QED BY <1>1, <1>3

LEMMA PlaceIsNext ==
  ASSUME HInv', kind' = kind, NEW n \in 1 .. count', n = result'
  PROVE  Position' \in 1 .. Len(List') /\ Alike(List'[Position'], key'[n])
<1>1. (HInv => Places)'
  BY PlaceIs, PTL
<1>2. \A m \in 1 .. count' : Place(m)' \in 1 .. Len(List') /\ Alike(List[Place(m)], key[m])'
  BY <1>1 DEF Places
<1>3. \A m \in 1 .. count' : Alike(List[Place(m)], key[m])' <=> Alike(List'[Place(m)'], key'[m])
  BY DEF Alike, Spelled
<1>4. Position' = Place(n)'
  BY DEF Position, Place
<1> QED BY <1>2, <1>3, <1>4

-----------------------------------------------------------------------------
(* Steps of the map *)

LEMMA InitRefines == Init => Map!Init
<1> SUFFICES ASSUME Init PROVE Map!Init
  OBVIOUS
<1>1. HInv /\ count = 0 /\ goal = NONE /\ result = NULL
  BY InitInv DEF Init
<1>2. Class \in [Keys -> Keys]
  BY SpelledTyped DEF Class
<1>3. List = <<>>
  BY <1>1, UptoBuilds DEF List, Builds
<1> QED BY <1>1, <1>2, <1>3 DEF Map!Init, Question, Position, Place

\* What has been asked for, and where it is.
LEMMA Asked ==
  ASSUME HInv, goal # NONE
  PROVE  /\ goal \in Keys /\ Question = [key |-> goal, create |-> create] /\ Question # NONE
         /\ Map!Positions = {i \in 1 .. Len(List) : Alike(List[i], goal)}
         /\ ~Stored => Map!Positions = {}
<1>1. goal \in Keys /\ create \in BOOLEAN
  BY DEF HInv, TypeOK
<1>2. Question = [key |-> goal, create |-> create] /\ Question # NONE
  BY <1>1, QuestionAssumption DEF Question
<1>3. List \in Seq(Keys) /\ \A j \in 1 .. Len(List) : \E n \in 1 .. count : List[j] = key[n]
  BY ListHolds
<1>4. \A i \in 1 .. Len(List) : List[i] \in Keys
  BY <1>3
<1>5. \A k, l \in Keys : Class[k] = Class[l] <=> Alike(k, l)
  BY DEF Class, Alike
<1>6. Question.key = goal
  BY <1>2
<1>7. \A i \in 1 .. Len(List) : Class[List[i]] = Class[Question.key] <=> Alike(List[i], goal)
  BY <1>1, <1>4, <1>5, <1>6
<1>8. Map!Positions = {i \in 1 .. Len(List) : Alike(List[i], goal)}
  BY <1>7 DEF Map!Positions
<1>9. ~Stored => Map!Positions = {}
  BY <1>3, <1>8 DEF Stored
<1> QED BY <1>1, <1>2, <1>8, <1>9

\* Steps that store nothing leave class and list alone.
LEMMA ReadingKeeps ==
  ASSUME HInv, HInv', Reading
  PROVE  Class' = Class /\ List' = List
<1>1. UNCHANGED <<kind, key, count>>
  BY DEF Reading, shape, trie
<1>2. Class' = Class
  BY <1>1 DEF Class, Spelled
<1> QED BY <1>1, <1>2, ListKept

\* Steps that answer nothing leave the answer alone.
LEMMA SameResult ==
  ASSUME HInv, HInv', Reading, result' = result
  PROVE  Position' = Position
<1>1. List' = List /\ key' = key /\ kind' = kind
  BY ReadingKeeps DEF Reading, shape, trie
<1>2. \A k, l : Alike(k, l)' <=> Alike(k, l)
  BY <1>1 DEF Alike, Spelled
<1>3. CASE result = NULL
  BY <1>3 DEF Position, Place, NULL
<1>4. CASE result # NULL
  <2>1. Position = CHOOSE i \in 1 .. Len(List) : Alike(List[i], key[result])
    BY <1>4 DEF Position, Place
  <2>2. Position' = CHOOSE i \in 1 .. Len(List') : Alike(List[i], key[result])'
    BY <1>4 DEF Position, Place, NULL
  <2>3. \A i : Alike(List[i], key[result])' <=> Alike(List[i], key[result])
    BY <1>1, <1>2
  <2> QED BY <1>1, <2>1, <2>2, <2>3
<1> QED BY <1>3, <1>4

LEMMA AskRefines ==
  ASSUME HInv, HInv', NEW k \in Keys, NEW a \in BOOLEAN, Ask(k, a)
  PROVE  Map!Ask(k, a)
<1>1. Reading /\ result' = result /\ goal = NONE /\ goal' = k /\ create' = a /\ k # NONE
  BY NoneAssumption DEF Ask, Reading
<1>2. UNCHANGED <<Class, List, Position>>
  BY <1>1, ReadingKeeps, SameResult
<1>3. Question = NONE /\ Question' = [key |-> k, create |-> a]
  BY <1>1 DEF Question
<1> QED BY <1>2, <1>3 DEF Map!Ask

LEMMA HitRefines ==
  ASSUME HInv, HInv', Hit
  PROVE  Map!Found
<1>1. /\ Reading /\ goal # NONE /\ goal' = NONE /\ result' = Pointee /\ kind' = kind
      /\ key' = key /\ count' = count /\ Pointee # NULL /\ Matches(Pointee)
  BY DEF Hit, Return, Reading, shape, trie
<1>2. Pointee \in 0 .. count
  BY SlotTyped DEF HInv
<1>3. PICK n \in 1 .. count : n = result' /\ n = Pointee
  BY <1>1, <1>2 DEF NULL
<1>4. Class' = Class /\ List' = List
  BY <1>1, ReadingKeeps
<1>5. Position' \in 1 .. Len(List) /\ Alike(List[Position'], key[n])
  BY <1>1, <1>3, <1>4, PlaceIsNext
<1>6. Alike(List[Position'], goal)
  BY <1>1, <1>3, <1>5 DEF Alike, Matches
<1>7. Position' \in Map!Positions
  BY <1>1, <1>5, <1>6, Asked
<1>8. Question # NONE /\ Question' = NONE
  BY <1>1, Asked DEF Question
<1> QED BY <1>4, <1>7, <1>8 DEF Map!Found, Map!Answer

\* A walk that ends at NULL and stores nothing: memory is full, or the key is
\* only looked up, and then it is in no place of the list.
LEMMA MissRefines ==
  ASSUME HInv, HInv', Miss
  PROVE  Map!Absent \/ Map!OutOfMemory
<1>1. /\ Reading /\ goal # NONE /\ goal' = NONE /\ result' = NULL /\ Pointee = NULL
  BY DEF Miss, Return, Reading
<1>2. Class' = Class /\ List' = List /\ Position' = 0
  BY <1>1, ReadingKeeps DEF Position, Place, NULL
<1>3. /\ Question # NONE /\ Question' = NONE
      /\ Question = [key |-> goal, create |-> create]
  BY <1>1, Asked DEF Question
<1>4. Question.create = create
  BY <1>3
<1>5. CASE create
  BY <1>2, <1>3, <1>4, <1>5 DEF Map!OutOfMemory, Map!Answer
<1>6. CASE ~create
  <2>1. kind # "includes"
    BY <1>1, <1>6 DEF HInv, TypeOK
  <2>2. ~Stored
    BY <1>1, <2>1, NotStored DEF Stored, Alike
  <2>3. Map!Positions = {}
    BY <1>1, <2>2, Asked
  <2> QED BY <1>2, <1>3, <1>4, <1>6, <2>3 DEF Map!Absent, Map!Answer
<1> QED BY <1>5, <1>6

LEMMA NewNodeRefines ==
  ASSUME HInv, HInv', NEW n \in Nodes, NewNode(n)
  PROVE  Map!Added \/ Map!Found
<1>1. /\ goal # NONE /\ goal' = NONE /\ create /\ Pointee = NULL
      /\ n = count + 1 /\ count' = n /\ result' = n /\ kind' = kind
      /\ key' = [key EXCEPT ![n] = goal] /\ key \in [Nodes -> Keys \cup {NONE}]
      /\ count \in Nat
  BY DEF HInv, TypeOK, NewNode, Return, shape
<1>2. Class' = Class
  BY <1>1 DEF Class, Spelled
<1>3. List' = IF kind = "includes" /\ Stored THEN List ELSE Append(List, goal)
  BY ListGrown
<1>4. /\ goal \in Keys /\ Question # NONE /\ Question' = NONE
      /\ Question = [key |-> goal, create |-> create]
      /\ Map!Positions = {i \in 1 .. Len(List) : Alike(List[i], goal)}
      /\ ~Stored => Map!Positions = {}
  BY <1>1, Asked DEF Question
<1>5. Question.key = goal /\ Question.create
  BY <1>1, <1>4
<1>6. Position' \in 1 .. Len(List') /\ Alike(List'[Position'], goal)
  <2>1. n \in 1 .. count' /\ key'[n] = goal
    BY <1>1
  <2> QED BY <1>1, <2>1, PlaceIsNext
<1>7. CASE kind = "includes" /\ Stored
  <2>1. List' = List /\ Position' \in Map!Positions
    BY <1>3, <1>4, <1>6, <1>7
  <2> QED BY <1>2, <1>4, <2>1 DEF Map!Found, Map!Answer
<1>8. CASE ~(kind = "includes" /\ Stored)
  <2>1. ~Stored
    BY <1>1, <1>8, NotStored DEF Stored, Alike
  <2>2. Map!Positions = {} /\ List' = Append(List, goal)
    BY <1>3, <1>4, <1>8, <2>1
  <2>3. List \in Seq(Keys)
    BY ListHolds
  <2>4. /\ Len(List) \in Nat /\ Len(List') = Len(List) + 1
        /\ \A i \in 1 .. Len(List) : List'[i] = List[i]
    BY <1>4, <2>2, <2>3, AppendProperties
  <2>5. Position' \notin 1 .. Len(List)
    BY <1>4, <1>6, <2>2, <2>4
  <2>6. Position' = Len(List) + 1
    BY <1>6, <2>4, <2>5
  <2> QED BY <1>2, <1>4, <1>5, <2>2, <2>6 DEF Map!Added, Map!Answer
<1> QED BY <1>7, <1>8

LEMMA NextRefines ==
  HInv /\ HInv' /\ [Next]_vars => [Map!Next]_<<Class, List, Question, Position>>
<1> SUFFICES ASSUME HInv, HInv', [Next]_vars
             PROVE  [Map!Next]_<<Class, List, Question, Position>>
  OBVIOUS
<1>1. CASE \E k \in Keys, a \in BOOLEAN : Ask(k, a)
  BY <1>1, AskRefines DEF Map!Next
<1>2. CASE Descend \/ UNCHANGED vars
  <2>1. Reading /\ UNCHANGED <<goal, create, result>>
    BY <1>2 DEF Descend, vars, Reading
  <2>2. Question' = Question
    BY <2>1 DEF Question
  <2> QED BY <2>1, <2>2, ReadingKeeps, SameResult
<1>3. CASE Hit
  BY <1>3, HitRefines DEF Map!Next
<1>4. CASE Miss
  BY <1>4, MissRefines DEF Map!Next
<1>5. CASE Insert \/ Store
  BY <1>5, NewNodeRefines DEF Insert, Store, Map!Next
<1> QED BY <1>1, <1>2, <1>3, <1>4, <1>5 DEF Next, Walk

\* The walks of a hash trie (hash_trie.h, string_table.h, vm_object_upsert)
\* implement an ordered map: a key is found by every question after the one
\* that stored it, at a place of the list that never changes, and nothing is
\* found that was not stored, for every hash, key and number of levels.
THEOREM TrieIsOrderedMap == Spec => ImplementsOrderedMap
<1>1. Spec => []HInv
  BY InitInv, NextInv, PTL DEF Spec
<1> QED BY <1>1, InitRefines, NextRefines, PTL DEF Spec, ImplementsOrderedMap, Map!Spec
=============================================================================
