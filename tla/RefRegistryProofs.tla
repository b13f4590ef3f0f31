-------------------------- MODULE RefRegistryProofs --------------------------
(***************************************************************************)
(* The reference registry for every capacity and every set of objects:     *)
(* the free list threads exactly the slots nobody holds, so that a handle  *)
(* is never given out twice and a full registry is really full; and the    *)
(* handles account for every reference, up to the end of gsc_destroy.      *)
(***************************************************************************)
EXTENDS RefRegistry, FiniteSetTheorems, TLAPS

\* The free list, wherever the program is between two steps of the API.
HasFreeList == \E n \in Nat : \E fl \in [1 .. n -> Slots] : IsFreeList(n, fl)

IInv ==
  /\ TypeOK
  /\ HeldRefsResolve
  /\ pc \in {"api", "abort"} => HasFreeList
  /\ pc = "abort" => Held = Slots

\* The last slot of the list looks occupied, and only it among the free ones.
LEMMA InitInv == Init => IInv
<1> SUFFICES ASSUME Init PROVE IInv
  OBVIOUS
<1>1. TypeOK
  BY CapacityAssumption DEF Init, TypeOK, Slots
<1>2. Held = {} /\ HeldRefsResolve
  BY DEF Init, Held, HeldRefsResolve
<1>3. HasFreeList
  <2> DEFINE fl == [a \in 1 .. ref_capacity |-> a - 1]
  <2>1. ref_capacity \in Nat /\ fl \in [1 .. ref_capacity -> Slots]
    BY CapacityAssumption DEF Slots
  <2>2. \A a, b \in 1 .. ref_capacity : fl[a] = fl[b] => a = b
    BY CapacityAssumption
  <2>3. {fl[a] : a \in 1 .. ref_capacity} = Slots
    <3>1. ASSUME NEW s \in Slots PROVE s + 1 \in 1 .. ref_capacity /\ fl[s + 1] = s
      BY CapacityAssumption DEF Slots
    <3> QED BY <2>1, <3>1
  <2>4. ref_free = fl[1] /\ ref_capacity # 0
    BY CapacityAssumption DEF Init
  <2>5. \A a \in 1 .. ref_capacity :
          next_free[fl[a]] = IF a = ref_capacity THEN -1 ELSE fl[a + 1]
    BY CapacityAssumption DEF Init, Slots
  <2>6. IsFreeList(ref_capacity, fl)
    <3> HIDE DEF fl
    <3> QED BY <1>2, <2>2, <2>3, <2>4, <2>5 DEF IsFreeList
  <2> QED BY <2>1, <2>6 DEF HasFreeList
<1> QED BY <1>1, <1>2, <1>3 DEF IInv, Init

\* gsc_ref unlinks the head of the list.
LEMMA RefStep ==
  ASSUME IInv, pc = "api", ref_free # -1, NEW v \in Values, gsc_ref(v)
  PROVE  IInv' /\ Held' = Held \cup {ref_free} /\ ref_free \in Slots \ Held
<1>0. /\ ref_free' = next_free[ref_free]
      /\ value' = [value EXCEPT ![ref_free] = v]
      /\ next_free' = [next_free EXCEPT ![ref_free] = -1]
      /\ vm_incref(v)
      /\ given' = [given EXCEPT ![ref_free] = v]
      /\ UNCHANGED <<top, pc, k>>
  BY DEF gsc_ref
<1>1. PICK n \in Nat : \E fl \in [1 .. n -> Slots] : IsFreeList(n, fl)
  BY DEF IInv, HasFreeList
<1>2. PICK fl \in [1 .. n -> Slots] : IsFreeList(n, fl)
  BY <1>1
<1>3. /\ \A a, b \in 1 .. n : fl[a] = fl[b] => a = b
      /\ {fl[a] : a \in 1 .. n} = Slots \ Held
      /\ n # 0 /\ ref_free = fl[1]
      /\ \A a \in 1 .. n : next_free[fl[a]] = IF a = n THEN -1 ELSE fl[a + 1]
  BY <1>2 DEF IsFreeList
<1>4. ref_free \in Slots \ Held
  BY <1>3
<1>5. TypeOK'
  BY <1>0, <1>4 DEF IInv, TypeOK, vm_incref
<1>6. Held' = Held \cup {ref_free}
  BY <1>0, <1>4, UndefinedAssumption DEF IInv, TypeOK, Held
<1>7. HeldRefsResolve'
  BY <1>0, <1>4, <1>6 DEF IInv, TypeOK, HeldRefsResolve
<1>8. HasFreeList'
  <2> DEFINE gl == [a \in 1 .. n - 1 |-> fl[a + 1]]
  <2>1. n - 1 \in Nat /\ gl \in [1 .. n - 1 -> Slots] /\ \A a \in 1 .. n - 1 : a + 1 \in 1 .. n /\ gl[a] = fl[a + 1]
    BY <1>3
  <2> HIDE DEF gl
  <2>2. \A a, b \in 1 .. n - 1 : gl[a] = gl[b] => a = b
    <3> SUFFICES ASSUME NEW a \in 1 .. n - 1, NEW b \in 1 .. n - 1, gl[a] = gl[b] PROVE a = b
      OBVIOUS
    <3>1. a + 1 = b + 1
      BY <1>3, <2>1
    <3> QED BY <3>1
  <2>3. {gl[a] : a \in 1 .. n - 1} = Slots \ (Held \cup {ref_free})
    <3>1. ASSUME NEW a \in 1 .. n - 1 PROVE gl[a] \in Slots \ (Held \cup {ref_free})
      <4>1. fl[a + 1] \in Slots \ Held
        BY <1>3, <2>1
      <4>2. fl[a + 1] # fl[1]
        BY <1>3, <2>1
      <4> QED BY <1>3, <2>1, <4>1, <4>2
    <3>2. ASSUME NEW s \in Slots \ (Held \cup {ref_free})
          PROVE  \E a \in 1 .. n - 1 : gl[a] = s
      <4>1. PICK a \in 1 .. n : fl[a] = s
        BY <1>3
      <4>2. a # 1
        BY <1>3, <4>1
      <4>3. a - 1 \in 1 .. n - 1 /\ (a - 1) + 1 = a
        BY <4>2
      <4>4. gl[a - 1] = s
        BY <2>1, <4>1, <4>3
      <4> QED BY <4>3, <4>4
    <3> QED BY <3>1, <3>2
  <2>4. ref_free' = IF n - 1 = 0 THEN -1 ELSE gl[1]
    BY <1>0, <1>3, <2>1
  <2>5. \A a \in 1 .. n - 1 : next_free'[gl[a]] = IF a = n - 1 THEN -1 ELSE gl[a + 1]
    <3> SUFFICES ASSUME NEW a \in 1 .. n - 1
                 PROVE  next_free'[gl[a]] = IF a = n - 1 THEN -1 ELSE gl[a + 1]
      OBVIOUS
    <3>1. fl[a + 1] # ref_free /\ a + 1 \in 1 .. n /\ gl[a] = fl[a + 1]
      BY <1>3, <2>1
    <3>2. next_free'[fl[a + 1]] = next_free[fl[a + 1]]
      BY <1>0, <3>1 DEF IInv, TypeOK
    <3>3. next_free[fl[a + 1]] = IF a + 1 = n THEN -1 ELSE fl[a + 2]
      BY <1>3, <3>1
    <3>4. a # n - 1 => a + 1 \in 1 .. n - 1 /\ gl[a + 1] = fl[a + 2]
      BY <2>1
    <3> QED BY <3>1, <3>2, <3>3, <3>4
  <2>6. IsFreeList(n - 1, gl)'
    BY <1>6, <2>2, <2>3, <2>4, <2>5 DEF IsFreeList
  <2> QED BY <2>1, <2>6 DEF HasFreeList
<1> QED BY <1>0, <1>4, <1>5, <1>6, <1>7, <1>8 DEF IInv

\* Releasing keeps types and what the other handles resolve to.
LEMMA ReleaseBasics ==
  ASSUME IInv, NEW ref \in Slots, Release(ref), UNCHANGED <<top, pc>>, k' \in 0 .. ref_capacity
  PROVE  TypeOK' /\ HeldRefsResolve' /\ Held' = Held \ {ref}
<1>1. TypeOK'
  <2>1. refcount' \in [Values -> Int]
    BY DEF IInv, TypeOK, Release, vm_decref
  <2> QED BY <2>1 DEF IInv, TypeOK, Release
<1>2. Held' = Held \ {ref}
  BY DEF IInv, TypeOK, Release, Held
<1>3. HeldRefsResolve'
  BY <1>2 DEF IInv, TypeOK, HeldRefsResolve, Release, Held
<1> QED BY <1>1, <1>2, <1>3

\* gsc_unref of a held handle puts its slot at the head of the list.
LEMMA UnrefStep ==
  ASSUME IInv, NEW ref \in Held, gsc_unref(ref)
  PROVE  IInv'
<1>0. /\ pc = "api"
      /\ next_free' = [next_free EXCEPT ![ref] = ref_free]
      /\ ref_free' = ref
      /\ UNCHANGED <<top, pc, k>>
      /\ Release(ref) /\ ref \in Slots
  BY DEF gsc_unref, Release, Held
<1>1. TypeOK' /\ HeldRefsResolve' /\ Held' = Held \ {ref}
  BY <1>0, ReleaseBasics DEF IInv, TypeOK
<1>2. PICK n \in Nat : \E fl \in [1 .. n -> Slots] : IsFreeList(n, fl)
  BY <1>0 DEF IInv, HasFreeList
<1>3. PICK fl \in [1 .. n -> Slots] : IsFreeList(n, fl)
  BY <1>2
<1>4. /\ \A a, b \in 1 .. n : fl[a] = fl[b] => a = b
      /\ {fl[a] : a \in 1 .. n} = Slots \ Held
      /\ ref_free = IF n = 0 THEN -1 ELSE fl[1]
      /\ \A a \in 1 .. n : next_free[fl[a]] = IF a = n THEN -1 ELSE fl[a + 1]
  BY <1>3 DEF IsFreeList
<1>5. HasFreeList'
  <2> DEFINE gl == [a \in 1 .. n + 1 |-> IF a = 1 THEN ref ELSE fl[a - 1]]
  <2>1. /\ n + 1 \in Nat /\ gl \in [1 .. n + 1 -> Slots]
        /\ gl[1] = ref
        /\ \A a \in 2 .. n + 1 : a - 1 \in 1 .. n /\ gl[a] = fl[a - 1]
    BY <1>0
  <2> HIDE DEF gl
  <2>2. \A a \in 1 .. n : fl[a] # ref
    BY <1>4
  <2>3. \A a, b \in 1 .. n + 1 : gl[a] = gl[b] => a = b
    <3> SUFFICES ASSUME NEW a \in 1 .. n + 1, NEW b \in 1 .. n + 1, gl[a] = gl[b] PROVE a = b
      OBVIOUS
    <3>1. CASE a = 1 \/ b = 1
      BY <2>1, <2>2, <3>1
    <3>2. CASE a # 1 /\ b # 1
      <4>1. a - 1 = b - 1
        BY <1>4, <2>1, <3>2
      <4> QED BY <4>1
    <3> QED BY <3>1, <3>2
  <2>4. {gl[a] : a \in 1 .. n + 1} = Slots \ (Held \ {ref})
    <3>1. ASSUME NEW a \in 1 .. n + 1 PROVE gl[a] \in Slots \ (Held \ {ref})
      <4>1. CASE a = 1
        BY <1>0, <2>1, <4>1
      <4>2. CASE a # 1
        <5>1. a - 1 \in 1 .. n /\ gl[a] = fl[a - 1]
          BY <2>1, <4>2
        <5> QED BY <1>4, <5>1
      <4> QED BY <4>1, <4>2
    <3>2. ASSUME NEW s \in Slots \ (Held \ {ref})
          PROVE  \E a \in 1 .. n + 1 : gl[a] = s
      <4>1. CASE s = ref
        BY <2>1, <4>1
      <4>2. CASE s # ref
        <5>1. PICK a \in 1 .. n : fl[a] = s
          BY <1>4, <4>2
        <5>2. a + 1 \in 2 .. n + 1 /\ (a + 1) - 1 = a
          OBVIOUS
        <5>3. gl[a + 1] = s
          BY <2>1, <5>1, <5>2
        <5> QED BY <5>2, <5>3
      <4> QED BY <4>1, <4>2
    <3> QED BY <3>1, <3>2
  <2>5. \A a \in 1 .. n + 1 : next_free'[gl[a]] = IF a = n + 1 THEN -1 ELSE gl[a + 1]
    <3> SUFFICES ASSUME NEW a \in 1 .. n + 1
                 PROVE  next_free'[gl[a]] = IF a = n + 1 THEN -1 ELSE gl[a + 1]
      OBVIOUS
    <3>1. CASE a = 1
      <4>1. next_free'[ref] = ref_free
        BY <1>0 DEF IInv, TypeOK
      <4>2. n # 0 => gl[2] = fl[1]
        BY <2>1
      <4> QED BY <1>4, <2>1, <3>1, <4>1, <4>2
    <3>2. CASE a # 1
      <4>1. a - 1 \in 1 .. n /\ gl[a] = fl[a - 1] /\ gl[a] # ref
        BY <2>1, <2>2, <3>2
      <4>2. next_free'[gl[a]] = next_free[fl[a - 1]]
        BY <1>0, <4>1 DEF IInv, TypeOK
      <4>3. next_free[fl[a - 1]] = IF a - 1 = n THEN -1 ELSE fl[a]
        BY <1>4, <4>1
      <4>4. a # n + 1 => gl[a + 1] = fl[a]
        BY <2>1, <3>2
      <4> QED BY <4>2, <4>3, <4>4
    <3> QED BY <3>1, <3>2
  <2>6. ref_free' = IF n + 1 = 0 THEN -1 ELSE gl[1]
    BY <1>0, <2>1
  <2>7. IsFreeList(n + 1, gl)'
    BY <1>1, <2>3, <2>4, <2>5, <2>6 DEF IsFreeList
  <2> QED BY <2>1, <2>7 DEF HasFreeList
<1> QED BY <1>0, <1>1, <1>5 DEF IInv

\* Steps that only move pc, k or top.
LEMMA RegistryUnchanged ==
  ASSUME IInv, UNCHANGED <<registry, given>>,
         top' \in Values \cup {UNDEFINED}, k' \in 0 .. ref_capacity,
         pc' \in {"api", "destroy", "destroyed", "abort"},
         pc' \in {"api", "abort"} => pc \in {"api", "abort"},
         pc' = "abort" => pc = "abort" \/ Held = Slots
  PROVE  IInv'
<1>1. Held' = Held
  BY DEF Held
<1>2. TypeOK' /\ HeldRefsResolve'
  BY <1>1 DEF IInv, TypeOK, HeldRefsResolve, registry
<1>3. HasFreeList => HasFreeList'
  BY <1>1 DEF HasFreeList, IsFreeList, registry
<1> QED BY <1>1, <1>2, <1>3 DEF IInv

\* An empty list leaves nothing free.
LEMMA EmptyListFull ==
  ASSUME IInv, pc = "api", ref_free = -1
  PROVE  Held = Slots
<1>1. PICK n \in Nat : \E fl \in [1 .. n -> Slots] : IsFreeList(n, fl)
  BY DEF IInv, HasFreeList
<1>2. PICK fl \in [1 .. n -> Slots] : IsFreeList(n, fl)
  BY <1>1
<1>3. n = 0
  BY <1>2, CapacityAssumption DEF IsFreeList, Slots
<1>4. Slots \ Held = {}
  BY <1>2, <1>3 DEF IsFreeList
<1> QED BY <1>4 DEF Held

LEMMA NextInv == IInv /\ [Next]_vars => IInv'
<1> SUFFICES ASSUME IInv, [Next]_vars PROVE IInv'
  OBVIOUS
<1>1. ASSUME NEW v \in Values, gsc_ref(v) PROVE IInv'
  <2>1. CASE ref_free = -1 /\ vm_error
    <3>1. pc = "api" /\ Held = Slots
      BY <1>1, <2>1, EmptyListFull DEF gsc_ref
    <3> QED BY <2>1, <3>1, RegistryUnchanged DEF vm_error, IInv, TypeOK
  <2>2. CASE ref_free # -1
    BY <1>1, <2>2, RefStep DEF gsc_ref
  <2> QED BY <1>1, <2>1, <2>2 DEF gsc_ref
<1>2. ASSUME NEW ref \in Held, gsc_push_ref(ref) PROVE IInv'
  <2>1. LooksOccupied(ref)
    BY DEF IInv, HeldRefsResolve, LooksOccupied, Held
  <2>2. top' = value[ref] /\ UNCHANGED <<registry, pc, k, given>> /\ ref \in Slots
    BY <1>2, <2>1 DEF gsc_push_ref, Held
  <2> QED BY <2>2, RegistryUnchanged DEF IInv, TypeOK
<1>3. ASSUME NEW ref \in Held, gsc_unref(ref) PROVE IInv'
  BY <1>3, UnrefStep
<1>4. CASE gsc_destroy
  BY <1>4, RegistryUnchanged, CapacityAssumption DEF gsc_destroy, IInv, TypeOK
<1>5. CASE DestroySlot
  <2>1. k' \in 0 .. ref_capacity /\ k \in Slots /\ pc' = "destroy" /\ UNCHANGED <<top, pc>>
    BY <1>5, CapacityAssumption DEF DestroySlot, IInv, TypeOK, Slots
  <2>2. CASE Release(k)
    BY <2>1, <2>2, ReleaseBasics DEF IInv
  <2>3. CASE UNCHANGED <<registry, given>>
    BY <1>5, <2>1, <2>3, RegistryUnchanged DEF IInv, TypeOK
  <2> QED BY <1>5, <2>2, <2>3 DEF DestroySlot
<1>6. CASE DestroyEnd
  BY <1>6, RegistryUnchanged DEF DestroyEnd, IInv, TypeOK
<1>7. CASE Stopped \/ UNCHANGED vars
  BY <1>7, RegistryUnchanged DEF Stopped, vars, IInv, TypeOK
<1> QED BY <1>1, <1>2, <1>3, <1>4, <1>5, <1>6, <1>7 DEF Next

-----------------------------------------------------------------------------
(* Reference counts. *)

Holders(v) == {s \in Held : given[s] = v}

\* What the counts rest on: a slot nobody holds has no value, so that the tail
\* of the free list, which gsc_destroy takes for occupied, costs no reference;
\* and the slots behind gsc_destroy's index are no longer held.
CountInv ==
  /\ IInv
  /\ value = given
  /\ RefcountExact
  /\ pc = "destroy" => \A s \in Held : k <= s
  /\ pc = "destroyed" => Held = {}

LEMMA HoldersFinite ==
  ASSUME NEW v
  PROVE  IsFiniteSet(Holders(v))
<1>1. IsFiniteSet(Slots)
  BY CapacityAssumption, FS_Interval DEF Slots
<1>2. Holders(v) \in SUBSET Slots
  BY DEF Holders, Held
<1> QED BY <1>1, <1>2, FS_Subset

LEMMA InitCount == Init => CountInv
<1> SUFFICES ASSUME Init PROVE CountInv
  OBVIOUS
<1>1. Held = {}
  BY DEF Init, Held
<1>2. RefcountExact
  <2> SUFFICES ASSUME NEW v \in Values
               PROVE  refcount[v] = Cardinality({s \in Held : given[s] = v})
    BY DEF RefcountExact
  <2>1. {s \in Held : given[s] = v} = {}
    BY <1>1
  <2> QED BY <2>1, FS_EmptySet DEF Init
<1> QED BY <1>1, <1>2, InitInv DEF CountInv, Init

\* A handle more.
LEMMA RefCounted ==
  ASSUME CountInv, pc = "api", ref_free # -1, NEW v \in Values, gsc_ref(v)
  PROVE  CountInv'
<1>1. IInv' /\ Held' = Held \cup {ref_free} /\ ref_free \in Slots \ Held
  BY RefStep DEF CountInv
<1>2. /\ value' = [value EXCEPT ![ref_free] = v]
      /\ given' = [given EXCEPT ![ref_free] = v]
      /\ refcount' = [refcount EXCEPT ![v] = @ + 1]
      /\ pc' = "api"
  BY DEF gsc_ref, vm_incref
<1>3. given \in [Slots -> Values \cup {UNDEFINED}] /\ refcount \in [Values -> Int]
  BY DEF CountInv, IInv, TypeOK
<1>4. RefcountExact'
  <2> SUFFICES ASSUME NEW w \in Values
               PROVE  refcount'[w] = Cardinality({s \in Held : given[s] = w}')
    BY DEF RefcountExact
  <2>1. refcount[w] = Cardinality(Holders(w)) /\ IsFiniteSet(Holders(w))
    BY HoldersFinite DEF CountInv, RefcountExact, Holders
  <2>2. CASE w = v
    <3>1. {s \in Held : given[s] = w}' = Holders(w) \cup {ref_free}
      BY <1>1, <1>2, <1>3, <2>2 DEF Holders, Held
    <3>2. ref_free \notin Holders(w)
      BY <1>1 DEF Holders
    <3>3. Cardinality(Holders(w) \cup {ref_free}) = Cardinality(Holders(w)) + 1
      BY <2>1, <3>2, FS_AddElement
    <3> QED BY <1>2, <1>3, <2>1, <2>2, <3>1, <3>3
  <2>3. CASE w # v
    <3>1. {s \in Held : given[s] = w}' = Holders(w)
      BY <1>1, <1>2, <1>3, <2>3 DEF Holders, Held
    <3> QED BY <1>2, <1>3, <2>1, <2>3, <3>1
  <2> QED BY <2>2, <2>3
<1> QED BY <1>1, <1>2, <1>4 DEF CountInv

\* A handle less, or none when the slot was not held.
LEMMA ReleaseCounted ==
  ASSUME CountInv, NEW ref \in Slots, Release(ref)
  PROVE  /\ RefcountExact' /\ value' = given'
         /\ Held' = Held \ {ref}
<1>1. /\ value' = [value EXCEPT ![ref] = UNDEFINED]
      /\ given' = [given EXCEPT ![ref] = UNDEFINED]
      /\ vm_decref(given[ref])
  BY DEF Release, CountInv
<1>2. given \in [Slots -> Values \cup {UNDEFINED}] /\ refcount \in [Values -> Int]
  BY DEF CountInv, IInv, TypeOK
<1>3. Held' = Held \ {ref}
  BY <1>1, <1>2 DEF Held
<1>4. RefcountExact'
  <2> SUFFICES ASSUME NEW w \in Values
               PROVE  refcount'[w] = Cardinality({s \in Held : given[s] = w}')
    BY DEF RefcountExact
  <2>1. refcount[w] = Cardinality(Holders(w)) /\ IsFiniteSet(Holders(w))
    BY HoldersFinite DEF CountInv, RefcountExact, Holders
  <2>2. {s \in Held : given[s] = w}' = Holders(w) \ {ref}
    BY <1>1, <1>2, <1>3 DEF Holders, Held
  <2>3. Cardinality(Holders(w) \ {ref}) =
          IF ref \in Holders(w) THEN Cardinality(Holders(w)) - 1 ELSE Cardinality(Holders(w))
    BY <2>1, FS_RemoveElement
  <2>4. ref \in Holders(w) <=> given[ref] = w
    BY UndefinedAssumption DEF Holders, Held
  <2>5. refcount'[w] = IF given[ref] = w THEN refcount[w] - 1 ELSE refcount[w]
    BY <1>1, <1>2 DEF vm_decref
  <2> QED BY <2>1, <2>2, <2>3, <2>4, <2>5
<1> QED BY <1>1, <1>3, <1>4 DEF CountInv

\* Steps that leave the registry and the host's handles alone.
LEMMA CountUnchanged ==
  ASSUME CountInv, IInv', UNCHANGED <<registry, given>>,
         pc' = "destroy" => \A s \in Held : k' <= s,
         pc' = "destroyed" => Held = {}
  PROVE  CountInv'
<1>1. Held' = Held
  BY DEF Held
<1>2. RefcountExact'
  BY <1>1 DEF CountInv, RefcountExact, registry
<1> QED BY <1>1, <1>2 DEF CountInv, registry

LEMMA NextCount == CountInv /\ [Next]_vars => CountInv'
<1> SUFFICES ASSUME CountInv, [Next]_vars PROVE CountInv'
  OBVIOUS
<1>0. IInv' /\ k \in 0 .. ref_capacity
  BY NextInv DEF CountInv, IInv, TypeOK
<1>1. ASSUME NEW v \in Values, gsc_ref(v) PROVE CountInv'
  <2>1. CASE ref_free = -1 /\ vm_error
    BY <1>0, <2>1, CountUnchanged DEF vm_error
  <2>2. CASE ref_free # -1
    BY <1>1, <2>2, RefCounted DEF gsc_ref
  <2> QED BY <1>1, <2>1, <2>2 DEF gsc_ref
<1>2. ASSUME NEW ref \in Held, gsc_push_ref(ref) PROVE CountInv'
  <2>1. LooksOccupied(ref)
    BY DEF CountInv, IInv, HeldRefsResolve, LooksOccupied, Held
  <2>2. pc = "api" /\ UNCHANGED <<registry, pc, k, given>>
    BY <1>2, <2>1 DEF gsc_push_ref
  <2> QED BY <1>0, <2>2, CountUnchanged
<1>3. ASSUME NEW ref \in Held, gsc_unref(ref) PROVE CountInv'
  <2>1. ref \in Slots /\ Release(ref) /\ pc' = "api"
    BY <1>3 DEF gsc_unref, Held
  <2> QED BY <1>0, <2>1, ReleaseCounted DEF CountInv
<1>4. CASE gsc_destroy
  <2>1. \A s \in Held : 0 <= s
    BY DEF Held, Slots
  <2> QED BY <1>0, <1>4, <2>1, CountUnchanged DEF gsc_destroy
<1>5. CASE DestroySlot
  <2>1. pc = "destroy" /\ pc' = "destroy" /\ k \in Slots /\ k' = k + 1
    BY <1>0, <1>5, CapacityAssumption DEF DestroySlot, Slots
  <2>2. \A s \in Held : s \in Int /\ k <= s
    BY <2>1 DEF CountInv, Held, Slots
  <2>3. CASE Release(k)
    <3>1. Held' = Held \ {k} /\ RefcountExact' /\ value' = given'
      BY <2>1, <2>3, ReleaseCounted
    <3>2. \A s \in Held' : k' <= s
      BY <1>0, <2>1, <2>2, <3>1
    <3> QED BY <1>0, <2>1, <3>1, <3>2 DEF CountInv
  <2>4. CASE ~LooksOccupied(k) /\ UNCHANGED <<registry, given>>
    <3>1. k \notin Held
      BY <2>4 DEF CountInv, IInv, HeldRefsResolve, LooksOccupied, Held
    <3>2. \A s \in Held : k' <= s
      BY <1>0, <2>1, <2>2, <3>1
    <3> QED BY <1>0, <2>1, <2>4, <3>2, CountUnchanged
  <2> QED BY <1>5, <2>3, <2>4 DEF DestroySlot
<1>6. CASE DestroyEnd
  <2>1. pc = "destroy" /\ k = ref_capacity /\ pc' = "destroyed" /\ UNCHANGED <<registry, given>>
    BY <1>6 DEF DestroyEnd
  <2>2. Held = {}
    <3> SUFFICES ASSUME NEW s \in Held PROVE FALSE
      OBVIOUS
    <3>1. ref_capacity <= s
      BY <2>1 DEF CountInv
    <3>2. s \in 0 .. ref_capacity - 1
      BY DEF Held, Slots
    <3> QED BY <3>1, <3>2, CapacityAssumption
  <2> QED BY <1>0, <2>1, <2>2, CountUnchanged
<1>7. CASE Stopped \/ UNCHANGED vars
  BY <1>0, <1>7, CountUnchanged DEF Stopped, vars, CountInv
<1> QED BY <1>1, <1>2, <1>3, <1>4, <1>5, <1>6, <1>7 DEF Next

-----------------------------------------------------------------------------
(* The theorems. *)

\* The registry keeps its types: in particular no index leaves the array.
THEOREM RegistryTypeCorrect == Spec => []TypeOK
<1>1. IInv => TypeOK
  BY DEF IInv
<1> QED BY <1>1, InitInv, NextInv, PTL DEF Spec

\* A handle the host holds always resolves to what was stored under it.
THEOREM HandlesResolve == Spec => []HeldRefsResolve
<1>1. IInv => HeldRefsResolve
  BY DEF IInv
<1> QED BY <1>1, InitInv, NextInv, PTL DEF Spec

\* The registry reports that it is full only when every slot is held.
THEOREM FullMeansFull == Spec => []FullOnlyWhenAllHeld
<1>1. IInv => FullOnlyWhenAllHeld
  BY DEF IInv, FullOnlyWhenAllHeld
<1> QED BY <1>1, InitInv, NextInv, PTL DEF Spec

\* No handle is given out twice, whatever the order of the calls, for hosts
\* that release only handles they hold.
THEOREM NoSharing == Spec => HandlesNeverShared
<1>1. IInv /\ [Next]_vars => [\A v \in Values : gsc_ref(v) /\ pc' = "api" => Held' # Held]_vars
  <2> SUFFICES ASSUME IInv, NEW v \in Values, gsc_ref(v), pc' = "api"
               PROVE  Held' # Held
    OBVIOUS
  <2>1. pc = "api" /\ ref_free # -1
    BY DEF gsc_ref, vm_error
  <2> QED BY <2>1, RefStep
<1> QED BY <1>1, InitInv, NextInv, PTL DEF Spec, HandlesNeverShared

\* An object's reference count is the number of handles to it: gsc_ref,
\* gsc_unref and gsc_destroy never leak or drop a reference, although Release
\* trusts the mark of the slot and not the host.
THEOREM RefcountsExact == Spec => []RefcountExact
<1>1. CountInv => RefcountExact
  BY DEF CountInv
<1> QED BY <1>1, InitCount, NextCount, PTL DEF Spec

\* After gsc_destroy no object is referenced any more, although the last slot
\* of the free list is released as well.
THEOREM DestroyReleases == Spec => []DestroyReleasesAll
<1>1. CountInv => DestroyReleasesAll
  <2> SUFFICES ASSUME CountInv, pc = "destroyed", NEW v \in Values
               PROVE  refcount[v] = 0
    BY DEF DestroyReleasesAll
  <2>1. {s \in Held : given[s] = v} = {}
    BY DEF CountInv
  <2> QED BY <2>1, FS_EmptySet DEF CountInv, RefcountExact
<1> QED BY <1>1, InitCount, NextCount, PTL DEF Spec
=============================================================================
