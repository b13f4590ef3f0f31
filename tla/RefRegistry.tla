----------------------------- MODULE RefRegistry -----------------------------
(***************************************************************************)
(* The reference registry of the C API (library.c, library.h): a fixed     *)
(* array of slots whose unused ones are chained into a free list, from     *)
(* which the host takes handles that keep a value reachable from C.        *)
(*                                                                         *)
(* next_free = -1 marks an occupied slot and also ends the free list.      *)
(* Values stand for the objects a host refers to; a value of another type  *)
(* has no reference count and behaves like UNDEFINED in vm_incref.         *)
(***************************************************************************)
EXTENDS Integers, FiniteSets

CONSTANTS
  ref_capacity,   \* number of slots
  Values,         \* objects
  UNDEFINED       \* VAR_UNDEFINED

ASSUME CapacityAssumption == ref_capacity \in Nat \ {0}
ASSUME UndefinedAssumption == UNDEFINED \notin Values

Slots == 0 .. ref_capacity - 1

VARIABLES
  ref_free, next_free, value,   \* gsc_Context.ref_free, ref_slots[].next_free, .value
  refcount,                     \* Object.refcount, as far as handles contribute
  top,                          \* what gsc_push_ref pushed last
  pc, k,                        \* "api", "destroy" at slot k, "destroyed", "abort"
  given                         \* the host's view: what it stored under a handle it holds

registry == <<ref_free, next_free, value, refcount>>
vars == <<registry, top, pc, k, given>>

Held == {s \in Slots : given[s] # UNDEFINED}

Init ==
  /\ next_free = [s \in Slots |-> IF s = ref_capacity - 1 THEN -1 ELSE s + 1]
  /\ value = [s \in Slots |-> UNDEFINED]
  /\ ref_free = 0
  /\ refcount = [v \in Values |-> 0]
  /\ top = UNDEFINED
  /\ pc = "api" /\ k = 0
  /\ given = [s \in Slots |-> UNDEFINED]

vm_error == pc' = "abort" /\ UNCHANGED <<registry, top, k, given>>

vm_incref(v) == refcount' = [refcount EXCEPT ![v] = @ + 1]

vm_decref(v) ==
  refcount' = IF v \in Values THEN [refcount EXCEPT ![v] = @ - 1] ELSE refcount

\* Mutant: handle 0 is taken for an invalid one.
BugLooksOccupied(ref) == ref \in Slots \ {0} /\ next_free[ref] = -1

\* The test every operation on a handle makes.
LooksOccupied(ref) == ref \in Slots /\ next_free[ref] = -1

-----------------------------------------------------------------------------
\* Mutant: the slot is not marked occupied.
BugRefUnmarked(v) ==
  /\ pc = "api"
  /\ \/ ref_free = -1 /\ vm_error
     \/ /\ ref_free # -1
        /\ ref_free' = next_free[ref_free]
        /\ value' = [value EXCEPT ![ref_free] = v]
        /\ vm_incref(v)
        /\ given' = [given EXCEPT ![ref_free] = v]
        /\ UNCHANGED <<next_free, top, pc, k>>

gsc_ref(v) ==
  /\ pc = "api"
  /\ \/ ref_free = -1 /\ vm_error
     \/ /\ ref_free # -1
        /\ ref_free' = next_free[ref_free]
        /\ value' = [value EXCEPT ![ref_free] = v]
        /\ next_free' = [next_free EXCEPT ![ref_free] = -1]
        /\ vm_incref(v)
        /\ given' = [given EXCEPT ![ref_free] = v]
        /\ UNCHANGED <<top, pc, k>>

gsc_push_ref(ref) ==
  /\ pc = "api"
  /\ \/ ~LooksOccupied(ref) /\ vm_error
     \/ /\ LooksOccupied(ref)
        /\ top' = value[ref]
        /\ UNCHANGED <<registry, pc, k, given>>

\* Mutants: the rest of the free list is lost; the value is cleared before it
\* is dereferenced.
BugReleaseUnlinked(ref) ==
  /\ vm_decref(value[ref])
  /\ value' = [value EXCEPT ![ref] = UNDEFINED]
  /\ next_free' = [next_free EXCEPT ![ref] = -1]
  /\ ref_free' = ref
  /\ given' = [given EXCEPT ![ref] = UNDEFINED]

BugReleaseCleared(ref) ==
  /\ vm_decref(UNDEFINED)
  /\ value' = [value EXCEPT ![ref] = UNDEFINED]
  /\ next_free' = [next_free EXCEPT ![ref] = ref_free]
  /\ ref_free' = ref
  /\ given' = [given EXCEPT ![ref] = UNDEFINED]

\* The part of gsc_unref behind its guard.
Release(ref) ==
  /\ vm_decref(value[ref])
  /\ value' = [value EXCEPT ![ref] = UNDEFINED]
  /\ next_free' = [next_free EXCEPT ![ref] = ref_free]
  /\ ref_free' = ref
  /\ given' = [given EXCEPT ![ref] = UNDEFINED]

gsc_unref(ref) ==
  /\ pc = "api"
  /\ LooksOccupied(ref)
  /\ Release(ref)
  /\ UNCHANGED <<top, pc, k>>

\* gsc_destroy releases, in index order, every slot that looks occupied.
gsc_destroy ==
  /\ pc = "api"
  /\ pc' = "destroy" /\ k' = 0
  /\ UNCHANGED <<registry, top, given>>

DestroySlot ==
  /\ pc = "destroy" /\ k < ref_capacity
  /\ \/ LooksOccupied(k) /\ Release(k)
     \/ ~LooksOccupied(k) /\ UNCHANGED <<registry, given>>
  /\ k' = k + 1
  /\ UNCHANGED <<top, pc>>

DestroyEnd ==
  /\ pc = "destroy" /\ k = ref_capacity
  /\ pc' = "destroyed"
  /\ UNCHANGED <<registry, top, k, given>>

Stopped == pc \in {"abort", "destroyed"} /\ UNCHANGED vars

-----------------------------------------------------------------------------
(* A host that uses only the handles it holds. *)
Next ==
  \/ \E v \in Values : gsc_ref(v)
  \/ \E ref \in Held : gsc_push_ref(ref) \/ gsc_unref(ref)
  \/ gsc_destroy \/ DestroySlot \/ DestroyEnd \/ Stopped

Spec == Init /\ [][Next]_vars

-----------------------------------------------------------------------------
(* Properties. *)

TypeOK ==
  /\ ref_free \in Slots \cup {-1}
  /\ next_free \in [Slots -> Slots \cup {-1}]
  /\ value \in [Slots -> Values \cup {UNDEFINED}]
  /\ refcount \in [Values -> Int]
  /\ top \in Values \cup {UNDEFINED}
  /\ pc \in {"api", "destroy", "destroyed", "abort"}
  /\ k \in 0 .. ref_capacity
  /\ given \in [Slots -> Values \cup {UNDEFINED}]

\* gsc_ref always hands out a slot nobody holds: by whatever order of gsc_ref
\* and gsc_unref the free list was shuffled, two handles never share a slot.
HandlesNeverShared ==
  [][\A v \in Values : gsc_ref(v) /\ pc' = "api" => Held' # Held]_vars

\* A held handle resolves to what was stored under it: the slot is marked
\* occupied and its value is the host's.
HeldRefsResolve ==
  \A s \in Held : next_free[s] = -1 /\ value[s] = given[s]

\* The free list threads exactly the slots nobody holds, each once, and ends.
IsFreeList(n, fl) ==
  /\ \A a, b \in 1 .. n : fl[a] = fl[b] => a = b
  /\ {fl[a] : a \in 1 .. n} = Slots \ Held
  /\ ref_free = IF n = 0 THEN -1 ELSE fl[1]
  /\ \A a \in 1 .. n : next_free[fl[a]] = IF a = n THEN -1 ELSE fl[a + 1]

\* gsc_ref reports a full registry only when every slot is held: no slot is
\* ever lost from the free list.
FullOnlyWhenAllHeld == pc = "abort" => Held = Slots

\* The reference count of an object is the number of handles to it.
RefcountExact ==
  \A v \in Values : refcount[v] = Cardinality({s \in Held : given[s] = v})

\* gsc_destroy drops every reference the host still held, although a free slot
\* (the tail of the list) looks occupied to it.
DestroyReleasesAll ==
  pc = "destroyed" => \A v \in Values : refcount[v] = 0
=============================================================================
