# A verification project for gsc

gsc is an embeddable scripting language: a host program compiles scripts,
starts script threads (coroutines) in a virtual machine, and calls
`gsc_update` once per tick. Everything runs on one OS thread. What makes it
hard is that script threads interleave at every `wait`, that they share memory
through events, objects and pointers into each other's stacks, and that the
generated code and the machine that runs it have to agree on every operand.

This directory holds TLA+ models of the code, TLC configurations that check
them on small instances, and proofs for all sizes where the prover reaches.

## 1. Inventory

| Component | Code | State | Operations | Interacts with |
|---|---|---|---|---|
| Scheduler | `vm.c` `vm_run_threads`, `add_thread`, `remove_thread`, `object_pool.h` | ring `thread_buffer` with two indices, pool of thread structs, per thread `state`, `wait` | one tick; spawn; `wait`, `waittillframeend`, return | host (`gsc_update`, `gsc_call`), instructions |
| Events | `vm.c` `vm_notify_args`, `OP_WAITTILL`, `OP_NOTIFY`, `OP_ENDON` | `events[256]` with `active` flags, per thread `waittill`, `endon` | notify, block, consume, stop, compact | scheduler, objects |
| Instruction machine | `vm.c` `vm_execute_instruction`, `run_thread` | operand stack, frames, locals, `result` per thread | 26 instructions | values, objects, scheduler |
| Call protocol | `vm.c` `call_function`, `call_c_function`, `vm_call_function_thread`, `OP_RET` | frames, `return_value` pointer, slots of pool `uo` | call, threaded call, call through pointer, return | machine, pools, linker |
| Values | `vm.c` `promote_type`, `coerce_type`, `unary`, `binop` | none | operators, conversions | machine |
| Objects and proxies | `vm.c` `vm_object_upsert`, `OP_FIELD_REF`, `OP_LOAD_FIELD`, `OP_STORE` | fields in a hash trie, proxy, reference count | load, store, create | machine, C API |
| Code generator | `compiler.c` | code, locals, scopes, lists of pending jumps | one visitor per node type | parser, machine |
| Parser, lexer | `parse.c`, `precedence.c`, `lexer.h` | token, cursor | recursive descent, precedence climbing | code generator |
| Compile and link | `library.c` `gsc_compile`, `gsc_next_compile_dependency`, `gsc_link`; `main.c` | files with state, functions, includes, references; globals | compile, next dependency, link, look up | parser, generator, machine |
| Reference registry | `library.c` `gsc_ref`, `gsc_push_ref`, `gsc_unref`, `gsc_destroy` | slots with a free list | take, push, release, destroy | host, reference counts |
| Storage | `string_table.h`, `hash_trie.h`, `arena.h`, `object_pool.h` | tries, arenas, free lists | intern, upsert, allocate | everything |
| Hosts | `examples/` | none of interest | the tick loop, the compile loop | C API |

What makes each one correct:

* **Scheduler** - no thread struct is lost, in two places, or freed while it is
  queued; a tick visits exactly the threads it found, once each; no thread
  starves; a wait is never over early, and the script runs on in the second tick
  that begins after its time was up; the process stops only when a resource is
  really used up.
* **Events** - a notification is taken once, oldest first, and survives the
  in-place compaction; `waittill` and `endon` do what the repository's README
  says of them.
* **Machine, calls, generator** - running the compiled code prints what the
  source means, whatever the dispatcher does; no operand, local or field leaks,
  dangles or is shared; threads write only to what is theirs.
* **Registry** - a handle resolves to what was stored under it until it is
  released, and no two holders share a slot.
* **Linker** - a call is looked up in the table of the file the caller runs in
  and finds that file's own function, else one of an include that was compiled;
  a function that was linked in finds its callees there, or those of a file that
  is nearer; what could be called stays callable; no dependency of a
  compiled file is forgotten; initialisers see the globals above them; the
  compile loop ends unless a file cannot be read.
* **Parser, lexer** - a lexeme is the longest that starts where it starts; a
  file that is written down from a tree is read as that tree, and a file that
  is accepted is the one its tree writes down.
* **Storage** - a key that was stored is found, whatever the hashes, and the
  list of a trie is in the order of insertion.

`PROJECT.json` lists the hazards found while reading, each with its line and
the properties that cover it.

## 2. Modules

| Module | Models | Role |
|---|---|---|
| `Scheduler` | ring, pool, tick, events, the instructions that touch them | component |
| `RunQueue` | a bounded FIFO queue from which one thread is taken | abstract specification |
| `EventBoard` | notifications, each taken once, oldest first | abstract specification |
| `SchedulerRefinement` | the two refinement mappings | refinement |
| `SchedulerTiming` | history variables for visits, for time slept and for ticks overdue | properties |
| `SchedulerEvents` | history variables for what `endon` and `waittill` promise | properties |
| `SchedulerProofs` | inductive invariants, four theorems, the kinds of steps | proofs |
| `SchedulerRefinementProofs` | the run queue and the event board are implemented; visits and waits; five theorems | proofs |
| `SchedulerEventsProofs` | `endon` and `waittill` under the discipline, four theorems | proofs |
| `RefRegistry`, `RefRegistryProofs` | the registry; six theorems | component, proofs |
| `Values` | the operators on values | pure functions |
| `AST` | node types of `ast.type` | data |
| `Compiler` | `compiler.c` as functions from trees to code | pure functions |
| `Machine` | instructions, calls, memory, dispatch; executes `Compiler`'s code | component |
| `MachineSafety` | which code is verified, and what the machine promises for it | properties |
| `MachineProofs` | the promises hold for all verified code, seven theorems | proofs |
| `SourceSemantics` | what a program means, read off the tree, without code, stack or jumps | reference definition |
| `MachineCorrectness` | `Compiler`'s code on `Machine`: means what `SourceSemantics` says, and is verified | composition |
| `Linker` | files, functions, includes, globals; compile, register, initialise, link, look up, run out of memory | component |
| `LinkerProofs` | inductive invariants and eight theorems | proofs |
| `OrderedMap` | a map whose keys keep the order in which they came | abstract specification |
| `HashTrie` | the trie of `hash_trie.h`, of objects and of the string table, one step per node visited | component |
| `HashTrieRefinement` | the refinement mapping | refinement |
| `HashTrieProofs` | the ordered map is implemented | proofs |
| `Induction` | induction over naturals and recursion over an interval, without operator parameters | lemmas |
| `Lexer` | `lexer.h` on a stream in memory, one action per kind of lexeme | component |
| `Parser` | `parse.c` and `precedence.c`, one step per declaration | component |
| `SourceSyntax` | the grammar, and how a tree is written down | reference definition |
| `Syntax` | `Lexer`, then `Parser`, as in `compile_file`; the properties of both | composition |
| `MCScheduler`, `MCSchedulerEvents`, `MCMachine`, `MCLinker`, `MCHashTrie`, `MCSyntax` | model values, symmetry, programs, disks, texts | model checking |

### How the models correspond to the code

*Scheduler.* `vm_run_threads` is a loop over the ring; `pc` names the place in
it: `host` (outside a tick), `loop` (loop head), `dispatch` (the switch),
`run` (inside `run_thread`), `requeue`, `compact`, and `abort` after
`vm_error`. Each case of the switch is an action (`DispatchInactive`,
`DispatchTime`, ...), each instruction that touches the scheduler is one
(`OP_WAIT`, `OP_WAITTILL`, ...), and what the script chooses to do is left
open. Time is counted in integer units. The compaction of events is one step
per event, because it overwrites the array it reads.

*Machine.* One step is one instruction, or one visit by the dispatcher. Which
live thread is visited next is left open; `Scheduler` has the ring. The pool
`uo` is a set of cells; a local or a field is a cell, a reference is the number
of one, so a dangling or shared cell can be seen. `vm_error` sets `error` to
its reason and stops. `MachineCorrectness` puts the machine
together with the generator: each case is a program's compiled form and its
meaning, worked out once (`CaseOf`, the constant `Cases`), and `Start` is given
the compiled form.

*Verified code* (`MachineSafety`). The machine checks little at run time and
the generator promises it nothing in writing, so what the one needs of the other
is stated as a bytecode verifier would: every instruction that can be reached
has one shape, the kinds of the operands its function has on the stack before it
(a value, an integer known to be a count of arguments, a reference, the global
object), it pops what is there, and leaves what each instruction that can follow
expects. Three further clauses are what the code turned out to need. While a
function calls or waits, only values lie on its stack, because a thread it
started may return meanwhile and overwrite any operand (the finding
`v_return_slot`): a value for a value is wrong but does no damage, a reference
lost is a crash. No builtin is started as a thread. And no thread gets more
arguments than its function has locals beside `self`. `ShapesOf` infers the shapes of a
compiled function, and `VerifiedWith` judges them; only the judgement is
trusted.

*Compiler.* Each `visit_AST...` function of `compiler.c` is an operator from a
compiler state (code, locals, scopes, pending jumps) to the next one. Jumps
are emitted unresolved and patched as in the code, including the scope number
that pending jumps carry.

*SourceSemantics* is written against the syntax and shares with the compiled
side only the operators of `Values`, so that a wrong jump, a wrong order of
evaluation, a wrong binding or an unbalanced stack shows as different output.

*RefRegistry.* `given` is the host's view (what it stored under a handle it
holds); the properties compare it with the slots. `gsc_destroy` is a loop with
one step per slot.

*Linker.* A step of `gsc_compile` is one that another step can see: the file
compiled, one dependency registered, one initialiser run. `gsc_link` takes one
step per include. `pc` keeps a call of the library from being interrupted by
another, as the single OS thread does; calls of the library follow each other
in every order. A function is the file it is written in, so that a table that
has the wrong one can be told. `find_or_create_compiled_file` stores the key
before it allocates the file: an allocation that fails in between leaves the
state `NULL`, and whoever reads it next crashes (`NullFile`).

*HashTrie.* `goal` is the key that is asked for, `slot` and `depth` where the
walk is. A hash is a sequence of digits, all zero below the last one; which one
each key has is open, except that alike spellings (the keys of objects ignore
case) have the same. `#include` rewrites a path after it was hashed
(`rewritten`), which is why the list of includes may hold a path twice: the
mapping leaves out an include if an earlier one is alike (`Repeated`).

*Lexer and Parser.* The text is a string that is read by offset, and each
action reads one lexeme to its end, with what `lexer_unget` gives back. A
function of the parser is an operator from the tokens that are left to a node
and the tokens behind it; `lexer_error` leaves no token, so that whatever is
parsed after it is dropped, as `longjmp` does. The binding powers are those of
`operator_table`. `SourceSyntax` shares no code with the parser: it says which
trees there are and writes each with the parentheses it needs.

## 3. Runs

| Run | Module, instance | Shows |
|---|---|---|
| `ticks` | `SchedulerTiming`; 3 threads, 1 name, 1 event, ticks of 0 and 2, waits of 0 and 3 | ring and pool are a partition and a FIFO queue; one visit per thread and tick; no wait over early, and its script runs on in the second tick after its time was up; the process stops only when something is used up |
| `events` | `MCScheduler`; 3 threads, 2 names, 3 pending events | the event list is an `EventBoard` |
| `live` | `MCScheduler`; 3 threads, 1 name, waits of 1, fairness | no starvation; what a thread is blocked on is delivered |
| `disciplined` | `MCSchedulerEvents`; 3 threads, 2 names, 2 objects | under a stated discipline `endon` and `waittill` keep their promises |
| `programs` | `MCMachine`; about 2800 programs, up to 4 threads visited in any order, fairness | control in every pairing, expressions, assignments, data, calls, threads: same output as the source, termination, balanced stack, owned memory; every compiled function is verified, and scopes are given back |
| `machine_events` | `MCMachine`; 49 programs, host calls at any time | events are delivered to variables that are alive, also when threads are stopped no two variables share a slot, the code is verified |
| `refs` | `RefRegistry`; 4 slots, 2 objects | registry: handles, free list, counts, destruction |
| `linker` | `MCLinker`; nine disks of three files, three functions, three globals, one failed allocation, fairness | functions that were linked in find their callees, and no farther ones than the nearest, nothing comes from a file that failed, every level of includes is seen after as many links, dependencies are known, initialisers run as written, the compile loop ends |
| `tries` | `MCHashTrie`; four spellings of three keys, hashes of two binary digits, three kinds of tries, fairness | a trie is an ordered map; lookups end |
| `syntax` | `MCSyntax`; about 3800 files written from trees and 13 200 texts put together from fragments | lexemes are the longest; trees come back; accepted texts are what their trees write |
| `v_return_slot`, `v_switch_continue` | `MCMachine`; one program each | the findings below |

**Bounds.** Three threads are the least with which a thread can be in the hand
of the dispatcher, one queued behind it and one free, and with which the ring
(which keeps a slot empty) wraps in the middle of a round. Two names and three
events let an older event be consumed between two pending ones. Ticks of 0 and
2 against a wait of 3 give a tick that counts nothing, one that ends inside the
wait and one that overshoots it. Loops run twice: the first iteration reaches
every jump, the second sees what it left.
Integers have 6 bits in the machine's runs, which the programs never overflow.
Cells, stack and frames are bounded tightly, so that a leak becomes an error
within a run. Every bound is a constant of a module.

Three files are the least with an include of an include and with a ring that
is not a pair; two calls of `gsc_link` in a row are what the longest chain
needs, and a third changes nothing. Hashes of two digits have keys that part
at the first digit, at the second and never; three nodes are a list with a
middle. The trees of `syntax` nest one operator of each binding power, every prefix,
postfix, call and bracket in each other, and every statement in every
compound one, two levels deep: a wrong comparison of binding powers or a wrong
`else` needs no more. They are written tightly; the smaller ones also with a
blank, a comment of several lines and a comment up to the end of a line in
every gap. The fragments are put together in every order, two to four at a
time, which is where most texts that no parser should take come from.

One of the programs of `machine_events` starts a builtin as a thread, to see
what the machine does then; `CodeVerified` excuses it (`StartsBuiltin`). The
limit of scopes is 5 in `programs`, which nest loops and switches three deep but
have up to five of them in a function: a scope that is not given back reaches
the limit (`ScopesWithin`).

**Deadlock** is checked for `Scheduler`, `RefRegistry`, `HashTrie` and `Syntax`
(an abort, and the end of a file, stutter). `Linker` turns it off: after a read
through `NULL` nothing follows.
`Machine` really stops, when the program has ended or `vm_error` was called,
so its configurations turn the check off; `Finishes` and `MatchesSource` say
that it does not stop earlier.

**Fairness.** `Scheduler`: the host keeps calling `gsc_update` with a positive
step (the loop of `examples/gsc.c`), the C code of a tick goes on, and a script
eventually yields; `run_thread` has no time slice, so without that assumption a
script hangs the host, which is a fact about the code and not assumed away.
`Machine`: instructions go on, and every live thread is visited again, which is
what `EveryThreadDispatched` of `Scheduler` shows; a blocked thread needs an
event that nobody has to send, so delivery is not assumed and only programs
without events are asked to finish.
`Linker`: a call of the library runs to its end (it is sequential code), and
the host compiles what `gsc_next_compile_dependency` names. Nothing else uses
that function, and it replaces the loop that is commented out in
`gsc_compile_source` (`library.c:464`); the hosts in `examples/` compile one file
only. That is strong fairness, since the dependency is not there to be compiled
while a call of the library goes on.
`HashTrie`: the loop goes on. `Syntax` needs none.

### The discipline of `disciplined`

A name used with `endon` is never waited on; it is registered before it is
notified, and notified only on the object it was registered with. One thread at
a time blocks on a key, and none on a key that is pending. These clauses are
what the proofs of section 4 use, no more: that a key is notified only while
somebody is blocked on it, for instance, is not needed. Each clause answers one
way in which the event list does not do what the repository's README says of it:

* a `waittill` of another thread can consume the event of an `endon`
  visited earlier in the tick (`vm.c:2833`), and the thread goes on;
* `endon` drops its object (`vm.c:1820`): the name on any object stops the thread;
* an event nobody consumed stays for ever (`vm.c:2846`): an `endon` registered
  later is stopped by it, and a later `waittill` returns with it at once;
* of two threads blocked on a key only the first one visited is woken.

`ESpec`, without the discipline, violates each of the four properties.

### Findings

The two runs named `v_...` each end in a counterexample; `PROJECT.json` quotes the
line of the repository that is contradicted.

* A thread's return value overwrites an operand of its creator
  (`v_return_slot`).
* `continue` in a `switch` before a loop jumps into that loop
  (`v_switch_continue`).

More places where the code departs from what it, its comments or the ordinary
meaning say have no run of their own. The models do what the code does, except
where noted, and the passing runs leave these inputs out:

* a thread stopped by `endon` keeps the locals of its frames
  (`vm.c:2795`): no program of `programs` has an `endon`, and `machine_events`
  does not check what a stopped thread leaves;
* the limit of scopes is tested before the level is raised (`compiler.c:184`),
  so one level more passes than the array has: programs nest less deep;
* `1e3` and `1f` are read as 1, though comments call the letters scientific
  notation and a postfix (`lexer.h:356`, `lexer.h:368`): `Lexer` reads them so,
  and numbers are compared by what is read;
* a file that cannot be read is named as the next dependency for ever
  (`library.c:498`): `CompileLoopEnds` allows it;
* a prefix minus is compiled to `operand - 0` (`compiler.c:754`), while
  `unary` negates (`vm.c:924`);
* a threaded call of a builtin runs the caller's stack empty; the check
  against it is commented out (`vm.c:2474`);
* surplus arguments of a thread displace `self` (`vm.c:2611`, `vm.c:2619`);
* `gsc_unref` of the last slot of the free list passes its guard, because that
  slot has the -1 of an occupied one (`library.c:801`): the host of `refs`
  releases only what it holds;
* a `switch` without `default` in which nothing matches runs its first body, since
  no jump leads over the bodies, and the body of a `default` is laid out last
  wherever it stands (`compiler.c:679`): in all programs the default comes last;
* a call of `::f()` reads the type of a file that is `NULL` (`compiler.c:294`):
  `Compiler` emits an ordinary call for it, and no program has one;
* a name of the host with two dots is cut at the last one only
  (`library.c:451`), and an include cannot name what is left:
  `TrimmedAssumption` excludes such names;
* memory that runs out while initialisers are compiled or run makes a `longjmp`
  to the frame of `gsc_compile_source`, which has returned (`library.c:456`,
  `library.c:504`): in `Linker` no allocation fails there.

One place is in the runs and is not what a reader of a script may expect: a
function that was linked into a file calls with that file's table (`vm.c:2629`),
so an includer's function of the same name is called instead of the one of its
own file. `NearestCalleeFound` says which one it is.

The passing runs also have no `continue` in a `switch` that a loop follows and
no operand on the stack of a creator that is suspended.

## 4. Proofs

The theorems hold for every value of the constants that the `ASSUME`s allow:
the number of threads, of slots and of levels is positive, bounds are naturals,
`NULL` and `NONE` are nothing else, ticks are not negative, paths of includes are written without an extension, as the lexer
demands. TLC checks the same properties on the runs of section 3, except
`OwnFunctionsAlwaysWin`, `NoSharing`, `Soundness`, and the types of `Scheduler`,
`RefRegistry` and `Linker`: those hold for every size, and no run repeats them.

**Scheduler** (`SchedulerProofs`): `TypeCorrect`, `ThreadsPartitioned`,
`RoundsComplete`, `AbortsJustified`. None of them is inductive by itself. The
invariant `IInv` adds that the dispatcher holds a thread exactly between taking
it out and putting it back (`CurInv`), since otherwise freeing or requeueing
could put a thread into two places, and that the compaction has read at least
as many events as it has written (`CompactInv`), since otherwise it would write
behind the array. The lemmas `AddThread` and `RemoveThread` say what the ring
operations do to the window for every position of the indices; `PoolAllocate`
and `PoolDeallocate` do so for the free list; the `Partition...` lemmas combine
them for the four ways a thread moves (free to ring, ring to hand, hand to free,
hand to ring); then there is one lemma per kind of step. For `AbortsJustified`
the threads are counted: the free ones, those of the ring and the one in hand
are `max_threads` (`ThreadsCounted`), so that an empty pool means a full ring.

**Refinements** (`SchedulerRefinementProofs`). `RefinesRunQueue`: the window of
the ring is a queue, `add_thread` appends to it and `remove_thread` takes its
head; the modulo wraps at most once (`PositionValue`). `RefinesEventBoard`: what
is pending is gathered from the event array by a recursive function, which the
proof knows only by its equations (`Gathers`). Lemmas say when two such
functions end alike (`GathersAlike`) and what deactivating one event takes out
(`GathersWithout`). So a notification appends, the first match of a scan is the
oldest notification of its key, and a step of the compaction, which moves an
event down over one that no longer counts, changes nothing. The steps of the
scheduler are first sorted by what they do to events (`Steps`), with the help
of `RunInv`: only an `ACTIVE` thread runs, and a free struct is cleared.

**Timing** (`SchedulerRefinementProofs`, on the queue of the refinement): `DueThreadsVisited`, `WaitsNeverEarly`,
`ResumesOnTime`. The threads a tick has still to visit are the first
`N - i` of the queue (`DueInv`), and the time a thread has slept is what it asked
for less what its counter still holds, up to the tick that is going on
(`SleepInv`). That the script runs on in the second tick that begins after its
time was up follows from both (`RestInv`): a waiting thread is overdue by one only
while the tick has still to visit it and its counter is at or below 0, which makes
it `ACTIVE`; an `ACTIVE` one that has not run yet is overdue by one, and by two
only while the next tick has still to visit it.

**Events** (`SchedulerEventsProofs`), under the discipline: `EndonStops`,
`EndonHeeds`, `WakeupsArrive`, `WakeupsFresh`. The invariant relates each
history variable to the event list: a key that was registered and heard since
is pending and nothing else registered is (`HeardIsPending`), pending events of
a registered name are for the registered object (`OneObject`), a thread is owed
its wakeup as long as its key is pending (`OwedIsPending`). `Squeezed` says that
in the middle of the compaction no event has been lost yet.

**Registry** (`RefRegistryProofs`): `RegistryTypeCorrect`, `HandlesResolve`,
`FullMeansFull`, `NoSharing`, `RefcountsExact`, `DestroyReleases`. The invariant
says that some injective sequence of exactly the unheld slots is the free list
chained by `next_free`, ended by -1: this is what the -1 that also marks
occupied slots hides, and why a host that releases a slot twice breaks it. For
the counts it adds that a slot holds what the host thinks it does, and that
`gsc_destroy` has passed no slot that is held.

**Linker** (`LinkerProofs`): `TypeCorrect`, `OwnFunctionsAlwaysWin`,
`NothingCopiedFromFailed`,
`CalleesFound`, `DependenciesStayKnown`, `LookupsStayStable`, `IncludesSeen`,
`InitialisersInOrder`. The invariant of the first six adds four facts. The
includes of a file are a prefix of those on the disk, so that what is reached
through includes stays reached when a compile that ran out of memory is
repeated. A file that is not finished has no functions unless an allocation
failed, so that `gsc_link`, which also copies from files that are not compiled
yet, takes nothing from them. Functions come together: a table that has one
function of a file has something under every name of that file, and what it has
under a name that a file on the way defines is not from beyond that file
(`NearestCopied`), because an include is copied whole and nothing is ever removed
or replaced. And the function that runs is still in the table in which it was
found. `CalleesFound` follows, and does not say that a function calls those of its
own file: where an includer has the name too, it does not. There is one lemma for each of the three
ways the tables change (`TablesKept`, `TablesCompiled`, `TablesLinked`), then
one per action. For `IncludesSeen`, the files `gsc_link` has passed are one
level ahead of the others, and the file it is at is ahead in the includes it
has passed (`LinkedSoFar`). For `InitialisersInOrder`, the initialisers that ran
are those of the first globals of the file, and each has read what the ones
above it left (`InitialisedSoFar`).

**Tries** (`HashTrieProofs`): `TrieIsOrderedMap`. A walk for a stored key finds
its node from wherever it comes by (`WalksFind`). A walk is not a sequence
here: that it leads to a node means that every set of places which holds the
place it is at, and with each place the next one, holds a place of that node
(`Leads`), and in the same way that it comes by a place (`OnTheWay`). A new node
is hung in where the walk for its key ends, so each older walk either stops
before it or goes on as it did.

**Machine** (`MachineProofs`): `Soundness`, and from it `WellTyped`,
`NoInternalErrors`, `NothingLeft`, `NothingShared`, `DeliveryIsSafe` and
`NothingLost`. They are about *verified* code, whoever made it: any functions
that have shapes as above, any number of threads, stacks, call depths, pools and
lists of any size, any order of visits, and a host that calls functions at any
time. With `CodeVerified`, which TLC checks of each of the 2800 compiled
programs, they hold of those programs beyond the sizes the runs have.

None of the promises is inductive. That a `POP` finds an operand depends on what
every instruction before it has done, in functions that called each other and
were left half-way. The invariant `IInv(sh)`, for shapes `sh` of the code, says

* that the stack of a thread is cut into one piece per frame (`Cut`): each
  caller's operands are those its next instruction expects, less the result that
  is still to come, and all are values; the piece of the last frame has the
  shape of the instruction it is at, operand by operand (`Filled`), where a
  reference refers to a local of that frame or to a field (`Target`);
* that a thread which is not running expects nothing but values (`CalmInv`).
  This is what `OP_RET` needs, which stores its result through a pointer into
  another thread's stack that may be long out of date;
* that every local of every frame of every thread, and every field of every
  object, has a cell of its own that is in use (`Unshared`), so that freeing the
  locals of a frame frees nobody else's and no reference to them is left
  anywhere: they were operands of that frame only, and it is gone;
* that the objects, events and variables hold values that exist (`ObjectsInv`,
  `EventsInv`, `CellsInv`), and that the free list holds free structs, each once.

`StepFits`, `EnterFits` and `LeaveFits` say that the pieces stay as they should
when an instruction pops and pushes, a call opens a frame and a return closes
one; `OwnersStay`, `OwnersCalled`, `OwnersReturned` and `OwnersExtended` say it
of the cells. Then there is one lemma per instruction and per visit of the
dispatcher. `NothingLost` also assumes that no code has an `endon`, because a
thread stopped by it keeps its locals (`vm.c:2795`): then every cell in use has
a variable (`NoneLost`). `sh` is bound by an existential in `Sound`, since
verification asks for shapes to exist; a step keeps the ones it was given.

**Induction.** The library's induction theorems have an operator for parameter
and cannot be used here. `Induction` derives what is needed in first-order
form: the intervals `0 .. n` are finite sets, inclusion of finite sets is
well-founded, so a set of naturals has a least element (`LeastNatural`); from
this, induction over an interval (`IntervalInduction`) and the existence of what
a recursive function computes (`Recursion`). This is how the recursive functions
`PendingUpto`, `Within`, `Nth`, `Upto` and the one in `Take` come to be known by
their equations.

**Only model-checked.** Liveness (`EveryThreadDispatched`, `PendingEventServed`,
`CompileLoopEnds`, `LookupEnds`, `Finishes`): fairness and ENABLED are out of
the prover's reach. Everything about `Compiler`, `SourceSemantics`, `Parser` and
`Syntax` (`MatchesSource`, `CodeVerified`, `LongestMatch`, `RoundTrip`,
`PrintsBack`): they are built on operators that are recursive over trees, or
compare with such operators, and induction over trees is out of reach. So that
the generator makes verified code is checked program by program, and that the
machine is safe with verified code is proved. That it prints what the source
means is only checked.

## 5. Not modelled

* Proxies (`__get`, `__set`, `__call`), tags and user data.
* `OP_PRINT_EXPR` and `OP_GLOB`, which the generator does not emit for
  functions; file-qualified calls in `Machine` (one file is modelled there; which
  function they find is in `Linker`).
* Rounding of floats, NaN and infinities; the text of floats, vectors and
  objects.
* What the instructions of an initialiser compute: they run one by one without
  a frame, so that jumps have no effect (`library.c:511`), and no document says
  what they should do.
* Line numbers and error texts, the lexer's flags that nobody sets,
  `lexer_peek` and `lexer_accept` (unused), the sizes of the parser's buffers.
* The walk of `traverse.c` over the tree: what it is for, the references to
  functions of other files, is an input of `Linker`.
* Memory of strings, arenas and allocators; objects are never freed by the
  code. `jmp_oom` is the entry point's in `Linker`, which has one call at a
  time; calls that re-enter the API are left out.
* The index of a string in the string table against its address; literals
  against strings that were computed (they compare by content in `Values`).
* `%` by zero and by -1, which trap, while `/` by zero gives 0: programs divide
  by neither.
* Builtins that call back into the API; arguments of `gsc_call`.
* `examples/`: hosts; they fix how the API is used.

## 6. Plan

In this order; all but the ninth and the twelfth are done.

1. `Scheduler` with refinements, timing and events.
2. `SchedulerProofs`.
3. `RefRegistry` and its proofs.
4. `Values`, `AST`, `Compiler`, `SourceSemantics`, `Machine`.
5. `MachineCorrectness` with its program families.
6. `Linker`, then `LinkerProofs`.
7. `OrderedMap`, `HashTrie` and the refinement.
8. `Lexer`, `Parser`, `SourceSyntax` and `Syntax`.
9. Proxies and callbacks that re-enter the API; arguments of `gsc_call`.
10. Proofs of every safety property and refinement of `Scheduler`,
    `RefRegistry`, `Linker` and `HashTrie`.
11. `MachineSafety`, `MachineProofs`: what the machine promises for verified
    code, and that the programs of the runs are compiled to such code.
12. `Values` against integer arithmetic at small widths.
