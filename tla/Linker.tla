------------------------------- MODULE Linker -------------------------------
(***************************************************************************)
(* Compiling files and linking their functions (library.c, main.c): the    *)
(* table of files, the function table of each file, the global variables   *)
(* their initialisers fill, and the calls that look functions up.          *)
(*                                                                         *)
(* A function is represented by the file it is written in                  *)
(* (CompiledFunction.file), a value by the file whose initialiser made it. *)
(* Hash tries are insertion-ordered lists of keys (HashTrie).              *)
(***************************************************************************)
EXTENDS Integers, Sequences

CONSTANTS
  Paths,      \* names of files as hosts and scripts write them
  Names,      \* names of functions
  Globals,    \* names of global variables
  HostGlobals,\* those the host sets, too
  Disks,      \* what read_file may find under each trimmed path
  Trimmed,    \* a path without its extension (strrchr(filename, '.'))
  MaxLinks,   \* bound: calls of gsc_link that are counted as consecutive
  MaxFaults,  \* bound: allocations that fail
  NONE        \* no function, no value, no frame

Contents ==
  [found : BOOLEAN, valid : BOOLEAN, functions : Seq(Names),
   includes : Seq(Paths), references : Seq(Paths),
   inits : Seq([name : Globals, from : Globals \cup {NONE}])]

Keys == {p \in Paths : Trimmed[p] = p}

Members(s) == {s[i] : i \in DOMAIN s}

ASSUME PathsAssumption == NONE \notin Paths \cup Globals
\* library.c cuts a name of the host at its last dot: names with two are left out.
ASSUME TrimmedAssumption == Trimmed \in [Paths -> Paths] /\ \A p \in Paths : Trimmed[p] \in Keys

\* The lexer accepts no dot in the path of an include or a reference.
ASSUME DisksAssumption ==
  \A d \in Disks : \A p \in Keys :
    /\ d[p] \in Contents
    /\ Members(d[p].includes) \cup Members(d[p].references) \subseteq Keys
ASSUME GlobalsAssumption == HostGlobals \subseteq Globals
ASSUME BoundsAssumption == MaxLinks \in Nat /\ MaxFaults \in Nat

States == {"ABSENT", "NULL", "NOT_STARTED", "DONE", "FAILED"}

VARIABLES
  disk,       \* what the host finds under each name, fixed
  files,      \* gsc_Context.files: the keys, oldest first
  status,     \* CompiledFile.state; "ABSENT": no key, "NULL": a key without a CompiledFile
  functions,  \* CompiledFile.functions
  includes,   \* CompiledFile.includes
  globals,    \* the fields of the global object, oldest first
  value,      \* what they hold
  pc,         \* "host", inside "register", "initialise" or "link", or "crash"
  path,       \* the file gsc_compile works on, or NONE
  pending,    \* dependencies of path that are not registered yet
  todo,       \* globals of path that are not initialised yet
  it, inc,    \* gsc_link: the file, and its include
  links,      \* how often gsc_link ran since a file was compiled
  faults,     \* allocations that failed
  frame       \* a script that runs: where its calls look, and whose code it is

tables == <<files, status, functions, includes>>
store == <<globals, value>>
call == <<path, pending, todo>>
link == <<it, inc, links>>
vars == <<disk, tables, store, pc, call, link, faults, frame>>

Own(p) == {n \in Names : functions[p][n] = p}
Empty == [n \in Names |-> NONE]

Init ==
  /\ disk \in Disks
  /\ files = <<>>
  /\ status = [p \in Paths |-> "ABSENT"]
  /\ functions = [p \in Paths |-> Empty]
  /\ includes = [p \in Paths |-> <<>>]
  /\ globals = <<>>
  /\ value = [g \in Globals |-> NONE]
  /\ pc = "host"
  /\ path = NONE
  /\ pending = <<>> /\ todo = {}
  /\ it = 1 /\ inc = 1 /\ links = 0
  /\ faults = 0
  /\ frame = NONE

find_or_create_compiled_file(p, state) ==
  /\ files' = IF status[p] = "ABSENT" THEN Append(files, p) ELSE files
  /\ status' = [status EXCEPT ![p] = state]

\* The functions of a file that compile_file stored before it stopped.
Compiled(p, names) ==
  functions' = [functions EXCEPT ![p] = [n \in Names |-> IF n \in names THEN p ELSE @[n]]]

Unfinished(p) == status[p] \in {"ABSENT", "NULL", "NOT_STARTED"}

\* Initialisers are kept in the list gsc_compile started with the globals that
\* existed, so those come first, in the order of their fields.
Position(s, x) == CHOOSE i \in DOMAIN s : s[i] = x
Inits(p) == disk[p].inits
InitNames(p) == {Inits(p)[i].name : i \in DOMAIN Inits(p)}
InitOf(p, g) == CHOOSE i \in DOMAIN Inits(p) : Inits(p)[i].name = g

\* Mutant: new globals come first.
BugBefore(g, h) ==
  IF g \in Members(globals)
  THEN h \in Members(globals) /\ Position(globals, g) < Position(globals, h)
  ELSE h \notin Members(globals) => InitOf(path, g) > InitOf(path, h)

Before(g, h) ==
  IF g \in Members(globals)
  THEN h \in Members(globals) => Position(globals, g) < Position(globals, h)
  ELSE h \notin Members(globals) /\ InitOf(path, g) < InitOf(path, h)

\* Mutant: only the includes are registered, not the files functions refer to.
BugCompile(request) ==
  LET p == Trimmed[request]
      text == disk[p]
  IN /\ pc = "host"
     /\ text.found /\ text.valid
     /\ Unfinished(p)
     /\ find_or_create_compiled_file(p, "DONE")
     /\ Compiled(p, Members(text.functions))
     /\ includes' = [includes EXCEPT ![p] = text.includes]
     /\ pc' = "register"
     /\ path' = p
     /\ pending' = text.includes
     /\ links' = 0
     /\ UNCHANGED <<disk, store, todo, it, inc, faults, frame>>

\* compile: a file is compiled once, whatever came of it.
gsc_compile(request) ==
  LET p == Trimmed[request]
      text == disk[p]
  IN /\ pc = "host"
     /\ text.found /\ text.valid
     /\ Unfinished(p)
     /\ find_or_create_compiled_file(p, "DONE")
     /\ Compiled(p, Members(text.functions))
     /\ includes' = [includes EXCEPT ![p] = text.includes]
     /\ pc' = "register"
     /\ path' = p
     /\ pending' = text.references \o text.includes
     /\ links' = 0
     /\ UNCHANGED <<disk, store, todo, it, inc, faults, frame>>

\* Mutant: the state of the file is not set when compile_file fails.
BugCompileError(request) ==
  LET p == Trimmed[request]
      text == disk[p]
  IN /\ pc = "host"
     /\ text.found /\ ~text.valid
     /\ Unfinished(p)
     /\ find_or_create_compiled_file(p, "NOT_STARTED")
     /\ \E k \in 0 .. Len(text.functions) : Compiled(p, Members(SubSeq(text.functions, 1, k)))
     /\ UNCHANGED <<disk, includes, store, pc, call, link, faults, frame>>

\* A lexer, parser or compiler error: the functions compiled before it stay in
\* a file that is never looked at again.
gsc_compile_error(request) ==
  LET p == Trimmed[request]
      text == disk[p]
  IN /\ pc = "host"
     /\ text.found /\ ~text.valid
     /\ Unfinished(p)
     /\ find_or_create_compiled_file(p, "FAILED")
     /\ \E k \in 0 .. Len(text.functions) : Compiled(p, Members(SubSeq(text.functions, 1, k)))
     /\ UNCHANGED <<disk, includes, store, pc, call, link, faults, frame>>

Register ==
  /\ pc = "register"
  /\ pending # <<>>
  /\ LET p == Head(pending)
     IN find_or_create_compiled_file(p, IF Unfinished(p) THEN "NOT_STARTED" ELSE status[p])
  /\ pending' = Tail(pending)
  /\ UNCHANGED <<disk, functions, includes, store, pc, path, todo, link, faults, frame>>

Registered ==
  /\ pc = "register"
  /\ pending = <<>>
  /\ pc' = "initialise"
  /\ todo' = InitNames(path)
  /\ UNCHANGED <<disk, tables, store, path, pending, link, faults, frame>>

ReturnToHost == pc' = "host" /\ path' = NONE /\ pending' = <<>> /\ todo' = {}

Known(g) == g = NONE \/ g \in Members(globals) \cup InitNames(path)

Initialise(g) ==
  /\ pc = "initialise"
  /\ g \in todo
  /\ \A h \in todo \ {g} : Before(g, h)
  /\ LET from == Inits(path)[InitOf(path, g)].from
     IN /\ Known(from)
        /\ value' = [value EXCEPT ![g] = IF from = NONE THEN path ELSE value[from]]
  /\ globals' = IF g \in Members(globals) THEN globals ELSE Append(globals, g)
  /\ todo' = todo \ {g}
  /\ UNCHANGED <<disk, tables, pc, path, pending, link, faults, frame>>

\* compile_node makes a local variable of a name nobody declared: gsc_compile
\* returns GSC_ERROR, and the file stays DONE.
InitialiseError(g) ==
  /\ pc = "initialise"
  /\ g \in todo
  /\ \A h \in todo \ {g} : Before(g, h)
  /\ ~Known(Inits(path)[InitOf(path, g)].from)
  /\ ReturnToHost
  /\ UNCHANGED <<disk, tables, store, link, faults, frame>>

Initialised ==
  /\ pc = "initialise"
  /\ todo = {}
  /\ ReturnToHost
  /\ UNCHANGED <<disk, tables, store, link, faults, frame>>

\* The host sets a global before or after the scripts do.
gsc_set_global(g) ==
  /\ pc = "host"
  /\ globals' = IF g \in Members(globals) THEN globals ELSE Append(globals, g)
  /\ value' = [value EXCEPT ![g] = NONE]
  /\ UNCHANGED <<disk, tables, pc, call, link, faults, frame>>

-----------------------------------------------------------------------------
(* gsc_link *)

gsc_link ==
  /\ pc = "host"
  /\ links < MaxLinks
  /\ pc' = "link"
  /\ it' = 1 /\ inc' = 1
  /\ UNCHANGED <<disk, tables, store, call, links, faults, frame>>

Linking == pc = "link" /\ it <= Len(files)

\* Mutant: a file that failed is found.
BugGetFile(p) == status[p] \in {"NOT_STARTED", "DONE", "FAILED"}

\* What get_file finds: no CompiledFile behind a key is read through NULL.
get_file(p) == status[p] \in {"NOT_STARTED", "DONE"}

\* Mutant: the last include is left out.
BugLinkNextFile ==
  /\ Linking
  /\ status[files[it]] # "NULL"
  /\ status[files[it]] = "DONE" => inc >= Len(includes[files[it]])
  /\ it' = it + 1 /\ inc' = 1
  /\ UNCHANGED <<disk, tables, store, pc, call, links, faults, frame>>

LinkNextFile ==
  /\ Linking
  /\ status[files[it]] # "NULL"
  /\ status[files[it]] = "DONE" => inc > Len(includes[files[it]])
  /\ it' = it + 1 /\ inc' = 1
  /\ UNCHANGED <<disk, tables, store, pc, call, links, faults, frame>>

\* Mutant: the included file overwrites what is there.
BugCopied(p, q) ==
  [functions EXCEPT ![p] = [n \in Names |-> IF functions[q][n] # NONE THEN functions[q][n] ELSE @[n]]]

Copied(p, q) ==
  [functions EXCEPT ![p] = [n \in Names |-> IF @[n] = NONE THEN functions[q][n] ELSE @[n]]]

LinkInclude ==
  /\ Linking
  /\ LET p == files[it]
         q == includes[p][inc]
     IN /\ status[p] = "DONE"
        /\ inc <= Len(includes[p])
        /\ status[q] # "NULL"
        /\ functions' = IF get_file(q) THEN Copied(p, q) ELSE functions
  /\ inc' = inc + 1
  /\ UNCHANGED <<disk, files, status, includes, store, pc, call, it, links, faults, frame>>

Linked ==
  /\ pc = "link"
  /\ it > Len(files)
  /\ pc' = "host"
  /\ it' = 1 /\ inc' = 1
  /\ links' = links + 1
  /\ UNCHANGED <<disk, tables, store, call, faults, frame>>

-----------------------------------------------------------------------------
(* gsc_next_compile_dependency, and the host's loop around it *)

FirstNotStarted(i) ==
  /\ i \in DOMAIN files
  /\ status[files[i]] = "NOT_STARTED"
  /\ \A k \in 1 .. i - 1 : status[files[k]] \in {"DONE", "FAILED"}

CompileDependency ==
  \E i \in DOMAIN files :
    FirstNotStarted(i) /\ (gsc_compile(files[i]) \/ gsc_compile_error(files[i]))

-----------------------------------------------------------------------------
(* Calls: get_function, then call_function, whose frame looks up its own     *)
(* calls in the file the function was found in; a pointer ::name carries the *)
(* file it is written in, path::name the one it names.                       *)

Enter(p, n) ==
  /\ get_file(p)
  /\ functions[p][n] # NONE
  /\ frame' = [file |-> p, origin |-> functions[p][n]]
  /\ UNCHANGED <<disk, tables, store, pc, call, link, faults>>

gsc_call(p, n) == pc = "host" /\ frame = NONE /\ Enter(p, n)
OP_CALL(n) == pc = "host" /\ frame # NONE /\ Enter(frame.file, n)
OP_CALL_PTR(n) == pc = "host" /\ frame # NONE /\ Enter(frame.origin, n)
CallFile(q, n) ==
  /\ pc = "host" /\ frame # NONE
  /\ q \in Members(disk[frame.origin].references)
  /\ Enter(q, n)
Return ==
  /\ pc = "host" /\ frame # NONE
  /\ frame' = NONE
  /\ UNCHANGED <<disk, tables, store, pc, call, link, faults>>

-----------------------------------------------------------------------------
(* An allocation that fails jumps back to the entry point (CHECK_OOM), which *)
(* returns GSC_OUT_OF_MEMORY; what was stored until then stays.              *)

Fault == faults < MaxFaults /\ faults' = faults + 1

CompileNoMemory(request) ==
  LET p == Trimmed[request]
      text == disk[p]
  IN /\ pc = "host"
     /\ text.found
     /\ Unfinished(p)
     /\ Fault
     /\ \/ /\ status[p] = "ABSENT"
           /\ find_or_create_compiled_file(p, "NULL")
           /\ UNCHANGED <<functions, includes>>
        \/ /\ find_or_create_compiled_file(p, "NOT_STARTED")
           /\ \E k \in 0 .. Len(text.functions) : Compiled(p, Members(SubSeq(text.functions, 1, k)))
           /\ \E k \in Len(includes[p]) .. Len(text.includes) :
                includes' = [includes EXCEPT ![p] = SubSeq(text.includes, 1, k)]
     /\ UNCHANGED <<disk, store, pc, call, link, frame>>

\* The file is DONE already; the dependencies that are left are never named.
RegisterNoMemory ==
  /\ pc = "register"
  /\ pending # <<>>
  /\ Fault
  /\ \/ UNCHANGED <<files, status>>
     \/ /\ status[Head(pending)] = "ABSENT"
        /\ find_or_create_compiled_file(Head(pending), "NULL")
  /\ ReturnToHost
  /\ UNCHANGED <<disk, functions, includes, store, link, frame>>

LinkNoMemory ==
  /\ Linking
  /\ Fault
  /\ \/ UNCHANGED functions
     \/ LET p == files[it]
            q == includes[p][inc]
        IN /\ status[p] = "DONE"
           /\ inc <= Len(includes[p])
           /\ get_file(q)
           /\ \E names \in SUBSET Names :
                functions' = [functions EXCEPT ![p] =
                                [n \in Names |-> IF n \in names THEN Copied(p, q)[p][n] ELSE @[n]]]
  /\ pc' = "host"
  /\ it' = 1 /\ inc' = 1
  /\ UNCHANGED <<disk, files, status, includes, store, call, links, frame>>

\* A key without a CompiledFile is read through NULL by whoever meets it first:
\* gsc_link, gsc_next_compile_dependency or a lookup.
NullFile ==
  /\ \/ Linking /\ status[files[it]] = "NULL"
     \/ Linking /\ status[files[it]] = "DONE" /\ inc <= Len(includes[files[it]])
                /\ status[includes[files[it]][inc]] = "NULL"
     \/ pc = "host" /\ \E p \in Paths : status[p] = "NULL"
  /\ pc' = "crash"
  /\ UNCHANGED <<disk, tables, store, call, link, faults, frame>>

-----------------------------------------------------------------------------

Compiling ==
  \/ Register \/ Registered \/ Initialised
  \/ \E g \in Globals : Initialise(g) \/ InitialiseError(g)

Looking == LinkNextFile \/ LinkInclude \/ Linked

Faulty ==
  \/ \E p \in Paths : CompileNoMemory(p)
  \/ RegisterNoMemory \/ LinkNoMemory \/ NullFile

Next ==
  \/ \E p \in Paths : gsc_compile(p) \/ gsc_compile_error(p)
  \/ \E g \in HostGlobals : gsc_set_global(g)
  \/ Compiling
  \/ gsc_link \/ Looking
  \/ \E n \in Names :
       \/ OP_CALL(n) \/ OP_CALL_PTR(n)
       \/ \E p \in Paths : gsc_call(p, n) \/ CallFile(p, n)
  \/ Return
  \/ Faulty

Spec == Init /\ [][Next]_vars

\* A call of the library runs to its end, and the host's loop compiles what
\* gsc_next_compile_dependency names.
Fairness == WF_vars(Compiling) /\ WF_vars(Looking) /\ SF_vars(CompileDependency)

FairSpec == Spec /\ Fairness

-----------------------------------------------------------------------------
(* Properties *)

TypeOK ==
  /\ disk \in Disks
  /\ files \in Seq(Keys)
  /\ \A i, k \in DOMAIN files : files[i] = files[k] => i = k
  /\ status \in [Paths -> States]
  /\ \A p \in Paths : p \in Members(files) <=> status[p] # "ABSENT"
  /\ functions \in [Paths -> [Names -> Keys \cup {NONE}]]
  /\ includes \in [Paths -> Seq(Keys)]
  /\ globals \in Seq(Globals)
  /\ value \in [Globals -> Keys \cup {NONE}]
  /\ pc \in {"host", "register", "initialise", "link", "crash"}
  /\ path \in Keys \cup {NONE}
  /\ pending \in Seq(Keys)
  /\ todo \in SUBSET Globals
  /\ it \in Nat \ {0} /\ inc \in Nat \ {0} /\ links \in Nat /\ faults \in Nat
  /\ frame \in [file : Keys, origin : Keys] \cup {NONE}

\* The functions a file was compiled with are never replaced by those of a file
\* it includes ("don't overwrite it").
OwnFunctionsWin ==
  \A p \in Keys :
    status[p] = "DONE" => Members(disk[p].functions) \subseteq Own(p)

\* What a table holds comes from a file that is reached through includes and
\* has been compiled: nothing leaks out of a file that failed.
Reaches(p, q) ==
  \A S \in SUBSET Keys :
    p \in S /\ (\A x \in S : Members(includes[x]) \subseteq S) => q \in S

NothingFromFailed ==
  \A p \in Keys : \A n \in Names :
    LET q == functions[p][n]
    IN q \notin {p, NONE} =>
         /\ status[p] = "DONE"
         /\ Reaches(p, q)
         /\ n \in Own(q)
         /\ faults = 0 => status[q] = "DONE"

\* What a function finds under the name of a function of the file it is written
\* in.  Its calls are looked up in the table of the file it was found in
\* (call_function sets sf->file), so there must be such a function wherever it
\* was copied to; and since gsc_link leaves names alone that are taken, it is that
\* of the nearest file: no file that defines the name lies before it on the way
\* from the file the function runs in.  It is the function's own one unless an
\* includer, or what an includer has included besides, defines the name, too.
Defines(p, n) == n \in Members(disk[p].functions)

ReachesPast(p, q, n) ==
  \A S \in SUBSET Keys :
    p \in S /\ (\A x \in S : Defines(x, n) \/ Members(includes[x]) \subseteq S) => q \in S

NearestCalleeFound ==
  faults = 0 /\ frame # NONE =>
    \A n \in Names :
      LET callee == functions[frame.file][n]
      IN Defines(frame.origin, n) =>
           /\ callee # NONE
           /\ Defines(callee, n) /\ ReachesPast(frame.file, callee, n)

\* A function that can be called stays callable, and stays the same one.
LookupsStable ==
  [][\A p \in Keys : \A n \in Names :
       faults' = 0 /\ get_file(p) /\ functions[p][n] # NONE =>
         get_file(p)' /\ functions'[p][n] = functions[p][n]]_vars

\* After k calls of gsc_link that follow the last compilation a file sees the
\* functions of all files it includes through up to k levels.
Within[k \in 0 .. MaxLinks] ==
  [p \in Keys |->
     IF k = 0 THEN {p}
     ELSE Within[k - 1][p] \cup UNION {Within[k - 1][q] : q \in Members(includes[p])}]

LinkedWithin ==
  pc = "host" /\ faults = 0 =>
    \A p \in Keys : status[p] = "DONE" =>
      \A q \in Within[links][p] : \A n \in Names :
        status[q] = "DONE" /\ n \in Own(q) => functions[p][n] # NONE

\* When gsc_compile returns, every dependency of a compiled file is compiled or
\* will be named by gsc_next_compile_dependency.
DependenciesKnown ==
  pc = "host" /\ faults = 0 =>
    \A p \in Keys : status[p] = "DONE" =>
      Members(disk[p].includes) \cup Members(disk[p].references) \subseteq Members(files)

\* If the fields of the globals of a file are in source order, its initialisers
\* have seen the globals above them.
InSourceOrder(p) ==
  \A i, k \in DOMAIN Inits(p) :
    i < k => Position(globals, Inits(p)[i].name) < Position(globals, Inits(p)[k].name)

InitialisedAsWritten ==
  pc = "initialise" /\ todo = {} /\ InSourceOrder(path) =>
    \A i \in DOMAIN Inits(path) :
      LET init == Inits(path)[i]
      IN /\ init.from = NONE => value[init.name] = path
         /\ \A k \in 1 .. i - 1 :
              init.from = Inits(path)[k].name => value[init.name] = value[init.from]

\* The host's loop ends: every dependency is compiled, or the first that is
\* not cannot be read (and is named again and again).
Pending == \E p \in Keys : status[p] = "NOT_STARTED"

Unreadable ==
  \/ \E i \in DOMAIN files : FirstNotStarted(i) /\ ~disk[files[i]].found
  \/ \E p \in Keys : status[p] = "NULL"

CompileLoopEnds == Pending ~> ~Pending \/ Unreadable
=============================================================================
