---------------------------- MODULE MachineSafety ----------------------------
(***************************************************************************)
(* What the instruction machine promises for code whose operands fit,      *)
(* whoever made it: it never runs a stack empty, leaves the code, or takes *)
(* a value for a reference, and every variable has a slot of its own.      *)
(*                                                                         *)
(* Code is verified as bytecode verifiers do: each instruction that can be *)
(* reached is given one shape, the kinds of the operands its function has  *)
(* on the stack before it, and every instruction leaves what the next ones *)
(* expect.                                                                 *)
(***************************************************************************)
EXTENDS Machine

-----------------------------------------------------------------------------
(* Kinds of operands *)

Kind == [kind : {"value", "count", "reference", "global"}, n : Int]
Val == [kind |-> "value", n |-> 0]
Ref == [kind |-> "reference", n |-> 0]        \* to a local of the frame or to a field
GlobalRef == [kind |-> "global", n |-> 0]     \* to the global object
ArgCount(n) == [kind |-> "count", n |-> n]    \* the integer n, which is also a value

ValueKinds == {"value", "count"}

\* The kinds an instruction pops, the one on top first.
Pops(ins) ==
  CASE ins.op \in {"POP", "TEST", "UNARY", "WAIT", "RET"} -> <<ValueKinds>>
    [] ins.op \in {"BINOP", "LOAD_FIELD", "ENDON"} -> <<ValueKinds, ValueKinds>>
    [] ins.op = "VECTOR" -> [k \in 1 .. ins.n |-> ValueKinds]
    [] ins.op = "FIELD_REF" -> <<{"reference", "global"}, ValueKinds>>
    [] ins.op = "STORE" -> <<{"reference"}, ValueKinds>>
    [] ins.op = "CALL" -> [k \in 1 .. ins.n + 2 |-> IF k = 1 THEN {"count"} ELSE ValueKinds]
    [] ins.op = "CALL_PTR" -> [k \in 1 .. ins.n + 3 |-> IF k = 2 THEN {"count"} ELSE ValueKinds]
    [] ins.op = "NOTIFY" -> [k \in 1 .. ins.n + 1 |-> ValueKinds]
    [] ins.op = "WAITTILL" ->
         [k \in 1 .. ins.n + 1 |-> IF k <= 2 THEN ValueKinds ELSE {"reference"}]
    [] OTHER -> <<>>

\* The kind it pushes.
Pushes(ins) ==
  CASE ins.op = "PUSH" /\ ins.value.type = "INTEGER" -> <<ArgCount(ins.value.ival)>>
    [] ins.op = "GLOBAL" /\ ins.n = 1 -> <<GlobalRef>>
    [] ins.op \in {"REF", "FIELD_REF"} -> <<Ref>>
    [] ins.op \in {"POP", "TEST", "WAIT", "RET", "JMP", "JZ", "JNZ"} -> <<>>
    [] OTHER -> <<Val>>

\* Another thread may run before the next instruction, and may write its result
\* over any operand.
Pauses(ins) == ins.op \in {"CALL", "CALL_PTR", "WAIT", "WAITTILL"}

Rest(ins, shape) == SubSeq(shape, 1, Len(shape) - Len(Pops(ins)))

Accepts(ins, shape) ==
  LET under(k) == shape[Len(shape) + 1 - k] IN
  /\ Len(Pops(ins)) <= Len(shape)
  /\ \A k \in 1 .. Len(Pops(ins)) : under(k).kind \in Pops(ins)[k]
  /\ ins.op = "CALL" => under(1).n = ins.n
  /\ ins.op = "CALL_PTR" => under(2).n = ins.n
  /\ Pauses(ins) => \A k \in 1 .. Len(Rest(ins, shape)) : shape[k].kind \in ValueKinds
  /\ ins.op = "RET" => Len(shape) = 1

After(ins, shape) ==
  (IF Pauses(ins) THEN [k \in 1 .. Len(Rest(ins, shape)) |-> Val] ELSE Rest(ins, shape))
    \o Pushes(ins)

\* What is known of operands can be forgotten where ways meet.
Covers(general, shape) ==
  /\ Len(general) = Len(shape)
  /\ \A k \in 1 .. Len(general) :
       general[k] = shape[k] \/ (general[k] = Val /\ shape[k].kind = "count")

Successors(ins, ip) ==
  CASE ins.op = "JMP" -> {ip + 1 + ins.rel}
    [] ins.op \in {"JZ", "JNZ"} -> {ip + 1, ip + 1 + ins.rel}
    [] ins.op = "RET" -> {}
    [] OTHER -> {ip + 1}

-----------------------------------------------------------------------------
(* Verified code *)

Literals == {"UNDEFINED", "BOOLEAN", "INTEGER", "FLOAT", "VECTOR", "STRING", "INTERNED_STRING",
             "FUNCTION"}

\* The operands in the instruction itself.  No builtin is started as a thread,
\* directly or by a pointer, and no thread gets more arguments than its function
\* has locals beside self.
Proper(image, f, ins) ==
  /\ ins.op \in {"LOAD", "REF"} => ins.slot \in 0 .. image[f].local_count - 1
  /\ ins.op = "PUSH" => /\ ins.value.type \in Literals
                        /\ ins.value.type = "INTEGER" => ins.value.ival \in Int
                        /\ ins.value.type = "FUNCTION" => ins.value.function # "print"
  /\ ins.op \in {"VECTOR", "CALL", "CALL_PTR"} => ins.n \in Nat
  /\ ins.op \in {"NOTIFY", "WAITTILL"} => ins.n \in Nat \ {0}
  /\ ins.op = "CALL" /\ ins.threaded =>
       /\ ins.callee # "print"
       /\ ins.callee \in DOMAIN image => ins.n < image[ins.callee].local_count
  /\ ins.op = "CALL_PTR" /\ ins.threaded => \A g \in DOMAIN image : ins.n < image[g].local_count

VerifiedFunction(image, f, shapes) ==
  LET code == image[f].instructions IN
  /\ image[f].local_count \in Nat /\ image[f].parameter_count \in Nat
  /\ image[f].parameter_count < image[f].local_count
  /\ Len(code) \in Nat /\ DOMAIN shapes \subseteq 0 .. Len(code) - 1
  /\ 0 \in DOMAIN shapes /\ shapes[0] = <<>>
  /\ \A ip \in DOMAIN shapes :
       LET ins == code[ip + 1] IN
       /\ shapes[ip] \in Seq(Kind)
       /\ Proper(image, f, ins)
       /\ Accepts(ins, shapes[ip])
       /\ \A next \in Successors(ins, ip) :
            next \in DOMAIN shapes /\ Covers(shapes[next], After(ins, shapes[ip]))

\* There is room for the variables of main.
VerifiedWith(image, shapes) ==
  /\ "main" \in DOMAIN image /\ image["main"].local_count <= Cardinality(Cells)
  /\ \A f \in DOMAIN image : VerifiedFunction(image, f, shapes[f])

Verified(image) == \E shapes : VerifiedWith(image, shapes)

VerifiedInit == Start(functions) /\ Verified(functions)
VerifiedSpec == VerifiedInit /\ [][Next]_vars

\* No thread of such code can be stopped from outside.
NoEndon(image) ==
  \A f \in DOMAIN image : \A k \in 1 .. Len(image[f].instructions) :
    image[f].instructions[k].op # "ENDON"

-----------------------------------------------------------------------------
(* What it promises *)

\* The values have their shapes: frames point into the code of functions the
\* machine has, locals and fields are cells, the free list holds free structs.
TypeOK ==
  /\ \A t \in Threads : LET r == threads[t] IN
       /\ r.state \in {"FREE", "ACTIVE", "INACTIVE", "WAITING_TIME", "WAITING_FRAME",
                       "WAITING_EVENT"}
       /\ Len(r.stack) <= StackSize /\ Len(r.frames) <= FrameSize
       /\ \A k \in DOMAIN r.frames :
            /\ r.frames[k].function \in DOMAIN functions
            /\ r.frames[k].ip \in 0 .. Len(functions[r.frames[k].function].instructions)
            /\ CellsOf(r.frames[k]) \subseteq Cells
       /\ r.return_value.thread \in 0 .. MaxThreads
       /\ Len(r.endon) <= MaxEndon
  /\ Len(events) <= MaxEvents
  /\ \A k \in DOMAIN pool : threads[pool[k]].state = "FREE"
  /\ cur \in 0 .. MaxThreads
  /\ \A o \in DOMAIN objects : \A f \in DOMAIN objects[o] : objects[o][f] \in Cells

\* Verified code never runs the stack empty, reaches for a local or a reference
\* that is not there, or leaves the code of its function: it can only fail by a
\* mistake of the script or by running out of something (vm.c: pop, local,
\* op_load_field, run_thread).
NoInternalError == error = "" \/ error \in ScriptErrors

\* A thread that has returned has taken everything off its stack that it and the
\* functions it called had pushed (vm.c: OP_RET, call_function; compiler.c: OP_POP).
FinishedThreadsLeaveNothing ==
  \A t \in Threads : threads[t].state = "INACTIVE" => threads[t].stack = <<>>

\* Local k of frame j of thread t, field f of object o.
Locals ==
  UNION {UNION {{<<t, j, k>> : k \in DOMAIN threads[t].frames[j].locals} :
                 j \in DOMAIN threads[t].frames} :
          t \in {u \in Threads : threads[u].state # "FREE"}}
Fields == UNION {{<<o, f>> : f \in DOMAIN objects[o]} : o \in DOMAIN objects}

CellOfLocal(v) == threads[v[1]].frames[v[2]].locals[v[3]]
CellOfField(v) == objects[v[1]][v[2]]

\* No two variables, in whatever frames, threads and objects, share a slot of
\* the pool uo, and none of them is on the free list (vm.c: call_function,
\* OP_RET, OP_FIELD_REF; object_pool.h).
NoCellShared ==
  /\ \A v \in Locals : cells[CellOfLocal(v)] # Free
  /\ \A v \in Fields : cells[CellOfField(v)] # Free
  /\ \A v, w \in Locals : CellOfLocal(v) = CellOfLocal(w) => v = w
  /\ \A v, w \in Fields : CellOfField(v) = CellOfField(w) => v = w
  /\ \A v \in Locals, w \in Fields : CellOfLocal(v) # CellOfField(w)

\* And no slot is lost: a slot in use belongs to a variable.
CellsOwned ==
  /\ NoCellShared
  /\ \A a \in Cells : cells[a] # Free =>
       \/ \E v \in Locals : CellOfLocal(v) = a
       \/ \E v \in Fields : CellOfField(v) = a

\* A blocked thread's references point to variables of its own frame or to
\* fields, so that delivering an event overwrites nothing else (vm.c: OP_WAITTILL
\* and the copy of arguments in vm_run_threads).
DeliveryTargetsAlive ==
  \A t \in Threads : threads[t].state = "WAITING_EVENT" =>
    \A k \in DOMAIN threads[t].waittill.arguments :
      LET a == threads[t].waittill.arguments[k].refval IN
      /\ cells[a] # Free
      /\ \/ a \in CellsOf(threads[t].frames[Len(threads[t].frames)])
         \/ \E o \in DOMAIN objects : \E f \in DOMAIN objects[o] : objects[o][f] = a
=============================================================================
