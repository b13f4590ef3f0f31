------------------------------- MODULE Machine -------------------------------
(***************************************************************************)
(* The instruction machine (vm.c: vm_execute_instruction, call_function,   *)
(* vm_call_function_thread and what they call): operand stacks, frames,    *)
(* locals, objects, calls, threads, executing compiled functions: the       *)
(* records that compile_function of the module Compiler returns.           *)
(*                                                                         *)
(* One step is one instruction of the running thread, or one visit of the  *)
(* dispatcher to a thread.  Which live thread the dispatcher visits next   *)
(* is left open here: the ring that decides it is the module Scheduler.    *)
(*                                                                         *)
(* Memory is the pool uo cut into cells: a local variable or a field of an *)
(* object is a cell, a reference is the number of one, a free cell holds   *)
(* Free.  An object is its map from keys to cells; no object is ever       *)
(* freed.  A thread is its index in the pool of threads.                   *)
(***************************************************************************)
EXTENDS Values, FiniteSets

CONSTANTS
  StackSize,       \* VM_STACK_SIZE
  FrameSize,       \* VM_FRAME_SIZE
  Cells,           \* slots of the pool uo that hold variables
  MaxThreads,      \* slots of the pool of threads
  MaxEvents, MaxEventArgs, MaxEndon,   \* VM_MAX_EVENTS and so on
  Entries          \* functions the host may call besides main

ASSUME MachineAssumption ==
  /\ {StackSize, MaxEvents, MaxEventArgs, MaxEndon} \subseteq Nat
  /\ {FrameSize, MaxThreads} \subseteq Nat \ {0}
  /\ Cells \subseteq Nat \ {0} /\ IsFiniteSet(Cells)

VARIABLES
  functions,   \* the CompiledFunctions of the program, chosen once
  threads,     \* the structs of the pool
  pool,        \* free list of threads, head first
  cur,         \* the running thread; 0 between visits
  cells, objects, events,
  text,        \* what print has written
  error        \* reason of the vm_error that ended the run, "" while it runs

memory == <<cells, objects>>
vars == <<functions, threads, pool, cur, memory, events, text, error>>

Threads == 1 .. MaxThreads
GLOBAL == 1   \* vm->global_object
Free == [type |-> "FREE"]
NoSlot == [thread |-> 0, at |-> 0]
NoWait == [name |-> "", object |-> 0, arguments |-> <<>>]

Cleared ==
  [state |-> "FREE", stack |-> <<>>, frames |-> <<>>, result |-> 0,
   return_value |-> NoSlot, waittill |-> NoWait, endon |-> <<>>]

\* Reasons of vm_error that a program can bring about by its own mistakes;
\* any other reason is a fault of the machine or of the code it was given.
ScriptErrors == {"type", "not_an_object", "no_function", "no_method", "frames", "stack",
                 "cells", "threads", "events", "endon", "trap"}

-----------------------------------------------------------------------------
(* The running thread *)

Thr == threads[cur]
Frame == Thr.frames[Len(Thr.frames)]
Code == functions[Frame.function].instructions
Ins == Code[Frame.ip + 1]
InCode == Thr.frames # <<>> /\ Frame.ip \in 0 .. Len(Code) - 1

Top(t, k) == t.stack[Len(t.stack) + 1 - k]
Drop(t, k) == [t EXCEPT !.stack = SubSeq(@, 1, Len(@) - k)]
PushOn(t, v) == [t EXCEPT !.stack = Append(@, v)]
Replace(t, k, v) == PushOn(Drop(t, k), v)

\* The instruction fetched is behind ip before it executes.
Advance(t) == [t EXCEPT !.frames[Len(t.frames)].ip = @ + 1]

\* Mutant: the operand of a jump is taken for an address.
BugJump(t, rel) == [t EXCEPT !.frames[Len(t.frames)].ip = rel]

Jump(t, rel) == [t EXCEPT !.frames[Len(t.frames)].ip = @ + rel]

At(op) ==
  /\ error = "" /\ cur # 0 /\ Thr.state = "ACTIVE"
  /\ InCode /\ Ins.op = op

vm_error(reason) ==
  /\ error' = reason
  /\ UNCHANGED <<functions, threads, pool, cur, memory, events, text>>

Frozen == UNCHANGED <<functions, error>>

\* The thread after the instruction; push checks the height of the stack.
Continue(t) ==
  IF Len(t.stack) > StackSize THEN vm_error("stack")
  ELSE /\ threads' = [threads EXCEPT ![cur] = t]
       /\ Frozen
       /\ UNCHANGED <<pool, cur, memory, events, text>>

\* pop and friends on a stack that is too low, for code that would do it.
Needs(k) == Len(Thr.stack) >= k

Pure(op, need, result(_)) ==
  /\ At(op)
  /\ IF ~Needs(need) THEN vm_error("underflow") ELSE Continue(result(Advance(Thr)))

-----------------------------------------------------------------------------
(* Memory *)

FreeCells == {a \in Cells : cells[a] = Free}
Lowest(S) == CHOOSE a \in S : \A b \in S : a <= b

\* The n lowest elements of S, in order.
Take(S, n) ==
  LET left[k \in 0 .. n] ==   \* S without the k lowest
        IF k = 0 THEN S ELSE left[k - 1] \ {Lowest(left[k - 1])}
  IN [k \in 1 .. n |-> Lowest(left[k - 1])]

CellsOf(frame) == {frame.locals[k] : k \in 1 .. Len(frame.locals)}

\* Fields are found by the text of the key.
KeyText(v) == vm_stringify(v)
IsKey(v) == v.type \in {"BOOLEAN", "INTEGER", "FLOAT", "STRING", "INTERNED_STRING"}
HasField(o, k) == k \in DOMAIN objects[o]
FieldCount(o) == Cardinality(DOMAIN objects[o])

-----------------------------------------------------------------------------
(* Instructions that touch nothing but the thread *)

OP_POP == Pure("POP", 1, LAMBDA t : Drop(t, 1))

OP_PUSH == Pure("PUSH", 0, LAMBDA t : PushOn(t, Ins.value))

OP_UNDEF == Pure("UNDEF", 0, LAMBDA t : PushOn(t, Undef))

OP_CONST_0 == Pure("CONST_0", 0, LAMBDA t : PushOn(t, Integer(0)))
OP_CONST_1 == Pure("CONST_1", 0, LAMBDA t : PushOn(t, Integer(1)))

OP_JMP == Pure("JMP", 0, LAMBDA t : Jump(t, Ins.rel))

OP_JZ == Pure("JZ", 0, LAMBDA t : IF t.result = 0 THEN Jump(t, Ins.rel) ELSE t)

OP_JNZ == Pure("JNZ", 0, LAMBDA t : IF t.result # 0 THEN Jump(t, Ins.rel) ELSE t)

OP_TEST ==
  /\ At("TEST")
  /\ IF ~Needs(1) THEN vm_error("underflow")
     ELSE IF Top(Thr, 1).type \notin {"INTEGER", "BOOLEAN"} THEN vm_error("type")
     ELSE Continue([Drop(Advance(Thr), 1) EXCEPT !.result = Top(Thr, 1).ival])

\* An operator replaces its operands by its result or raises.
Operate(need, v) ==
  IF Failed(v) THEN vm_error(IF v.why = "trap" THEN "trap" ELSE "type")
  ELSE Continue(Replace(Advance(Thr), need, v))

OP_BINOP ==
  /\ At("BINOP")
  /\ IF ~Needs(2) THEN vm_error("underflow")
     ELSE Operate(2, binop(Top(Thr, 2), Top(Thr, 1), Ins.token))

OP_UNARY ==
  /\ At("UNARY")
  /\ IF ~Needs(1) THEN vm_error("underflow") ELSE Operate(1, unary(Top(Thr, 1), Ins.token))

\* The element on top is the first one of the source.
OP_VECTOR ==
  /\ At("VECTOR")
  /\ IF Ins.n # 3 THEN vm_error("type")
     ELSE IF ~Needs(3) THEN vm_error("underflow")
     ELSE LET el(k) == coerce_float(Top(Thr, k))
              bad == {k \in 1 .. 3 : Failed(el(k))}
          IN IF bad # {} THEN vm_error("type")
             ELSE Continue(Replace(Advance(Thr), 3,
                                   Vector(el(1).fval, el(2).fval, el(3).fval)))

-----------------------------------------------------------------------------
(* Variables and fields *)

Local(slot) == Frame.locals[slot + 1]
ValidSlot == Ins.slot < Len(Frame.locals)

OP_LOAD ==
  /\ At("LOAD")
  /\ IF ~ValidSlot THEN vm_error("bad_local")
     ELSE IF cells[Local(Ins.slot)] = Free THEN vm_error("dangling")
     ELSE Continue(PushOn(Advance(Thr), cells[Local(Ins.slot)]))

OP_REF ==
  /\ At("REF")
  /\ IF ~ValidSlot THEN vm_error("bad_local")
     ELSE Continue(PushOn(Advance(Thr), Reference(Local(Ins.slot))))

\* The global object as a value or through a reference; the model writes the
\* reference to it as the negative of the object.
OP_GLOBAL ==
  Pure("GLOBAL", 0, LAMBDA t :
    PushOn(t, IF Ins.n = 1 THEN Reference(-GLOBAL) ELSE Object(GLOBAL)))

\* A string that is not interned has its length and its characters; the index behind the last
\* character is let through and finds the empty text.
Character(s, key) ==
  CASE IsString(key) /\ key.sval \in {"length", "size"} -> Integer(Len(s))
    [] key.type = "INTEGER" /\ key.ival \in 0 .. Len(s) -> String(SubSeq(s, key.ival + 1, key.ival + 1))
    [] OTHER -> Error("type")

\* Vectors have elements, undefined has undefined fields.
Loaded(o, key) ==
  CASE o.type = "VECTOR" ->
         IF key.type \notin {"INTEGER", "BOOLEAN"} \/ key.ival \notin 0 .. 2
         THEN Error("type") ELSE [type |-> "FLOAT", fval |-> o.vval[key.ival + 1]]
    [] o.type = "STRING" -> Character(o.sval, key)
    [] o.type = "UNDEFINED" /\ IsKey(key) -> Undef
    [] o.type = "OBJECT" /\ IsKey(key) ->
         IF KeyText(key) = "size" THEN Integer(FieldCount(o.oval))
         ELSE IF HasField(o.oval, KeyText(key)) THEN cells[objects[o.oval][KeyText(key)]]
         ELSE Undef
    [] OTHER -> Error("type")

OP_LOAD_FIELD ==
  /\ At("LOAD_FIELD")
  /\ IF ~Needs(2) THEN vm_error("underflow")
     ELSE Operate(2, Loaded(Top(Thr, 1), Top(Thr, 2)))

OP_TABLE ==
  /\ At("TABLE")
  /\ IF Len(Thr.stack) >= StackSize THEN vm_error("stack")
     ELSE /\ objects' = Append(objects, <<>>)
          /\ threads' = [threads EXCEPT ![cur] = PushOn(Advance(Thr), Object(Len(objects) + 1))]
          /\ Frozen /\ UNCHANGED <<pool, cur, cells, events, text>>

\* Replaces a reference to an object and a key by a reference to the field,
\* which it creates; an undefined variable becomes a new object first.
OP_FIELD_REF ==
  /\ At("FIELD_REF")
  /\ LET r == Top(Thr, 1)
         key == Top(Thr, 2)
         global == r.refval < 0
         owner == IF global THEN Object(-r.refval) ELSE cells[r.refval]
         coerced == owner.type = "UNDEFINED"
         o == IF coerced THEN Len(objects) + 1 ELSE owner.oval
         known == IF coerced THEN Append(objects, <<>>) ELSE objects
         k == KeyText(key)
         new == k \notin DOMAIN known[o]
         cell == IF new THEN Lowest(FreeCells) ELSE known[o][k]
         holder == IF coerced THEN [cells EXCEPT ![r.refval] = Object(o)] ELSE cells
     IN IF ~Needs(2) THEN vm_error("underflow")
        ELSE IF r.type # "REFERENCE" THEN vm_error("not_a_reference")
        ELSE IF owner.type = "FREE" THEN vm_error("dangling")
        ELSE IF ~IsKey(key) THEN vm_error("type")
        ELSE IF owner.type \notin {"OBJECT", "UNDEFINED"} THEN vm_error("not_an_object")
        ELSE IF new /\ FreeCells = {} THEN vm_error("cells")
        ELSE /\ objects' = [known EXCEPT ![o] =
                              [f \in DOMAIN @ \cup {k} |-> IF f = k THEN cell ELSE @[f]]]
             /\ cells' = IF new THEN [holder EXCEPT ![cell] = Undef] ELSE holder
             /\ threads' = [threads EXCEPT ![cur] = Replace(Advance(Thr), 2, Reference(cell))]
             /\ Frozen /\ UNCHANGED <<pool, cur, events, text>>

OP_STORE ==
  /\ At("STORE")
  /\ LET dst == Top(Thr, 1)
     IN IF ~Needs(2) THEN vm_error("underflow")
        ELSE IF dst.type # "REFERENCE" THEN vm_error("not_a_reference")
        ELSE IF cells[dst.refval] = Free THEN vm_error("dangling")
        ELSE /\ cells' = [cells EXCEPT ![dst.refval] = Top(Thr, 2)]
             /\ threads' = [threads EXCEPT ![cur] = Replace(Advance(Thr), 2, Top(Thr, 2))]
             /\ Frozen /\ UNCHANGED <<pool, cur, objects, events, text>>

-----------------------------------------------------------------------------
(* Calls.  The caller has pushed the arguments from last to first, the      *)
(* object and the number of arguments.                                      *)

Caller == IF Ins.op = "CALL" THEN Advance(Thr) ELSE Drop(Advance(Thr), 1)
nargs == Top(Caller, 1).ival
Args == [k \in 1 .. nargs + 1 |-> Top(Caller, k + 1)]   \* the object, then the arguments
Bare == Drop(Caller, nargs + 2)

\* call_function takes the object and n arguments and binds value j to local j
\* for the first parameter_count + 1 values that it pops.  A direct call pops
\* the object first, a thread the last argument first.
Kept(f, n, reversed) ==
  {j \in 0 .. n : (IF reversed THEN n - j ELSE j) < functions[f].parameter_count + 1}

Bind(f, args, reversed) ==
  [k \in 1 .. functions[f].local_count |->
     IF k - 1 \in Kept(f, Len(args) - 1, reversed) THEN args[k] ELSE Undef]

\* A value for a local the function does not have goes through a null pointer.
Wild(f, n, reversed) == \E j \in Kept(f, n, reversed) : j >= functions[f].local_count

Enough(f) == Cardinality(FreeCells) >= functions[f].local_count
Fresh_locals(f) == Take(FreeCells, functions[f].local_count)
NewFrame(f) == [function |-> f, ip |-> 0, locals |-> Fresh_locals(f)]

Initialised(f, values) ==
  [a \in Cells |-> IF \E k \in DOMAIN values : Fresh_locals(f)[k] = a
                   THEN values[CHOOSE k \in DOMAIN values : Fresh_locals(f)[k] = a]
                   ELSE cells[a]]

call_function(f) ==
  IF ~Enough(f) THEN vm_error("cells")
  ELSE /\ cells' = Initialised(f, Bind(f, Args, FALSE))
       /\ threads' = [threads EXCEPT ![cur] = [Bare EXCEPT !.frames = Append(@, NewFrame(f))]]
       /\ Frozen /\ UNCHANGED <<pool, cur, objects, events, text>>

\* The one builtin of the models writes its first argument and returns nothing.
\* A method would have to be found in the proxy of the object.
call_c_function(f) ==
  IF Ins.method THEN vm_error("no_method")
  ELSE IF f # "print" THEN vm_error("no_function")
  ELSE /\ text' = Append(text, vm_stringify(Args[2]))
       /\ threads' = [threads EXCEPT ![cur] = PushOn(Bare, Undef)]
       /\ Frozen /\ UNCHANGED <<pool, cur, memory, events>>

\* A struct from the pool that starts f and reports to slot.
Started(f, slot) ==
  [Cleared EXCEPT !.state = "ACTIVE", !.frames = <<NewFrame(f)>>, !.return_value = slot]

\* The caller goes on with undefined, in the very slot that the new thread
\* overwrites when it returns.
thread_call(f) ==
  LET t == PushOn(Bare, Undef)
      nt == Head(pool)
      slot == [thread |-> cur, at |-> Len(t.stack)]
  IN IF pool = <<>> THEN vm_error("threads")
     ELSE IF ~Enough(f) THEN vm_error("cells")
     ELSE IF Wild(f, nargs, TRUE) THEN vm_error("wild")
     ELSE /\ cells' = Initialised(f, Bind(f, Args, TRUE))
          /\ threads' = [threads EXCEPT ![cur] = t, ![nt] = Started(f, slot)]
          /\ pool' = Tail(pool)
          /\ Frozen /\ UNCHANGED <<cur, objects, events, text>>

\* A builtin takes its arguments from the stack of the running thread, where a
\* threaded call has left only its undefined; the new thread has no code.
thread_call_c_function(f) ==
  LET t == PushOn(Bare, Undef)
  IN IF pool = <<>> THEN vm_error("threads")
     ELSE IF Ins.method \/ f # "print" THEN vm_error("no_function")
     ELSE IF Len(t.stack) < nargs + 2 THEN vm_error("underflow")
     ELSE /\ threads' = [threads EXCEPT
                           ![cur] = PushOn(Drop(t, nargs + 2), Undef),
                           ![Head(pool)] = [Cleared EXCEPT !.state = "ACTIVE"]]
          /\ pool' = Tail(pool)
          /\ text' = Append(text, vm_stringify(Top(t, 3)))
          /\ Frozen /\ UNCHANGED <<cur, memory, events>>

Height == (IF Ins.op = "CALL" THEN 2 ELSE 3) + Ins.n

Dispatch(f) ==
  CASE ~Needs(Height) -> vm_error("underflow")
    [] Needs(Height) /\ Ins.threaded ->
         IF f \in DOMAIN functions THEN thread_call(f) ELSE thread_call_c_function(f)
    [] OTHER ->
         IF Len(Thr.frames) >= FrameSize THEN vm_error("frames")
         ELSE IF f \in DOMAIN functions THEN call_function(f) ELSE call_c_function(f)

OP_CALL == At("CALL") /\ Dispatch(Ins.callee)

OP_CALL_PTR ==
  /\ At("CALL_PTR")
  /\ IF Top(Thr, 1).type # "FUNCTION" THEN vm_error("type") ELSE Dispatch(Top(Thr, 1).function)

\* Mutant: the locals of the outermost frame are given back.
BugReleased(frame) ==
  [a \in Cells |-> IF a \in CellsOf(Thr.frames[1]) THEN Free ELSE cells[a]]

Released(frame) == [a \in Cells |-> IF a \in CellsOf(frame) THEN Free ELSE cells[a]]

\* Frees the locals; the value on top is the result of the call.  The last
\* frame of a thread hands it to the slot its creator gave.
OP_RET ==
  /\ At("RET")
  /\ LET slot == Thr.return_value
         ended == [Drop(Thr, 1) EXCEPT !.frames = <<>>, !.state = "INACTIVE"]
         returned == [Thr EXCEPT !.frames = SubSeq(@, 1, Len(@) - 1)]
         reports == /\ slot # NoSlot
                    /\ slot.at <= Len(threads[slot.thread].stack)
         last == Len(Thr.frames) = 1
     IN IF last /\ ~Needs(1) THEN vm_error("underflow")
        ELSE /\ cells' = Released(Frame)
             /\ threads' =
                  IF ~last THEN [threads EXCEPT ![cur] = returned]
                  ELSE LET done == [threads EXCEPT ![cur] = ended]
                       IN IF reports
                          THEN [done EXCEPT ![slot.thread].stack[slot.at] = Top(Thr, 1)]
                          ELSE done
             /\ Frozen /\ UNCHANGED <<pool, cur, objects, events, text>>

-----------------------------------------------------------------------------
(* Waiting and events *)

OP_WAIT ==
  /\ At("WAIT")
  /\ LET v == Top(Thr, 1)
         t == Drop(Advance(Thr), 1)
     IN IF ~Needs(1) THEN vm_error("underflow")
        ELSE IF v.type = "UNDEFINED" THEN Continue([t EXCEPT !.state = "WAITING_FRAME"])
        ELSE IF Failed(coerce_float(v)) THEN vm_error("type")
        ELSE Continue([t EXCEPT !.state = "WAITING_TIME"])

\* On the stack: the object, the name, the other arguments in order.
EventArgs(limit) == [k \in 1 .. (IF Ins.n - 1 < limit THEN Ins.n - 1 ELSE limit) |-> Top(Thr, k + 2)]
EventName == Top(Thr, 2)
EventObject == Top(Thr, 1)

AfterEvent == PushOn(Drop(Advance(Thr), Ins.n + 1), Undef)

OP_WAITTILL ==
  /\ At("WAITTILL")
  /\ LET refs == EventArgs(MaxEventArgs)
     IN IF ~Needs(Ins.n + 1) THEN vm_error("underflow")
        ELSE IF EventObject.type # "OBJECT" \/ ~IsString(EventName) THEN vm_error("type")
        ELSE IF \E k \in DOMAIN refs : refs[k].type # "REFERENCE" THEN vm_error("not_a_reference")
        ELSE Continue([AfterEvent EXCEPT
                         !.state = "WAITING_EVENT",
                         !.waittill = [name |-> EventName.sval, object |-> EventObject.oval,
                                       arguments |-> refs]])

OP_NOTIFY ==
  /\ At("NOTIFY")
  /\ IF ~Needs(Ins.n + 1) THEN vm_error("underflow")
     ELSE IF EventObject.type # "OBJECT" \/ ~IsString(EventName) THEN vm_error("type")
     ELSE IF Len(events) >= MaxEvents THEN vm_error("events")
     ELSE /\ events' = Append(events, [name |-> EventName.sval, object |-> EventObject.oval,
                                       arguments |-> EventArgs(MaxEventArgs)])
          /\ threads' = [threads EXCEPT ![cur] = AfterEvent]
          /\ Frozen /\ UNCHANGED <<pool, cur, memory, text>>

\* Two values are popped, whatever the number of arguments.
OP_ENDON ==
  /\ At("ENDON")
  /\ IF ~Needs(2) THEN vm_error("underflow")
     ELSE IF ~IsString(EventName) THEN vm_error("type")
     ELSE IF Len(Thr.endon) >= MaxEndon THEN vm_error("endon")
     ELSE Continue([PushOn(Drop(Advance(Thr), 2), Undef) EXCEPT
                      !.endon = Append(@, EventName.sval)])

-----------------------------------------------------------------------------
(* The dispatcher, between the instructions of different threads. *)

OutOfCode ==
  /\ error = "" /\ cur # 0 /\ Thr.state = "ACTIVE"
  /\ ~InCode
  /\ vm_error("ip_oob")

Suspend ==
  /\ error = "" /\ cur # 0 /\ Thr.state # "ACTIVE"
  /\ cur' = 0
  /\ Frozen /\ UNCHANGED <<threads, pool, memory, events, text>>

Idle(t, state) == error = "" /\ cur = 0 /\ threads[t].state = state
Ended(t) == \E k \in DOMAIN events, e \in DOMAIN threads[t].endon :
              events[k].name = threads[t].endon[e]

Resume(t) ==
  /\ Idle(t, "ACTIVE") /\ ~Ended(t)
  /\ cur' = t
  /\ Frozen /\ UNCHANGED <<threads, pool, memory, events, text>>

\* When the wait is over is the subject of Scheduler.
Wake(t) ==
  /\ Idle(t, "WAITING_TIME") \/ Idle(t, "WAITING_FRAME")
  /\ ~Ended(t)
  /\ threads' = [threads EXCEPT ![t].state = "ACTIVE"]
  /\ Frozen /\ UNCHANGED <<pool, cur, memory, events, text>>

\* The oldest event of that name and object is consumed and its arguments are
\* stored through the references; missing ones leave their variables alone.
Deliver(t) ==
  LET w == threads[t].waittill
      matching == {k \in DOMAIN events : events[k].name = w.name /\ events[k].object = w.object}
      e == Lowest(matching)
      stored == {k \in DOMAIN w.arguments : k \in DOMAIN events[e].arguments}
      to(a) == {k \in stored : w.arguments[k].refval = a}
  IN /\ Idle(t, "WAITING_EVENT") /\ ~Ended(t)
     /\ matching # {}
     /\ cells' = [a \in Cells |->
                   IF to(a) = {} THEN cells[a]
                   ELSE events[e].arguments[CHOOSE k \in to(a) : \A l \in to(a) : l <= k]]
     /\ events' = [k \in 1 .. Len(events) - 1 |-> IF k < e THEN events[k] ELSE events[k + 1]]
     /\ threads' = [threads EXCEPT ![t].state = "ACTIVE"]
     /\ Frozen /\ UNCHANGED <<pool, cur, objects, text>>

\* A finished thread, or one that an endon event stops, gives its struct back.
Reap(t) ==
  /\ error = "" /\ cur = 0 /\ threads[t].state # "FREE"
  /\ threads[t].state = "INACTIVE" \/ Ended(t)
  /\ threads' = [threads EXCEPT ![t].state = "FREE"]
  /\ pool' = <<t>> \o pool
  /\ Frozen /\ UNCHANGED <<cur, memory, events, text>>

\* gsc_call without object and arguments: self is what the name default_self
\* is bound to, undefined here.
gsc_call(f) ==
  /\ error = "" /\ cur = 0
  /\ f \in Entries /\ f \in DOMAIN functions
  /\ pool # <<>> /\ Enough(f)   \* else vm_error
  /\ cells' = Initialised(f, Bind(f, <<Undef>>, TRUE))
  /\ threads' = [threads EXCEPT ![Head(pool)] = Started(f, NoSlot)]
  /\ pool' = Tail(pool)
  /\ Frozen /\ UNCHANGED <<cur, objects, events, text>>

-----------------------------------------------------------------------------

\* The host has compiled a program to image without an error and called main.
Start(image) ==
  /\ functions = image
  /\ \A f \in DOMAIN functions : ~functions[f].error
  /\ threads = [t \in Threads |->
                  IF t = 1
                  THEN [Cleared EXCEPT
                          !.state = "ACTIVE",
                          !.frames = <<[function |-> "main", ip |-> 0,
                                        locals |-> Take(Cells, functions["main"].local_count)]>>]
                  ELSE Cleared]
  /\ pool = [k \in 1 .. MaxThreads - 1 |-> k + 1]
  /\ cur = 0
  /\ cells = [a \in Cells |->
                IF a \in CellsOf(threads[1].frames[1]) THEN Undef ELSE Free]
  /\ objects = <<<<>>>>
  /\ events = <<>>
  /\ text = <<>>
  /\ error = ""

Execute ==
  \/ OP_POP \/ OP_PUSH \/ OP_UNDEF \/ OP_CONST_0 \/ OP_CONST_1
  \/ OP_JMP \/ OP_JZ \/ OP_JNZ \/ OP_TEST
  \/ OP_BINOP \/ OP_UNARY \/ OP_VECTOR
  \/ OP_LOAD \/ OP_REF \/ OP_GLOBAL \/ OP_LOAD_FIELD \/ OP_FIELD_REF \/ OP_STORE \/ OP_TABLE
  \/ OP_CALL \/ OP_CALL_PTR \/ OP_RET
  \/ OP_WAIT \/ OP_WAITTILL \/ OP_NOTIFY \/ OP_ENDON

Schedule ==
  \/ OutOfCode \/ Suspend
  \/ \E t \in Threads : Resume(t) \/ Wake(t) \/ Deliver(t) \/ Reap(t)
  \/ \E f \in Entries : gsc_call(f)

Next == Execute \/ Schedule
=============================================================================
