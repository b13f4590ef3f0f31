------------------------------ MODULE Compiler ------------------------------
(***************************************************************************)
(* The code generator (compiler.c): a visitor over the syntax tree that    *)
(* appends instructions and patches relative jumps.                        *)
(*                                                                         *)
(* c is struct Compiler as one value: visitors take it and return it.      *)
(* error() leaves compile_function by longjmp: once the model has raised   *)
(* c.error nothing more is visited or emitted.  Offsets count from 0       *)
(* as in C, so instruction ip is c.code[ip + 1].                           *)
(***************************************************************************)
EXTENDS Values, AST

CONSTANTS
  MAX_INSTRUCTIONS, COMPILER_MAX_SCOPES, MAX_PENDING_JUMPS, MAX_CASES,
  Globals   \* names defined at file scope, which a function reaches by name

-----------------------------------------------------------------------------
(* Emitting *)

Op(op) == [op |-> op]
Push(v) == [op |-> "PUSH", value |-> v]
Slot(op, idx) == [op |-> op, slot |-> idx]
Oper(op, token) == [op |-> op, token |-> token]
Count(op, n) == [op |-> op, n |-> n]
Call(callee, n, threaded, method) ==
  [op |-> "CALL", callee |-> callee, n |-> n, threaded |-> threaded, method |-> method]
CallPtr(n, threaded, method) ==
  [op |-> "CALL_PTR", n |-> n, threaded |-> threaded, method |-> method]

Jumps == {"JMP", "JZ", "JNZ"}
UNRESOLVED == -1
Unresolved(op) == [op |-> op, rel |-> UNRESOLVED]

ip(c) == Len(c.code)
Fail(c) == [c EXCEPT !.error = TRUE]

emit(c, ins) ==
  IF c.error \/ ip(c) >= MAX_INSTRUCTIONS THEN Fail(c) ELSE [c EXCEPT !.code = Append(@, ins)]

RECURSIVE emits(_, _)
emits(c, instructions) ==
  IF instructions = <<>> \/ c.error THEN c
  ELSE emits(emit(c, Head(instructions)), Tail(instructions))

\* Mutant: the offset is taken from the jump, not from its successor.
BugSetJump(c, at, destination) ==
  IF c.error THEN c ELSE [c EXCEPT !.code[at + 1].rel = destination - at]

\* The machine has already advanced past the jump when it adds rel.
SetJump(c, at, destination) ==
  IF c.error THEN c ELSE [c EXCEPT !.code[at + 1].rel = destination - at - 1]

reljmp_current(c, op, destination) ==
  emit(c, [op |-> op, rel |-> destination - ip(c) - 1])

patch_reljmp(c, at) == SetJump(c, at, ip(c))

\* Mutant: the value of an expression nobody uses stays on the stack.
BugDiscard(c) == c

discard(c) == emit(c, Op("POP"))

-----------------------------------------------------------------------------
(* Scopes: what break and continue leave.                                   *)

\* scopes has COMPILER_MAX_SCOPES elements, indexed by current_scope, which is
\* 0 outside all loops; the test comes before the increment, so the last scope
\* it lets through is written behind the array.
increment_scope(c, allows_break, allows_continue) ==
  IF c.current_scope >= COMPILER_MAX_SCOPES THEN Fail(c)
  ELSE [c EXCEPT !.current_scope = @ + 1,
                 !.scopes = Append(@, [brk |-> allows_break, cont |-> allows_continue]),
                 !.overrun = @ \/ c.current_scope + 1 >= COMPILER_MAX_SCOPES]

emit_pending(c, kind) ==
  IF Len(c.jumps) >= MAX_PENDING_JUMPS THEN Fail(c)
  ELSE emit([c EXCEPT !.jumps = Append(@, [ip |-> ip(c), scope |-> c.current_scope,
                                           kind |-> kind, done |-> FALSE])],
            Unresolved("JMP"))

\* Mutant: a scope that does not take a continue takes it all the same.
BugTakes(c, j) ==
  LET scope == c.scopes[c.current_scope] IN
  /\ ~j.done
  /\ j.scope >= c.current_scope
  /\ (j.kind = "break" /\ scope.brk) \/ j.kind = "continue"

\* The pending jumps that the scope now closing resolves.
Takes(c, j) ==
  LET scope == c.scopes[c.current_scope] IN
  /\ ~j.done
  /\ j.scope >= c.current_scope
  /\ (j.kind = "break" /\ scope.brk) \/ (j.kind = "continue" /\ scope.cont)

\* Mutant: the level is not lowered.
BugOutside(c) == c

\* c in the scope around the current one.
Outside(c) == [c EXCEPT !.scopes = SubSeq(@, 1, Len(@) - 1), !.current_scope = @ - 1]

\* Only a scope that takes continue passes a continue_offset.
decrement_scope(c, continue_offset, break_offset) ==
  LET taken == {k \in 1 .. Len(c.jumps) : Takes(c, c.jumps[k])}
      at(k) == c.jumps[k].ip
      to(k) == IF c.jumps[k].kind = "break" THEN break_offset ELSE continue_offset
      rel(i) == LET k == CHOOSE k \in taken : at(k) = i IN to(k) - i - 1
  IN IF c.error THEN c
     ELSE Outside([c EXCEPT
            !.code = [i \in DOMAIN @ |->
                        IF \E k \in taken : at(k) = i - 1
                        THEN [@[i] EXCEPT !.rel = rel(i - 1)] ELSE @[i]],
            !.jumps = [k \in DOMAIN @ |->
                        IF k \in taken THEN [@[k] EXCEPT !.done = TRUE] ELSE @[k]]])

-----------------------------------------------------------------------------
(* Variables.  variable_index is the number of names defined so far.        *)

IndexOf(c, name) == CHOOSE k \in 1 .. Len(c.variables) : c.variables[k] = name
Defined(c, name) == \E k \in 1 .. Len(c.variables) : c.variables[k] = name

define_local_variable(c, name, is_parm) ==
  IF Defined(c, name) THEN IF is_parm THEN Fail(c) ELSE c
  ELSE [c EXCEPT !.variables = Append(@, name)]

\* A global hides a local and a parameter of the same name.
variable(c, name, local, field, as_ref) ==
  IF name \in Globals
  THEN emits(c, <<Push(Interned(name)), Count("GLOBAL", as_ref), Op(field)>>)
  ELSE LET d == define_local_variable(c, name, FALSE)
       IN emit(d, Slot(local, IndexOf(d, name) - 1))

identifier(c, n) == variable(c, n.name, "REF", "FIELD_REF", 1)
visit_Identifier(c, n) == variable(c, n.name, "LOAD", "LOAD_FIELD", 0)

-----------------------------------------------------------------------------
(* The visitors. *)

RECURSIVE visit(_, _), visits(_, _), visit_cases(_, _, _, _), visit_bodies(_, _, _)

visits(c, nodes) ==
  IF nodes = <<>> \/ c.error THEN c ELSE visits(visit(c, Head(nodes)), Tail(nodes))

Reversed(s) == [k \in 1 .. Len(s) |-> s[Len(s) + 1 - k]]

\* Pushes the key under which a member expression looks into its object.
property(c, op, n) ==
  CASE op = "[" -> IF is_expr(n) THEN visit(c, n) ELSE Fail(c)
    [] op = "." /\ n.type = "Identifier" -> emit(c, Push(Interned(n.name)))
    [] OTHER -> Fail(c)

load_member(c, n) == emit(visit(property(c, n.op, n.prop), n.object), Op("LOAD_FIELD"))

RECURSIVE lvalue(_, _)
lvalue(c, n) ==
  CASE n.type = "Self" -> emit(c, Slot("REF", 0))
    [] n.type = "Identifier" -> identifier(c, n)
    [] n.type = "MemberExpr" ->
         emit(lvalue(property(c, n.op, n.prop), n.object), Op("FIELD_REF"))
    [] OTHER -> Fail(c)

\* && and || skip the right operand; what they skip to pushes the result.
ShortCircuit(c, n, jump, skipped, taken) ==
  LET test == emits(visit(c, n.lhs), <<Op("TEST"), Unresolved(jump)>>)
      rhs == emits(visit(emit(test, Op(taken)), n.rhs),
                   <<Oper("BINOP", n.op), Unresolved("JMP")>>)
      skip == emit(patch_reljmp(rhs, ip(test) - 1), Op(skipped))
  IN patch_reljmp(skip, ip(rhs) - 1)

visit_BinaryExpr(c, n) ==
  CASE n.op = "&&" -> ShortCircuit(c, n, "JZ", "CONST_0", "CONST_1")
    [] n.op = "||" -> ShortCircuit(c, n, "JNZ", "CONST_1", "CONST_0")
    [] OTHER -> emit(visit(visit(c, n.lhs), n.rhs), Oper("BINOP", n.op))

visit_AssignmentExpr(c, n) ==
  LET value == IF n.op = "=" THEN visit(c, n.rhs)
               ELSE emit(visit(visit(c, n.lhs), n.rhs), Oper("BINOP", n.op))
  IN emit(lvalue(value, n.lhs), Op("STORE"))

\* A prefix minus subtracts 0 from its operand; x++ leaves the old value.
visit_UnaryExpr(c, n) ==
  LET arg == visit(c, n.argument)
      step(op) == emits(visit(arg, n.argument), <<Op("CONST_1"), Oper("BINOP", op)>>)
      postfix(op) == emits(lvalue(step(op), n.argument), <<Op("STORE"), Op("POP")>>)
  IN CASE n.op = "-" -> emits(arg, <<Op("CONST_0"), Oper("BINOP", "-")>>)
       [] n.op \in {"!", "~"} -> emit(arg, Oper("UNARY", n.op))
       [] n.op = "++" /\ ~n.prefix -> postfix("+")
       [] n.op = "--" /\ ~n.prefix -> postfix("-")
       [] OTHER -> Fail(c)

-----------------------------------------------------------------------------
(* Calls: the arguments from last to first, the object, their number. *)

EventOps == [waittill |-> "WAITTILL", waittillmatch |-> "WAITTILL",
             notify |-> "NOTIFY", endon |-> "ENDON"]

is_event_call(n) ==
  n.object # Null /\ n.callee.type = "Identifier" /\ n.callee.name \in DOMAIN EventOps

\* waittill gets references to the variables that follow the event's name.
arguments(c, args, as_ref) ==
  LET RECURSIVE from(_, _)
      from(d, k) ==
        IF k = 0 THEN d
        ELSE from(IF as_ref /\ k > 1 THEN identifier(d, args[k]) ELSE visit(d, args[k]), k - 1)
  IN from(c, Len(args))

callee(c, n, nargs, threaded, method) ==
  CASE n.type = "MemberExpr" -> emit(load_member(c, n), CallPtr(nargs, threaded, method))
    [] n.type = "Identifier" -> emit(c, Call(n.name, nargs, threaded, method))
    [] n.type = "FunctionPointerExpr" ->
         emit(visit(c, n.expression), CallPtr(nargs, threaded, method))
    [] n.type = "Literal" /\ n.value.type = "FUNCTION" ->
         emit(c, Call(n.value.function, nargs, threaded, method))
    [] OTHER -> Fail(c)

event_call(c, n) ==
  LET op == EventOps[n.callee.name]
      args == arguments(c, n.arguments, op = "WAITTILL")
  IN emit(visit(args, n.object), Count(op, Len(n.arguments)))

visit_CallExpr(c, n) ==
  LET as_ref == n.callee.type = "Identifier" /\ n.callee.name = "waittill"
      args == arguments(c, n.arguments, as_ref)
      member == n.callee.type = "MemberExpr"
      self == CASE n.object # Null -> visit(args, n.object)
                [] n.object = Null /\ member -> visit(args, n.callee.object)
                [] OTHER -> emit(args, Slot("LOAD", 0))
      nargs == Len(n.arguments)
  IN IF is_event_call(n) THEN event_call(c, n)
     ELSE callee(emit(self, Push(Integer(nargs))), n.callee, nargs,
                 n.threaded, n.object # Null \/ member)

-----------------------------------------------------------------------------
(* Statements. *)

visit_IfStmt(c, n) ==
  LET test == emits(visit(c, n.test), <<Op("TEST"), Unresolved("JZ")>>)
      yes == visit(test, n.consequent)
      jmp == emit(yes, Unresolved("JMP"))
      no == visit(patch_reljmp(jmp, ip(test) - 1), n.alternative)
  IN IF n.alternative = Null THEN patch_reljmp(yes, ip(test) - 1)
     ELSE patch_reljmp(no, ip(jmp) - 1)

\* Mutant: continue goes to the test of the loop and skips the update.
BugContinueOffset(begin, inside) == ip(begin)

ContinueOffset(begin, inside) == ip(inside)

\* while and for: continue goes to the update, break behind the loop.
Loop(c, test, body, update) ==
  LET begin == increment_scope(c, TRUE, TRUE)
      head == emits(IF test = Null THEN emit(begin, Op("CONST_1")) ELSE visit(begin, test),
                    <<Op("TEST"), Unresolved("JZ")>>)
      inside == visit(head, body)
      again == reljmp_current(IF update = Null THEN inside
                              ELSE discard(visit(inside, update)), "JMP", ip(begin))
  IN decrement_scope(patch_reljmp(again, ip(head) - 1), ContinueOffset(begin, inside), ip(again))

visit_WhileStmt(c, n) == Loop(c, n.test, n.body, Null)

visit_ForStmt(c, n) ==
  Loop(IF n.init = Null THEN c ELSE discard(visit(c, n.init)),
       n.test, n.body, n.update)

\* The tests of all cases come first, each followed by a jump to its body.
visit_cases(c, n, cases, jumps) ==
  IF cases = <<>> THEN [c |-> c, jumps |-> jumps]
  ELSE LET d == emits(visit(visit(c, n.discriminant), Head(cases).test),
                      <<Oper("BINOP", "=="), Op("TEST"), Unresolved("JNZ")>>)
       IN visit_cases(IF Len(jumps) >= MAX_CASES THEN Fail(d) ELSE d, n, Tail(cases),
                      Append(jumps, ip(d) - 1))

visit_bodies(c, cases, jumps) ==
  IF cases = <<>> THEN c
  ELSE visit_bodies(visits(patch_reljmp(c, Head(jumps)), Head(cases).consequent),
                    Tail(cases), Tail(jumps))

IsDefault(case) == case.test = Null
IsCase(case) == case.test # Null

DefaultJump(c) == emit(c, Unresolved("JMP"))

\* The last default wins; its body is moved behind those of the cases.
\* Without a default nothing jumps over the bodies.
visit_SwitchStmt(c, n) ==
  LET cases == SelectSeq(n.cases, IsCase)
      defaults == SelectSeq(n.cases, IsDefault)
      t == visit_cases(increment_scope(c, TRUE, FALSE), n, cases, <<>>)
      body == defaults[Len(defaults)].consequent
      bodies(d) == visit_bodies(d, cases, t.jumps)
      all == IF defaults = <<>> THEN bodies(t.c)
             ELSE visits(patch_reljmp(bodies(DefaultJump(t.c)), ip(t.c)), body)
  IN decrement_scope(all, UNRESOLVED, ip(all))

visit(c, n) ==
  CASE c.error -> c
    [] n.type = "Literal" -> emit(c, Push(n.value))
    [] n.type = "Identifier" -> visit_Identifier(c, n)
    [] n.type = "Self" -> emit(c, Slot("LOAD", 0))
    [] n.type \in {"StructExpr", "ArrayExpr"} -> emit(c, Op("TABLE"))
    [] n.type = "GroupExpr" -> visit(c, n.expression)
    [] n.type = "VectorExpr" ->
         emit(visits(c, Reversed(n.elements)), Count("VECTOR", Len(n.elements)))
    [] n.type = "UnaryExpr" -> visit_UnaryExpr(c, n)
    [] n.type = "BinaryExpr" -> visit_BinaryExpr(c, n)
    [] n.type = "AssignmentExpr" -> visit_AssignmentExpr(c, n)
    [] n.type = "MemberExpr" -> load_member(c, n)
    [] n.type = "CallExpr" -> visit_CallExpr(c, n)
    [] n.type = "EmptyStmt" -> c
    [] n.type = "BreakStmt" -> emit_pending(c, "break")
    [] n.type = "ContinueStmt" -> emit_pending(c, "continue")
    [] n.type = "ExprStmt" -> discard(visit(c, n.expression))
    [] n.type = "BlockStmt" -> visits(c, n.body)
    [] n.type = "ReturnStmt" ->
         emit(IF n.argument = Null THEN emit(c, Op("UNDEF")) ELSE visit(c, n.argument), Op("RET"))
    [] n.type = "WaitStmt" ->
         emit(IF n.duration = Null THEN emit(c, Op("UNDEF")) ELSE visit(c, n.duration), Op("WAIT"))
    [] n.type = "IfStmt" -> visit_IfStmt(c, n)
    [] n.type = "WhileStmt" -> visit_WhileStmt(c, n)
    [] n.type = "ForStmt" -> visit_ForStmt(c, n)
    [] n.type = "SwitchStmt" -> visit_SwitchStmt(c, n)
    [] OTHER -> Fail(c)   \* unimplemented node

-----------------------------------------------------------------------------
(* A function: self and the parameters are its first variables.  Jumps that *)
(* are still unresolved at its end become jumps to the next instruction.    *)

Fresh ==
  [code |-> <<>>, variables |-> <<>>, current_scope |-> 0, scopes |-> <<>>,
   jumps |-> <<>>, error |-> FALSE, overrun |-> FALSE]

RECURSIVE parameters(_, _)
parameters(c, names) ==
  IF names = <<>> THEN c
  ELSE parameters(define_local_variable(c, Head(names), TRUE), Tail(names))

Settle(ins) ==
  IF ins.op \in Jumps /\ ins.rel = UNRESOLVED THEN [ins EXCEPT !.rel = 0] ELSE ins

compile_function(f) ==
  LET c == emits(visit(parameters(Fresh, <<"self">> \o f.parameters), f.body),
                 <<Op("UNDEF"), Op("RET")>>)
  IN [instructions |-> [k \in 1 .. ip(c) |-> Settle(c.code[k])],
      unresolved |-> {k \in 1 .. ip(c) : c.code[k] # Settle(c.code[k])},
      parameter_count |-> Len(f.parameters),
      local_count |-> Len(c.variables),
      error |-> c.error, overrun |-> c.overrun]
=============================================================================
