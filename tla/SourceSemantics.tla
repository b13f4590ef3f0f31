-------------------------- MODULE SourceSemantics --------------------------
(***************************************************************************)
(* What a program means, read off its syntax tree and without any code or  *)
(* stack: the reference that compiled code is compared with.               *)
(*                                                                         *)
(* It fixes what the language leaves to the implementation as the code     *)
(* does: arguments are evaluated from last to first, the right side of an  *)
(* assignment before the object that receives it, variables live as long   *)
(* as the call, and an uninitialised one is undefined.  Where the code     *)
(* generator goes its own way the reference takes the ordinary meaning: a  *)
(* switch evaluates its discriminant once, runs the bodies in the order of *)
(* the source and none of them when nothing matches, continue belongs to   *)
(* the nearest enclosing loop, a prefix minus negates, and a compound      *)
(* assignment evaluates its left side once.                                *)
(*                                                                         *)
(* A call in a thread of its own runs beside its creator, which goes on    *)
(* with undefined; the threads must not use each other's data, so that     *)
(* what each one prints does not depend on when it runs.  A function of    *)
(* the host cannot be called that way.                                     *)
(*                                                                         *)
(* s is the state of a run: vars of the current call, heap of all objects, *)
(* text printed so far, texts of the threads it has started, fuel that     *)
(* bounds loops and calls, and stop, which is "" while the program runs.   *)
(***************************************************************************)
EXTENDS Values, AST

CONSTANTS
  Globals,         \* names of variables at file scope
  Fuel             \* iterations and calls the reference follows

GLOBAL == 1   \* the object that holds the global variables

Result(s, v) == [s |-> s, v |-> v]
Stop(s, why) == [s EXCEPT !.stop = IF @ = "" THEN why ELSE @]
Checked(s, v) == IF Failed(v) THEN Result(Stop(s, "error"), Undef) ELSE Result(s, v)

Get(f, k) == IF k \in DOMAIN f THEN f[k] ELSE Undef
Put(f, k, v) == [x \in DOMAIN f \cup {k} |-> IF x = k THEN v ELSE f[x]]

\* What a test accepts.
IsTruth(v) == v.type \in {"INTEGER", "BOOLEAN"}

\* Keys are texts; an index that is not one is converted.
Key(v) == vm_stringify(v)
IsKey(v) == v.type \in {"INTEGER", "BOOLEAN", "STRING", "INTERNED_STRING"}

Component(v, k) == [type |-> "FLOAT", fval |-> v.vval[k + 1]]

Fetch(s, o, k) ==
  CASE o.type = "UNDEFINED" -> Result(s, Undef)
    [] o.type = "VECTOR" /\ IsTruth(k) /\ k.ival \in 0 .. 2 -> Result(s, Component(o, k.ival))
    [] IsString(o) /\ IsString(k) /\ k.sval \in {"length", "size"} -> Result(s, Integer(Len(o.sval)))
    [] IsString(o) /\ k.type = "INTEGER" /\ k.ival + 1 \in 1 .. Len(o.sval) ->
         Result(s, String(SubSeq(o.sval, k.ival + 1, k.ival + 1)))
    [] o.type = "OBJECT" /\ IsKey(k) ->
         LET fields == s.heap[o.oval] IN
         IF Key(k) = "size" THEN Result(s, Integer(fields.size))
         ELSE Result(s, Get(fields.of, Key(k)))
    [] OTHER -> Result(Stop(s, "error"), Undef)

Keep(s, o, k, v) ==
  [s EXCEPT !.heap[o.oval] =
     [of |-> Put(@.of, Key(k), v), size |-> @.size + IF Key(k) \in DOMAIN @.of THEN 0 ELSE 1]]

NewObject(s) ==
  Result([s EXCEPT !.heap = Append(@, [of |-> <<>>, size |-> 0])], Object(Len(s.heap) + 1))

-----------------------------------------------------------------------------

RECURSIVE Eval(_, _, _), EvalArgs(_, _, _, _), Place(_, _, _), Exec(_, _, _), ExecAll(_, _, _),
          Iterate(_, _, _), Invoke(_, _, _, _, _)

\* A place is a variable or a field of an object; an undefined object on the
\* way to it becomes a new one.
Read(s, p) ==
  IF p.kind = "var" THEN Result(s, Get(s.vars, p.name)) ELSE Fetch(s, Object(p.object), p.key)

Write(s, p, v) ==
  IF p.kind = "var" THEN [s EXCEPT !.vars = Put(@, p.name, v)]
  ELSE Keep(s, Object(p.object), p.key, v)

Owner(s, p) ==
  LET r == Read(s, p)
      new == NewObject(r.s)
  IN CASE r.v.type = "OBJECT" -> r
       [] r.v.type = "UNDEFINED" -> Result(Write(new.s, p, new.v), new.v)
       [] OTHER -> Result(Stop(r.s, "error"), Object(GLOBAL))

VarPlace(name) ==
  IF name \in Globals THEN [kind |-> "field", object |-> GLOBAL, key |-> Interned(name)]
                      ELSE [kind |-> "var", name |-> name]

Place(F, s, n) ==
  CASE n.type = "Self" -> [s |-> s, p |-> VarPlace("self")]
    [] n.type = "Identifier" -> [s |-> s, p |-> VarPlace(n.name)]
    [] n.type = "MemberExpr" ->
         LET k == IF n.op = "." THEN Result(s, Interned(n.prop.name)) ELSE Eval(F, s, n.prop)
             o == Place(F, k.s, n.object)
             owner == Owner(o.s, o.p)
         IN [s |-> owner.s, p |-> [kind |-> "field", object |-> owner.v.oval, key |-> k.v]]

\* && and ||: the right operand is evaluated only if the left does not decide.
Logical(F, s, n) ==
  LET l == Eval(F, s, n.lhs)
      r == Eval(F, l.s, n.rhs)
      decides == (l.v.ival = 0) <=> (n.op = "&&")
  IN IF ~IsTruth(l.v) THEN Result(Stop(l.s, "error"), Undef)
     ELSE IF decides THEN Result(l.s, Boolean(l.v.ival # 0))
     ELSE Checked(r.s, binop(Integer(l.v.ival), r.v, n.op))

Conditional(F, s, n) ==
  LET t == Eval(F, s, n.test)
  IN IF ~IsTruth(t.v) THEN Result(Stop(t.s, "error"), Undef)
     ELSE Eval(F, t.s, IF t.v.ival # 0 THEN n.consequent ELSE n.alternative)

Assign(F, s, n) ==
  LET old == Place(F, s, n.lhs)
      before == Read(old.s, old.p)
      r == Eval(F, before.s, n.rhs)
      sum == Checked(r.s, binop(before.v, r.v, n.op))
      value == Eval(F, s, n.rhs)
      new == Place(F, value.s, n.lhs)
  IN IF n.op = "=" THEN Result(Write(new.s, new.p, value.v), value.v)
     ELSE Result(Write(sum.s, old.p, sum.v), sum.v)

Increment(F, s, n, op) ==
  LET at == Place(F, s, n.argument)
      old == Read(at.s, at.p)
      new == Checked(old.s, binop(old.v, Integer(1), op))
  IN Result(Write(new.s, at.p, new.v), old.v)

\* print is the one function of the host: it writes its first argument.
Invoke(F, s, name, self, args) ==
  IF name = "print" THEN Result([s EXCEPT !.text = Append(@, vm_stringify(args[1]))], Undef)
  ELSE IF name \notin DOMAIN F THEN Result(Stop(s, "error"), Undef)
  ELSE IF s.fuel = 0 THEN Result(Stop(s, "fuel"), Undef)
  ELSE LET f == F[name]
           bound == {k \in 1 .. Len(f.parameters) : k <= Len(args)}
           vars == [v \in {"self"} \cup {f.parameters[k] : k \in bound} |->
                      IF v = "self" THEN self
                      ELSE args[CHOOSE k \in bound : f.parameters[k] = v]]
           r == Exec(F, [s EXCEPT !.vars = vars, !.fuel = @ - 1], f.body)
       IN Result([r.s EXCEPT !.vars = s.vars], r.v)

\* A thread prints a text of its own.
Fork(F, s, name, self, args) ==
  LET r == Invoke(F, [s EXCEPT !.text = <<>>], name, self, args)
  IN IF name \notin DOMAIN F THEN Result(Stop(s, "error"), Undef)
     ELSE Result([r.s EXCEPT !.text = s.text, !.threads = Append(@, r.s.text)], Undef)

CallOf(F, s, n) ==
  LET args == EvalArgs(F, s, n.arguments, Len(n.arguments))
      member == n.callee.type = "MemberExpr"
      self == CASE n.object # Null -> Eval(F, args.s, n.object)
                [] n.object = Null /\ member -> Eval(F, args.s, n.callee.object)
                [] OTHER -> Result(args.s, Get(args.s.vars, "self"))
      f == CASE n.callee.type = "Identifier" -> Result(self.s, Function(n.callee.name))
             [] n.callee.type = "FunctionPointerExpr" -> Eval(F, self.s, n.callee.expression)
             [] OTHER -> Eval(F, self.s, n.callee)
  IN IF f.s.stop # "" THEN Result(f.s, Undef)
     ELSE IF f.v.type # "FUNCTION" THEN Result(Stop(f.s, "error"), Undef)
     ELSE IF n.threaded THEN Fork(F, f.s, f.v.function, self.v, args.v)
     ELSE Invoke(F, f.s, f.v.function, self.v, args.v)

EvalArgs(F, s, nodes, k) ==
  IF k = 0 THEN Result(s, <<>>)
  ELSE LET a == Eval(F, s, nodes[k])
           rest == EvalArgs(F, a.s, nodes, k - 1)
       IN Result(rest.s, Append(rest.v, a.v))

Fields(F, s, n) ==
  LET k == IF n.op = "." THEN Result(s, Interned(n.prop.name)) ELSE Eval(F, s, n.prop)
      o == Eval(F, k.s, n.object)
  IN Fetch(o.s, o.v, k.v)

\* The elements are evaluated like arguments and must be numbers.
VectorOf(F, s, n) ==
  LET el == EvalArgs(F, s, n.elements, 3)
      number(k) == coerce_float(el.v[k])
  IN IF el.s.stop # "" \/ \E k \in 1 .. 3 : Failed(number(k))
     THEN Result(Stop(el.s, "error"), Undef)
     ELSE Result(el.s, Vector(number(1).fval, number(2).fval, number(3).fval))

Eval(F, s, n) ==
  LET arg == Eval(F, s, n.argument)
      l == Eval(F, s, n.lhs)
      r == Eval(F, l.s, n.rhs)
  IN IF s.stop # "" THEN Result(s, Undef)
     ELSE CASE n.type = "Literal" -> Result(s, n.value)
            [] n.type = "Self" -> Result(s, Get(s.vars, "self"))
            [] n.type = "Identifier" -> Read(s, VarPlace(n.name))
            [] n.type \in {"StructExpr", "ArrayExpr"} -> NewObject(s)
            [] n.type = "VectorExpr" -> VectorOf(F, s, n)
            [] n.type = "GroupExpr" -> Eval(F, s, n.expression)
            [] n.type = "BinaryExpr" /\ n.op \in {"&&", "||"} -> Logical(F, s, n)
            [] n.type = "BinaryExpr" /\ n.op \notin {"&&", "||"} ->
                 IF r.s.stop # "" THEN r ELSE Checked(r.s, binop(l.v, r.v, n.op))
            [] n.type = "UnaryExpr" /\ n.op = "++" -> Increment(F, s, n, "+")
            [] n.type = "UnaryExpr" /\ n.op = "--" -> Increment(F, s, n, "-")
            [] n.type = "UnaryExpr" /\ n.op \notin {"++", "--"} ->
                 IF arg.s.stop # "" THEN arg ELSE Checked(arg.s, unary(arg.v, n.op))
            [] n.type = "AssignmentExpr" -> Assign(F, s, n)
            [] n.type = "MemberExpr" -> Fields(F, s, n)
            [] n.type = "CallExpr" -> CallOf(F, s, n)
            [] n.type = "IfStmt" -> Conditional(F, s, n)

-----------------------------------------------------------------------------
(* Statements end by "normal", "break", "continue" or "return" (v). *)

Done(s, how, v) == [s |-> s, how |-> how, v |-> v]

ExecAll(F, s, nodes) ==
  IF nodes = <<>> THEN Done(s, "normal", Undef)
  ELSE LET first == Exec(F, s, Head(nodes))
       IN IF first.how = "normal" THEN ExecAll(F, first.s, Tail(nodes)) ELSE first

\* One test of a loop and, if it holds, the rest of the loop.
Iterate(F, s, n) ==
  LET t == IF n.test = Null THEN Result(s, Integer(1)) ELSE Eval(F, s, n.test)
      b == Exec(F, [t.s EXCEPT !.fuel = @ - 1], n.body)
      u == IF n.update = Null THEN b.s ELSE Eval(F, b.s, n.update).s
  IN CASE t.s.stop # "" -> Done(t.s, "return", Undef)
       [] t.s.stop = "" /\ t.s.fuel = 0 -> Done(Stop(t.s, "fuel"), "return", Undef)
       [] OTHER -> IF ~IsTruth(t.v) THEN Done(Stop(t.s, "error"), "return", Undef)
                   ELSE IF t.v.ival = 0 THEN Done(t.s, "normal", Undef)
                   ELSE IF b.how = "return" THEN b
                   ELSE IF b.how = "break" THEN Done(b.s, "normal", Undef)
                   ELSE Iterate(F, u, n)

\* The bodies from the first case that equals the discriminant on, or from the
\* default on; nothing if there is neither.
Switch(F, s, n) ==
  LET d == Eval(F, s, n.discriminant)
      all == 1 .. Len(n.cases)
      equal(k) == LET v == binop(d.v, Eval(F, d.s, n.cases[k].test).v, "==")
                  IN ~Failed(v) /\ v.ival = 1
      matching == {k \in all : n.cases[k].test # Null /\ equal(k)}
      from == IF matching # {} THEN matching ELSE {k \in all : n.cases[k].test = Null}
      first == CHOOSE k \in from : \A l \in from : k <= l
      RECURSIVE bodies(_)
      bodies(k) == IF k > Len(n.cases) THEN <<>> ELSE n.cases[k].consequent \o bodies(k + 1)
      r == ExecAll(F, d.s, bodies(first))
  IN IF from = {} THEN Done(d.s, "normal", Undef)
     ELSE [r EXCEPT !.how = IF @ = "break" THEN "normal" ELSE @]

Exec(F, s, n) ==
  LET value(e) == IF e = Null THEN Result(s, Undef) ELSE Eval(F, s, e)
      after(e) == Done(value(e).s, IF value(e).s.stop = "" THEN "normal" ELSE "return", Undef)
      t == Eval(F, s, n.test)
  IN CASE n.type = "EmptyStmt" -> Done(s, "normal", Undef)
       [] n.type = "ExprStmt" -> after(n.expression)
       [] n.type = "WaitStmt" -> after(n.duration)
       [] n.type = "BlockStmt" -> ExecAll(F, s, n.body)
       [] n.type = "BreakStmt" -> Done(s, "break", Undef)
       [] n.type = "ContinueStmt" -> Done(s, "continue", Undef)
       [] n.type = "ReturnStmt" -> Done(value(n.argument).s, "return", value(n.argument).v)
       [] n.type = "IfStmt" ->
            IF t.s.stop # "" \/ ~IsTruth(t.v) THEN Done(Stop(t.s, "error"), "return", Undef)
            ELSE IF t.v.ival # 0 THEN Exec(F, t.s, n.consequent)
            ELSE IF n.alternative = Null THEN Done(t.s, "normal", Undef)
            ELSE Exec(F, t.s, n.alternative)
       [] n.type = "WhileStmt" ->
            Iterate(F, s, [test |-> n.test, body |-> n.body, update |-> Null])
       [] n.type = "ForStmt" ->
            Iterate(F, value(n.init).s, [test |-> n.test, body |-> n.body, update |-> n.update])
       [] n.type = "SwitchStmt" -> Switch(F, s, n)

\* The texts that main, called without an object, and the threads it starts
\* print, and why they stopped: "" if they returned.
Run(F) ==
  LET start == [vars |-> <<>>, heap |-> <<[of |-> <<>>, size |-> 0]>>, text |-> <<>>,
                threads |-> <<>>, fuel |-> Fuel, stop |-> ""]
      r == Invoke(F, start, "main", Undef, <<>>)
  IN [texts |-> <<r.s.text>> \o r.s.threads, stop |-> r.s.stop]
=============================================================================
