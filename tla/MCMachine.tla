------------------------------ MODULE MCMachine ------------------------------
(* Families of programs for the machine, built from templates. *)
EXTENDS MachineCorrectness

\* The value of the constant Cases.
CompiledPrograms == LET cases == {CaseOf(prog) : prog \in Programs} IN cases

I(n) == Literal(Integer(n))
T(s) == Literal(Interned(s))
V(name) == Identifier(name)
Bin(l, op, r) == BinaryExpr(op, l, r)
Set(l, e) == ExprStmt(AssignmentExpr("=", l, e))
Inc(l) == ExprStmt(UnaryExpr("++", l, FALSE))
CallOf(f, args) == CallExpr(Null, V(f), args, FALSE)
Do(f, args) == ExprStmt(CallOf(f, args))
Spawn(f, args) == ExprStmt(CallExpr(Null, V(f), args, TRUE))
Method(o, f, args) == CallExpr(o, V(f), args, FALSE)
Say(e) == Do("print", <<e>>)
Dot(o, name) == MemberExpr(o, ".", V(name))
At_(o, e) == MemberExpr(o, "[", e)
If(e, s) == IfStmt(e, s, Null)
FP(f) == Literal(Function(f))

Main(body) == ASTFunction(<<>>, BlockStmt(body))
Fun(names, body) == ASTFunction(names, BlockStmt(body))
Only(body) == [main |-> Main(body)]

-----------------------------------------------------------------------------
(* Control: every pair of statements from Body as the body of a loop. *)

x == V("x")
i == V("i")
LitUpTo(n) == {I(k) : k \in 0 .. n}
Up(v, n, body) == ForStmt(AssignmentExpr("=", v, I(0)), Bin(v, "<", I(n)),
                          UnaryExpr("++", v, FALSE), body)

Choose(e, yes, no) == SwitchStmt(e, <<SwitchCase(I(0), yes), SwitchCase(I(1), no),
                                      SwitchCase(Null, <<Say(T("d"))>>)>>)

Leaves == {BreakStmt, ContinueStmt, ReturnStmt(I(1))}

\* Statements that run to their end or leave the loop around them.
Body ==
  {Say(i), Inc(x), EmptyStmt}
  \cup Leaves
  \cup {If(Bin(i, "==", I(1)), s) : s \in Leaves}
  \cup {IfStmt(Bin(i, "&&", x), Say(T("y")), Say(T("n"))),
        If(Bin(i, "||", x), BlockStmt(<<Say(T("o")), ContinueStmt>>))}
  \cup {Choose(i, <<s>>, <<Say(T("a")), BreakStmt>>) : s \in Leaves}
  \cup {Choose(x, <<Inc(x)>>, <<Choose(i, <<BreakStmt>>, <<Say(T("b"))>>), Say(T("c"))>>)}

\* Loops inside the loop.
Inner ==
  {Up(V("j"), 2, If(Bin(V("j"), "==", i), s)) : s \in {BreakStmt, ContinueStmt}}
  \cup {ForStmt(Null, Null, Null, BlockStmt(<<Say(x), BreakStmt>>)),
        WhileStmt(Bin(x, "<", I(2)), BlockStmt(<<Inc(x), If(Bin(x, "==", i), ContinueStmt), Say(x)>>)),
        WhileStmt(Bin(x, "<", I(2)), Choose(x, <<Inc(x), BreakStmt>>, <<ReturnStmt(x)>>))}

\* A switch with a continue in it must not be followed by a loop: see SwitchPrograms.
Continues(s) == s.type = "SwitchStmt" /\ \E k \in DOMAIN s.cases :
                  \E l \in DOMAIN s.cases[k].consequent :
                    s.cases[k].consequent[l].type = "ContinueStmt"
Pairs == {<<a, b>> \in (Body \X (Body \cup Inner)) \cup (Inner \X Body) :
            ~(Continues(a) /\ b \in Inner)}

LoopPrograms ==
  {Only(<<Set(x, I(0)), Up(i, 2, BlockStmt(<<p[1], p[2], Say(x)>>)), Say(T("end"))>>) : p \in Pairs}
  \cup {Only(<<Set(x, I(0)), Set(i, I(0)),
               WhileStmt(Bin(i, "<", I(2)), BlockStmt(<<Inc(i), p[1], p[2]>>)), Say(x)>>) : p \in Pairs}

-----------------------------------------------------------------------------
(* Expressions: what a test or print makes of every small one, with the      *)
(* order of evaluation shown by a function that prints its argument.         *)

Tell(k) == CallOf("tell", <<I(k)>>)
Atoms == {Tell(0), Tell(1), x, T("s")}
Small == Atoms
  \cup {Bin(a, op, b) : a \in Atoms, b \in Atoms, op \in {"&&", "||", "+", "<"}}
  \cup {UnaryExpr(op, a, TRUE) : op \in {"!", "~"}, a \in Atoms}
  \cup {IfStmt(a, b, I(7)) : a \in Atoms, b \in Atoms}
Exprs == Small
  \cup {Bin(a, op, GroupExpr(b)) : a \in {Tell(2), x}, b \in Small, op \in {"&&", "||", "-"}}
  \cup {AssignmentExpr(op, x, a) : op \in {"=", "+=", "*="}, a \in Small}
  \cup {UnaryExpr("++", x, FALSE), UnaryExpr("--", x, FALSE)}

ExprPrograms ==
  {[main |-> Main(<<Set(x, v), Say(e), Say(x), If(e, Say(T("yes"))), Say(x)>>),
    tell |-> Fun(<<"n">>, <<Say(V("n")), ReturnStmt(V("n"))>>)] :
     v \in {I(0), T("t")}, e \in Exprs}

-----------------------------------------------------------------------------
(* Data: fields, globals, vectors, strings. *)

o == V("o")
g == V("g")   \* a global
Places == {x, g, Dot(o, "a"), Dot(Dot(o, "a"), "b"), At_(o, I(0)), At_(o, Bin(T("a"), "+", I(0))),
           Dot(g, "a")}
DataPrograms ==
  {Only(<<Set(o, v), Set(p, I(1)), ExprStmt(AssignmentExpr("+=", p, I(2))), Inc(p),
          Set(q, p), Say(p), Say(q), Say(Dot(o, "size")), Say(g)>>) :
     p \in Places, q \in Places, v \in {StructExpr, I(3), V("u")}}
  \cup {Only(<<Set(x, VectorExpr(<<I(1), e, I(2)>>)),
               If(Bin(x, "==", VectorExpr(<<I(1), I(0), I(2)>>)), Say(T("same"))),
               Say(Bin(At_(x, I(2)), "==", I(2)))>>) : e \in {I(0), I(1), StructExpr}}
  \cup {Only(<<Set(x, Bin(T("ab"), "+", T("c"))), Say(At_(x, I(k))), Say(Dot(x, "size"))>>) :
          k \in 0 .. 2}

-----------------------------------------------------------------------------
(* Calls: arguments, self, function pointers, recursion. *)

ab == <<Say(Self), Say(V("a")), Say(V("b")), Set(V("a"), I(9)), ReturnStmt(V("b"))>>
Arguments == {<<>>, <<I(1)>>, <<I(1), I(2)>>, <<I(1), Tell(2), I(3)>>}
Callees(args) ==
  {CallOf("f", args), CallExpr(Null, FunctionPointerExpr(FP("f")), args, FALSE),
   Method(T("me"), "f", args), CallExpr(Null, Dot(o, "f"), args, FALSE),
   Bin(I(1), "+", CallOf("f", args)), CallOf("f", <<CallOf("f", args), Tell(3)>>)}

CallPrograms ==
  {[main |-> Main(<<Set(o, StructExpr), Set(Dot(o, "f"), FP("f")), Set(V("a"), I(5)),
                    Say(call), Say(V("a"))>>),
    f |-> Fun(names, ab),
    tell |-> Fun(<<"n">>, <<Say(V("n")), ReturnStmt(V("n"))>>)] :
     call \in UNION {Callees(args) : args \in Arguments},
     names \in {<<>>, <<"a">>, <<"a", "b">>}}
  \cup {[main |-> Main(<<Say(CallOf("r", <<I(n)>>))>>),
         r |-> Fun(<<"n">>, <<If(Bin(V("n"), "<", I(1)), ReturnStmt(I(0))),
                              ReturnStmt(Bin(V("n"), "+", CallOf("r", <<Bin(V("n"), "-", I(1))>>)))>>)] :
          n \in 0 .. 2}
SequentialPrograms == LoopPrograms \cup ExprPrograms \cup DataPrograms \cup CallPrograms

-----------------------------------------------------------------------------
(* Threads that do not share data and wait only between statements. *)

Wait == WaitStmt(I(1))
WaitFrame == WaitStmt(Null)
Thread(f, args) == CallExpr(Null, V(f), args, TRUE)
Starts ==
  {Spawn("f", <<I(1)>>), Spawn("f", <<>>), Set(x, Thread("f", <<I(1), I(2)>>)),
   ExprStmt(CallExpr(T("me"), V("f"), <<I(1)>>, TRUE)),
   ExprStmt(CallExpr(Null, FunctionPointerExpr(FP("f")), <<T("q")>>, TRUE)), Do("f", <<I(1)>>)}

Waiter == <<Say(V("a")), Wait, Say(Bin(V("a"), "==", I(1))), ReturnStmt(I(5))>>
Ticker == <<Up(i, 2, BlockStmt(<<Say(i), WaitFrame>>)), Say(Self)>>
Parent_body == <<Spawn("h", <<V("a")>>), Wait, Say(V("b"))>>

Threaded(body, f) ==
  [main |-> Main(<<Set(x, I(0))>> \o body),
   f |-> Fun(<<"a", "b">>, f), h |-> Fun(<<"a">>, <<Wait, Say(T("h"))>>)]

ThreadPrograms ==
  {Threaded(<<a, Wait, b, Say(Self)>>, Waiter) : a \in Starts, b \in Starts}
  \cup {Threaded(<<a, Wait, a, Say(Self)>>, Ticker) : a \in Starts}
  \cup {Threaded(<<a, Say(x), WaitFrame, Do("h", <<>>)>>, Parent_body) : a \in Starts}

AllPrograms == SequentialPrograms \cup ThreadPrograms

-----------------------------------------------------------------------------
(* Events; h is what the host calls at any time. *)

On(obj, f, args) == ExprStmt(Method(obj, f, args))
Waits == {<<On(g, "waittill", <<T("e"), V("a"), V("b")>>), Say(V("a"))>>,
          <<Do("u", <<>>), On(g, "waittill", <<T("e"), V("b")>>), Say(V("b")), ReturnStmt(V("b"))>>,
          <<On(g, "endon", <<T("k")>>), On(g, "waittill", <<T("e"), V("last")>>)>>}
Signals == {On(g, "notify", <<T("e"), I(7)>>), On(g, "notify", <<T("k")>>), Wait, Do("u", <<>>)}

EventPrograms ==
  {[main |-> Main(<<Set(g, StructExpr), Spawn("f", <<I(1)>>), p[1], p[2]>>),
    f |-> Fun(<<"a">>, body),
    u |-> Fun(<<>>, <<Set(x, I(1))>>),
    h |-> Fun(<<>>, <<On(g, "notify", <<T("e"), I(8)>>)>>)] :
      p \in Signals \X Signals, body \in Waits}
  \cup {[main |-> Main(<<Do("f", <<CallOf("w", <<>>), Thread("print", <<I(1)>>), I(1), I(2), I(3)>>)>>),
         f |-> Fun(<<>>, <<>>),
         w |-> Fun(<<>>, <<Wait>>),
         h |-> Fun(<<>>, <<>>)]}

-----------------------------------------------------------------------------
(* One program for each place where the code goes its own way. *)

\* A thread returns while its creator waits in the middle of an expression.
ClobberPrograms ==
  {[main |-> Main(<<Spawn("f", <<>>), Say(Bin(I(1), "+", CallOf("w", <<>>)))>>),
    f |-> Fun(<<>>, <<Wait, ReturnStmt(I(9))>>),
    w |-> Fun(<<>>, <<Wait, Wait, ReturnStmt(I(2))>>)]}

\* A continue in a switch, and a loop after the switch.
SwitchPrograms ==
  {Only(<<Set(x, I(0)),
          Up(i, 2, BlockStmt(<<Choose(x, <<ContinueStmt>>, <<BreakStmt>>),
                               Up(V("j"), 1, Say(T("j")))>>)),
          Say(T("end"))>>)}
=============================================================================
