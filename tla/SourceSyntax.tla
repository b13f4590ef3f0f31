---------------------------- MODULE SourceSyntax ----------------------------
(***************************************************************************)
(* The syntax of the language as a grammar: which trees can be written     *)
(* down, and as which tokens.  Nothing here reads a text: an operator of   *)
(* this module goes from a tree to tokens, the parser goes back.           *)
(***************************************************************************)
EXTENDS AST, Integers, FiniteSets, TLC
LOCAL INSTANCE SequencesExt

\* The binary operators and ?, from the loosest to the tightest; what takes
\* an operand behind which nothing stands is tighter than them all.
Assignments == {"=", "/=", "*=", "%=", "<<=", ">>=", "^=", "|=", "&=", "+=", "-="}
Tiers ==
  <<Assignments, {"?"}, {"&&", "||"},
    {"<<", ">>", "<", "<=", ">", ">=", "==", "!=", "&", "|", "^"}, {"+", "-"}, {"*", "/", "%"}>>
Tightest == 100

Tier(op) == 10 * (CHOOSE k \in DOMAIN Tiers : op \in Tiers[k])

\* A prefix operator takes what is tighter than it: + and - are as tight as
\* their binary forms, so -a * b is -(a * b).
PrefixTier(op) == IF op \in {"!", "~"} THEN 70 ELSE Tier(op)

-----------------------------------------------------------------------------
(* Edges.  The tiers of the operators that a left operand lies bare under    *)
(* at the left end of an expression, and of those whose last operand is open *)
(* at the right end.  A ternary's last operand takes all that follows.       *)

RECURSIVE LeftEdge(_), RightEdge(_)

IsCall(n, threaded) == n.type = "CallExpr" /\ n.threaded = threaded

\* What stands first in the expression and takes operators behind it.
Leading(n) ==
  CASE n.type \in {"BinaryExpr", "AssignmentExpr"} -> {<<n.lhs, Tier(n.op)>>}
    [] n.type = "IfStmt" -> {<<n.test, Tier("?")>>}
    [] n.type = "MemberExpr" -> {<<n.object, Tightest>>}
    [] n.type = "UnaryExpr" /\ ~n.prefix -> {<<n.argument, Tightest>>}
    [] n.type = "CallExpr" /\ n.object # Null -> {<<n.object, Tightest>>}
    [] IsCall(n, FALSE) /\ n.object = Null -> {<<n.callee, Tightest>>}
    [] OTHER -> {}

\* The last operand, and the tier above which it takes an operator: an
\* assignment also takes its own kind.
Trailing(n) ==
  CASE n.type = "BinaryExpr" -> {<<n.rhs, Tier(n.op)>>}
    [] n.type = "AssignmentExpr" -> {<<n.rhs, Tier(n.op) - 1>>}
    [] n.type = "IfStmt" -> {<<n.alternative, 0>>}
    [] n.type = "UnaryExpr" /\ n.prefix -> {<<n.argument, PrefixTier(n.op)>>}
    [] OTHER -> {}

LeftEdge(n) == UNION {{x[2]} \cup LeftEdge(x[1]) : x \in Leading(n)}
RightEdge(n) == UNION {{x[2]} \cup RightEdge(x[1]) : x \in Trailing(n)}

\* No operand of the node takes or loses an operator of the text around it.
FitsEdges(n) ==
  /\ \A x \in Leading(n) : \A open \in RightEdge(x[1]) : open >= x[2]
  /\ \A x \in Trailing(n) : \A op \in LeftEdge(x[1]) : op > x[2]

-----------------------------------------------------------------------------
(* Tokens *)

Of(text) == <<[type |-> text, text |-> text]>>
Kind(type, text) == <<[type |-> type, text |-> text]>>
Name(name) == Kind("IDENTIFIER", name)

RECURSIVE Between(_, _)
Between(lists, separator) ==
  CASE lists = <<>> -> <<>>
    [] Len(lists) = 1 -> lists[1]
    [] OTHER -> lists[1] \o Of(separator) \o Between(Tail(lists), separator)

\* The path and the name of a function in a file; a name alone in this one.
Colons(f) == {i \in 1 .. Len(f) - 1 : SubSeq(f, i, i + 1) = "::"}
Pointer(f) ==
  IF Colons(f) = {} THEN Of("::") \o Name(f)
  ELSE LET i == CHOOSE i \in Colons(f) : TRUE IN
       Kind("FILE_REFERENCE", SubSeq(f, 1, i - 1)) \o Of("::") \o Name(SubSeq(f, i + 2, Len(f)))

\* A fraction whose denominator is a power of ten.
Decimal(q) ==
  LET places == ToString(q[2] + (q[1] % q[2]))
  IN ToString(q[1] \div q[2]) \o "." \o SubSeq(places, 2, Len(places))

LiteralTokens(v) ==
  CASE v.type = "INTEGER" -> Kind("INTEGER", ToString(v.ival))
    [] v.type = "FLOAT" -> Kind("NUMBER", Decimal(v.fval))
    [] v.type = "BOOLEAN" -> Of(IF v.ival = 1 THEN "true" ELSE "false")
    [] v.type = "UNDEFINED" -> Of("undefined")
    [] v.type = "INTERNED_STRING" -> Kind("STRING", v.sval)
    [] v.type = "LOCALIZED_STRING" -> Of("&") \o Kind("STRING", v.sval)
    [] v.type = "FUNCTION" -> Pointer(v.function)

RECURSIVE ExprTokens(_), StmtTokens(_)

ArgumentTokens(args) ==
  Of("(") \o Between([k \in DOMAIN args |-> ExprTokens(args[k])], ",") \o Of(")")

ExprTokens(n) ==
  CASE n.type = "Literal" -> LiteralTokens(n.value)
    [] n.type = "Identifier" -> Name(n.name)
    [] n.type = "Self" -> Of("self")
    [] n.type = "StructExpr" -> Of("{") \o Of("}")
    [] n.type = "ArrayExpr" -> Of("[") \o Of("]")
    [] n.type = "GroupExpr" -> Of("(") \o ExprTokens(n.expression) \o Of(")")
    [] n.type = "VectorExpr" -> ArgumentTokens(n.elements)
    [] n.type = "FunctionPointerExpr" ->
         Of("[") \o Of("[") \o ExprTokens(n.expression) \o Of("]") \o Of("]")
    [] n.type = "UnaryExpr" /\ n.prefix -> Of(n.op) \o ExprTokens(n.argument)
    [] n.type = "UnaryExpr" /\ ~n.prefix -> ExprTokens(n.argument) \o Of(n.op)
    [] n.type \in {"BinaryExpr", "AssignmentExpr"} ->
         ExprTokens(n.lhs) \o Of(n.op) \o ExprTokens(n.rhs)
    [] n.type = "IfStmt" ->
         ExprTokens(n.test) \o Of("?") \o ExprTokens(n.consequent) \o Of(":")
           \o ExprTokens(n.alternative)
    [] n.type = "MemberExpr" ->
         ExprTokens(n.object) \o Of(n.op) \o ExprTokens(n.prop)
           \o (IF n.op = "[" THEN Of("]") ELSE <<>>)
    [] n.type = "CallExpr" ->
         (IF n.object = Null THEN <<>> ELSE ExprTokens(n.object))
           \o (IF n.threaded THEN Of("thread") ELSE <<>>)
           \o ExprTokens(n.callee) \o ArgumentTokens(n.arguments)

Optional(n) == IF n = Null THEN <<>> ELSE ExprTokens(n)
StmtsTokens(stmts) == FlattenSeq([k \in DOMAIN stmts |-> StmtTokens(stmts[k])])
CaseTokens(c) ==
  (IF c.test = Null THEN Of("default") ELSE Of("case") \o ExprTokens(c.test))
    \o Of(":") \o StmtsTokens(c.consequent)

StmtTokens(n) ==
  CASE n.type = "EmptyStmt" -> Of(";")
    [] n.type = "BreakStmt" -> Of("break") \o Of(";")
    [] n.type = "ContinueStmt" -> Of("continue") \o Of(";")
    [] n.type = "ExprStmt" -> ExprTokens(n.expression) \o Of(";")
    [] n.type = "BlockStmt" -> Of("{") \o StmtsTokens(n.body) \o Of("}")
    [] n.type = "ReturnStmt" -> Of("return") \o Optional(n.argument) \o Of(";")
    [] n.type = "WaitStmt" ->
         (IF n.duration = Null THEN Of("waittillframeend") ELSE Of("wait") \o Optional(n.duration))
           \o Of(";")
    [] n.type = "IfStmt" ->
         Of("if") \o ArgumentTokens(<<n.test>>) \o StmtTokens(n.consequent)
           \o (IF n.alternative = Null THEN <<>> ELSE Of("else") \o StmtTokens(n.alternative))
    [] n.type = "WhileStmt" ->
         Of("while") \o ArgumentTokens(<<n.test>>) \o StmtTokens(n.body)
    [] n.type = "ForStmt" ->
         Of("for") \o Of("(") \o Optional(n.init) \o Of(";") \o Optional(n.test) \o Of(";")
           \o Optional(n.update) \o Of(")") \o StmtTokens(n.body)
    [] n.type = "SwitchStmt" ->
         Of("switch") \o ArgumentTokens(<<n.discriminant>>) \o Of("{")
           \o FlattenSeq([k \in DOMAIN n.cases |-> CaseTokens(n.cases[k])]) \o Of("}")

DeclarationTokens(d) ==
  CASE d.kind = "include" ->
         Of("#") \o Name("include") \o Kind("FILE_REFERENCE", d.path) \o Of(";")
    [] d.kind = "animtree" ->
         Of("#") \o Name("using_animtree") \o Of("(") \o Kind("STRING", d.tree) \o Of(")") \o Of(";")
    [] d.kind = "function" ->
         Name(d.name)
           \o Of("(") \o Between([k \in DOMAIN d.function.parameters |->
                                   Name(d.function.parameters[k])], ",") \o Of(")")
           \o StmtTokens(d.function.body)
    [] d.kind = "global" -> Name(d.name) \o Of("=") \o ExprTokens(d.expression) \o Of(";")

FileTokens(declarations) ==
  FlattenSeq([k \in DOMAIN declarations |-> DeclarationTokens(declarations[k])])

-----------------------------------------------------------------------------
(* The grammar *)

RECURSIVE IsExpression(_), IsStatement(_)

AreExpressions(list) == \A k \in DOMAIN list : IsExpression(list[k])
AreStatements(list) == \A k \in DOMAIN list : IsStatement(list[k])
IsOptional(n) == n = Null \/ IsExpression(n)

First(tokens) == tokens[1].type

\* Between an object, or thread, and the arguments stands the name of a
\* function, of this file or another, or a pointer in double brackets.
IsNamed(callee) ==
  \/ callee.type = "Identifier"
  \/ callee.type = "Literal" /\ First(ExprTokens(callee)) = "FILE_REFERENCE"
  \/ callee.type = "FunctionPointerExpr" /\ IsExpression(callee.expression)

IsExpression(n) ==
  /\ FitsEdges(n)
  /\ CASE n.type \in {"Literal", "Identifier", "Self", "StructExpr", "ArrayExpr"} -> TRUE
       [] n.type \in {"GroupExpr", "FunctionPointerExpr"} -> IsExpression(n.expression)
       [] n.type = "VectorExpr" -> Len(n.elements) = 3 /\ AreExpressions(n.elements)
       [] n.type = "UnaryExpr" ->
            /\ IsExpression(n.argument)
            /\ n.op \in (IF n.prefix THEN {"+", "-", "!", "~"} ELSE {"++", "--"})
       [] n.type \in {"BinaryExpr", "AssignmentExpr"} ->
            /\ IsExpression(n.lhs) /\ IsExpression(n.rhs)
            /\ n.op \in Assignments <=> n.type = "AssignmentExpr"
       [] n.type = "IfStmt" -> AreExpressions(<<n.test, n.consequent, n.alternative>>)
       [] n.type = "MemberExpr" ->
            /\ IsExpression(n.object) /\ IsExpression(n.prop)
            /\ IF n.op = "." THEN n.prop.type = "Identifier"
                             ELSE First(ExprTokens(n.prop)) # "["   \* else a method pointer
       [] n.type = "CallExpr" ->
            /\ IsOptional(n.object) /\ AreExpressions(n.arguments)
            /\ IF n.object # Null \/ n.threaded THEN IsNamed(n.callee) ELSE IsExpression(n.callee)
       [] OTHER -> FALSE

\* Statements that would take an else behind them.
RECURSIVE TakesElse(_)
TakesElse(n) ==
  CASE n.type = "IfStmt" -> n.alternative = Null \/ TakesElse(n.alternative)
    [] n.type \in {"WhileStmt", "ForStmt"} -> TakesElse(n.body)
    [] OTHER -> FALSE

IsStatement(n) ==
  CASE n.type \in {"EmptyStmt", "BreakStmt", "ContinueStmt"} -> TRUE
    [] n.type = "ExprStmt" ->
         IsExpression(n.expression) /\ First(ExprTokens(n.expression)) # "{"
    [] n.type = "BlockStmt" -> AreStatements(n.body)
    [] n.type = "ReturnStmt" -> IsOptional(n.argument)
    [] n.type = "WaitStmt" -> IsOptional(n.duration)
    [] n.type = "IfStmt" ->
         /\ IsExpression(n.test) /\ IsStatement(n.consequent)
         /\ n.alternative # Null => IsStatement(n.alternative) /\ ~TakesElse(n.consequent)
    [] n.type = "WhileStmt" -> IsExpression(n.test) /\ IsStatement(n.body)
    [] n.type = "ForStmt" ->
         /\ IsOptional(n.init) /\ IsOptional(n.test) /\ IsOptional(n.update)
         /\ IsStatement(n.body)
    [] n.type = "SwitchStmt" ->
         /\ IsExpression(n.discriminant)
         /\ \A k \in DOMAIN n.cases :
              IsOptional(n.cases[k].test) /\ AreStatements(n.cases[k].consequent)
    [] OTHER -> FALSE

IsDeclaration(d) ==
  CASE d.kind = "function" -> d.function.body.type = "BlockStmt" /\ IsStatement(d.function.body)
    [] d.kind = "global" -> IsExpression(d.expression)
    [] OTHER -> TRUE

IsFile(declarations) == \A k \in DOMAIN declarations : IsDeclaration(declarations[k])
=============================================================================
