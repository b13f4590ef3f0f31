------------------------------ MODULE MCSyntax ------------------------------
(* Source texts: trees of the grammar written down, and fragments put together. *)
EXTENDS Syntax

V(name) == Identifier(name)
I(n) == Literal(Integer(n))
Global(e) == DeclaredGlobal("x", e)
Main(stmts) == DeclaredFunction("main", ASTFunction(<<"p", "q">>, BlockStmt(stmts)))

-----------------------------------------------------------------------------
(* Texts of trees *)

Backslashes(path) ==
  LET converted[i \in 0 .. Len(path)] ==
        IF i = 0 THEN ""
        ELSE converted[i - 1] \o (IF CharAt(path, i) = "/" THEN "\\" ELSE CharAt(path, i))
  IN converted[Len(path)]

Spelled(t) ==
  CASE t.type = "STRING" -> "\"" \o t.text \o "\""
    [] t.type = "FILE_REFERENCE" -> Backslashes(t.text)
    [] OTHER -> t.text

\* Two tokens that the lexer would read as one, or as the start of another.
Merges(s, u) ==
  LET next == CharAt(u, 1) IN
  \/ CharAt(s, Len(s)) \in WordChars \cup {"."} /\ next \in WordChars \cup {"."}
  \/ \E spelling \in Spellings \cup {"//", "/*", "/#"} : Starts(spelling, s \o next)

Tight == ""
RECURSIVE Joined(_, _)
Joined(tokens, separator) ==
  LET s == Spelled(tokens[1])
      between == IF separator = Tight /\ Merges(s, Spelled(tokens[2])) THEN " " ELSE separator
  IN IF Len(tokens) = 1 THEN s ELSE s \o between \o Joined(Tail(tokens), separator)

Case(declarations, separator) ==
  [text |-> Joined(Source!FileTokens(declarations), separator), meant |-> declarations]
Written(files, separators) ==
  {Case(file, separator) : file \in {f \in files : Source!IsFile(f)}, separator \in separators}
Anyhow == {Tight, " ", "/*\n*/", "//\r\n\t"}

-----------------------------------------------------------------------------
(* Expressions two operators deep *)

Two(l, r) ==
  {BinaryExpr(op, l, r) : op \in {"||", "<", "&", "-", "*"}}
  \cup {AssignmentExpr(op, l, r) : op \in {"=", "+="}}
One(e) ==
  {UnaryExpr(op, e, TRUE) : op \in {"-", "!"}}
  \cup {UnaryExpr("++", e, FALSE), GroupExpr(e), MemberExpr(e, ".", V("f")),
        MemberExpr(e, "[", I(0)), MemberExpr(V("o"), "[", e), FunctionPointerExpr(e),
        VectorExpr(<<I(0), e, V("b")>>), IfStmt(e, V("b"), I(0)), IfStmt(I(0), e, V("b")),
        IfStmt(V("b"), I(0), e), CallExpr(Null, e, <<>>, FALSE),
        CallExpr(Null, V("g"), <<e, I(2)>>, FALSE),
        CallExpr(e, V("g"), <<>>, FALSE), CallExpr(e, V("g"), <<e>>, TRUE),
        CallExpr(e, FunctionPointerExpr(e), <<I(1)>>, FALSE)}

Leaf == V("a")
Leaves ==
  {Self, StructExpr, ArrayExpr, Literal(Float(15, 10)), Literal(Interned("\\\"s")),
   Literal(Localized("t")),
   Literal(Function("f")), Literal(Function("d/e::f")), Literal(Undef), Literal(Boolean(TRUE)),
   CallExpr(Null, V("f"), <<>>, TRUE), CallExpr(Null, Literal(Function("d/e::f")), <<Leaf>>, TRUE),
   CallExpr(Leaf, FunctionPointerExpr(Leaf), <<>>, TRUE),
   CallExpr(Leaf, Literal(Function("d/e::f")), <<>>, FALSE)}
Shallow == Two(Leaf, I(1)) \cup One(Leaf)

Deep ==
  UNION {Two(l, r) : l \in Shallow, r \in Shallow}
  \cup UNION {One(e) \cup Two(e, Leaf) \cup Two(Leaf, e) : e \in Shallow \cup Leaves}

-----------------------------------------------------------------------------
(* Statements *)

Do(e) == ExprStmt(e)
SimpleStatements ==
  {EmptyStmt, BreakStmt, ContinueStmt, ReturnStmt(Null), ReturnStmt(IfStmt(Leaf, I(0), I(1))),
   WaitStmt(I(1)), WaitStmt(Null), Do(Leaf), BlockStmt(<<>>), BlockStmt(<<Do(Leaf), EmptyStmt>>)}
Around(s, t) ==
  {IfStmt(Leaf, s, Null), IfStmt(Leaf, s, t), WhileStmt(Leaf, s), ForStmt(Null, Null, Null, s),
   ForStmt(AssignmentExpr("=", Leaf, I(0)), Leaf, UnaryExpr("++", Leaf, FALSE), s),
   SwitchStmt(Leaf, <<SwitchCase(I(1), <<s, t>>), SwitchCase(Null, <<>>), SwitchCase(V("c"), <<t>>)>>)}
Compound == UNION {Around(s, Do(Leaf)) : s \in SimpleStatements}

Files ==
  {<<Global(e)>> : e \in Deep}
  \cup {<<Main(<<s>>)>> :
          s \in UNION {Around(s, t) : s \in Compound, t \in {Do(Leaf), IfStmt(Leaf, EmptyStmt, Null)}}}

\* Written in every way that separates the tokens.
Small ==
  {<<Global(e)>> : e \in Shallow \cup Leaves}
  \cup {<<Main(<<s, Do(AssignmentExpr("=", Leaf, StructExpr)), Do(CallExpr(Null, Leaf, <<>>, TRUE))>>)>> :
          s \in SimpleStatements \cup Compound}
  \cup {<<DeclaredInclude("d/e"), DeclaredAnimtree("t"), DeclaredInclude("d/e"),
          Global(Leaf), DeclaredFunction("f", ASTFunction(<<>>, BlockStmt(<<>>))), Main(<<Do(Leaf)>>)>>}

\* Texts that are not written down from their trees.
Sure(text_, e) == [text |-> text_, meant |-> <<DeclaredAnimtree("t"), Global(e)>>]
Particular ==
  {Sure("#using_animtree(\"t\"); x = " \o c[1] \o ";", c[2]) :
     c \in {<<"#animtree", Literal(Interned("t"))>>, <<"%run", Literal(Interned("run"))>>,
            <<"a%run", BinaryExpr("%", Leaf, V("run"))>>, <<"0x1f", I(31)>>, <<"007", I(7)>>,
            <<".5", Literal(Float(5, 10))>>, <<"null", Literal(Undef)>>,
            <<"f(a,)", CallExpr(Null, V("f"), <<Leaf>>, FALSE)>>}}

-----------------------------------------------------------------------------
(* Texts that may be anything *)

RECURSIVE Strings(_, _)
Strings(fragments, n) ==
  IF n = 0 THEN {""} ELSE {f \o s : f \in fragments, s \in Strings(fragments, n - 1)}

Characters ==
  {"a", "1", ".", "\"", "\\", "/", "*", "#", "\n", " ", "=", "<", "-", "for", "x"}
Operators ==
  {"b", "-", "!", "=", "?", ":", "(", ")", "[", "]", ".f", " thread ", "++", "{}", "&\"s\"", "d\\e::"}
Statements ==
  {"if(a)", "else ", "b;", "while(a)", "{", "}", "return ", "for(;;)", "a?b:c;", "switch(a){case 1:",
   "default:", "wait 1;"}
Declarations ==
  {"F(){}", "x=1;", "X=1;", "#include a\\b;", "#include \"a\";", "#define", "#\"define\"", ";",
   "#using_animtree(\"t\");", "#using_animtree(t);"}

Texts ==
  {"x=" \o s \o ";" : s \in Strings(Characters, 3)
                         \cup Strings({"\"", "\\", "/", "*", "#", "\n", "a"}, 4)}
  \cup {"x=a" \o s \o ";" : s \in Strings(Operators, 3)}
  \cup {"x=" \o u \o "a" \o o \o v \o "b" \o p \o w \o "c;" :
          u \in {"", "-"}, v \in {"", "-", "!"}, o \in {"=", "-=", "?e:", "||", "==", "+", "/"},
          p \in {"", ".f", "++", "(1)", "[0]", " g(d)"},
          w \in {"=", "?e:", "&&", "<", "-", "*"}}
  \cup {"f(){" \o s \o "}" : s \in Strings(Statements, 3)}
  \cup {s \o "f(){}" : s \in Strings(Declarations, 2)}

\* The value of the constant Cases.
SyntaxCases ==
  LET cases == Written(Files, {Tight}) \cup Written(Small, Anyhow) \cup Particular
               \cup {[text |-> s, meant |-> Unknown] : s \in Texts}
  IN cases
=============================================================================
