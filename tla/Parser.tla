------------------------------- MODULE Parser -------------------------------
(***************************************************************************)
(* The parser (parse.c) with its operator precedence expressions           *)
(* (precedence.c), on the tokens that the lexer has left.                  *)
(*                                                                         *)
(* A function of the parser is an operator that takes the tokens not yet   *)
(* read and returns a node and the tokens behind it.  lexer_error leaves   *)
(* the parser by longjmp: no token is left then, not even the end of the   *)
(* file, and what is parsed from there on is dropped.                      *)
(***************************************************************************)
EXTENDS Lexer, AST, Values

VARIABLES
  rest,       \* the tokens from parser->token on, the end of the file last
  declared,   \* what the file has declared so far, in order
  animtree,
  status      \* "lexing", "parsing", "done", "error" or "exit"

parservars == <<rest, declared, animtree, status>>

Parsed(node, s) == [node |-> node, rest |-> s]
Raised == <<>>

\* Goes on with the node and the tokens behind it.
With(parsed, Go(_, _)) == Go(parsed.node, parsed.rest)

Token(s) == IF s = Raised THEN [type |-> "ERROR", text |-> ""] ELSE s[1]
Type(s) == Token(s).type
step(s) == IF Len(s) > 1 THEN Tail(s) ELSE s   \* at the end it stays there

advance(s, type) == IF Type(s) = type THEN step(s) ELSE Raised
advance2(s, type) == advance(advance(s, type), type)

\* convert_backslash, and the loop of #include.
convert_backslash(path) ==
  LET converted[i \in 0 .. Len(path)] ==
        IF i = 0 THEN ""
        ELSE converted[i - 1] \o (IF CharAt(path, i) = "\\" THEN "/" ELSE CharAt(path, i))
  IN converted[Len(path)]

\* LOCALIZED_STRING is a type of literals, not of values.
Localized(s) == [type |-> "LOCALIZED_STRING", sval |-> s]

-----------------------------------------------------------------------------
(* Expressions.  precedence and associativity are operator_table. *)

precedence(type) ==
  CASE type \in {"=", "/=", "*=", "%=", "<<=", ">>=", "^=", "|=", "&=", "+=", "-="} -> 10
    [] type = "?" -> 20
    [] type \in {"&&", "||"} -> 30
    [] type \in {"<<", ">>", "<", "<=", ">", ">=", "==", "!=", "&", "|", "^"} -> 40
    [] type \in {"+", "-"} -> 50
    [] type \in {"*", "/", "%"} -> 60
    [] type \in {"!", "~"} -> 70
    [] type \in {"(", "[", "{", ".", "++", "--", "IDENTIFIER", "self", "FILE_REFERENCE",
                 "thread"} -> 80
    [] OTHER -> 0

\* Mutant: assignments associate to the left.
BugRightAssociative(type) == precedence(type) \in {20, 70}

RightAssociative(type) == precedence(type) \in {10, 20, 70}

next_precedence(type) ==
  IF RightAssociative(type) THEN precedence(type) - 1 ELSE precedence(type)

RECURSIVE parse_expression(_, _), parse_nud(_, _), parse_led(_, _, _), operators(_, _, _),
          call_arguments(_, _)

expression(s) == parse_expression(s, 0)

parse_expression(s, binding) ==
  With(parse_nud(Token(s), step(s)), LAMBDA left, r : operators(left, r, binding))

\* The loop: operators that bind more tightly than what stands before left.
operators(left, s, binding) ==
  IF binding < precedence(Type(s))
  THEN With(parse_led(left, Token(s), step(s)), LAMBDA led, r : operators(led, r, binding))
  ELSE Parsed(left, s)

\* An expression between what has been read and a closing token.
closed(s, type) == With(expression(s), LAMBDA e, r : Parsed(e, advance(r, type)))
brackets(s) ==
  With(expression(s), LAMBDA e, r : Parsed(FunctionPointerExpr(e), advance2(r, "]")))

\* The name of a function in another file.
in_file(t, s) ==
  LET f == convert_backslash(t.text) \o "::" \o Token(step(s)).text IN
  Parsed(Literal(Function(f)), advance(advance(s, "::"), "IDENTIFIER"))

\* parse_function_name, with the token that the caller has read and without one.
function_name_of(t, s) ==
  IF t.type = "FILE_REFERENCE" THEN in_file(t, s) ELSE Parsed(Identifier(t.text), s)
parse_function_name(s) ==
  CASE Type(s) = "[" -> brackets(advance2(s, "["))
    [] Type(s) = "FILE_REFERENCE" -> in_file(Token(s), step(s))
    [] OTHER -> Parsed(Identifier(Token(s).text), advance(s, "IDENTIFIER"))

MaxArguments == 32

\* A comma may stand behind the last argument.
call_arguments(args, s) ==
  IF Type(s) = ")" THEN Parsed(args, step(s))
  ELSE With(expression(s), LAMBDA e, r :
         CASE Len(args) = MaxArguments -> Parsed(args, Raised)
           [] Len(args) # MaxArguments /\ Type(r) = "," -> call_arguments(Append(args, e), step(r))
           [] OTHER -> Parsed(Append(args, e), advance(r, ")")))

call_expression(object, callee, s, threaded) ==
  With(call_arguments(<<>>, s), LAMBDA args, r :
    Parsed(CallExpr(object, callee, args, threaded), r))

\* A callee and the arguments in parentheses.
call_of(object, callee, threaded) ==
  With(callee, LAMBDA f, r : call_expression(object, f, advance(r, "("), threaded))

nud_literal(t, s) ==
  LET quoted(make(_), type) == Parsed(Literal(make(Token(s).text)), advance(s, type)) IN
  CASE t.type = "&" -> quoted(Localized, "STRING")
    [] t.type = "::" -> quoted(Function, "IDENTIFIER")
    [] t.type = "%" -> quoted(Interned, "IDENTIFIER")
    [] t.type = "IDENTIFIER" -> Parsed(Identifier(t.text), s)
    [] t.type \in {"true", "false"} -> Parsed(Literal(Boolean(t.type = "true")), s)
    [] t.type \in {"null", "undefined"} -> Parsed(Literal(Undef), s)
    [] t.type = "INTEGER" -> Parsed(Literal(Integer(lexer_token_read_int(t.text))), s)
    [] t.type = "NUMBER" ->
         LET value == lexer_token_read_float(t.text) IN
         Parsed(Literal(Float(value[1], value[2])), s)
    [] t.type = "STRING" -> Parsed(Literal(Interned(t.text)), s)

\* A brace that is not closed at once opens an empty struct all the same, and
\* so does a bracket with an array.
nud_struct(s) == Parsed(StructExpr, IF Type(s) = "}" THEN step(s) ELSE s)
nud_array(s) ==
  IF Type(s) = "[" THEN brackets(step(s))
  ELSE Parsed(ArrayExpr, IF Type(s) = "]" THEN step(s) ELSE s)

nud_group(s) ==
  With(expression(s), LAMBDA x, r :
    IF Type(r) # "," THEN Parsed(GroupExpr(x), advance(r, ")"))
    ELSE With(expression(step(r)), LAMBDA y, r2 :
         With(closed(advance(r2, ","), ")"), LAMBDA z, r3 :
           Parsed(VectorExpr(<<x, y, z>>), r3))))

nud_unary(t, s) ==
  IF t.type = "#"
  THEN Parsed(Literal(Interned(animtree)),
              IF Token(s).text = "animtree" THEN advance(s, "IDENTIFIER") ELSE Raised)
  ELSE With(parse_expression(s, precedence(t.type)), LAMBDA e, r :
         Parsed(UnaryExpr(t.type, e, TRUE), r))

parse_nud(t, s) ==
  CASE t.type \in {"&", "::", "%", "IDENTIFIER", "true", "false", "null", "undefined",
                   "INTEGER", "NUMBER", "STRING"} -> nud_literal(t, s)
    [] t.type = "self" -> Parsed(Self, s)
    [] t.type = "FILE_REFERENCE" -> in_file(t, s)
    [] t.type = "thread" -> call_of(Null, parse_function_name(s), TRUE)
    [] t.type = "(" -> nud_group(s)
    [] t.type = "[" -> nud_array(s)
    [] t.type = "{" -> nud_struct(s)
    [] t.type \in {"#", "+", "-", "!", "~"} -> nud_unary(t, s)
    [] OTHER -> Parsed(Null, Raised)

led_binary(left, t, s) ==
  With(parse_expression(s, next_precedence(t.type)), LAMBDA e, r :
    Parsed(IF precedence(t.type) = 10 THEN AssignmentExpr(t.type, left, e)
                                      ELSE BinaryExpr(t.type, left, e), r))

led_ternary(left, s) ==
  With(closed(s, ":"), LAMBDA yes, r :
  With(expression(r), LAMBDA no, r2 : Parsed(IfStmt(left, yes, no), r2)))

led_member(left, s) ==
  With(parse_expression(s, next_precedence(".")), LAMBDA e, r :
    Parsed(MemberExpr(left, ".", e), IF Type(s) = "IDENTIFIER" THEN r ELSE Raised))

led_bracket(left, s) ==
  IF Type(s) = "[" THEN call_of(left, brackets(step(s)), FALSE)
  ELSE With(closed(s, "]"), LAMBDA e, r : Parsed(MemberExpr(left, "[", e), r))

parse_led(left, t, s) ==
  CASE precedence(t.type) \in {10, 30, 40, 50, 60} -> led_binary(left, t, s)
    [] t.type = "?" -> led_ternary(left, s)
    [] t.type = "(" -> call_expression(Null, left, s, FALSE)
    [] t.type = "[" -> led_bracket(left, s)
    [] t.type = "." -> led_member(left, s)
    [] t.type \in {"++", "--"} -> Parsed(UnaryExpr(t.type, left, FALSE), s)
    [] t.type \in {"IDENTIFIER", "FILE_REFERENCE"} ->
         call_of(left, function_name_of(t, s), FALSE)
    [] t.type = "thread" -> call_of(left, parse_function_name(s), TRUE)
    [] OTHER -> Parsed(Null, Raised)

-----------------------------------------------------------------------------
(* Statements *)

RECURSIVE statement(_), statements(_, _, _), switch_cases(_, _)

\* A child that may be missing before the token.
optional(s, type) ==
  IF Type(s) = type THEN Parsed(Null, step(s)) ELSE closed(s, type)

condition(s) == closed(advance(step(s), "("), ")")

\* The statements up to one of the tokens.
statements(done, s, ends) ==
  IF Type(s) \in ends \cup {"ERROR"} THEN Parsed(done, s)
  ELSE With(statement(s), LAMBDA stmt, r : statements(Append(done, stmt), r, ends))

block(s) ==
  With(statements(<<>>, s, {"}"}), LAMBDA body, r : Parsed(BlockStmt(body), advance(r, "}")))

for_statement(s) ==
  With(optional(advance(step(s), "("), ";"), LAMBDA init, r :
  With(optional(r, ";"), LAMBDA test, r2 :
  With(optional(r2, ")"), LAMBDA update, r3 :
  With(statement(r3), LAMBDA body, r4 : Parsed(ForStmt(init, test, update, body), r4)))))

case_label(s) ==
  IF Type(s) = "default" THEN Parsed(Null, advance(step(s), ":"))
                         ELSE closed(advance(s, "case"), ":")
switch_cases(done, s) ==
  IF Type(s) \in {"}", "ERROR"} THEN Parsed(done, advance(s, "}"))
  ELSE With(case_label(s), LAMBDA test, r :
       With(statements(<<>>, r, {"default", "case", "}"}), LAMBDA body, r2 :
         switch_cases(Append(done, SwitchCase(test, body)), r2)))

switch_statement(s) ==
  With(condition(s), LAMBDA e, r :
  With(switch_cases(<<>>, advance(r, "{")), LAMBDA cases, r2 : Parsed(SwitchStmt(e, cases), r2)))

while_statement(s) ==
  With(condition(s), LAMBDA test, r :
  With(statement(r), LAMBDA body, r2 : Parsed(WhileStmt(test, body), r2)))

\* Mutant: an else is only seen behind a block.
BugElseFollows(yes, s) == Type(s) = "else" /\ yes.type = "BlockStmt"

else_follows(yes, s) == Type(s) = "else"
if_statement(s) ==
  With(condition(s), LAMBDA test, r :
  With(statement(r), LAMBDA yes, r2 :
    IF else_follows(yes, r2)
    THEN With(statement(step(r2)), LAMBDA no, r3 : Parsed(IfStmt(test, yes, no), r3))
    ELSE Parsed(IfStmt(test, yes, Null), r2)))

statement(s) ==
  LET simple(node) == Parsed(node, advance(step(s), ";"))
      with(make(_), parsed) == With(parsed, LAMBDA e, r : Parsed(make(e), r))
  IN CASE Type(s) = "{" -> block(step(s))
       [] Type(s) = ";" -> Parsed(EmptyStmt, step(s))
       [] Type(s) = "while" -> while_statement(s)
       [] Type(s) = "for" -> for_statement(s)
       [] Type(s) = "break" -> simple(BreakStmt)
       [] Type(s) = "continue" -> simple(ContinueStmt)
       [] Type(s) = "waittillframeend" -> simple(WaitStmt(Null))
       [] Type(s) = "wait" -> with(WaitStmt, closed(step(s), ";"))
       [] Type(s) = "switch" -> switch_statement(s)
       [] Type(s) = "return" -> with(ReturnStmt, optional(step(s), ";"))
       [] Type(s) = "if" -> if_statement(s)
       [] OTHER -> with(ExprStmt, closed(s, ";"))

-----------------------------------------------------------------------------
(* Declarations: one turn of the loop in parse *)

DeclaredInclude(path) == [kind |-> "include", path |-> path]
DeclaredAnimtree(tree) == [kind |-> "animtree", tree |-> tree]
DeclaredFunction(name, fn) == [kind |-> "function", name |-> name, function |-> fn]
DeclaredGlobal(name, e) == [kind |-> "global", name |-> name, expression |-> e]

Uppers == "ABCDEFGHIJKLMNOPQRSTUVWXYZ"
Lowers == "abcdefghijklmnopqrstuvwxyz"
tolower(ch) ==
  IF Find(Uppers, ch) = {} THEN ch ELSE CharAt(Lowers, Least(Find(Uppers, ch)))
SameName(m, n) ==
  Len(m) = Len(n) /\ \A i \in 1 .. Len(m) : tolower(CharAt(m, i)) = tolower(CharAt(n, i))

IsDeclared(kind, name) ==
  \E i \in DOMAIN declared : declared[i].kind = kind /\ SameName(declared[i].name, name)

Parsing(type) == status = "parsing" /\ Type(rest) = type

\* The loop goes on behind a declaration unless lexer_error has been called.
Declare(parsed) ==
  LET s == parsed.rest IN
  /\ status' = IF s = Raised THEN "error" ELSE status
  /\ rest' = s
  /\ declared' = IF s = Raised THEN declared ELSE Append(declared, parsed.node)

IsDirective(name) == Token(step(rest)).text = name

\* string() takes the text first and then asks for the type.
Directive == advance(step(rest), "IDENTIFIER")

Include ==
  /\ Parsing("#") /\ IsDirective("include")
  /\ Declare(Parsed(DeclaredInclude(convert_backslash(Token(Directive).text)),
                    advance(advance(Directive, "FILE_REFERENCE"), ";")))
  /\ UNCHANGED animtree

UsingAnimtree ==
  /\ Parsing("#") /\ IsDirective("using_animtree")
  /\ LET tree == advance(Directive, "(")
         behind == advance(tree, "STRING")
     IN /\ Declare(Parsed(DeclaredAnimtree(Token(tree).text), advance(advance(behind, ")"), ";")))
        /\ animtree' = IF behind = Raised THEN animtree ELSE Token(tree).text

\* A directive that is none of these ends the process, if it is a name at all.
InvalidDirective ==
  /\ Parsing("#") /\ ~IsDirective("include") /\ ~IsDirective("using_animtree")
  /\ status' = IF Directive = Raised THEN "error" ELSE "exit"
  /\ UNCHANGED <<rest, declared, animtree>>

RECURSIVE parameters(_, _)
parameters(names, s) ==
  LET more == Append(names, Token(s).text)
      behind == advance(s, "IDENTIFIER")
  IN IF Type(behind) = "," THEN parameters(more, step(behind)) ELSE Parsed(more, behind)

Unless(defined, s) == IF defined THEN Raised ELSE s

\* The tokens from the opening parenthesis on.
function_definition(name, s) ==
  With(IF Type(step(s)) = ")" THEN Parsed(<<>>, step(s)) ELSE parameters(<<>>, step(s)),
    LAMBDA names, r :
      With(block(advance(advance(r, ")"), "{")), LAMBDA body, r2 :
        Parsed(DeclaredFunction(name, ASTFunction(names, body)),
               Unless(IsDeclared("function", name), r2))))

FunctionDefinition ==
  /\ Parsing("IDENTIFIER") /\ Type(step(rest)) = "("
  /\ Declare(function_definition(Token(rest).text, step(rest)))
  /\ UNCHANGED animtree

global_definition(name, s) ==
  With(closed(advance(s, "="), ";"), LAMBDA e, r :
    Parsed(DeclaredGlobal(name, e), Unless(IsDeclared("global", name), r)))

GlobalDefinition ==
  /\ Parsing("IDENTIFIER") /\ Type(step(rest)) # "("
  /\ Declare(global_definition(Token(rest).text, step(rest)))
  /\ UNCHANGED animtree

\* Nothing else may stand at file scope.
Stray ==
  /\ status = "parsing" /\ Type(rest) \notin {"#", "IDENTIFIER", "EOF"}
  /\ status' = "exit"
  /\ UNCHANGED <<rest, declared, animtree>>

EndOfFile == Parsing("EOF") /\ status' = "done" /\ UNCHANGED <<rest, declared, animtree>>

parse ==
  \/ Include \/ UsingAnimtree \/ InvalidDirective
  \/ FunctionDefinition \/ GlobalDefinition \/ Stray \/ EndOfFile
=============================================================================
