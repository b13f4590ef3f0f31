-------------------------------- MODULE AST --------------------------------
(***************************************************************************)
(* The syntax tree (ast.type, ast.h): one constructor for every node that  *)
(* the parser can put under a function body.  A node is a record whose     *)
(* field type is the tag; positions in the source are left out.            *)
(***************************************************************************)
EXTENDS Sequences

Null == [type |-> "Null"]   \* an absent child

\* Expressions.  A literal holds the run-time value that OP_PUSH makes of it.
Literal(value) == [type |-> "Literal", value |-> value]
Identifier(name) == [type |-> "Identifier", name |-> name]
Self == [type |-> "Self"]
StructExpr == [type |-> "StructExpr"]
ArrayExpr == [type |-> "ArrayExpr"]
GroupExpr(e) == [type |-> "GroupExpr", expression |-> e]
VectorExpr(elements) == [type |-> "VectorExpr", elements |-> elements]
FunctionPointerExpr(e) == [type |-> "FunctionPointerExpr", expression |-> e]
UnaryExpr(op, arg, prefix) ==
  [type |-> "UnaryExpr", op |-> op, argument |-> arg, prefix |-> prefix]
BinaryExpr(op, l, r) == [type |-> "BinaryExpr", op |-> op, lhs |-> l, rhs |-> r]
AssignmentExpr(op, l, r) == [type |-> "AssignmentExpr", op |-> op, lhs |-> l, rhs |-> r]
\* op is "." (prop is an identifier) or "[" (prop is any expression).
MemberExpr(object, op, prop) ==
  [type |-> "MemberExpr", object |-> object, op |-> op, prop |-> prop]
CallExpr(object, callee, arguments, threaded) ==
  [type |-> "CallExpr", object |-> object, callee |-> callee,
   arguments |-> arguments, threaded |-> threaded]

\* Statements.  The parser builds a ternary expression as an IfStmt too.
EmptyStmt == [type |-> "EmptyStmt"]
BreakStmt == [type |-> "BreakStmt"]
ContinueStmt == [type |-> "ContinueStmt"]
ExprStmt(e) == [type |-> "ExprStmt", expression |-> e]
BlockStmt(body) == [type |-> "BlockStmt", body |-> body]
ReturnStmt(e) == [type |-> "ReturnStmt", argument |-> e]
WaitStmt(e) == [type |-> "WaitStmt", duration |-> e]
IfStmt(test, yes, no) ==
  [type |-> "IfStmt", test |-> test, consequent |-> yes, alternative |-> no]
WhileStmt(test, body) == [type |-> "WhileStmt", test |-> test, body |-> body]
ForStmt(init, test, update, body) ==
  [type |-> "ForStmt", init |-> init, test |-> test, update |-> update, body |-> body]
\* A case whose test is Null is the default.
SwitchCase(test, body) == [test |-> test, consequent |-> body]
SwitchStmt(e, cases) == [type |-> "SwitchStmt", discriminant |-> e, cases |-> cases]

ASTFunction(parameters, body) == [parameters |-> parameters, body |-> body]

\* Nodes that can stand between the brackets of a member expression.
is_expr(n) ==
  n.type \in {"FunctionPointerExpr", "GroupExpr", "AssignmentExpr", "BinaryExpr", "CallExpr",
              "Identifier", "Literal", "MemberExpr", "UnaryExpr", "VectorExpr"}
=============================================================================
