------------------------------- MODULE Values -------------------------------
(***************************************************************************)
(* The values of the language (struct Variable) and the operators on them  *)
(* (vm.c: promote_type, coerce_type, unary, binop).                        *)
(*                                                                         *)
(* A value is a record with the type tag and the union member that belongs *)
(* to it.  Integers have IntBits bits and wrap; a float is an exact        *)
(* fraction <<p, q>> with q > 0, so rounding, NaN and infinities are       *)
(* abstracted; a string is its text, and the texts of the models do not    *)
(* start with digits, so strtoll and atof read 0 from them.                *)
(***************************************************************************)
EXTENDS Integers, Sequences
LOCAL INSTANCE TLC

CONSTANT IntBits   \* width of ival: 64 in the program

ASSUME IntBitsAssumption == IntBits \in Nat \ {0}

Undef == [type |-> "UNDEFINED"]
Integer(n) == [type |-> "INTEGER", ival |-> n]
Boolean(b) == [type |-> "BOOLEAN", ival |-> IF b THEN 1 ELSE 0]
Float(p, q) == [type |-> "FLOAT", fval |-> <<p, q>>]
Vector(x, y, z) == [type |-> "VECTOR", vval |-> <<x, y, z>>]
NoText == ""
String(s) == [type |-> "STRING", sval |-> s]
Interned(s) == [type |-> "INTERNED_STRING", sval |-> s]
Function(f) == [type |-> "FUNCTION", function |-> f]
Object(o) == [type |-> "OBJECT", oval |-> o]
Reference(a) == [type |-> "REFERENCE", refval |-> a]

\* vm_error was called, or the processor trapped: no value results.
Error(why) == [type |-> "ERROR", why |-> why]
Failed(v) == v.type = "ERROR"

IsString(v) == v.type \in {"STRING", "INTERNED_STRING"}
Wrap(n) == ((n + 2 ^ (IntBits - 1)) % 2 ^ IntBits) - 2 ^ (IntBits - 1)

\* op applied to each bit of the two's complements of a and b.
Bit(n, k) == (n \div 2 ^ k) % 2
BitByBit(a, b, op) ==
  LET low[k \in 0 .. IntBits] ==   \* the result of the lowest k bits
        IF k = 0 THEN 0 ELSE low[k - 1] + 2 ^ (k - 1) * op[Bit(a, k - 1), Bit(b, k - 1)]
  IN Wrap(low[IntBits])
BitOr(a, b) == BitByBit(a, b, [x, y \in 0 .. 1 |-> x + y - x * y])
BitAnd(a, b) == BitByBit(a, b, [x, y \in 0 .. 1 |-> x * y])
BitXor(a, b) == BitByBit(a, b, [x, y \in 0 .. 1 |-> (x + y) % 2])

-----------------------------------------------------------------------------
(* Fractions *)

Less(x, y) == x[1] * y[2] < y[1] * x[2]
Same(x, y) == x[1] * y[2] = y[1] * x[2]
Truncate(x) == IF x[1] >= 0 THEN x[1] \div x[2] ELSE -((-x[1]) \div x[2])
Plus(x, y) == <<x[1] * y[2] + y[1] * x[2], x[2] * y[2]>>
Minus(x, y) == <<x[1] * y[2] - y[1] * x[2], x[2] * y[2]>>
Times(x, y) == <<x[1] * y[1], x[2] * y[2]>>
Over(x, y) == IF y[1] > 0 THEN <<x[1] * y[2], x[2] * y[1]>>
                          ELSE <<-(x[1] * y[2]), -(x[2] * y[1])>>
Fmod(x, y) == Minus(x, Times(<<Truncate(Over(x, y)), 1>>, y))

\* Division of C: towards zero.
Quotient(a, b) == Truncate(Over(<<a, 1>>, <<b, 1>>))

-----------------------------------------------------------------------------
(* Conversions *)

promote_type(l, r) ==
  LET either(types) == {l, r} \cap types # {} IN
  IF either({"UNDEFINED"}) THEN "UNDEFINED"
  ELSE IF either({"STRING", "INTERNED_STRING"}) THEN "STRING"
  ELSE IF either({"VECTOR"}) THEN "VECTOR"
  ELSE IF either({"FLOAT"}) THEN "FLOAT"
  ELSE IF either({"INTEGER", "BOOLEAN"}) THEN "INTEGER"
  ELSE l

coerce_int(v) ==
  CASE v.type \in {"BOOLEAN", "INTEGER"} -> v
    [] v.type = "FLOAT" -> Integer(Wrap(Truncate(v.fval)))
    [] IsString(v) -> Integer(0)
    [] OTHER -> Error("to_integer")

\* A boolean does not convert to a float.
coerce_float(v) ==
  CASE v.type = "INTEGER" -> Float(v.ival, 1)
    [] v.type = "FLOAT" -> v
    [] IsString(v) -> Float(0, 1)
    [] OTHER -> Error("to_float")

coerce_vector(v) ==
  CASE v.type = "INTEGER" -> Vector(<<v.ival, 1>>, <<v.ival, 1>>, <<v.ival, 1>>)
    [] v.type = "FLOAT" -> Vector(v.fval, v.fval, v.fval)
    [] v.type = "VECTOR" -> v
    [] OTHER -> Error("to_vector")

\* vm_stringify, for the types whose text the models compare.
vm_stringify(v) ==
  CASE v.type = "UNDEFINED" -> "undefined"
    [] v.type = "BOOLEAN" -> IF v.ival = 0 THEN "0" ELSE "1"
    [] v.type = "INTEGER" -> ToString(v.ival)
    [] IsString(v) -> v.sval
    [] v.type = "FUNCTION" -> "[function]"
    [] OTHER -> "[" \o ToString(v) \o "]"

-----------------------------------------------------------------------------
(* Operators *)

unary(v, op) ==
  CASE v.type = "UNDEFINED" /\ op = "!" -> Boolean(TRUE)
    [] v.type = "BOOLEAN" /\ op = "!" -> Boolean(v.ival = 0)
    [] v.type = "INTEGER" /\ op = "!" -> Integer(IF v.ival = 0 THEN 1 ELSE 0)
    [] v.type = "INTEGER" /\ op = "~" -> Integer(-v.ival - 1)
    [] v.type = "INTEGER" /\ op = "-" -> Integer(Wrap(-v.ival))
    [] v.type = "FLOAT" /\ op = "-" -> Float(-v.fval[1], v.fval[2])
    [] v.type \in {"INTEGER", "FLOAT"} /\ op = "+" -> v
    [] IsString(v) /\ op = "!" -> Boolean(v.sval = NoText)
    [] OTHER -> Error("unary")

\* The operators of compound assignments are tokens of their own (+= and +)
\* that binop treats alike.
Plain(op) ==
  CASE op = "+=" -> "+" [] op = "-=" -> "-" [] op = "*=" -> "*" [] op = "/=" -> "/"
    [] op = "%=" -> "%" [] op = "|=" -> "|" [] op = "&=" -> "&" [] op = "^=" -> "^"
    [] op = "<<=" -> "<<" [] op = ">>=" -> ">>" [] OTHER -> op

\* Both of one type, or a type without operators of its own: only identity.
identity(a, b, op) ==
  CASE op = "==" -> Boolean(a = b)
    [] op = "!=" -> Boolean(a # b)
    [] OTHER -> Error("binop")

\* Division by zero gives 0; the remainder by zero traps, and so do both when
\* the quotient has no representation (undefined in C).
Overflows(a, b) == b = -1 /\ a = -(2 ^ (IntBits - 1))

int_binop(a, b, op) ==
  CASE op = "+" -> Integer(Wrap(a + b))
    [] op = "-" -> Integer(Wrap(a - b))
    [] op = "*" -> Integer(Wrap(a * b))
    [] op = "/" -> IF b = 0 THEN Integer(0)
                   ELSE IF Overflows(a, b) THEN Error("trap")
                   ELSE Integer(Quotient(a, b))
    [] op = "%" -> IF b = 0 \/ Overflows(a, b) THEN Error("trap")
                   ELSE Integer(a - b * Quotient(a, b))
    [] op = "|" -> Integer(BitOr(a, b))
    [] op = "&" -> Integer(BitAnd(a, b))
    [] op = "^" -> Integer(BitXor(a, b))
    [] op = "<<" -> Integer(Wrap(a * 2 ^ (b % IntBits)))
    [] op = ">>" -> Integer(a \div 2 ^ (b % IntBits))
    [] op = ">=" -> Boolean(a >= b)
    [] op = "<=" -> Boolean(a <= b)
    [] op = ">" -> Boolean(a > b)
    [] op = "<" -> Boolean(a < b)
    [] op = "==" -> Boolean(a = b)
    [] op = "!=" -> Boolean(a # b)
    [] op = "&&" -> Boolean(a # 0 /\ b # 0)
    [] op = "||" -> Boolean(a # 0 \/ b # 0)
    [] OTHER -> Error("binop")

fraction(x) == [type |-> "FLOAT", fval |-> x]

float_binop(x, y, op) ==
  CASE op = "+" -> fraction(Plus(x, y))
    [] op = "-" -> fraction(Minus(x, y))
    [] op = "*" -> fraction(Times(x, y))
    [] op = "/" -> fraction(IF y[1] = 0 THEN <<0, 1>> ELSE Over(x, y))
    [] op = "%" -> IF y[1] = 0 THEN Error("nan") ELSE fraction(Fmod(x, y))
    [] op = ">=" -> Boolean(~Less(x, y))
    [] op = "<=" -> Boolean(~Less(y, x))
    [] op = ">" -> Boolean(Less(y, x))
    [] op = "<" -> Boolean(Less(x, y))
    [] op = "==" -> Boolean(Same(x, y))
    [] op = "!=" -> Boolean(~Same(x, y))
    [] OTHER -> Error("binop")

vector_binop(x, y, op) ==
  LET each(f(_, _)) == Vector(f(x[1], y[1]), f(x[2], y[2]), f(x[3], y[3]))
      equal == \A k \in 1 .. 3 : Same(x[k], y[k])   \* within 0.001 in C
  IN CASE op = "+" -> each(Plus)
       [] op = "-" -> each(Minus)
       [] op = "*" -> each(Times)
       [] op = "/" -> IF \E k \in 1 .. 3 : y[k][1] = 0 THEN Error("nan") ELSE each(Over)
       [] op = "==" -> Boolean(equal)
       [] op = "!=" -> Boolean(~equal)
       [] OTHER -> Error("binop")

string_binop(s, t, op) ==
  CASE op = "+" -> String(s \o t)
    [] op = "==" -> Boolean(s = t)
    [] op = "!=" -> Boolean(s # t)
    [] OTHER -> Error("binop")

\* Converts both operands, in order, and applies f unless a conversion failed.
Coerced(a, b, coerce(_), f(_, _)) ==
  LET x == coerce(a)
      y == coerce(b)
  IN IF Failed(x) THEN x ELSE IF Failed(y) THEN y ELSE f(x, y)

binop(a, b, token) ==
  LET op == Plain(token)
      type == promote_type(a.type, b.type)
      ints(x, y) == int_binop(x.ival, y.ival, op)
      floats(x, y) == float_binop(x.fval, y.fval, op)
      vectors(x, y) == vector_binop(x.vval, y.vval, op)
  IN CASE type = "UNDEFINED" -> identity(a.type, b.type, op)
       [] type = "INTEGER" -> Coerced(a, b, coerce_int, ints)
       [] type = "FLOAT" -> Coerced(a, b, coerce_float, floats)
       [] type = "VECTOR" -> Coerced(a, b, coerce_vector, vectors)
       [] type = "STRING" -> string_binop(vm_stringify(a), vm_stringify(b), op)
       [] OTHER -> identity(a, b, op)
=============================================================================
