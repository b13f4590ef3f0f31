------------------------------- MODULE Syntax -------------------------------
(***************************************************************************)
(* A source file on its way to the compiler (compile_file, main.c): the    *)
(* lexer on the text, and the parser on what the lexer does not skip.      *)
(*                                                                         *)
(* The parser asks for one token when it takes one; here the lexer goes    *)
(* first, which tells apart only how far it has come when an error ends    *)
(* the file.                                                               *)
(***************************************************************************)
EXTENDS Parser
Source == INSTANCE SourceSyntax

CONSTANT Cases   \* texts, each with the declarations it spells if it is known to spell some

VARIABLE meant   \* those declarations, or Unknown: a history variable

Unknown == <<[kind |-> "unknown"]>>

vars == <<lexervars, parservars, meant>>

Init ==
  /\ \E c \in Cases : text = c.text /\ meant = c.meant
  /\ LexerInit
  /\ rest = Raised /\ declared = <<>> /\ animtree = "" /\ status = "lexing"

\* One call of lexer_step, or several if it repeats.
Lex == status = "lexing" /\ lexer_step /\ UNCHANGED <<parservars, meant>>

RECURSIVE Kept(_)
Kept(s) ==
  IF s = <<>> THEN <<[type |-> "EOF", text |-> ""]>>
  ELSE (IF s[1].type \in Skipped THEN <<>> ELSE <<[type |-> s[1].type, text |-> s[1].text]>>)
         \o Kept(Tail(s))

Tokens == Kept(lexemes)

compile_file ==
  /\ status = "lexing" /\ lexed
  /\ status' = "parsing" /\ rest' = Tokens
  /\ UNCHANGED <<lexervars, declared, animtree, meant>>

Parse == parse /\ UNCHANGED <<lexervars, meant>>

Finished == status \in {"done", "error", "exit"}

\* Keeps the end apart from a text on which nothing can go on (a deadlock).
Ended == Finished /\ UNCHANGED vars

Next == Lex \/ compile_file \/ Parse \/ Ended
Spec == Init /\ [][Next]_vars

-----------------------------------------------------------------------------
(* The lexer *)

\* The spellings that lexer.h declares (TOKENS), but ... , which is not read.
Spellings ==
  {"<<", ">>", "&&", "||", ">>=", "<<=", ">=", "<=", "&=", "|=", "++", "--", "::", "/=", "+=", "-=",
   "^=", "%=", "*=", "==", "!="}

All(s, chars) == \A i \in 1 .. Len(s) : CharAt(s, i) \in chars
WordChars == Letters \cup Digits \cup {"_"}
Starts(s, opening) == Len(s) >= Len(opening) /\ SubSeq(s, 1, Len(opening)) = opening

\* A quote with an even number of backslashes before it.
ClosingQuote(s, i) ==
  /\ CharAt(s, i) = "\""
  /\ \E k \in 1 .. i - 1 :
       /\ k % 2 = (i - 1) % 2
       /\ (k = 1) \/ (CharAt(s, k) # "\\")
       /\ \A j \in k + 1 .. i - 1 : CharAt(s, j) = "\\"

\* What a lexeme of each kind looks like, told without reading from left to right.
IsLexeme(s, kind) ==
  CASE kind = "WHITESPACE" -> All(s, {" ", "\t", "\r"})
    [] kind = "NEWLINE" -> s = "\n"
    [] kind = "COMMENT" ->
         \/ Starts(s, "//") /\ Find(s, "\n") \cup Find(s, "\r") = {}
         \/ \E ch \in {"*", "#"} :
              /\ Starts(s, "/" \o ch)
              /\ \A i \in 3 .. Len(s) - 2 : SubSeq(s, i, i + 1) # ch \o "/"
    [] kind = "STRING" -> Starts(s, "\"") /\ \A i \in 2 .. Len(s) - 1 : ~ClosingQuote(s, i)
    [] kind \in {"INTEGER", "NUMBER"} ->
         /\ CharAt(s, 1) \in Digits \/ (Len(s) > 1 /\ CharAt(s, 1) = "." /\ CharAt(s, 2) \in Digits)
         /\ All(s, Digits \cup HexLetters \cup {"x", "."})
         /\ kind = "NUMBER" <=> Find(s, ".") # {}
    [] kind = "IDENTIFIER" -> All(s, WordChars) /\ CharAt(s, 1) \notin Digits /\ s \notin Keywords
    [] kind = "FILE_REFERENCE" ->
         /\ All(s, WordChars \cup {"\\"}) /\ Find(s, "\\") # {}
         /\ SubSeq(s, 1, Least(Find(s, "\\")) - 1) \notin Keywords \cup {""}
         /\ CharAt(s, 1) \notin Digits
    [] OTHER -> kind = s /\ (s \in Spellings \cup Keywords \/ Len(s) = 1)

Kinds(s) ==
  Skipped \cup {"STRING", "INTEGER", "NUMBER", "IDENTIFIER", "FILE_REFERENCE", s}

Last == lexemes[Len(lexemes)]
Piece(from, to) == SubSeq(text, from + 1, to)

\* INVARIANT.  Every lexeme starts where the one before it ended, is one of its
\* kind, and is the longest that starts there: the character that ends it goes
\* to the next one, and nothing is lost or read twice.  (Without its last
\* character a lexeme is one still, so a longer one need only be one longer.)
LongestMatch ==
  lexemes # <<>> =>
    LET to == IF Last.end > Len(text) THEN Len(text) ELSE Last.end IN
    /\ Last.begin = IF Len(lexemes) = 1 THEN 0 ELSE lexemes[Len(lexemes) - 1].end
    /\ Last.end = offset /\ Last.begin < to
    /\ IsLexeme(Piece(Last.begin, to), Last.type)
    /\ LET longer == Piece(Last.begin, to + 1) IN
       to < Len(text) => \A kind \in Kinds(longer) : ~IsLexeme(longer, kind)

-----------------------------------------------------------------------------
(* The parser *)

\* INVARIANT.  A file that spells declarations of the grammar is read as these
\* declarations: no operand goes to the wrong operator, no else to the wrong if,
\* whatever stands between the tokens.
RoundTrip == Finished /\ meant # Unknown => status = "done" /\ declared = meant

\* Numbers are the same when they have the same value; null is undefined.
SameMeaning(t, u) ==
  /\ t.type = u.type \/ {t.type, u.type} = {"null", "undefined"}
  /\ CASE t.type = "INTEGER" -> lexer_token_read_int(t.text) = lexer_token_read_int(u.text)
       [] t.type = "NUMBER" -> Same(lexer_token_read_float(t.text), lexer_token_read_float(u.text))
       [] t.type = "FILE_REFERENCE" -> convert_backslash(t.text) = convert_backslash(u.text)
       [] t.type \in {"null", "undefined"} -> TRUE
       [] OTHER -> t.text = u.text

Opening == {"(", "[", "{"}
Closing(open) == CASE open = "(" -> ")" [] open = "[" -> "]" [] open = "{" -> "}"

RECURSIVE IsBalanced(_, _)
IsBalanced(s, expected) ==
  CASE s = <<>> -> expected = <<>>
    [] s # <<>> /\ s[1].type \in Opening ->
         IsBalanced(Tail(s), <<Closing(s[1].type)>> \o expected)
    [] s # <<>> /\ s[1].type \in {")", "]", "}"} ->
         expected # <<>> /\ expected[1] = s[1].type /\ IsBalanced(Tail(s), Tail(expected))
    [] OTHER -> IsBalanced(Tail(s), expected)

EndsWithComma(s) == \E i \in 1 .. Len(s) - 1 : s[i].type = "," /\ s[i + 1].type = ")"

\* INVARIANT.  What the parser accepts is in the grammar, and spells the tokens of
\* the file again, one for one: the parser drops nothing and takes nothing twice.
\* Two liberties are set aside: a bracket left open, and a comma before ).
PrintsBack ==
  meant = Unknown /\ status = "done" /\ IsBalanced(Tokens, <<>>) /\ ~EndsWithComma(Tokens) =>
    LET printed == Source!FileTokens(declared) IN
    /\ Source!IsFile(declared)
    /\ Len(printed) = Len(Tokens) - 1
    /\ \A k \in DOMAIN printed : SameMeaning(printed[k], Tokens[k])
=============================================================================
