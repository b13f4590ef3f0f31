-------------------------------- MODULE Lexer --------------------------------
(***************************************************************************)
(* The lexer (lexer.h) on a stream in memory (stream_buffer.h): a text,    *)
(* the byte 0 behind it, and a cursor that is set back when a character    *)
(* has been read that belongs to the next token.                           *)
(*                                                                         *)
(* A step is one turn of the loop in lexer_step: it reads one lexeme,      *)
(* which is a token or is skipped.  A type is spelled as in the source     *)
(* when it has one spelling.                                               *)
(***************************************************************************)
EXTENDS Naturals, Sequences

Skipped == {"WHITESPACE", "NEWLINE", "COMMENT"}

Keywords ==
  {"for", "while", "if", "else", "do", "continue", "break", "return", "switch", "default",
   "case", "true", "false", "undefined", "null", "in", "foreach", "thread", "wait", "self",
   "waittillframeend"}

VARIABLES
  text,
  offset,    \* StreamBuffer.offset
  lexemes,   \* what has been read, with the offsets where it begins and ends
  lexed      \* the end has been reported

lexervars == <<text, offset, lexemes, lexed>>

NUL == ""
At(o) == IF o < Len(text) THEN SubSeq(text, o + 1, o + 1) ELSE NUL

\* lexer_advance reads the byte 0, too, but nothing behind it.
After(o) == IF o <= Len(text) THEN o + 1 ELSE o

Digits == {"0", "1", "2", "3", "4", "5", "6", "7", "8", "9"}
HexLetters == {"a", "b", "c", "d", "e", "f", "A", "B", "C", "D", "E", "F"}
Letters == HexLetters \cup
  {"g", "h", "i", "j", "k", "l", "m", "n", "o", "p", "q", "r", "s", "t", "u", "v", "w", "x",
   "y", "z", "G", "H", "I", "J", "K", "L", "M", "N", "O", "P", "Q", "R", "S", "T", "U", "V",
   "W", "X", "Y", "Z"}

\* Where a lexeme may end.
Places(chars) == {p \in 0 .. Len(text) : At(p) \in chars}
cond_numeric_ == (0 .. Len(text)) \ Places(Digits \cup HexLetters \cup {"x", "."})
cond_ident_ == (0 .. Len(text)) \ Places(Letters \cup Digits \cup {"_"})
cond_file_ref_ == cond_ident_ \ Places({"\\"})
cond_single_line_comment_ == Places({"\r", "\n"})
cond_whitespace_ == (0 .. Len(text)) \ Places({"\r", " ", "\t"})

LexerInit == offset = 0 /\ lexemes = <<>> /\ lexed = FALSE

-----------------------------------------------------------------------------

Lexeme(type, from, n, to) ==
  /\ lexemes' = Append(lexemes, [type |-> type, text |-> SubSeq(text, from + 1, from + n),
                                 begin |-> offset, end |-> to])
  /\ offset' = to
  /\ UNCHANGED <<text, lexed>>

\* The first place from o on that is the end or one of those.
FirstAt(o, ends) ==
  CHOOSE p \in o .. Len(text) :
    /\ At(p) = NUL \/ p \in ends
    /\ \A q \in o .. p - 1 : At(q) # NUL /\ q \notin ends

\* Mutant: the character that ends the lexeme is not given back.
BugUnget(p) == After(p)

\* The cursor behind a lexeme that the character at p ends: it is set back
\* unless p is the end.
Unget(p) == IF At(p) = NUL THEN After(p) ELSE p

lexer_parse_characters(type, from, cond) ==
  LET p == FirstAt(from, cond) IN Lexeme(type, from, p - from, Unget(p))

Reading(ch) == ~lexed /\ At(offset) # NUL /\ At(offset) = ch
ReadingOne(chars) == ~lexed /\ At(offset) \in chars

lexer_parse_string ==
  /\ Reading("\"")
  /\ LET first == offset + 1
         escaped[p \in first .. Len(text)] == p > first /\ At(p - 1) = "\\" /\ ~escaped[p - 1]
         p == FirstAt(first, {q \in Places({"\""}) : q >= first /\ ~escaped[q]})
     IN Lexeme("STRING", first, p - first, After(p))

Decimal == At(offset) \in Digits
Fraction == At(offset) = "." /\ At(offset + 1) \in Digits

Number ==
  /\ ~lexed
  /\ Decimal \/ Fraction
  /\ LET dot == \E p \in offset .. FirstAt(offset, cond_numeric_) - 1 : At(p) = "."
     IN lexer_parse_characters(IF dot THEN "NUMBER" ELSE "INTEGER", offset, cond_numeric_)

Word ==
  /\ ReadingOne(Letters \cup {"_"})
  /\ LET p == FirstAt(offset, cond_ident_)
         word == SubSeq(text, offset + 1, p)
     IN IF word \in Keywords THEN lexer_parse_characters(word, offset, cond_ident_)
        ELSE IF At(p) = "\\" THEN lexer_parse_characters("FILE_REFERENCE", offset, cond_file_ref_)
        ELSE lexer_parse_characters("IDENTIFIER", offset, cond_ident_)

Whitespace ==
  /\ ReadingOne({" ", "\t", "\r"})
  /\ lexer_parse_characters("WHITESPACE", offset, cond_whitespace_)

Newline == Reading("\n") /\ Lexeme("NEWLINE", offset, 1, offset + 1)

LineComment ==
  /\ Reading("/") /\ At(offset + 1) = "/"
  /\ lexer_parse_characters("COMMENT", offset + 2, cond_single_line_comment_)

\* A comment begun with one of * and # ends with the same and a slash.
lexer_parse_multiline_comment ==
  /\ Reading("/") /\ At(offset + 1) \in {"*", "#"}
  /\ LET closes == {q \in Places({At(offset + 1)}) : At(q + 1) = "/"}
         p == FirstAt(offset + 2, closes)
     IN Lexeme("COMMENT", offset + 2, p - offset - 2, IF At(p) = NUL THEN After(p) ELSE p + 2)

\* What lexer_match_char tries to find behind a character.
Following(ch) ==
  CASE ch \in {"^", "%", "*", "=", "!", "/"} -> {"="}
    [] ch = ":" -> {":"}
    [] ch \in {"-", "+", "&", "|", "<", ">"} -> {ch, "="}
    [] OTHER -> {}

Operator ==
  /\ ~lexed
  /\ At(offset) \notin {NUL, "\"", " ", "\t", "\r", "\n", "_"} \cup Letters
  /\ ~Decimal /\ ~Fraction
  /\ ~(At(offset) = "/" /\ At(offset + 1) \in {"/", "*", "#"})
  /\ LET ch == At(offset)
         n == IF At(offset + 1) \notin Following(ch) THEN 1
              ELSE IF ch \in {"<", ">"} /\ At(offset + 1) = ch /\ At(offset + 2) = "=" THEN 3
              ELSE 2
     IN Lexeme(SubSeq(text, offset + 1, offset + n), offset, n, offset + n)

EndOfText == ~lexed /\ At(offset) = NUL /\ lexed' = TRUE /\ UNCHANGED <<text, offset, lexemes>>

lexer_step ==
  \/ lexer_parse_string \/ Number \/ Word \/ Whitespace \/ Newline \/ LineComment
  \/ lexer_parse_multiline_comment \/ Operator \/ EndOfText

\* lexer_token_read_int: hexadecimal behind the first x, else decimal, up to the
\* first character that is no digit.
DigitValue(ch) ==
  CASE ch \in {"a", "A"} -> 10 [] ch \in {"b", "B"} -> 11 [] ch \in {"c", "C"} -> 12
    [] ch \in {"d", "D"} -> 13 [] ch \in {"e", "E"} -> 14 [] ch \in {"f", "F"} -> 15
    [] OTHER -> CHOOSE d \in 0 .. 9 : ch = <<"0", "1", "2", "3", "4", "5", "6", "7", "8", "9">>[d + 1]

CharAt(s, i) == SubSeq(s, i, i)
strtoll(s, base) ==
  LET digits == IF base = 16 THEN Digits \cup HexLetters ELSE Digits
      value[i \in 0 .. Len(s)] ==
        IF i = 0 \/ \E k \in 1 .. i : CharAt(s, k) \notin digits
        THEN IF i = 0 THEN 0 ELSE value[i - 1]
        ELSE value[i - 1] * base + DigitValue(CharAt(s, i))
  IN value[Len(s)]

Find(s, ch) == {i \in 1 .. Len(s) : CharAt(s, i) = ch}
Least(S) == CHOOSE i \in S : \A k \in S : i <= k

lexer_token_read_int(s) ==
  IF Find(s, "x") = {} THEN strtoll(s, 10)
  ELSE strtoll(SubSeq(s, Least(Find(s, "x")) + 1, Len(s)), 16)

\* lexer_token_read_float, for digits and a point: the fraction <<p, q>>.
lexer_token_read_float(s) ==
  LET point == Least(Find(s, "."))
      behind == SubSeq(s, point + 1, Len(s))
      decimals == CHOOSE n \in 0 .. Len(behind) :
                    /\ \A i \in 1 .. n : CharAt(behind, i) \in Digits
                    /\ n < Len(behind) => CharAt(behind, n + 1) \notin Digits
      scale == 10 ^ decimals
  IN <<strtoll(SubSeq(s, 1, point - 1), 10) * scale + strtoll(SubSeq(behind, 1, decimals), 10), scale>>
=============================================================================
