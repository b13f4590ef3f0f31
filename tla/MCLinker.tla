------------------------------ MODULE MCLinker ------------------------------
(***************************************************************************)
(* Three files, every graph of includes between them, files that do not    *)
(* compile and files that cannot be read.                                  *)
(***************************************************************************)
EXTENDS Linker, TLC

File(fs, is, rs, ins) ==
  [found |-> TRUE, valid |-> TRUE, functions |-> fs, includes |-> is,
   references |-> rs, inits |-> ins]

From(g, from) == [name |-> g, from |-> from]

Files(a, b, c) ==
  [a |-> File(<<"f">>, a, <<>>, <<>>),
   b |-> File(<<"h", "f", "g">>, b, <<>>, <<>>),
   c |-> File(<<"g">>, c, <<"a">>, <<>>)]

Chain == Files(<<"b">>, <<"c">>, <<>>)
Diamond == Files(<<"b", "c">>, <<"c">>, <<>>)
Ring == Files(<<"b">>, <<"c">>, <<"a">>)
Mutual == Files(<<"b">>, <<"a">>, <<"b">>)

Broken == {[d EXCEPT !.b.valid = FALSE] : d \in {Chain, Diamond}}
Missing == {[Diamond EXCEPT !.b.found = FALSE]}

WithGlobals ==
  {[a |-> File(<<"f">>, <<"b">>, <<>>, <<From("x", NONE), From("y", "x")>>),
    b |-> File(<<"g">>, <<>>, <<>>, <<From("y", "x"), From("x", NONE)>>),
    c |-> File(<<>>, <<>>, <<>>, <<From("x", "z")>>)],
   [a |-> File(<<"f">>, <<"b">>, <<>>, <<From("y", "x"), From("z", "y"), From("x", "z")>>),
    b |-> File(<<"g">>, <<>>, <<>>, <<From("z", NONE), From("y", "z")>>),
    c |-> File(<<>>, <<>>, <<>>, <<From("x", NONE), From("z", "x")>>)]}

CheckedDisks == {Chain, Diamond, Ring, Mutual} \cup Broken \cup Missing \cup WithGlobals

Extension == ("a" :> "a" @@ "b" :> "b" @@ "c" :> "c" @@ "a.gsc" :> "a")
=============================================================================
