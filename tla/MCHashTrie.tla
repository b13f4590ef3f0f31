----------------------------- MODULE MCHashTrie -----------------------------
(***************************************************************************)
(* Four spellings of three keys and every hash they may have.              *)
(***************************************************************************)
EXTENDS HashTrieRefinement, TLC

LowerCase == "a" :> "a" @@ "A" :> "a" @@ "b" :> "b" @@ "c" :> "c"
=============================================================================
