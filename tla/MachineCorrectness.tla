-------------------------- MODULE MachineCorrectness --------------------------
(***************************************************************************)
(* What compiled programs must do on the machine: print what their source  *)
(* means, whatever the dispatcher does, and leave no operand and no memory *)
(* behind.                                                                 *)
(***************************************************************************)
EXTENDS MachineSafety, Compiler
LOCAL INSTANCE TLC

CONSTANTS
  Programs,   \* functions by name: [name -> ASTFunction]
  Cases,      \* what CaseOf makes of each of Programs, worked out once
  Fuel        \* iterations and calls the reference follows

Source == INSTANCE SourceSemantics

VARIABLE expected   \* what the source of the program means, worked out once

allvars == <<vars, expected>>

\* The shapes of compiled code, from the first instruction on: a way back leads
\* to where a statement begins, and nothing is on the stack there.
Merged(found) ==
  LET s == CHOOSE s \in found : TRUE
      common == [k \in DOMAIN s |->
                   IF \A t \in found : k \in DOMAIN t /\ t[k] = s[k] THEN s[k] ELSE Val]
  IN IF found = {s} THEN s ELSE common

ShapesOf(code) ==
  LET jumps == {k \in DOMAIN code : code[k].op \in {"JMP", "JZ", "JNZ"}}
      upto[n \in 0 .. Len(code)] ==   \* of the first n instructions, if reached
        LET known == upto[n - 1]
            before == {k \in jumps \cup {n - 1} :
                         k - 1 \in DOMAIN known /\ n - 1 \in Successors(code[k], k - 1)}
            found == {After(code[k], known[k - 1]) : k \in before}
        IN CASE n = 0 -> <<>>
             [] n = 1 -> 0 :> <<>>
             [] OTHER -> known @@ (IF found = {} THEN <<>> ELSE n - 1 :> Merged(found))
  IN upto[Len(code)]

CaseOf(prog) ==
  LET image == [f \in DOMAIN prog |-> compile_function(prog[f])]
      shapes == [f \in DOMAIN prog |-> ShapesOf(image[f].instructions)]
      run == Source!Run(prog)
  IN [image |-> image,
      expected |-> [texts |-> run.texts, stop |-> run.stop,
                    verified |-> VerifiedWith(image, shapes)]]

CheckedInit == \E c \in Cases : Start(c.image) /\ expected = c.expected
CheckedNext == Next /\ UNCHANGED expected
CheckedSpec == CheckedInit /\ [][CheckedNext]_allvars

\* The host keeps calling gsc_update, which runs a thread until it waits.
Fairness == WF_allvars(CheckedNext)

FairSpec == CheckedSpec /\ Fairness

-----------------------------------------------------------------------------

Finished == \A t \in Threads : threads[t].state = "FREE"

\* t is made of beginnings of the texts, shuffled.
RECURSIVE Shuffle(_, _)
Shuffle(t, texts) ==
  \/ t = <<>>
  \/ \E k \in DOMAIN texts :
       /\ texts[k] # <<>>
       /\ Head(texts[k]) = Head(t)
       /\ Shuffle(Tail(t), [texts EXCEPT ![k] = Tail(@)])

RECURSIVE Total(_)
Total(texts) == IF texts = <<>> THEN 0 ELSE Len(Head(texts)) + Total(Tail(texts))

\* Compiled code means what its source means: what has been printed is at any
\* time a shuffle of beginnings of what the source of each thread prints, all of
\* it has been printed when the threads have finished, and the machine stops
\* with an error exactly if the source has one (compiler.c, all visitors; vm.c,
\* the instructions they emit).
MatchesSource ==
  /\ Shuffle(text, expected.texts)
  /\ Finished => Len(text) = Total(expected.texts) /\ expected.stop = ""
  /\ error # "" => expected.stop = "error"

\* The generator gives back every scope it takes, so it never writes behind
\* their array (compiler.c: increment_scope, decrement_scope).
ScopesWithin == \A f \in DOMAIN functions : ~functions[f].overrun

\* Nothing is promised of a builtin that is started as a thread: it finds its
\* arguments on no stack and leaves a thread without code.
StartsBuiltin(image) ==
  \E f \in DOMAIN image : \E k \in DOMAIN image[f].instructions :
    LET ins == image[f].instructions[k] IN
    ins.op = "CALL" /\ ins.threaded /\ ins.callee \notin DOMAIN image

\* The generator does its part: its own bookkeeping stays within its arrays, and
\* whichever way an instruction is reached, the same operands are on the stack,
\* so that all that MachineSafety says of verified code holds of compiled code
\* (compiler.c, all visitors).
CodeVerified == ScopesWithin /\ (expected.verified \/ StartsBuiltin(functions))

\* The slot a thread returns into still holds what the call has pushed there,
\* which is undefined (vm.c: OP_CALL, "return value for caller thread").
ReturnSlotIsPlaceholder ==
  [][\A t \in Threads, k \in 1 .. StackSize :
       (t # cur /\ k <= Len(threads[t].stack) /\ threads'[t].stack # threads[t].stack
        /\ k <= Len(threads'[t].stack) /\ threads'[t].stack[k] # threads[t].stack[k])
       => threads[t].stack[k] = Undef]_vars

\* Every program of the runs comes to its end or to an error: loops and calls
\* compiled from a source that ends do end (compiler.c: the jumps of loops).
Finishes == <>(Finished \/ error # "")
=============================================================================
