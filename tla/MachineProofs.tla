--------------------------- MODULE MachineProofs ---------------------------
(***************************************************************************)
(* The instruction machine keeps what MachineSafety promises, for any code *)
(* whose operands fit, any number of threads and functions, and stacks,    *)
(* call depths and pools of any size.                                      *)
(*                                                                         *)
(* The invariant says of every thread that its stack is cut into one piece *)
(* per frame, and that the piece of the last frame has the shape of the    *)
(* instruction the frame is at; that a thread another one may return to    *)
(* holds nothing but values; and that every variable has a cell of its own *)
(* that is in use.  There is one lemma for each instruction and each visit *)
(* of the dispatcher; they rest on three about what a step does to a       *)
(* thread (StepFits, EnterFits, LeaveFits) and four about what it does to  *)
(* cells (OwnersStay, OwnersCalled, OwnersReturned, OwnersExtended).       *)
(***************************************************************************)
EXTENDS MachineSafety, Induction, SequenceTheorems

-----------------------------------------------------------------------------
(* The invariant *)

\* The elements of a sequence.
Elements(s) == {s[k] : k \in DOMAIN s}
IsSeq(s) == s \in Seq(Elements(s))

\* The states of a thread, and those of one that has code to execute.
States == {"FREE", "ACTIVE", "INACTIVE", "WAITING_TIME", "WAITING_FRAME", "WAITING_EVENT"}
Going == {"ACTIVE", "WAITING_TIME", "WAITING_FRAME", "WAITING_EVENT"}

\* A record with the fields of a thread.
IsThread(r) ==
  r = [state |-> r.state, stack |-> r.stack, frames |-> r.frames, result |-> r.result,
       return_value |-> r.return_value, waittill |-> r.waittill, endon |-> r.endon]

\* A value that can be in a variable, when there are n objects.
Good(n, v) ==
  /\ v.type \notin {"FREE", "REFERENCE", "ERROR"}
  /\ v.type = "OBJECT" => v.oval \in 1 .. n
  /\ v.type = "FUNCTION" => v.function # "print"

\* Cell a is a field.
IsField(objs, a) == \E o \in DOMAIN objs : \E f \in DOMAIN objs[o] : objs[o][f] = a

\* v refers to a local of frame or to a field.
Target(objs, frame, v) ==
  v.type = "REFERENCE" /\ (v.refval \in CellsOf(frame) \/ IsField(objs, v.refval))

\* Operand v of a frame is of kind k.
Fits(objs, frame, k, v) ==
  /\ k.kind \in ValueKinds => Good(Len(objs), v)
  /\ k.kind = "count" => v.ival = k.n
  /\ k.kind = "reference" => Target(objs, frame, v)
  /\ k.kind = "global" => v = Reference(-GLOBAL)

\* The shape of the operands a frame has, by the instruction it is at.
Shape(sh, frame) == sh[frame.function][frame.ip]
AllVal(s) == \A k \in 1 .. Len(s) : s[k] = Val
Last(r) == r.frames[Len(r.frames)]

\* A frame is at verified code, with as many locals as its function has.
FrameOK(fs, sh, frame) ==
  /\ frame = [function |-> frame.function, ip |-> frame.ip, locals |-> frame.locals]
  /\ frame.function \in DOMAIN fs /\ frame.ip \in DOMAIN sh[frame.function]
  /\ frame.locals \in Seq(Cells) /\ Len(frame.locals) = fs[frame.function].local_count

\* base[k] operands lie below those of frame k.  Each caller expects one more
\* operand than it has, the result.
Cut(sh, r, base) ==
  /\ base \in [1 .. Len(r.frames) -> Nat] /\ base[1] = 0
  /\ \A k \in 1 .. Len(r.frames) - 1 :
       LET s == Shape(sh, r.frames[k]) IN
       Len(s) >= 1 /\ AllVal(s) /\ base[k + 1] = base[k] + Len(s) - 1

\* The operands of the callers are values, those of the last frame fit its shape.
Filled(sh, objs, r, bottom) ==
  /\ Len(r.stack) = bottom + Len(Shape(sh, Last(r)))
  /\ \A j \in 1 .. bottom : Good(Len(objs), r.stack[j])
  /\ \A j \in 1 .. Len(Shape(sh, Last(r))) :
       Fits(objs, Last(r), Shape(sh, Last(r))[j], r.stack[bottom + j])

Laid(sh, objs, r) ==
  /\ Len(r.frames) >= 1
  /\ \E base : Cut(sh, r, base) /\ Filled(sh, objs, r, base[Len(r.frames)])

\* Where a thread reports: an operand of another thread.
SlotOK(t, slot) ==
  slot = NoSlot \/ (/\ slot = [thread |-> slot.thread, at |-> slot.at]
                    /\ slot.thread \in Threads \ {t} /\ slot.at \in Nat \ {0})

\* What an event is stored in.
WaitOK(objs, r) ==
  \A k \in DOMAIN r.waittill.arguments : Target(objs, Last(r), r.waittill.arguments[k])

\* A thread executing verified code, when the objects are objs.
ThreadOK(fs, sh, objs, t, r) ==
  /\ IsThread(r) /\ r.state \in States
  /\ IsSeq(r.stack) /\ Len(r.stack) <= StackSize
  /\ IsSeq(r.frames) /\ Len(r.frames) <= FrameSize
  /\ \A k \in 1 .. Len(r.frames) : FrameOK(fs, sh, r.frames[k])
  /\ IsSeq(r.endon) /\ Len(r.endon) <= MaxEndon
  /\ SlotOK(t, r.return_value)
  /\ r.state = "INACTIVE" => r.stack = <<>> /\ r.frames = <<>>
  /\ r.state \in Going => Laid(sh, objs, r)
  /\ r.state = "WAITING_EVENT" => IsSeq(r.waittill.arguments) /\ WaitOK(objs, r)

\* Another thread may write its result over any operand.
Calm(sh, r) == AllVal(Shape(sh, Last(r)))

\* Every thread is as it should be; those that do not run are ready for the
\* result of another.
ThreadsInv(sh) ==
  /\ threads = [t \in Threads |-> threads[t]]
  /\ \A t \in Threads : ThreadOK(functions, sh, objects, t, threads[t])
CalmInv(sh) ==
  \A t \in Threads : threads[t].state \in Going /\ (t # cur \/ threads[t].state # "ACTIVE")
                     => Calm(sh, threads[t])

\* The free list has free structs, each once, and the running thread is not free.
PoolInv ==
  /\ cur \in 0 .. MaxThreads /\ (cur # 0 => threads[cur].state # "FREE")
  /\ pool \in Seq(Threads)
  /\ \A k \in 1 .. Len(pool) : threads[pool[k]].state = "FREE"
  /\ \A k, l \in 1 .. Len(pool) : pool[k] = pool[l] => k = l

\* The global object exists; objects, cells and events hold values.
ObjectsInv ==
  /\ IsSeq(objects) /\ Len(objects) >= 1
  /\ \A o \in 1 .. Len(objects) : \A f \in DOMAIN objects[o] : objects[o][f] \in Cells
CellsInv ==
  /\ cells = [a \in Cells |-> cells[a]]
  /\ \A a \in Cells : cells[a] = Free \/ Good(Len(objects), cells[a])
EventsInv ==
  /\ IsSeq(events) /\ Len(events) <= MaxEvents
  /\ \A k \in 1 .. Len(events) : \A l \in DOMAIN events[k].arguments :
       Good(Len(objects), events[k].arguments[l])

\* Local k of frame j of thread t, field f of object o.
IsLocal(ths, t, j, k) ==
  /\ t \in Threads /\ ths[t].state # "FREE" /\ j \in DOMAIN ths[t].frames
  /\ k \in DOMAIN ths[t].frames[j].locals
CellAt(ths, t, j, k) == ths[t].frames[j].locals[k]
HasKey(objs, o, f) == o \in DOMAIN objs /\ f \in DOMAIN objs[o]

\* Every variable has a cell of its own, which is not free.
Unshared(ths, objs, cs) ==
  /\ \A t, j, k : IsLocal(ths, t, j, k) =>
       CellAt(ths, t, j, k) \in Cells /\ cs[CellAt(ths, t, j, k)] # Free
  /\ \A o, f : HasKey(objs, o, f) => objs[o][f] \in Cells /\ cs[objs[o][f]] # Free
  /\ \A t, j, k, u, i, l :
       IsLocal(ths, t, j, k) /\ IsLocal(ths, u, i, l) /\ CellAt(ths, t, j, k) = CellAt(ths, u, i, l) =>
         t = u /\ j = i /\ k = l
  /\ \A o, f, p, g : HasKey(objs, o, f) /\ HasKey(objs, p, g) /\ objs[o][f] = objs[p][g] =>
       o = p /\ f = g
  /\ \A t, j, k, o, f : IsLocal(ths, t, j, k) /\ HasKey(objs, o, f) =>
       CellAt(ths, t, j, k) # objs[o][f]

\* Every cell in use belongs to a variable.
AllOwned(ths, objs, cs) ==
  \A a \in Cells : cs[a] # Free =>
    \/ \E t, j, k : IsLocal(ths, t, j, k) /\ CellAt(ths, t, j, k) = a
    \/ \E o, f : HasKey(objs, o, f) /\ objs[o][f] = a

\* Only a thread that is stopped takes cells with it.
NoneLost ==
  NoEndon(functions) =>
    /\ AllOwned(threads, objects, cells)
    /\ \A t \in Threads : threads[t].state # "FREE" => threads[t].endon = <<>>

\* No error, or one that a script can cause.
Excused(e) == e = "" \/ e \in ScriptErrors

\* The invariant, for the shapes sh that the code was verified with.
IInv(sh) ==
  /\ VerifiedWith(functions, sh)
  /\ ThreadsInv(sh) /\ CalmInv(sh) /\ PoolInv /\ ObjectsInv /\ CellsInv /\ EventsInv
  /\ Unshared(threads, objects, cells) /\ NoneLost /\ Excused(error)

\* The assumptions on the constants, one by one.
LEMMA Constants ==
  /\ StackSize \in Nat /\ MaxEvents \in Nat /\ MaxEventArgs \in Nat /\ MaxEndon \in Nat
  /\ FrameSize \in Nat \ {0} /\ MaxThreads \in Nat \ {0}
  /\ Cells \subseteq Nat \ {0} /\ IsFiniteSet(Cells)
BY MachineAssumption

-----------------------------------------------------------------------------
(* Sequences of anything *)

\* A sequence is one of its own elements: the proofs need not say of what.
LEMMA AnySeq ==
  ASSUME NEW S, NEW s \in Seq(S) PROVE IsSeq(s)
<1>1. s \in [1 .. Len(s) -> S] /\ Len(s) \in Nat /\ DOMAIN s = 1 .. Len(s)
  OBVIOUS
<1>2. s \in [1 .. Len(s) -> Elements(s)]
  BY <1>1 DEF Elements
<1> QED BY <1>1, <1>2 DEF IsSeq

\* Its length and its indices.
LEMMA SeqLen ==
  ASSUME NEW s, IsSeq(s) PROVE Len(s) \in Nat /\ DOMAIN s = 1 .. Len(s)
BY DEF IsSeq

\* The empty sequence.
LEMMA SeqNone == IsSeq(<<>>) /\ Len(<<>>) = 0
<1>1. <<>> \in Seq({})
  OBVIOUS
<1> QED BY <1>1, AnySeq

\* A sequence of one element.
LEMMA SeqOne == ASSUME NEW v PROVE IsSeq(<<v>>) /\ Len(<<v>>) = 1 /\ <<v>>[1] = v
<1>1. <<v>> \in Seq({v})
  OBVIOUS
<1> QED BY <1>1, AnySeq

\* A sequence with one more element.
LEMMA SeqAppend ==
  ASSUME NEW s, NEW v, IsSeq(s)
  PROVE  /\ IsSeq(Append(s, v))
         /\ Len(Append(s, v)) = Len(s) + 1
         /\ Append(s, v)[Len(s) + 1] = v
         /\ \A k \in 1 .. Len(s) : Append(s, v)[k] = s[k]
<1> DEFINE S == Elements(s) \cup {v}
<1>1. s \in Seq(S) /\ v \in S
  <2>1. Len(s) \in Nat /\ s \in [1 .. Len(s) -> Elements(s)]
    BY DEF IsSeq
  <2>2. s \in [1 .. Len(s) -> S]
    BY <2>1
  <2> QED BY <2>1, <2>2
<1> HIDE DEF S
<1>2. IsSeq(Append(s, v))
  <2>1. Append(s, v) \in Seq(S)
    BY <1>1
  <2> QED BY <2>1, AnySeq
<1> QED BY <1>1, <1>2

\* The first n elements of a sequence.
LEMMA SeqPrefix ==
  ASSUME NEW s, IsSeq(s), NEW n \in 0 .. Len(s)
  PROVE  /\ IsSeq(SubSeq(s, 1, n))
         /\ Len(SubSeq(s, 1, n)) = n
         /\ \A k \in 1 .. n : SubSeq(s, 1, n)[k] = s[k]
<1>1. s \in Seq(Elements(s)) /\ Len(s) \in Nat
  BY DEF IsSeq
<1>2. IsSeq(SubSeq(s, 1, n))
  <2>1. SubSeq(s, 1, n) \in Seq(Elements(s))
    BY <1>1
  <2> QED BY <2>1, AnySeq
<1>3. Len(SubSeq(s, 1, n)) = n
  BY <1>1
<1>4. \A k \in 1 .. n : SubSeq(s, 1, n)[k] = s[k]
  BY <1>1
<1> QED BY <1>2, <1>3, <1>4

\* s with v at n.
Put(s, n, v) == [s EXCEPT ![n] = v]

\* A sequence with one element replaced.
LEMMA SeqPut ==
  ASSUME NEW s, IsSeq(s), NEW n \in 1 .. Len(s), NEW v
  PROVE  /\ IsSeq(Put(s, n, v)) /\ Len(Put(s, n, v)) = Len(s)
         /\ Put(s, n, v)[n] = v /\ \A k \in 1 .. Len(s) : k # n => Put(s, n, v)[k] = s[k]
<1> DEFINE u == Put(s, n, v)
<1> DEFINE S == Elements(s) \cup {v}
<1>1. s \in Seq(S) /\ v \in S
  <2>1. Len(s) \in Nat /\ s \in [1 .. Len(s) -> Elements(s)]
    BY DEF IsSeq
  <2>2. s \in [1 .. Len(s) -> S]
    BY <2>1
  <2> QED BY <2>1, <2>2
<1> HIDE DEF S
<1>2. IsSeq(u)
  <2>1. u \in Seq(S)
    BY <1>1 DEF Put
  <2> QED BY <2>1, AnySeq
<1> QED BY <1>1, <1>2 DEF Put

-----------------------------------------------------------------------------
(* Shapes *)

\* The instruction a frame is at.
InsOf(fs, frame) == fs[frame.function].instructions[frame.ip + 1]

\* An instruction pushes at most one operand.
LEMMA PushesOne ==
  ASSUME NEW ins
  PROVE  Pushes(ins) = <<>> \/ \E k : Pushes(ins) = <<k>>
BY DEF Pushes

\* How many operands it pops.
LEMMA PopsLen ==
  ASSUME NEW image, NEW f, NEW ins, Proper(image, f, ins)
  PROVE  Len(Pops(ins)) \in Nat
BY DEF Pops, Proper

\* What the next instruction finds, t, by what this one found, s.
Follows(ins, s, t) ==
  LET rest == Len(s) - Len(Pops(ins)) IN
  /\ rest \in Nat /\ s \in Seq(Kind) /\ t \in Seq(Kind)
  /\ Len(t) = rest + Len(Pushes(ins))
  /\ \A k \in 1 .. rest : t[k] = s[k] \/ (t[k] = Val /\ s[k].kind \in ValueKinds)
  /\ Pauses(ins) => \A k \in 1 .. rest : t[k] = Val /\ s[k].kind \in ValueKinds
  /\ Pushes(ins) # <<>> => \/ t[rest + 1] = Pushes(ins)[1]
                           \/ t[rest + 1] = Val /\ Pushes(ins)[1].kind = "count"

\* Verified code: what an instruction leaves is what the next one expects.
LEMMA NextShape ==
  ASSUME NEW fs, NEW f, NEW shapes, VerifiedFunction(fs, f, shapes),
         NEW ip \in DOMAIN shapes,
         NEW next \in Successors(fs[f].instructions[ip + 1], ip)
  PROVE  /\ next \in DOMAIN shapes
         /\ Follows(fs[f].instructions[ip + 1], shapes[ip], shapes[next])
<1> DEFINE ins == fs[f].instructions[ip + 1]
           rest == Len(shapes[ip]) - Len(Pops(ins))
<1> DEFINE s == shapes[ip]
           t == shapes[next]
           u == IF Pauses(ins) THEN [k \in 1 .. Len(Rest(ins, s)) |-> Val] ELSE Rest(ins, s)
<1>1. /\ next \in DOMAIN shapes /\ s \in Seq(Kind) /\ t \in Seq(Kind) /\ Accepts(ins, s)
      /\ Covers(t, After(ins, s)) /\ Proper(fs, f, ins)
  BY DEF VerifiedFunction
<1> HIDE DEF ins
<1>2. Len(Pops(ins)) \in Nat /\ Len(s) \in Nat
  BY <1>1, PopsLen
<1>3. rest \in Nat /\ Len(Pops(ins)) <= Len(s)
  BY <1>1, <1>2 DEF Accepts
<1>4. IsSeq(Rest(ins, s)) /\ Len(Rest(ins, s)) = rest /\ \A k \in 1 .. rest : Rest(ins, s)[k] = s[k]
  <2>1. IsSeq(s) /\ rest \in 0 .. Len(s)
    BY <1>1, <1>2, <1>3, AnySeq
  <2> QED BY <2>1, SeqPrefix DEF Rest
<1> HIDE DEF rest
<1>5. /\ IsSeq(u) /\ Len(u) = rest 
      /\ \A k \in 1 .. rest : u[k] = IF Pauses(ins) THEN Val ELSE s[k]
  <2>1. CASE Pauses(ins)
    <3>1. u = [k \in 1 .. rest |-> Val]
      BY <1>4, <2>1
    <3>2. u \in Seq({Val}) /\ Len(u) = rest /\ \A k \in 1 .. rest : u[k] = Val
      BY <1>3, <3>1
    <3> QED BY <2>1, <3>2, AnySeq
  <2>2. CASE ~Pauses(ins)
    BY <1>4, <2>2
  <2> QED BY <2>1, <2>2
<1> HIDE DEF u
<1>6. After(ins, s) = u \o Pushes(ins)
  BY DEF After, u
<1>7. /\ Len(After(ins, s)) = rest + Len(Pushes(ins))
      /\ \A k \in 1 .. rest : After(ins, s)[k] = u[k]
      /\ Pushes(ins) # <<>> => After(ins, s)[rest + 1] = Pushes(ins)[1]
  <2>1. CASE Pushes(ins) = <<>>
    <3>1. u \in Seq(Elements(u)) /\ <<>> \in Seq(Elements(u))
      BY <1>5 DEF IsSeq
    <3>2. u \o <<>> = u
      BY <3>1
    <3> QED BY <1>3, <1>5, <1>6, <2>1, <3>2
  <2>2. ASSUME NEW k, Pushes(ins) = <<k>> PROVE <1>7
    <3> DEFINE S == Elements(u) \cup {k}
    <3>1. u \in [1 .. Len(u) -> S] /\ <<k>> \in Seq(S) /\ Len(u) \in Nat
      <4>1. u \in [1 .. Len(u) -> Elements(u)] /\ Len(u) \in Nat
        BY <1>5 DEF IsSeq
      <4> QED BY <4>1
    <3>2. u \in Seq(S)
      BY <3>1
    <3> HIDE DEF S
    <3>3. /\ Len(u \o <<k>>) = rest + 1 
          /\ \A j \in 1 .. rest + 1 : (u \o <<k>>)[j] = IF j <= rest THEN u[j] ELSE <<k>>[j - rest]
      BY <1>5, <3>1, <3>2, ConcatProperties
    <3>4. After(ins, s) = u \o <<k>> /\ Len(Pushes(ins)) = 1 /\ Pushes(ins)[1] = k
      BY <1>6, <2>2
    <3>5. /\ \A j \in 1 .. rest : (u \o <<k>>)[j] = u[j]
          /\ (u \o <<k>>)[rest + 1] = k
      <4>1. rest \in Nat
        BY <1>3
      <4>2. /\ (rest + 1) - rest = 1 /\ rest + 1 \in 1 .. rest + 1 /\ ~(rest + 1 <= rest)
            /\ \A j \in 1 .. rest : j \in 1 .. rest + 1 /\ j <= rest
        BY <4>1
      <4>3. (u \o <<k>>)[rest + 1] = <<k>>[1]
        BY <3>3, <4>2
      <4> QED BY <3>3, <4>2, <4>3
    <3> HIDE DEF s
    <3> QED BY <3>3, <3>4, <3>5
  <2> QED BY <2>1, <2>2, PushesOne
<1>8. /\ Len(t) = rest + Len(Pushes(ins))
      /\ \A k \in 1 .. Len(t) : t[k] = After(ins, s)[k] \/ (t[k] = Val /\ After(ins, s)[k].kind = "count")
  BY <1>1, <1>7 DEF Covers
<1>9. Len(Pushes(ins)) \in Nat /\ (Pushes(ins) # <<>> => Len(Pushes(ins)) = 1)
  BY PushesOne
<1>10. Pauses(ins) => \A k \in 1 .. rest : s[k].kind \in ValueKinds
  BY <1>1, <1>4 DEF Accepts
<1>11. ASSUME NEW k \in 1 .. rest 
       PROVE /\ t[k] = s[k] \/ (t[k] = Val /\ s[k].kind \in ValueKinds)
             /\ Pauses(ins) => t[k] = Val /\ s[k].kind \in ValueKinds
  <2>1. k \in 1 .. Len(t)
    BY <1>3, <1>8, <1>9
  <2>2. After(ins, s)[k] = IF Pauses(ins) THEN Val ELSE s[k]
    BY <1>5, <1>7
  <2>3. Val.kind = "value"
    BY DEF Val
  <2> QED BY <1>8, <1>10, <2>1, <2>2, <2>3 DEF ValueKinds
<1>12. Pushes(ins) # <<>> => \/ t[rest + 1] = Pushes(ins)[1]
                             \/ t[rest + 1] = Val /\ Pushes(ins)[1].kind = "count"
  BY <1>3, <1>7, <1>8, <1>9
<1> QED BY <1>1, <1>3, <1>8, <1>11, <1>12 DEF Follows, ins, rest

-----------------------------------------------------------------------------
(* Frames and their operands *)

\* A thread that goes on has a frame.
LEMMA LastFrame ==
  ASSUME NEW fs, NEW sh, NEW objs, NEW t, NEW r, ThreadOK(fs, sh, objs, t, r), r.state \in Going
  PROVE  /\ Len(r.frames) \in Nat \ {0} /\ Len(r.frames) \in 1 .. Len(r.frames)
         /\ Len(r.frames) \in Nat /\ Len(r.frames) >= 1
         /\ FrameOK(fs, sh, Last(r))
<1>1. IsSeq(r.frames) /\ Len(r.frames) >= 1 /\ \A k \in 1 .. Len(r.frames) : FrameOK(fs, sh, r.frames[k])
  BY DEF ThreadOK, Laid
<1>2. Len(r.frames) \in Nat
  BY <1>1, SeqLen
<1> QED BY <1>1, <1>2 DEF Last

\* A frame of verified code is at an instruction that was verified.
LEMMA FrameCode ==
  ASSUME NEW fs, NEW sh, VerifiedWith(fs, sh), NEW frame, FrameOK(fs, sh, frame)
  PROVE  /\ VerifiedFunction(fs, frame.function, sh[frame.function])
         /\ frame.function \in DOMAIN fs
         /\ frame.ip \in DOMAIN sh[frame.function]
         /\ Shape(sh, frame) \in Seq(Kind) /\ Len(Shape(sh, frame)) \in Nat
         /\ Accepts(InsOf(fs, frame), Shape(sh, frame))
         /\ Proper(fs, frame.function, InsOf(fs, frame))
         /\ frame.ip \in 0 .. Len(fs[frame.function].instructions) - 1
         /\ Len(fs[frame.function].instructions) \in Nat
<1>1. /\ VerifiedFunction(fs, frame.function, sh[frame.function])
      /\ frame.function \in DOMAIN fs
      /\ frame.ip \in DOMAIN sh[frame.function]
  BY DEF VerifiedWith, FrameOK
<1>2. /\ Shape(sh, frame) \in Seq(Kind)
      /\ Accepts(InsOf(fs, frame), Shape(sh, frame))
      /\ Proper(fs, frame.function, InsOf(fs, frame))
      /\ frame.ip \in 0 .. Len(fs[frame.function].instructions) - 1
      /\ Len(fs[frame.function].instructions) \in Nat
  BY <1>1 DEF VerifiedFunction, Shape, InsOf
<1> QED BY <1>1, <1>2

\* Only calls pop a count.
LEMMA CountPopped ==
  ASSUME NEW fs, NEW f, NEW ins, Proper(fs, f, ins),
         NEW k \in 1 .. Len(Pops(ins)), Pops(ins)[k] = {"count"}
  PROVE  (ins.op = "CALL" /\ k = 1) \/ (ins.op = "CALL_PTR" /\ k = 2)
<1>0. ValueKinds # {"count"} /\ {"reference"} # {"count"} /\ {"reference", "global"} # {"count"}
  <2>1. "value" \in ValueKinds /\ "value" \notin {"count"}
    BY DEF ValueKinds
  <2>2. "reference" \in {"reference"} /\ "reference" \in {"reference", "global"} /\ "reference" \notin {"count"}
    OBVIOUS
  <2> QED BY <2>1, <2>2
<1>1. CASE ins.op = "CALL"
  <2>1. Pops(ins) = [j \in 1 .. ins.n + 2 |-> IF j = 1 THEN {"count"} ELSE ValueKinds] /\ ins.n \in Nat
    BY <1>1 DEF Pops, Proper
  <2>2. k \in 1 .. ins.n + 2
    BY <2>1
  <2> QED BY <1>0, <1>1, <2>1, <2>2
<1>2. CASE ins.op = "CALL_PTR"
  <2>1. Pops(ins) = [j \in 1 .. ins.n + 3 |-> IF j = 2 THEN {"count"} ELSE ValueKinds] /\ ins.n \in Nat
    BY <1>2 DEF Pops, Proper
  <2>2. k \in 1 .. ins.n + 3
    BY <2>1
  <2> QED BY <1>0, <1>2, <2>1, <2>2
<1>3. CASE ins.op = "NOTIFY"
  <2>1. Pops(ins) = [j \in 1 .. ins.n + 1 |-> ValueKinds] /\ ins.n \in Nat
    BY <1>3 DEF Pops, Proper
  <2>2. k \in 1 .. ins.n + 1
    BY <2>1
  <2> QED BY <1>0, <2>1, <2>2
<1>4. CASE ins.op = "WAITTILL"
  <2>1. Pops(ins) = [j \in 1 .. ins.n + 1 |-> IF j <= 2 THEN ValueKinds ELSE {"reference"}] /\ ins.n \in Nat
    BY <1>4 DEF Pops, Proper
  <2>2. k \in 1 .. ins.n + 1
    BY <2>1
  <2> QED BY <1>0, <2>1, <2>2
<1>5. CASE ins.op = "VECTOR"
  <2>1. Pops(ins) = [j \in 1 .. ins.n |-> ValueKinds] /\ ins.n \in Nat
    BY <1>5 DEF Pops, Proper
  <2>2. k \in 1 .. ins.n
    BY <2>1
  <2> QED BY <1>0, <2>1, <2>2
<1>6. CASE ins.op \notin {"CALL", "CALL_PTR", "NOTIFY", "WAITTILL", "VECTOR"}
  <2>1. \/ Pops(ins) = <<ValueKinds>> \/ Pops(ins) = <<ValueKinds, ValueKinds>> \/ Pops(ins) = <<>>
        \/ Pops(ins) = <<{"reference", "global"}, ValueKinds>> \/ Pops(ins) = <<{"reference"}, ValueKinds>>
    BY <1>6 DEF Pops
  <2> QED BY <1>0, <2>1
<1> QED BY <1>1, <1>2, <1>3, <1>4, <1>5, <1>6

\* What an instruction finds on the stack is what it pops.
LEMMA Operands ==
  ASSUME NEW fs, NEW sh, VerifiedWith(fs, sh), NEW objs, NEW t, NEW r,
         ThreadOK(fs, sh, objs, t, r), r.state \in Going,
         NEW ins, ins = InsOf(fs, Last(r))
  PROVE  /\ Len(r.stack) \in Nat /\ Len(Pops(ins)) \in Nat /\ Len(r.stack) >= Len(Pops(ins))
         /\ \A k \in 1 .. Len(Pops(ins)) :
              LET want == Pops(ins)[k] IN
              /\ want = ValueKinds => Good(Len(objs), Top(r, k))
              /\ want = {"count"} => Good(Len(objs), Top(r, k)) /\ Top(r, k).ival = ins.n
              /\ want = {"reference"} => Target(objs, Last(r), Top(r, k))
              /\ want = {"reference", "global"} => \/ Target(objs, Last(r), Top(r, k))
                                                   \/ Top(r, k) = Reference(-GLOBAL)
<1> DEFINE s == Shape(sh, Last(r))
           w == Len(Pops(ins))
<1>1. FrameOK(fs, sh, Last(r))
  BY LastFrame
<1>2. s \in Seq(Kind) /\ Len(s) \in Nat /\ Accepts(ins, s) /\ Proper(fs, Last(r).function, ins)
  BY <1>1, FrameCode
<1>3. w \in Nat /\ w <= Len(s)
  BY <1>2, PopsLen DEF Accepts
<1>4. PICK base : Cut(sh, r, base) /\ Filled(sh, objs, r, base[Len(r.frames)])
  BY DEF ThreadOK, Laid
<1>5. base[Len(r.frames)] \in Nat
  BY <1>4, LastFrame DEF Cut
<1> DEFINE b == base[Len(r.frames)]
<1>6. /\ Len(r.stack) = b + Len(s)
      /\ \A j \in 1 .. Len(s) : Fits(objs, Last(r), s[j], r.stack[b + j])
  BY <1>4 DEF Filled
<1> HIDE DEF b
<1>7. b \in Nat
  BY <1>5 DEF b
<1>8. Len(r.stack) \in Nat /\ Len(r.stack) >= w
  BY <1>2, <1>3, <1>6, <1>7
<1>9. ASSUME NEW k \in 1 .. w
      PROVE  LET kd == s[Len(s) + 1 - k] IN
             kd.kind \in Pops(ins)[k] /\ Fits(objs, Last(r), kd, Top(r, k))
  <2>1. Len(s) + 1 - k \in 1 .. Len(s) /\ b + (Len(s) + 1 - k) = Len(r.stack) + 1 - k
    BY <1>2, <1>3, <1>6, <1>7
  <2>2. Fits(objs, Last(r), s[Len(s) + 1 - k], r.stack[b + (Len(s) + 1 - k)])
    BY <1>6, <2>1
  <2>3. Top(r, k) = r.stack[b + (Len(s) + 1 - k)]
    BY <2>1 DEF Top
  <2> QED BY <1>2, <2>2, <2>3 DEF Accepts
<1>10. ASSUME NEW k \in 1 .. w, Pops(ins)[k] = {"count"}
       PROVE  s[Len(s) + 1 - k].n = ins.n
  <2>1. (ins.op = "CALL" /\ k = 1) \/ (ins.op = "CALL_PTR" /\ k = 2)
    BY <1>2, <1>10, CountPopped
  <2> QED BY <1>2, <2>1 DEF Accepts
<1>11. ASSUME NEW k \in 1 .. w
       PROVE  LET want == Pops(ins)[k] IN
              /\ want = ValueKinds => Good(Len(objs), Top(r, k))
              /\ want = {"count"} => Good(Len(objs), Top(r, k)) /\ Top(r, k).ival = ins.n
              /\ want = {"reference"} => Target(objs, Last(r), Top(r, k))
              /\ want = {"reference", "global"} => \/ Target(objs, Last(r), Top(r, k))
                                                   \/ Top(r, k) = Reference(-GLOBAL)
  <2> DEFINE kd == s[Len(s) + 1 - k]
  <2>1. kd.kind \in Pops(ins)[k] /\ Fits(objs, Last(r), kd, Top(r, k))
    BY <1>9
  <2>2. Pops(ins)[k] = {"count"} => kd.n = ins.n
    BY <1>10
  <2> HIDE DEF kd
  <2> QED BY <2>1, <2>2 DEF Fits, ValueKinds
<1> QED BY <1>3, <1>8, <1>11

\* A value that fits still fits when less is asked of it.
LEMMA FitsOn ==
  ASSUME NEW objs, NEW frame, NEW other, CellsOf(other) = CellsOf(frame),
         NEW k, NEW l, NEW v, Fits(objs, frame, k, v),
         l = k \/ (l = Val /\ k.kind \in ValueKinds)
  PROVE  Fits(objs, other, l, v)
BY DEF Fits, Target, Val, ValueKinds

\* The frames when the instruction is over.
Onward(frames, next) == [frames EXCEPT ![Len(frames)] = [@ EXCEPT !.ip = next]]

\* A call stack.
Framed(fs, sh, frames) ==
  IsSeq(frames) /\ Len(frames) >= 1 /\ \A k \in 1 .. Len(frames) : FrameOK(fs, sh, frames[k])

\* Frames of the same locals, the last one at next.
Moved(fs, sh, frames, nf, next) ==
  LET fr == frames[Len(frames)] IN
  /\ IsSeq(nf) /\ Len(nf) = Len(frames)
  /\ \A k \in 1 .. Len(frames) - 1 : nf[k] = frames[k]
  /\ nf[Len(frames)] = [function |-> fr.function, ip |-> next, locals |-> fr.locals]
  /\ CellsOf(nf[Len(frames)]) = CellsOf(fr)
  /\ \A k \in 1 .. Len(frames) : FrameOK(fs, sh, nf[k]) /\ nf[k].locals = frames[k].locals

\* Moving to an instruction that has a shape keeps the frames.
LEMMA OnwardFrames ==
  ASSUME NEW fs, NEW sh, NEW frames, Framed(fs, sh, frames),
         NEW next, next \in DOMAIN sh[frames[Len(frames)].function]
  PROVE  Moved(fs, sh, frames, Onward(frames, next), next)
<1> DEFINE n == Len(frames)
           fr == frames[n]
           nf == Onward(frames, next)
           g == [function |-> fr.function, ip |-> next, locals |-> fr.locals]
<1>1. n \in Nat /\ n \in 1 .. n /\ FrameOK(fs, sh, fr) /\ IsSeq(frames)
      /\ \A k \in 1 .. n : FrameOK(fs, sh, frames[k])
  BY SeqLen DEF Framed
<1>2. [fr EXCEPT !.ip = next] = g
  BY <1>1 DEF FrameOK
<1>3. nf = Put(frames, n, g)
  BY <1>2 DEF Onward, Put
<1> HIDE DEF g, nf
<1>4. /\ IsSeq(nf) /\ Len(nf) = n
      /\ nf[n] = g /\ \A k \in 1 .. n : k # n => nf[k] = frames[k]
  BY <1>1, <1>3, SeqPut
<1>5. g = [function |-> fr.function, ip |-> next, locals |-> fr.locals]
  BY DEF g
<1>6. g.function = fr.function /\ g.ip = next /\ g.locals = fr.locals
  BY <1>5
<1>7. FrameOK(fs, sh, g) /\ CellsOf(g) = CellsOf(fr)
  BY <1>1, <1>5, <1>6 DEF FrameOK, CellsOf
<1>8. \A k \in 1 .. n - 1 : nf[k] = frames[k]
  BY <1>1, <1>4
<1>9. \A k \in 1 .. n : FrameOK(fs, sh, nf[k]) /\ nf[k].locals = frames[k].locals
  <2> TAKE k \in 1 .. n
  <2>1. CASE k = n
    <3> HIDE DEF fr
    <3>1. frames[n] = fr
      BY DEF fr
    <3> HIDE DEF n
    <3> QED BY <1>4, <1>6, <1>7, <2>1, <3>1
  <2>2. CASE k # n
    BY <1>1, <1>4, <2>2
  <2> QED BY <2>1, <2>2
<1> QED BY <1>4, <1>5, <1>7, <1>8, <1>9 DEF Moved, nf
-----------------------------------------------------------------------------
(* Objects are never freed, and keep their fields *)

\* There are no fewer objects, and each field is still there.
Grows(objs, more) ==
  /\ Len(objs) \in Nat /\ Len(more) \in Nat /\ Len(objs) <= Len(more)
  /\ \A a : IsField(objs, a) => IsField(more, a)

\* Nothing happened to the objects.
LEMMA GrowsNone == ASSUME NEW objs, IsSeq(objs) PROVE Grows(objs, objs)
BY SeqLen DEF Grows

\* What fitted before there were more objects fits now.
LEMMA GrowsFits ==
  ASSUME NEW objs, NEW more, Grows(objs, more), NEW frame
  PROVE  /\ \A v : Good(Len(objs), v) => Good(Len(more), v)
         /\ \A v : Target(objs, frame, v) => Target(more, frame, v)
         /\ \A k, v : Fits(objs, frame, k, v) => Fits(more, frame, k, v)
<1>1. \A v : Good(Len(objs), v) => Good(Len(more), v)
  BY DEF Grows, Good
<1>2. \A v : Target(objs, frame, v) => Target(more, frame, v)
  BY DEF Grows, Target
<1> QED BY <1>1, <1>2 DEF Fits

\* What a thread refers to stays when other threads make objects.
LEMMA GrowsThread ==
  ASSUME NEW fs, NEW sh, NEW objs, NEW more, Grows(objs, more), NEW t, NEW r,
         ThreadOK(fs, sh, objs, t, r)
  PROVE  ThreadOK(fs, sh, more, t, r)
<1>1. Laid(sh, objs, r) => Laid(sh, more, r)
  <2> SUFFICES ASSUME Laid(sh, objs, r) PROVE Laid(sh, more, r)
    OBVIOUS
  <2>1. PICK base : Cut(sh, r, base) /\ Filled(sh, objs, r, base[Len(r.frames)])
    BY DEF Laid
  <2>2. Filled(sh, more, r, base[Len(r.frames)])
    <3>1. \A v : Good(Len(objs), v) => Good(Len(more), v)
      BY GrowsFits
    <3>2. \A k, v : Fits(objs, Last(r), k, v) => Fits(more, Last(r), k, v)
      BY GrowsFits
    <3> QED BY <2>1, <3>1, <3>2 DEF Filled
  <2> QED BY <2>1, <2>2 DEF Laid
<1>2. WaitOK(objs, r) => WaitOK(more, r)
  BY GrowsFits DEF WaitOK
<1> QED BY <1>1, <1>2 DEF ThreadOK

-----------------------------------------------------------------------------
(* A thread after an instruction *)

\* u is r with what its instruction pops replaced by what it pushes.
Stepped(fs, objs, r, u, next) ==
  LET ins == InsOf(fs, Last(r))
      rest == Len(r.stack) - Len(Pops(ins))
  IN /\ next \in Successors(ins, Last(r).ip)
     /\ u.frames = Onward(r.frames, next)
     /\ IsSeq(u.stack) /\ Len(u.stack) = rest + Len(Pushes(ins)) /\ Len(u.stack) <= StackSize
     /\ \A k \in 1 .. rest : u.stack[k] = r.stack[k]
     /\ Pushes(ins) # <<>> => Fits(objs, Last(r), Pushes(ins)[1], u.stack[rest + 1])

\* The operands after an instruction are laid out as the next one expects.
LEMMA SteppedLaid ==
  ASSUME NEW fs, NEW sh, VerifiedWith(fs, sh), NEW objs, NEW more, Grows(objs, more), NEW t, NEW r,
         ThreadOK(fs, sh, objs, t, r), r.state \in Going,
         NEW next, NEW u, Stepped(fs, more, r, u, next)
  PROVE  /\ Laid(sh, more, u)
         /\ Pauses(InsOf(fs, Last(r))) => Calm(sh, u)
         /\ Pauses(InsOf(fs, Last(r))) /\ Pushes(InsOf(fs, Last(r))) # <<>> => Len(Shape(sh, Last(u))) >= 1
         /\ IsSeq(u.frames) /\ Len(u.frames) = Len(r.frames)
         /\ \A k \in 1 .. Len(u.frames) : FrameOK(fs, sh, u.frames[k]) /\ u.frames[k].locals = r.frames[k].locals
         /\ CellsOf(Last(u)) = CellsOf(Last(r))
<1> DEFINE n == Len(r.frames)
           F == Last(r)
           ins == InsOf(fs, F)
           s == Shape(sh, F)
           s2 == Shape(sh, Last(u))
           below == Len(s) - Len(Pops(ins))
           rest == Len(r.stack) - Len(Pops(ins))
<1>1. /\ n \in Nat \ {0} /\ n \in 1 .. n /\ FrameOK(fs, sh, F)
      /\ IsSeq(r.frames) /\ \A k \in 1 .. n : FrameOK(fs, sh, r.frames[k])
  BY LastFrame DEF ThreadOK
<1>2. /\ VerifiedFunction(fs, F.function, sh[F.function]) /\ F.ip \in DOMAIN sh[F.function]
      /\ s \in Seq(Kind) /\ Len(s) \in Nat /\ Proper(fs, F.function, ins)
  BY <1>1, FrameCode
<1>3. /\ next \in DOMAIN sh[F.function] /\ below \in Nat
      /\ sh[F.function][next] \in Seq(Kind)
      /\ Len(sh[F.function][next]) = below + Len(Pushes(ins))
      /\ \A k \in 1 .. below :
           \/ sh[F.function][next][k] = s[k] 
           \/ sh[F.function][next][k] = Val /\ s[k].kind \in ValueKinds
      /\ Pauses(ins) => \A k \in 1 .. below : sh[F.function][next][k] = Val /\ s[k].kind \in ValueKinds
      /\ Pushes(ins) # <<>> => \/ sh[F.function][next][below + 1] = Pushes(ins)[1]
                               \/ sh[F.function][next][below + 1] = Val /\ Pushes(ins)[1].kind = "count"
  <2>1. next \in Successors(ins, F.ip)
    BY DEF Stepped
  <2> DEFINE shapes == sh[F.function]
  <2>2. s = shapes[F.ip] /\ ins = fs[F.function].instructions[F.ip + 1]
    BY DEF Shape, InsOf
  <2> HIDE DEF ins, s, F
  <2>3. VerifiedFunction(fs, F.function, shapes) /\ F.ip \in DOMAIN shapes
    BY <1>2
  <2>4. next \in DOMAIN shapes /\ Follows(ins, s, shapes[next])
    BY <2>1, <2>2, <2>3, NextShape
  <2> HIDE DEF shapes
  <2>5. /\ next \in DOMAIN shapes /\ below \in Nat
        /\ shapes[next] \in Seq(Kind)
        /\ Len(shapes[next]) = below + Len(Pushes(ins))
        /\ \A k \in 1 .. below :
             \/ shapes[next][k] = s[k] 
             \/ shapes[next][k] = Val /\ s[k].kind \in ValueKinds
        /\ Pauses(ins) => \A k \in 1 .. below : shapes[next][k] = Val /\ s[k].kind \in ValueKinds
        /\ Pushes(ins) # <<>> => \/ shapes[next][below + 1] = Pushes(ins)[1]
                                 \/ shapes[next][below + 1] = Val /\ Pushes(ins)[1].kind = "count"
    BY <2>4 DEF Follows
  <2> QED BY <2>5 DEF shapes
<1>4. /\ u.frames = Onward(r.frames, next)
      /\ IsSeq(u.stack) /\ Len(u.stack) = rest + Len(Pushes(ins))
      /\ \A k \in 1 .. rest : u.stack[k] = r.stack[k]
      /\ Pushes(ins) # <<>> => Fits(more, F, Pushes(ins)[1], u.stack[rest + 1])
  BY DEF Stepped
<1>5. /\ IsSeq(u.frames) /\ Len(u.frames) = n
      /\ \A k \in 1 .. n - 1 : u.frames[k] = r.frames[k]
      /\ Last(u) = [function |-> F.function, ip |-> next, locals |-> F.locals]
      /\ CellsOf(Last(u)) = CellsOf(F)
      /\ \A k \in 1 .. n : FrameOK(fs, sh, u.frames[k]) /\ u.frames[k].locals = r.frames[k].locals
  <2>1. r.frames[Len(r.frames)] = F
    BY DEF Last
  <2>2. Len(r.frames) >= 1 /\ next \in DOMAIN sh[r.frames[Len(r.frames)].function]
    BY <1>1, <1>3, <2>1
  <2> HIDE DEF F
  <2>3. Framed(fs, sh, r.frames)
    BY <1>1 DEF Framed
  <2>4. Moved(fs, sh, r.frames, u.frames, next)
    BY <1>4, <2>2, <2>3, OnwardFrames
  <2> QED BY <2>1, <2>4 DEF Last, Moved
<1>6. s2 = sh[F.function][next]
  BY <1>5 DEF Shape
<1>7. PICK base : Cut(sh, r, base) /\ Filled(sh, objs, r, base[n])
  BY DEF ThreadOK, Laid
<1>8. Cut(sh, u, base)
  <2>1. /\ base \in [1 .. n -> Nat] /\ base[1] = 0
        /\ \A k \in 1 .. n - 1 :
             LET q == Shape(sh, r.frames[k]) IN
             Len(q) >= 1 /\ AllVal(q) /\ base[k + 1] = base[k] + Len(q) - 1
    BY <1>7 DEF Cut
  <2> QED BY <1>5, <2>1 DEF Cut
<1> DEFINE b == base[n]
<1>9. /\ b \in Nat /\ Len(r.stack) = b + Len(s) /\ \A j \in 1 .. b : Good(Len(objs), r.stack[j])
      /\ \A j \in 1 .. Len(s) : Fits(objs, F, s[j], r.stack[b + j])
  BY <1>1, <1>7 DEF Cut, Filled
<1> HIDE DEF b, F, ins, s, s2, n
<1>10. Len(Pops(ins)) \in Nat /\ Len(Pushes(ins)) \in Nat /\ (Pushes(ins) # <<>> => Len(Pushes(ins)) = 1)
       /\ (Pushes(ins) = <<>> => Len(Pushes(ins)) = 0)
  BY <1>2, PopsLen, PushesOne
<1>11. rest = b + below /\ rest \in Nat
  BY <1>2, <1>3, <1>9, <1>10
<1> HIDE DEF rest, below
<1>12. Len(u.stack) = b + Len(s2)
  BY <1>3, <1>4, <1>6, <1>9, <1>10, <1>11
<1>13. \A j \in 1 .. b : Good(Len(more), u.stack[j])
  <2> TAKE j \in 1 .. b
  <2>1. j \in 1 .. rest
    BY <1>3, <1>9, <1>11
  <2> QED BY <1>4, <1>9, <2>1, GrowsFits
<1>14. ASSUME NEW j \in 1 .. Len(s2) PROVE Fits(more, Last(u), s2[j], u.stack[b + j])
  <2>1. CASE j \in 1 .. below
    <3>1. j \in 1 .. Len(s) /\ b + j \in 1 .. rest
      BY <1>2, <1>3, <1>9, <1>10, <1>11, <2>1 DEF below
    <3>2. Fits(objs, F, s[j], u.stack[b + j])
      BY <1>4, <1>9, <3>1
    <3>4. Fits(more, F, s[j], u.stack[b + j])
      BY <3>2, GrowsFits
    <3>3. s2[j] = s[j] \/ (s2[j] = Val /\ s[j].kind \in ValueKinds)
      BY <1>3, <1>6, <2>1
    <3> QED BY <1>5, <3>3, <3>4, FitsOn
  <2>2. CASE j \notin 1 .. below
    <3>0. j \in 1 .. below + Len(Pushes(ins))
      BY <1>3, <1>6
    <3>9. below \in Nat /\ b \in Nat /\ rest = b + below /\ Len(Pushes(ins)) \in Nat
      BY <1>3, <1>9, <1>10, <1>11
    <3>8. Len(Pushes(ins)) # 0
      BY <2>2, <3>0, <3>9
    <3>7. Pushes(ins) # <<>> /\ Len(Pushes(ins)) = 1
      BY <1>10, <3>8
    <3>1. Pushes(ins) # <<>> /\ j = below + 1 /\ b + j = rest + 1
      BY <2>2, <3>0, <3>7, <3>9
    <3>2. Fits(more, F, Pushes(ins)[1], u.stack[b + j])
      BY <1>4, <3>1
    <3>3. s2[j] = Pushes(ins)[1] \/ (s2[j] = Val /\ Pushes(ins)[1].kind \in ValueKinds)
      BY <1>3, <1>6, <3>1 DEF ValueKinds
    <3> QED BY <1>5, <3>2, <3>3, FitsOn
  <2> QED BY <2>1, <2>2
<1>15. Laid(sh, more, u)
  <2>1. Filled(sh, more, u, b)
    BY <1>12, <1>13, <1>14 DEF Filled, s2
  <2> QED BY <1>1, <1>5, <1>8, <2>1 DEF Laid, b, n
<1>16. Pauses(ins) => Pushes(ins) = <<>> \/ Pushes(ins) = <<Val>>
  BY DEF Pauses, Pushes
<1>17. ASSUME Pauses(ins), NEW k \in 1 .. Len(s2) PROVE s2[k] = Val
  <2>1. CASE k \in 1 .. below
    BY <1>3, <1>6, <1>17, <2>1
  <2>2. CASE k \notin 1 .. below
    <3>0. k \in 1 .. below + Len(Pushes(ins))
      BY <1>3, <1>6
    <3>1. below \in Nat /\ Len(Pushes(ins)) \in Nat
      BY <1>3, <1>10
    <3>2. Len(Pushes(ins)) # 0
      BY <2>2, <3>0, <3>1
    <3>3. Pushes(ins) # <<>> /\ Len(Pushes(ins)) = 1
      BY <1>10, <3>2
    <3>4. k = below + 1
      BY <2>2, <3>0, <3>1, <3>3
    <3>5. Pushes(ins)[1] = Val /\ Val.kind # "count"
      BY <1>16, <1>17, <3>3 DEF Val
    <3> QED BY <1>3, <1>6, <3>3, <3>4, <3>5
  <2> QED BY <2>1, <2>2
<1>18. Pauses(ins) => Calm(sh, u)
  BY <1>17 DEF Calm, AllVal, s2
<1>19. Pushes(ins) # <<>> => Len(s2) >= 1
  BY <1>3, <1>6, <1>10
<1> QED BY <1>5, <1>15, <1>18, <1>19 DEF F, ins, s2, n

\* The rest of the thread is as it should be.
Settled(objs, r, u) ==
  /\ IsThread(u) /\ u.state \in Going
  /\ IsSeq(u.endon) /\ Len(u.endon) <= MaxEndon
  /\ u.return_value = r.return_value
  /\ u.state = "WAITING_EVENT" =>
       /\ IsSeq(u.waittill.arguments)
       /\ \A k \in DOMAIN u.waittill.arguments : Target(objs, Last(r), u.waittill.arguments[k])

\* A thread is as it should be after an instruction.
LEMMA StepFits ==
  ASSUME NEW fs, NEW sh, VerifiedWith(fs, sh), NEW objs, NEW more, Grows(objs, more), NEW t, NEW r,
         ThreadOK(fs, sh, objs, t, r), r.state \in Going,
         NEW next, NEW u, Stepped(fs, more, r, u, next), Settled(more, r, u)
  PROVE  ThreadOK(fs, sh, more, t, u)
<1>1. /\ Laid(sh, more, u)
      /\ IsSeq(u.frames) /\ Len(u.frames) = Len(r.frames)
      /\ \A k \in 1 .. Len(u.frames) : FrameOK(fs, sh, u.frames[k])
      /\ CellsOf(Last(u)) = CellsOf(Last(r))
  BY SteppedLaid
<1>2. IsSeq(u.stack) /\ Len(u.stack) <= StackSize
  BY DEF Stepped
<1>3. Len(r.frames) <= FrameSize /\ SlotOK(t, r.return_value)
  BY DEF ThreadOK
<1>4. u.state = "WAITING_EVENT" => IsSeq(u.waittill.arguments) /\ WaitOK(more, u)
  <2>1. \A v : Target(more, Last(r), v) => Target(more, Last(u), v)
    BY <1>1 DEF Target
  <2> QED BY <2>1 DEF Settled, WaitOK
<1> QED BY <1>1, <1>2, <1>3, <1>4 DEF ThreadOK, Settled, States, Going

\* A thread that waits for a call enters the function called.
Entered(w, u, fr) ==
  /\ IsThread(u) /\ u.state = "ACTIVE" /\ u.endon = w.endon /\ u.return_value = w.return_value
  /\ u.frames = Append(w.frames, fr)
  /\ IsSeq(u.stack) /\ Len(u.stack) = Len(w.stack) - 1
  /\ \A k \in 1 .. Len(w.stack) - 1 : u.stack[k] = w.stack[k]

\* A call: the frame of the function called stands on the operands of its caller.
LEMMA EnterFits ==
  ASSUME NEW fs, NEW sh, NEW objs, NEW t, NEW w, ThreadOK(fs, sh, objs, t, w), w.state \in Going,
         Calm(sh, w), Shape(sh, Last(w)) \in Seq(Kind), Len(Shape(sh, Last(w))) >= 1, 
         Len(w.frames) < FrameSize,
         NEW fr, FrameOK(fs, sh, fr), Shape(sh, fr) = <<>>,
         NEW u, Entered(w, u, fr)
  PROVE  /\ ThreadOK(fs, sh, objs, t, u) /\ Last(u) = fr /\ Len(u.frames) = Len(w.frames) + 1
         /\ \A k \in 1 .. Len(w.frames) : u.frames[k] = w.frames[k]
         /\ Calm(sh, u)
<1> DEFINE n == Len(w.frames)
           s == Shape(sh, Last(w))
<1>1. /\ IsSeq(w.frames) /\ \A k \in 1 .. n : FrameOK(fs, sh, w.frames[k])
      /\ n \in Nat \ {0} /\ IsSeq(w.stack) /\ Len(w.stack) <= StackSize
  BY LastFrame DEF ThreadOK
<1>2. /\ IsSeq(u.frames) /\ Len(u.frames) = n + 1 /\ u.frames[n + 1] = fr
      /\ \A k \in 1 .. n : u.frames[k] = w.frames[k]
  BY <1>1, SeqAppend DEF Entered
<1>3. Last(u) = fr
  BY <1>2 DEF Last
<1>4. PICK base : Cut(sh, w, base) /\ Filled(sh, objs, w, base[n])
  BY DEF ThreadOK, Laid
<1>5. Len(s) \in Nat /\ AllVal(s) /\ Len(w.stack) \in Nat
  BY <1>1, SeqLen DEF Calm
<1> DEFINE b == base[n]
           top == b + Len(s) - 1
           nb == [k \in 1 .. n + 1 |-> IF k = n + 1 THEN top ELSE base[k]]
<1>6. base \in [1 .. n -> Nat] /\ b \in Nat /\ top \in Nat
  <2>1. base \in [1 .. n -> Nat]
    BY <1>4 DEF Cut
  <2>2. b \in Nat
    BY <1>1, <2>1
  <2> HIDE DEF b
  <2>3. Len(s) >= 1
    OBVIOUS
  <2> HIDE DEF s
  <2> QED BY <1>5, <2>1, <2>2, <2>3
<1> HIDE DEF b, s
<1>7. nb[n + 1] = top /\ \A k \in 1 .. n : nb[k] = base[k]
  BY <1>1
<1>8. Cut(sh, u, nb)
  <2>0. w.frames[n] = Last(w)
    BY DEF Last
  <2> HIDE DEF n
  <2>1. nb \in [1 .. n + 1 -> Nat]
    <3> HIDE DEF top
    <3>1. \A k \in 1 .. n + 1 : (IF k = n + 1 THEN top ELSE base[k]) \in Nat
      BY <1>1, <1>6
    <3> QED BY <3>1
  <2> HIDE DEF nb
  <2>2. nb[1] = 0
    BY <1>1, <1>4, <1>7 DEF Cut, n
  <2>3. ASSUME NEW k \in 1 .. n 
        PROVE LET q == Shape(sh, u.frames[k]) IN
              Len(q) >= 1 /\ AllVal(q) /\ nb[k + 1] = nb[k] + Len(q) - 1
    <3>1. CASE k = n
      <4>1. Shape(sh, u.frames[k]) = s /\ Len(s) >= 1
        BY <1>2, <2>0, <3>1 DEF s
      <4>2. nb[k + 1] = top /\ nb[k] = b
        BY <1>7, <3>1 DEF b
      <4> QED BY <1>5, <4>1, <4>2
    <3>2. CASE k # n
      <4>1. k \in 1 .. n - 1 /\ k + 1 \in 1 .. n
        BY <1>1, <3>2
      <4>2. nb[k + 1] = base[k + 1] /\ nb[k] = base[k] /\ u.frames[k] = w.frames[k]
        BY <1>2, <1>7, <4>1
      <4> QED BY <1>4, <4>1, <4>2 DEF Cut, n
    <3> QED BY <3>1, <3>2
  <2>4. Len(u.frames) - 1 = n
    BY <1>1, <1>2
  <2> QED BY <1>2, <2>1, <2>2, <2>3, <2>4 DEF Cut
<1>9. Filled(sh, objs, u, top)
  <2>1. /\ Len(w.stack) = b + Len(s)
        /\ \A j \in 1 .. b : Good(Len(objs), w.stack[j])
        /\ \A j \in 1 .. Len(s) : Fits(objs, Last(w), s[j], w.stack[b + j])
    BY <1>4 DEF Filled, b, s
  <2>2. Len(u.stack) = top /\ \A j \in 1 .. top : u.stack[j] = w.stack[j]
    <3>1. Len(w.stack) - 1 = top
      BY <1>5, <1>6, <2>1
    <3> QED BY <3>1 DEF Entered
  <2>3. ASSUME NEW j \in 1 .. top PROVE Good(Len(objs), u.stack[j])
    <3>1. u.stack[j] = w.stack[j]
      BY <2>2
    <3>2. CASE j \in 1 .. b
      BY <2>1, <3>1, <3>2
    <3>3. CASE j \notin 1 .. b
      <4> DEFINE i == j - b
      <4>1. i \in 1 .. Len(s) /\ b + i = j
        BY <1>5, <1>6, <3>3
      <4> HIDE DEF i
      <4>2. Fits(objs, Last(w), s[i], w.stack[j])
        BY <2>1, <4>1
      <4>3. s[i].kind \in ValueKinds
        BY <1>5, <4>1 DEF AllVal, Val, ValueKinds
      <4> QED BY <3>1, <4>2, <4>3 DEF Fits
    <3> QED BY <3>2, <3>3
  <2>4. Shape(sh, Last(u)) = <<>> /\ Len(Shape(sh, Last(u))) = 0
    BY <1>3
  <2> HIDE DEF top
  <2>5. Len(u.stack) = top + 0
    BY <1>6, <2>2
  <2> QED BY <2>3, <2>4, <2>5 DEF Filled
<1>10. Laid(sh, objs, u)
  <2>1. nb[Len(u.frames)] = top
    BY <1>2, <1>7
  <2> HIDE DEF nb, top
  <2>2. Len(u.frames) >= 1
    BY <1>1, <1>2
  <2> QED BY <1>8, <1>9, <2>1, <2>2 DEF Laid
<1> HIDE DEF n
<1>11. \A k \in 1 .. Len(u.frames) : FrameOK(fs, sh, u.frames[k])
  BY <1>1, <1>2
<1>12. Len(u.frames) <= FrameSize /\ Len(u.stack) <= StackSize
  <2>1. Len(w.frames) = n /\ n < FrameSize
    BY DEF n
  <2>2. Len(u.stack) = Len(w.stack) - 1
    BY DEF Entered
  <2>3. n \in Nat /\ Len(u.frames) = n + 1 /\ Len(w.stack) \in Nat /\ Len(w.stack) <= StackSize
    BY <1>1, <1>2, <1>5
  <2>4. FrameSize \in Nat /\ StackSize \in Nat
    BY Constants
  <2>5. Len(u.frames) <= FrameSize
    BY <2>1, <2>3, <2>4
  <2>6. Len(u.stack) <= StackSize
    BY <2>2, <2>3, <2>4
  <2> QED BY <2>5, <2>6
<1>13. IsSeq(u.endon) /\ Len(u.endon) <= MaxEndon /\ SlotOK(t, u.return_value)
  BY DEF ThreadOK, Entered
<1>14. Calm(sh, u)
  BY <1>3 DEF Calm, AllVal
<1> QED BY <1>2, <1>3, <1>10, <1>11, <1>12, <1>13, <1>14 DEF ThreadOK, Entered, States, Going, n

\* What a function that returns has on the stack is its result.
LEMMA Returning ==
  ASSUME NEW fs, NEW sh, VerifiedWith(fs, sh), NEW objs, NEW t, NEW r,
         ThreadOK(fs, sh, objs, t, r), r.state \in Going, InsOf(fs, Last(r)).op = "RET"
  PROVE  \E base : /\ Cut(sh, r, base) /\ base[Len(r.frames)] \in Nat
                   /\ Len(r.stack) = base[Len(r.frames)] + 1
                   /\ \A j \in 1 .. base[Len(r.frames)] + 1 : Good(Len(objs), r.stack[j])
<1> DEFINE n == Len(r.frames)
           s == Shape(sh, Last(r))
<1>1. n \in Nat \ {0} /\ n \in 1 .. n /\ FrameOK(fs, sh, Last(r))
  BY LastFrame
<1>2. s \in Seq(Kind) /\ Accepts(InsOf(fs, Last(r)), s)
  BY <1>1, FrameCode
<1>3. Len(s) = 1 /\ s[1].kind \in ValueKinds
  <2> DEFINE ins == InsOf(fs, Last(r))
  <2>1. Pops(ins) = <<ValueKinds>> /\ ins.op = "RET"
    BY DEF Pops
  <2> HIDE DEF s, ins
  <2>2. Len(Pops(ins)) = 1 /\ Pops(ins)[1] = ValueKinds
    BY <2>1
  <2>3. Len(s) = 1 /\ \A k \in 1 .. Len(Pops(ins)) : s[Len(s) + 1 - k].kind \in Pops(ins)[k]
    BY <1>2, <2>1 DEF Accepts, ins
  <2> QED BY <2>2, <2>3
<1>4. PICK base : Cut(sh, r, base) /\ Filled(sh, objs, r, base[n])
  BY DEF ThreadOK, Laid
<1> DEFINE b == base[n]
<1>5. b \in Nat
  BY <1>1, <1>4 DEF Cut
<1>6. /\ Len(r.stack) = b + Len(s)
      /\ \A j \in 1 .. b : Good(Len(objs), r.stack[j])
      /\ \A j \in 1 .. Len(s) : Fits(objs, Last(r), s[j], r.stack[b + j])
  BY <1>4 DEF Filled
<1> HIDE DEF b, s
<1>7. Good(Len(objs), r.stack[b + 1])
  BY <1>3, <1>6 DEF Fits
<1>8. \A j \in 1 .. b + 1 : Good(Len(objs), r.stack[j])
  <2> TAKE j \in 1 .. b + 1
  <2>1. j \in 1 .. b \/ j = b + 1
    BY <1>5
  <2> QED BY <1>6, <1>7, <2>1
<1> QED BY <1>3, <1>4, <1>5, <1>6, <1>8 DEF b

\* The function called has returned.
Left(r, u) ==
  /\ IsThread(u) /\ u.state = "ACTIVE" /\ u.endon = r.endon /\ u.return_value = r.return_value
  /\ u.frames = SubSeq(r.frames, 1, Len(r.frames) - 1) /\ u.stack = r.stack

\* A return inside a thread: the caller finds the result on top.
LEMMA LeaveFits ==
  ASSUME NEW fs, NEW sh, VerifiedWith(fs, sh), NEW objs, NEW t, NEW r,
         ThreadOK(fs, sh, objs, t, r), r.state \in Going, InsOf(fs, Last(r)).op = "RET",
         Len(r.frames) # 1, NEW u, Left(r, u)
  PROVE  /\ ThreadOK(fs, sh, objs, t, u) /\ Calm(sh, u) /\ Len(u.frames) = Len(r.frames) - 1
         /\ \A k \in 1 .. Len(u.frames) : u.frames[k] = r.frames[k]
<1> DEFINE n == Len(r.frames)
<1>1. /\ n \in Nat /\ n >= 1 /\ IsSeq(r.frames) /\ \A k \in 1 .. n : FrameOK(fs, sh, r.frames[k])
      /\ IsSeq(r.stack) /\ Len(r.stack) <= StackSize /\ n <= FrameSize
  BY LastFrame DEF ThreadOK
<1> DEFINE m == n - 1
<1>2. m \in Nat /\ m \in 1 .. n /\ m \in 1 .. n - 1 /\ m + 1 = n /\ m \in 0 .. n /\ m \in 1 .. m /\ m >= 1
  <2>1. n # 1
    OBVIOUS
  <2> HIDE DEF n
  <2> QED BY <1>1, <2>1
<1>3. /\ IsSeq(u.frames) /\ Len(u.frames) = m /\ \A k \in 1 .. m : u.frames[k] = r.frames[k]
  BY <1>1, <1>2, SeqPrefix DEF Left
<1>4. PICK base : /\ Cut(sh, r, base) /\ base[n] \in Nat /\ Len(r.stack) = base[n] + 1
                  /\ \A j \in 1 .. base[n] + 1 : Good(Len(objs), r.stack[j])
  BY Returning
<1> HIDE DEF m
<1> DEFINE s == Shape(sh, r.frames[m])
<1>5. /\ base \in [1 .. n -> Nat] /\ base[1] = 0
      /\ \A k \in 1 .. n - 1 :
           LET q == Shape(sh, r.frames[k]) IN
           Len(q) >= 1 /\ AllVal(q) /\ base[k + 1] = base[k] + Len(q) - 1
  BY <1>4 DEF Cut
<1>6. Len(s) >= 1 /\ AllVal(s) /\ base[n] = base[m] + Len(s) - 1 /\ base[m] \in Nat
  BY <1>2, <1>5
<1>7. Len(s) \in Nat
  <2>1. FrameOK(fs, sh, r.frames[m])
    BY <1>1, <1>2
  <2> QED BY <2>1, FrameCode
<1>8. Last(u) = r.frames[m]
  BY <1>2, <1>3 DEF Last
<1> DEFINE nb == [k \in 1 .. m |-> base[k]]
<1>9. Cut(sh, u, nb)
  <2>1. nb \in [1 .. m -> Nat] /\ nb[1] = 0
    <3>1. 1 \in 1 .. m /\ \A k \in 1 .. m : k \in 1 .. n
      BY <1>2
    <3> HIDE DEF n
    <3> QED BY <1>5, <3>1
  <2>2. ASSUME NEW k \in 1 .. m - 1
        PROVE LET q == Shape(sh, u.frames[k]) IN
              Len(q) >= 1 /\ AllVal(q) /\ nb[k + 1] = nb[k] + Len(q) - 1
    <3>1. k \in 1 .. n - 1 /\ k \in 1 .. m /\ k + 1 \in 1 .. m
      BY <1>2
    <3>2. nb[k + 1] = base[k + 1] /\ nb[k] = base[k] /\ u.frames[k] = r.frames[k]
      BY <1>3, <3>1
    <3> HIDE DEF nb
    <3> QED BY <1>5, <3>1, <3>2
  <2> HIDE DEF nb
  <2> QED BY <1>3, <2>1, <2>2 DEF Cut
<1> DEFINE c == base[m]
<1>10. Filled(sh, objs, u, c)
  <2> HIDE DEF c, s, n
  <2>0. c \in Nat /\ base[n] = c + Len(s) - 1
    BY <1>6 DEF c
  <2>1. Len(u.stack) = c + Len(s)
    BY <1>4, <1>7, <2>0 DEF Left
  <2>2. base[n] + 1 = c + Len(s)
    BY <1>7, <2>0
  <2>3. \A j \in 1 .. c + Len(s) : Good(Len(objs), u.stack[j])
    BY <1>4, <2>2 DEF Left
  <2>4. \A j \in 1 .. c : Good(Len(objs), u.stack[j])
    BY <1>7, <2>0, <2>3
  <2>5. ASSUME NEW j \in 1 .. Len(s) PROVE Fits(objs, Last(u), s[j], u.stack[c + j])
    <3>1. c + j \in 1 .. c + Len(s)
      BY <1>7, <2>0
    <3>2. s[j] = Val
      BY <1>6 DEF AllVal
    <3> QED BY <2>3, <3>1, <3>2 DEF Fits, Val, ValueKinds
  <2>6. s = Shape(sh, Last(u))
    BY <1>8 DEF s
  <2> QED BY <2>1, <2>4, <2>5, <2>6 DEF Filled
<1>11. Laid(sh, objs, u)
  <2>1. nb[Len(u.frames)] = c
    BY <1>2, <1>3
  <2> HIDE DEF nb, c
  <2>2. Len(u.frames) >= 1
    BY <1>2, <1>3
  <2> QED BY <1>9, <1>10, <2>1, <2>2 DEF Laid
<1>12. \A k \in 1 .. Len(u.frames) : FrameOK(fs, sh, u.frames[k])
  BY <1>1, <1>2, <1>3
<1>13. Len(u.frames) <= FrameSize
  <2>1. FrameSize \in Nat
    BY Constants
  <2> QED BY <1>1, <1>2, <1>3, <2>1
<1>14. IsSeq(u.endon) /\ Len(u.endon) <= MaxEndon /\ SlotOK(t, u.return_value)
  BY DEF ThreadOK, Left
<1>15. Calm(sh, u)
  BY <1>6, <1>8 DEF Calm
<1>16. ThreadOK(fs, sh, objs, t, u)
  BY <1>1, <1>3, <1>11, <1>12, <1>13, <1>14 DEF ThreadOK, Left, States, Going
<1> QED BY <1>3, <1>15, <1>16 DEF m, n

\* The result of a thread that has returned, over any operand of another one.
LEMMA OverwriteFits ==
  ASSUME NEW fs, NEW sh, NEW objs, NEW t, NEW r, ThreadOK(fs, sh, objs, t, r),
         r.state \in Going => Calm(sh, r),
         NEW at \in 1 .. Len(r.stack), NEW v, Good(Len(objs), v),
         NEW u, u = [r EXCEPT !.stack = Put(r.stack, at, v)]
  PROVE  /\ ThreadOK(fs, sh, objs, t, u) /\ IsThread(u) /\ (u.state \in Going => Calm(sh, u))
         /\ u.state = r.state /\ u.frames = r.frames /\ u.endon = r.endon
         /\ u.waittill = r.waittill /\ u.return_value = r.return_value
<1>1. /\ u = [state |-> r.state, stack |-> Put(r.stack, at, v), frames |-> r.frames, result |-> r.result,
              return_value |-> r.return_value, waittill |-> r.waittill, endon |-> r.endon]
      /\ IsSeq(r.stack)
  BY DEF ThreadOK, IsThread
<1>2. /\ IsThread(u) /\ u.state = r.state /\ u.frames = r.frames /\ u.endon = r.endon
      /\ u.waittill = r.waittill /\ u.return_value = r.return_value /\ u.stack = Put(r.stack, at, v)
  BY <1>1 DEF IsThread
<1>3. /\ IsSeq(u.stack) /\ Len(u.stack) = Len(r.stack)
      /\ u.stack[at] = v /\ \A k \in 1 .. Len(r.stack) : k # at => u.stack[k] = r.stack[k]
  BY <1>1, <1>2, SeqPut
<1>4. Last(u) = Last(r)
  BY <1>2 DEF Last
<1>5. r.state # "INACTIVE"
  <2>1. r.state = "INACTIVE" => Len(r.stack) = 0
    BY SeqNone DEF ThreadOK
  <2> QED BY <2>1
<1>6. ASSUME r.state \in Going PROVE Laid(sh, objs, u)
  <2> DEFINE s == Shape(sh, Last(r))
  <2>1. PICK base : Cut(sh, r, base) /\ Filled(sh, objs, r, base[Len(r.frames)])
    BY <1>6 DEF ThreadOK, Laid
  <2> DEFINE b == base[Len(r.frames)]
  <2>2. /\ Len(r.stack) = b + Len(s) /\ \A j \in 1 .. b : Good(Len(objs), r.stack[j])
        /\ \A j \in 1 .. Len(s) : Fits(objs, Last(r), s[j], r.stack[b + j])
    BY <2>1 DEF Filled
  <2>3. Cut(sh, u, base)
    BY <1>2, <2>1 DEF Cut
  <2>4. AllVal(s)
    BY <1>6 DEF Calm
  <2>5. b \in Nat
    <3>1. Len(r.frames) \in Nat /\ Len(r.frames) >= 1
      BY <1>6, LastFrame
    <3> QED BY <2>1, <3>1 DEF Cut
  <2> HIDE DEF b, s
  <2>6. Len(s) \in Nat
    <3>1. FrameOK(fs, sh, Last(r)) /\ IsSeq(r.stack)
      BY <1>6, LastFrame DEF ThreadOK
    <3>2. Len(r.stack) \in Nat
      BY <3>1, SeqLen
    <3>3. DOMAIN s = DOMAIN s
      OBVIOUS
    <3> QED BY <2>2, <2>5, <3>2
  <2>7. Filled(sh, objs, u, b)
    <3>1. \A j \in 1 .. b : j \in 1 .. Len(r.stack)
      BY <2>2, <2>5, <2>6
    <3>2. \A j \in 1 .. b : Good(Len(objs), u.stack[j])
      BY <1>3, <2>2, <3>1
    <3>3. ASSUME NEW j \in 1 .. Len(s) PROVE Fits(objs, Last(u), s[j], u.stack[b + j])
      <4>1. s[j] = Val /\ b + j \in 1 .. Len(r.stack)
        BY <2>2, <2>4, <2>5, <2>6 DEF AllVal
      <4>2. Fits(objs, Last(r), Val, r.stack[b + j])
        BY <2>2, <4>1
      <4>3. Good(Len(objs), u.stack[b + j])
        BY <1>3, <4>1, <4>2 DEF Fits, Val, ValueKinds
      <4> QED BY <4>1, <4>3 DEF Fits, Val, ValueKinds
    <3> QED BY <1>3, <1>4, <2>2, <3>2, <3>3 DEF Filled, s
  <2>8. Len(u.frames) >= 1 /\ Len(u.frames) = Len(r.frames)
    BY <1>2, <1>6, LastFrame
  <2> QED BY <2>3, <2>7, <2>8 DEF Laid, b
<1>7. WaitOK(objs, r) => WaitOK(objs, u)
  BY <1>2, <1>4 DEF WaitOK
<1>8. ThreadOK(fs, sh, objs, t, u)
  BY <1>2, <1>3, <1>5, <1>6, <1>7 DEF ThreadOK
<1>9. u.state \in Going => Calm(sh, u)
  BY <1>2, <1>4 DEF Calm
<1> QED BY <1>2, <1>8, <1>9

-----------------------------------------------------------------------------
(* Cells *)

\* The lowest of some numbers is one of them.
LEMMA LowestIn ==
  ASSUME NEW S \in SUBSET Nat, S # {}
  PROVE  Lowest(S) \in S /\ \A b \in S : Lowest(S) <= b
BY LeastNatural DEF Lowest

\* Taking n of at least n cells gives n different ones.
LEMMA Taken ==
  ASSUME NEW S \in SUBSET Cells, NEW n \in Nat, n <= Cardinality(S)
  PROVE  /\ Take(S, n) \in [1 .. n -> S]
         /\ \A j, k \in 1 .. n : Take(S, n)[j] = Take(S, n)[k] => j = k
<1> DEFINE left[k \in 0 .. n] == IF k = 0 THEN S ELSE left[k - 1] \ {Lowest(left[k - 1])}
           D == SUBSET S
           Less1(A) == A \ {Lowest(A)}
           step == [x \in (0 .. n) \X D |-> Less1(x[2])]
           Body(w) == [k \in 0 .. n |-> IF k = 0 THEN S ELSE w[k - 1] \ {Lowest(w[k - 1])}]
<1>1. 0 \in Int /\ n \in Int /\ 0 <= n /\ S \in D /\ \A A \in D : Less1(A) \in D
  OBVIOUS
<1>2. step \in [(0 .. n) \X D -> D]
  <2> HIDE DEF D, Less1
  <2> QED BY <1>1
<1>3. PICK w : Computes(w, 0, n, D, S, step)
  <2> HIDE DEF D, step
  <2> QED BY <1>1, <1>2, Recursion
<1>4. w \in [0 .. n -> D] /\ w[0] = S
  <2> HIDE DEF D, step
  <2> QED BY <1>1, <1>3 DEF Computes
<1>5. ASSUME NEW k \in 0 .. n, k # 0 PROVE w[k] = Less1(w[k - 1])
  <2>1. k - 1 \in 0 .. n
    BY <1>5
  <2> HIDE DEF D, Less1
  <2>2. w[k - 1] \in D
    BY <1>4, <2>1
  <2>3. step[<<k, w[k - 1]>>] = Less1(w[k - 1])
    BY <2>2
  <2> HIDE DEF step
  <2> QED BY <1>3, <1>5, <2>3 DEF Computes
<1>6. w = Body(w)
  <2>1. \A k \in 0 .. n : w[k] = Body(w)[k]
    BY <1>4, <1>5
  <2>2. Body(w) = [k \in 0 .. n |-> Body(w)[k]]
    OBVIOUS
  <2>3. w = [k \in 0 .. n |-> w[k]]
    <3> HIDE DEF D
    <3> QED BY <1>4
  <2> HIDE DEF Body
  <2> QED BY <2>1, <2>2, <2>3
<1>7. left = Body(left)
  BY <1>6
<1>8. Take(S, n) = [k \in 1 .. n |-> Lowest(left[k - 1])]
  BY DEF Take
<1> HIDE DEF left, D, step
<1>9. left[0] = S /\ \A k \in 1 .. n : left[k] = left[k - 1] \ {Lowest(left[k - 1])}
  <2>1. \A k \in 0 .. n : left[k] = IF k = 0 THEN S ELSE left[k - 1] \ {Lowest(left[k - 1])}
    BY <1>7
  <2>2. 0 \in 0 .. n /\ \A k \in 1 .. n : k \in 0 .. n /\ k # 0
    OBVIOUS
  <2> QED BY <2>1, <2>2
<1>10. /\ IsFiniteSet(S) /\ S \in SUBSET Nat
  <2>1. IsFiniteSet(Cells) /\ Cells \subseteq Nat
    BY Constants
  <2>2. IsFiniteSet(S)
    BY <2>1, FS_Subset
  <2> QED BY <2>1, <2>2
<1>11. Cardinality(S) \in Nat
  BY <1>10, FS_CardinalityType
<1> DEFINE Fine(k) == left[k] \subseteq S /\ Cardinality(left[k]) = Cardinality(S) - k
           T == {k \in 0 .. n : Fine(k)}
<1>12. 0 .. n \subseteq T
  <2>1. 0 \in T
    BY <1>9, <1>11
  <2>2. ASSUME NEW k \in 0 .. n, k # 0, k - 1 \in T PROVE k \in T
    <3> DEFINE A == left[k - 1]
    <3>1. A \subseteq S /\ Cardinality(A) = Cardinality(S) - (k - 1) /\ k \in 1 .. n
      BY <2>2
    <3>2. IsFiniteSet(A) /\ A \in SUBSET Nat
      BY <1>10, <3>1, FS_Subset
    <3>3. A # {}
      <4>1. Cardinality(A) # 0
        BY <1>11, <3>1
      <4> QED BY <4>1, FS_EmptySet
    <3>4. Lowest(A) \in A
      BY <3>2, <3>3, LowestIn
    <3>5. left[k] = A \ {Lowest(A)}
      BY <1>9, <3>1
    <3> HIDE DEF A
    <3>6. Cardinality(A \ {Lowest(A)}) = Cardinality(A) - 1
      BY <3>2, <3>4, FS_RemoveElement
    <3>7. Fine(k)
      BY <1>11, <3>1, <3>5, <3>6
    <3> QED BY <3>7
  <2> HIDE DEF T
  <2> QED BY <1>1, <2>1, <2>2, IntervalInduction
<1>13. \A k \in 0 .. n : Fine(k)
  BY <1>12
<1>14. ASSUME NEW k \in 1 .. n
       PROVE  /\ Lowest(left[k - 1]) \in left[k - 1] /\ left[k - 1] \subseteq S
              /\ left[k] = left[k - 1] \ {Lowest(left[k - 1])}
  <2> DEFINE A == left[k - 1]
  <2>1. A \subseteq S /\ Cardinality(A) = Cardinality(S) - (k - 1)
    <3>1. k - 1 \in 0 .. n
      OBVIOUS
    <3> QED BY <1>13, <3>1
  <2>2. A # {}
    <3>1. Cardinality(A) # 0
      BY <1>11, <2>1
    <3> QED BY <3>1, FS_EmptySet
  <2>3. Lowest(A) \in A
    BY <1>10, <2>1, <2>2, LowestIn
  <2> QED BY <1>9, <2>1, <2>3
<1>15. Take(S, n) \in [1 .. n -> S]
  <2>1. \A k \in 1 .. n : Lowest(left[k - 1]) \in S
    BY <1>14
  <2> QED BY <1>8, <2>1
<1>16. ASSUME NEW j \in 1 .. n, NEW k \in 1 .. n, j < k
       PROVE  Take(S, n)[j] # Take(S, n)[k]
  <2> DEFINE U == {i \in j .. n : left[i] \subseteq left[j]}
  <2>1. j \in U
    OBVIOUS
  <2>2. ASSUME NEW i \in j .. n, i # j, i - 1 \in U PROVE i \in U
    <3>1. i \in 1 .. n /\ left[i - 1] \subseteq left[j]
      BY <2>2
    <3>2. left[i] \subseteq left[i - 1]
      BY <1>9, <3>1
    <3> QED BY <3>1, <3>2
  <2>3. j .. n \subseteq U
    <3> HIDE DEF U
    <3>1. j \in Int /\ n \in Int
      OBVIOUS
    <3> QED BY <2>1, <2>2, <3>1, IntervalInduction
  <2>4. k - 1 \in j .. n
    BY <1>16
  <2>5. left[k - 1] \subseteq left[j]
    BY <2>3, <2>4
  <2>6. Lowest(left[k - 1]) \in left[j] /\ Lowest(left[j - 1]) \notin left[j]
    BY <1>14, <2>5
  <2>7. Take(S, n)[j] = Lowest(left[j - 1]) /\ Take(S, n)[k] = Lowest(left[k - 1])
    BY <1>8
  <2> QED BY <2>6, <2>7
<1>17. \A j, k \in 1 .. n : Take(S, n)[j] = Take(S, n)[k] => j = k
  <2> TAKE j, k \in 1 .. n
  <2>1. j < k \/ k < j \/ j = k
    OBVIOUS
  <2> QED BY <1>16, <2>1
<1> QED BY <1>15, <1>17

-----------------------------------------------------------------------------
(* Who owns which cell *)

\* The same threads with the same locals.
SameLocals(ths, nths) ==
  \A t \in Threads :
    /\ nths[t].state = "FREE" <=> ths[t].state = "FREE"
    /\ DOMAIN nths[t].frames = DOMAIN ths[t].frames
    /\ \A j \in DOMAIN ths[t].frames : nths[t].frames[j].locals = ths[t].frames[j].locals

\* The same cells are free.
SameFree(cs, ncs) == \A a \in Cells : ncs[a] = Free <=> cs[a] = Free

\* Local by local.
LEMMA SameLocalsIs ==
  ASSUME NEW ths, NEW nths, SameLocals(ths, nths)
  PROVE  \A t, j, k : /\ IsLocal(nths, t, j, k) <=> IsLocal(ths, t, j, k)
                      /\ IsLocal(ths, t, j, k) => CellAt(nths, t, j, k) = CellAt(ths, t, j, k)
BY DEF SameLocals, IsLocal, CellAt

\* Nothing happens to the variables.
LEMMA OwnersStay ==
  ASSUME NEW ths, NEW nths, NEW objs, NEW more, NEW cs, NEW ncs, SameLocals(ths, nths), SameFree(cs, ncs),
         \A o, f : /\ HasKey(more, o, f) <=> HasKey(objs, o, f)
                   /\ HasKey(objs, o, f) => more[o][f] = objs[o][f]
  PROVE  /\ Unshared(ths, objs, cs) => Unshared(nths, more, ncs)
         /\ AllOwned(ths, objs, cs) => AllOwned(nths, more, ncs)
<1>1. \A t, j, k : /\ IsLocal(nths, t, j, k) <=> IsLocal(ths, t, j, k)
                   /\ IsLocal(ths, t, j, k) => CellAt(nths, t, j, k) = CellAt(ths, t, j, k)
  BY SameLocalsIs
<1>2. ASSUME Unshared(ths, objs, cs) PROVE Unshared(nths, more, ncs)
  <2>1. \A t, j, k : IsLocal(nths, t, j, k) =>
          CellAt(nths, t, j, k) \in Cells /\ ncs[CellAt(nths, t, j, k)] # Free
    BY <1>1, <1>2 DEF Unshared, SameFree
  <2>2. \A o, f : HasKey(more, o, f) => more[o][f] \in Cells /\ ncs[more[o][f]] # Free
    BY <1>2 DEF Unshared, SameFree
  <2>3. \A t, j, k, u, i, l :
          IsLocal(nths, t, j, k) /\ IsLocal(nths, u, i, l) /\ CellAt(nths, t, j, k) = CellAt(nths, u, i, l) =>
            t = u /\ j = i /\ k = l
    BY <1>1, <1>2 DEF Unshared
  <2>4. \A o, f, p, g : HasKey(more, o, f) /\ HasKey(more, p, g) /\ more[o][f] = more[p][g] =>
          o = p /\ f = g
    BY <1>2 DEF Unshared
  <2>5. \A t, j, k, o, f : IsLocal(nths, t, j, k) /\ HasKey(more, o, f) =>
          CellAt(nths, t, j, k) # more[o][f]
    BY <1>1, <1>2 DEF Unshared
  <2> QED BY <2>1, <2>2, <2>3, <2>4, <2>5 DEF Unshared
<1>3. ASSUME AllOwned(ths, objs, cs) PROVE AllOwned(nths, more, ncs)
  BY <1>1, <1>3 DEF AllOwned, SameFree
<1> QED BY <1>2, <1>3

\* A frame of fresh cells appears.
FrameAdded(ths, nths, t0, j0, n, fresh) ==
  /\ \A t, j, k : /\ IsLocal(nths, t, j, k) <=>
                       IsLocal(ths, t, j, k) \/ (t = t0 /\ j = j0 /\ k \in 1 .. n)
                  /\ IsLocal(ths, t, j, k) => 
                       ~(t = t0 /\ j = j0) /\ CellAt(nths, t, j, k) = CellAt(ths, t, j, k)
  /\ \A k \in 1 .. n : CellAt(nths, t0, j0, k) = fresh[k]
CellsTaken(cs, ncs, n, fresh) ==
  /\ \A k \in 1 .. n : fresh[k] \in Cells /\ cs[fresh[k]] = Free
  /\ \A k, l \in 1 .. n : fresh[k] = fresh[l] => k = l
  /\ \A a \in Cells : ncs[a] = Free <=> cs[a] = Free /\ \A k \in 1 .. n : fresh[k] # a

\* A call takes cells that nobody has, and gives each an owner.
LEMMA OwnersCalled ==
  ASSUME NEW ths, NEW nths, NEW objs, NEW cs, NEW ncs, NEW t0, NEW j0, NEW n, NEW fresh,
         FrameAdded(ths, nths, t0, j0, n, fresh), CellsTaken(cs, ncs, n, fresh)
  PROVE  /\ Unshared(ths, objs, cs) => Unshared(nths, objs, ncs)
         /\ AllOwned(ths, objs, cs) => AllOwned(nths, objs, ncs)
<1>0. /\ \A t, j, k : /\ IsLocal(nths, t, j, k) <=>
                             IsLocal(ths, t, j, k) \/ (t = t0 /\ j = j0 /\ k \in 1 .. n)
                      /\ IsLocal(ths, t, j, k) => 
                             ~(t = t0 /\ j = j0) /\ CellAt(nths, t, j, k) = CellAt(ths, t, j, k)
      /\ \A k \in 1 .. n : /\ CellAt(nths, t0, j0, k) = fresh[k]
                           /\ fresh[k] \in Cells /\ cs[fresh[k]] = Free
      /\ \A k, l \in 1 .. n : fresh[k] = fresh[l] => k = l
      /\ \A a \in Cells : ncs[a] = Free <=> cs[a] = Free /\ \A k \in 1 .. n : fresh[k] # a
  BY DEF FrameAdded, CellsTaken
<1>1. ASSUME Unshared(ths, objs, cs) PROVE Unshared(nths, objs, ncs)
  <2>1. \A t, j, k : IsLocal(nths, t, j, k) =>
          CellAt(nths, t, j, k) \in Cells /\ ncs[CellAt(nths, t, j, k)] # Free
    <3> TAKE t, j, k
    <3>1. CASE IsLocal(ths, t, j, k)
      BY <1>0, <1>1, <3>1 DEF Unshared
    <3>2. CASE t = t0 /\ j = j0 /\ k \in 1 .. n
      BY <1>0, <3>2
    <3> QED BY <1>0, <3>1, <3>2
  <2>2. \A o, f : HasKey(objs, o, f) => objs[o][f] \in Cells /\ ncs[objs[o][f]] # Free
    BY <1>0, <1>1 DEF Unshared
  <2>3. ASSUME NEW t, NEW j, NEW k, NEW u, NEW i, NEW l, IsLocal(nths, t, j, k), IsLocal(nths, u, i, l),
               CellAt(nths, t, j, k) = CellAt(nths, u, i, l)
        PROVE  t = u /\ j = i /\ k = l
    <3>1. CASE IsLocal(ths, t, j, k) /\ IsLocal(ths, u, i, l)
      BY <1>0, <1>1, <2>3, <3>1 DEF Unshared
    <3>2. CASE IsLocal(ths, t, j, k) /\ u = t0 /\ i = j0 /\ l \in 1 .. n
      <4>1. cs[CellAt(ths, t, j, k)] # Free
        BY <1>0, <1>1, <3>2 DEF Unshared
      <4> QED BY <1>0, <2>3, <3>2, <4>1
    <3>3. CASE IsLocal(ths, u, i, l) /\ t = t0 /\ j = j0 /\ k \in 1 .. n
      <4>1. cs[CellAt(ths, u, i, l)] # Free
        BY <1>0, <1>1, <3>3 DEF Unshared
      <4> QED BY <1>0, <2>3, <3>3, <4>1
    <3>4. CASE t = t0 /\ j = j0 /\ k \in 1 .. n /\ u = t0 /\ i = j0 /\ l \in 1 .. n
      BY <1>0, <2>3, <3>4
    <3> QED BY <1>0, <2>3, <3>1, <3>2, <3>3, <3>4
  <2>4. \A o, f, p, g : HasKey(objs, o, f) /\ HasKey(objs, p, g) /\ objs[o][f] = objs[p][g] =>
          o = p /\ f = g
    BY <1>0, <1>1 DEF Unshared
  <2>5. ASSUME NEW t, NEW j, NEW k, NEW o, NEW f, IsLocal(nths, t, j, k), HasKey(objs, o, f)
        PROVE  CellAt(nths, t, j, k) # objs[o][f]
    <3>1. CASE IsLocal(ths, t, j, k)
      BY <1>0, <1>1, <2>5, <3>1 DEF Unshared
    <3>2. CASE t = t0 /\ j = j0 /\ k \in 1 .. n
      <4>1. cs[objs[o][f]] # Free
        BY <1>0, <1>1, <2>5 DEF Unshared
      <4> QED BY <1>0, <3>2, <4>1
    <3> QED BY <1>0, <2>5, <3>1, <3>2
  <2> QED BY <2>1, <2>2, <2>3, <2>4, <2>5 DEF Unshared
<1>2. ASSUME AllOwned(ths, objs, cs) PROVE AllOwned(nths, objs, ncs)
  <2> SUFFICES ASSUME NEW a \in Cells, ncs[a] # Free
               PROVE  \/ \E t, j, k : IsLocal(nths, t, j, k) /\ CellAt(nths, t, j, k) = a
                      \/ \E o, f : HasKey(objs, o, f) /\ objs[o][f] = a
    BY DEF AllOwned
  <2>1. CASE cs[a] # Free
    BY <1>0, <1>2, <2>1 DEF AllOwned
  <2>2. ASSUME NEW k \in 1 .. n, fresh[k] = a
        PROVE  \E t, j, i : IsLocal(nths, t, j, i) /\ CellAt(nths, t, j, i) = a
    <3>1. IsLocal(nths, t0, j0, k) /\ CellAt(nths, t0, j0, k) = a
      BY <1>0, <2>2
    <3> QED BY <1>0, <3>1
  <2> QED BY <1>0, <2>1, <2>2
<1> QED BY <1>1, <1>2

\* A frame disappears and gives its cells back.
FrameGone(ths, nths, t0, j0) ==
  \A t, j, k : /\ IsLocal(nths, t, j, k) <=> IsLocal(ths, t, j, k) /\ ~(t = t0 /\ j = j0)
               /\ IsLocal(nths, t, j, k) => CellAt(nths, t, j, k) = CellAt(ths, t, j, k)
CellsGiven(ths, cs, ncs, t0, j0) ==
  \A a \in Cells : ncs[a] = Free <=>
    cs[a] = Free \/ \E k : IsLocal(ths, t0, j0, k) /\ CellAt(ths, t0, j0, k) = a

\* A return frees the cells of its frame and of no other variable.
LEMMA OwnersReturned ==
  ASSUME NEW ths, NEW nths, NEW objs, NEW cs, NEW ncs, NEW t0, NEW j0,
         FrameGone(ths, nths, t0, j0), CellsGiven(ths, cs, ncs, t0, j0)
  PROVE  /\ Unshared(ths, objs, cs) => Unshared(nths, objs, ncs)
         /\ Unshared(ths, objs, cs) /\ AllOwned(ths, objs, cs) => AllOwned(nths, objs, ncs)
<1>0. /\ \A t, j, k : /\ IsLocal(nths, t, j, k) <=> IsLocal(ths, t, j, k) /\ ~(t = t0 /\ j = j0)
                      /\ IsLocal(nths, t, j, k) => CellAt(nths, t, j, k) = CellAt(ths, t, j, k)
      /\ \A a \in Cells : ncs[a] = Free <=>
           cs[a] = Free \/ \E k : IsLocal(ths, t0, j0, k) /\ CellAt(ths, t0, j0, k) = a
  BY DEF FrameGone, CellsGiven
<1>1. ASSUME Unshared(ths, objs, cs) PROVE Unshared(nths, objs, ncs)
  <2>1. ASSUME NEW t, NEW j, NEW k, IsLocal(nths, t, j, k)
        PROVE  CellAt(nths, t, j, k) \in Cells /\ ncs[CellAt(nths, t, j, k)] # Free
    <3>1. /\ IsLocal(ths, t, j, k) /\ ~(t = t0 /\ j = j0) /\ CellAt(nths, t, j, k) = CellAt(ths, t, j, k)
          /\ CellAt(ths, t, j, k) \in Cells /\ cs[CellAt(ths, t, j, k)] # Free
      BY <1>0, <1>1, <2>1 DEF Unshared
    <3>2. \A l : IsLocal(ths, t0, j0, l) => CellAt(ths, t0, j0, l) # CellAt(ths, t, j, k)
      BY <1>0, <1>1, <3>1 DEF Unshared
    <3> QED BY <1>0, <3>1, <3>2
  <2>2. ASSUME NEW o, NEW f, HasKey(objs, o, f) PROVE objs[o][f] \in Cells /\ ncs[objs[o][f]] # Free
    <3>1. objs[o][f] \in Cells /\ cs[objs[o][f]] # Free
      BY <1>0, <1>1, <2>2 DEF Unshared
    <3>2. \A l : IsLocal(ths, t0, j0, l) => CellAt(ths, t0, j0, l) # objs[o][f]
      BY <1>0, <1>1, <2>2 DEF Unshared
    <3> QED BY <1>0, <3>1, <3>2
  <2>3. \A t, j, k, u, i, l :
          IsLocal(nths, t, j, k) /\ IsLocal(nths, u, i, l) /\ CellAt(nths, t, j, k) = CellAt(nths, u, i, l) =>
            t = u /\ j = i /\ k = l
    BY <1>0, <1>1 DEF Unshared
  <2>4. \A o, f, p, g : HasKey(objs, o, f) /\ HasKey(objs, p, g) /\ objs[o][f] = objs[p][g] =>
          o = p /\ f = g
    BY <1>0, <1>1 DEF Unshared
  <2>5. \A t, j, k, o, f : IsLocal(nths, t, j, k) /\ HasKey(objs, o, f) =>
          CellAt(nths, t, j, k) # objs[o][f]
    BY <1>0, <1>1 DEF Unshared
  <2> QED BY <2>1, <2>2, <2>3, <2>4, <2>5 DEF Unshared
<1>2. ASSUME Unshared(ths, objs, cs), AllOwned(ths, objs, cs) PROVE AllOwned(nths, objs, ncs)
  <2> SUFFICES ASSUME NEW a \in Cells, ncs[a] # Free
               PROVE  \/ \E t, j, k : IsLocal(nths, t, j, k) /\ CellAt(nths, t, j, k) = a
                      \/ \E o, f : HasKey(objs, o, f) /\ objs[o][f] = a
    BY DEF AllOwned
  <2>1. cs[a] # Free /\ \A k : IsLocal(ths, t0, j0, k) => CellAt(ths, t0, j0, k) # a
    BY <1>0
  <2>2. ASSUME NEW t, NEW j, NEW k, IsLocal(ths, t, j, k), CellAt(ths, t, j, k) = a
        PROVE  IsLocal(nths, t, j, k) /\ CellAt(nths, t, j, k) = a
    BY <1>0, <2>1, <2>2
  <2>3. \/ \E t, j, k : IsLocal(ths, t, j, k) /\ CellAt(ths, t, j, k) = a
        \/ \E o, f : HasKey(objs, o, f) /\ objs[o][f] = a
    BY <1>0, <1>2, <2>1 DEF AllOwned
  <2> QED BY <1>0, <2>2, <2>3
<1> QED BY <1>1, <1>2

\* An object gets a field in a fresh cell.
HasOneMore(objs, more, o0, f0, cell) ==
  /\ more[o0][f0] = cell
  /\ \A o, f : /\ HasKey(more, o, f) <=> HasKey(objs, o, f) \/ (o = o0 /\ f = f0)
               /\ HasKey(objs, o, f) => more[o][f] = objs[o][f] /\ ~(o = o0 /\ f = f0)
CellTaken(cs, ncs, cell) ==
  /\ cell \in Cells /\ cs[cell] = Free
  /\ \A a \in Cells : ncs[a] = Free <=> cs[a] = Free /\ a # cell

\* A new field takes a cell that nobody has.
LEMMA OwnersExtended ==
  ASSUME NEW ths, NEW nths, NEW objs, NEW more, NEW cs, NEW ncs, SameLocals(ths, nths),
         NEW o0, NEW f0, NEW cell, HasOneMore(objs, more, o0, f0, cell), CellTaken(cs, ncs, cell)
  PROVE  /\ Unshared(ths, objs, cs) => Unshared(nths, more, ncs)
         /\ AllOwned(ths, objs, cs) => AllOwned(nths, more, ncs)
<1>0. \A t, j, k : /\ IsLocal(nths, t, j, k) <=> IsLocal(ths, t, j, k)
                   /\ IsLocal(ths, t, j, k) => CellAt(nths, t, j, k) = CellAt(ths, t, j, k)
  BY SameLocalsIs
<1>9. /\ more[o0][f0] = cell
      /\ \A o, f : /\ HasKey(more, o, f) <=> HasKey(objs, o, f) \/ (o = o0 /\ f = f0)
                   /\ HasKey(objs, o, f) => more[o][f] = objs[o][f] /\ ~(o = o0 /\ f = f0)
      /\ cell \in Cells /\ cs[cell] = Free
      /\ \A a \in Cells : ncs[a] = Free <=> cs[a] = Free /\ a # cell
  BY DEF HasOneMore, CellTaken
<1>1. ASSUME Unshared(ths, objs, cs) PROVE Unshared(nths, more, ncs)
  <2>1. \A t, j, k : IsLocal(nths, t, j, k) =>
          CellAt(nths, t, j, k) \in Cells /\ ncs[CellAt(nths, t, j, k)] # Free
    BY <1>9, <1>0, <1>1 DEF Unshared
  <2>2. \A o, f : HasKey(more, o, f) => more[o][f] \in Cells /\ ncs[more[o][f]] # Free
    <3> TAKE o, f
    <3>1. CASE HasKey(objs, o, f)
      BY <1>9, <1>1, <3>1 DEF Unshared
    <3>2. CASE o = o0 /\ f = f0
      BY <1>9, <3>2
    <3> QED BY <1>9, <3>1, <3>2
  <2>3. \A t, j, k, u, i, l :
          IsLocal(nths, t, j, k) /\ IsLocal(nths, u, i, l) /\ CellAt(nths, t, j, k) = CellAt(nths, u, i, l) =>
            t = u /\ j = i /\ k = l
    BY <1>9, <1>0, <1>1 DEF Unshared
  <2>4. \A o, f, p, g : HasKey(more, o, f) /\ HasKey(more, p, g) /\ more[o][f] = more[p][g] =>
          o = p /\ f = g
    BY <1>9, <1>1 DEF Unshared
  <2>5. \A t, j, k, o, f : IsLocal(nths, t, j, k) /\ HasKey(more, o, f) =>
          CellAt(nths, t, j, k) # more[o][f]
    BY <1>9, <1>0, <1>1 DEF Unshared
  <2> QED BY <2>1, <2>2, <2>3, <2>4, <2>5 DEF Unshared
<1>2. ASSUME AllOwned(ths, objs, cs) PROVE AllOwned(nths, more, ncs)
  <2> SUFFICES ASSUME NEW a \in Cells, ncs[a] # Free
               PROVE  \/ \E t, j, k : IsLocal(nths, t, j, k) /\ CellAt(nths, t, j, k) = a
                      \/ \E o, f : HasKey(more, o, f) /\ more[o][f] = a
    BY DEF AllOwned
  <2>1. CASE cs[a] # Free
    <3>1. \/ \E t, j, k : IsLocal(ths, t, j, k) /\ CellAt(ths, t, j, k) = a
          \/ \E o, f : HasKey(objs, o, f) /\ objs[o][f] = a
      BY <1>9, <1>2, <2>1 DEF AllOwned
    <3> QED BY <1>9, <1>0, <3>1
  <2>2. CASE a = cell
    <3>1. HasKey(more, o0, f0) /\ more[o0][f0] = a
      BY <1>9, <2>2
    <3> QED BY <1>9, <3>1
  <2> QED BY <1>9, <2>1, <2>2
<1> QED BY <1>1, <1>2

-----------------------------------------------------------------------------
(* Steps of the running thread *)

\* Thread t becomes u, and what the objects have stays.
Becomes(sh, t, u) ==
  /\ functions' = functions /\ cur' = cur /\ pool' = pool
  /\ threads' = Put(threads, t, u)
  /\ Grows(objects, objects')
  /\ ThreadOK(functions, sh, objects', t, u)
  /\ u.state # "FREE" /\ (u.state \in Going /\ (t # cur \/ u.state # "ACTIVE") => Calm(sh, u))

\* The threads when one is replaced.
LEMMA PutThread ==
  ASSUME NEW ths, ths = [t \in Threads |-> ths[t]], NEW t \in Threads, NEW u
  PROVE  /\ Put(ths, t, u) = [x \in Threads |-> Put(ths, t, u)[x]]
         /\ Put(ths, t, u)[t] = u /\ \A x \in Threads : x # t => Put(ths, t, u)[x] = ths[x]
BY DEF Put

\* The invariant of threads when one of them becomes u.
LEMMA BecomesKeeps ==
  ASSUME NEW sh, IInv(sh), NEW t \in Threads, threads[t].state # "FREE", NEW u, Becomes(sh, t, u)
  PROVE  VerifiedWith(functions, sh)' /\ ThreadsInv(sh)' /\ CalmInv(sh)' /\ PoolInv'
<1>1. /\ threads' = [x \in Threads |-> threads'[x]]
      /\ threads'[t] = u /\ \A x \in Threads : x # t => threads'[x] = threads[x]
  BY PutThread DEF Becomes, IInv, ThreadsInv
<1>2. functions' = functions /\ cur' = cur /\ pool' = pool
  BY DEF Becomes
<1>3. VerifiedWith(functions, sh)'
  BY <1>2 DEF IInv
<1>4. \A x \in Threads : ThreadOK(functions, sh, objects', x, threads'[x])
  <2> TAKE x \in Threads
  <2>1. CASE x = t
    BY <1>1, <2>1 DEF Becomes
  <2>2. CASE x # t
    <3>1. ThreadOK(functions, sh, objects, x, threads[x]) /\ Grows(objects, objects')
      BY DEF Becomes, IInv, ThreadsInv
    <3> QED BY <1>1, <2>2, <3>1, GrowsThread
  <2> QED BY <2>1, <2>2
<1>5. ThreadsInv(sh)'
  BY <1>1, <1>2, <1>4 DEF ThreadsInv
<1>6. CalmInv(sh)'
  BY <1>1, <1>2 DEF CalmInv, IInv, Becomes
<1>7. PoolInv'
  <2>1. \A k \in 1 .. Len(pool) : pool[k] # t
    BY DEF IInv, PoolInv
  <2>2. u.state # "FREE"
    BY DEF Becomes
  <2>3. \A k \in 1 .. Len(pool) : pool[k] \in Threads
    BY DEF IInv, PoolInv
  <2>4. \A k \in 1 .. Len(pool') : threads'[pool'[k]].state = "FREE"
    BY <1>1, <1>2, <2>1, <2>3 DEF IInv, PoolInv
  <2>5. cur' # 0 => threads'[cur'].state # "FREE"
    <3>1. cur # 0 => cur \in Threads /\ threads[cur].state # "FREE"
      BY DEF IInv, PoolInv, Threads
    <3> QED BY <1>1, <1>2, <2>2, <3>1
  <2>6. cur' \in 0 .. MaxThreads /\ pool' \in Seq(Threads) /\ \A k, l \in 1 .. Len(pool') : pool'[k] = pool'[l] => k = l
    BY <1>2 DEF IInv, PoolInv
  <2> QED BY <2>4, <2>5, <2>6 DEF PoolInv
<1> QED BY <1>3, <1>5, <1>6, <1>7

\* The variables keep their cells, if no thread gets or loses one.
OwnersKept ==
  SameLocals(threads, threads') =>
    /\ Unshared(threads, objects, cells) => Unshared(threads', objects', cells')
    /\ AllOwned(threads, objects, cells) => AllOwned(threads', objects', cells')

\* The invariant when one thread has changed but not its locals.
LEMMA AlikeKeeps ==
  ASSUME NEW sh, IInv(sh), NEW t \in Threads, threads[t].state # "FREE", NEW u, Becomes(sh, t, u),
         DOMAIN u.frames = DOMAIN threads[t].frames,
         \A k \in DOMAIN u.frames : u.frames[k].locals = threads[t].frames[k].locals,
         u.endon = threads[t].endon \/ ~NoEndon(functions),
         OwnersKept, ObjectsInv', CellsInv', EventsInv', Excused(error')
  PROVE  IInv(sh)'
<1>1. /\ threads'[t] = u /\ \A x \in Threads : x # t => threads'[x] = threads[x]
  BY PutThread DEF Becomes, IInv, ThreadsInv
<1>2. SameLocals(threads, threads')
  BY <1>1 DEF SameLocals, Becomes
<1>3. Unshared(threads', objects', cells') /\ NoneLost'
  <2>1. Unshared(threads, objects, cells) /\ NoneLost /\ functions' = functions
    BY DEF IInv, Becomes
  <2>2. \A x \in Threads : NoEndon(functions) /\ threads'[x].state # "FREE" => threads'[x].endon = <<>>
    BY <1>1, <2>1 DEF NoneLost
  <2>3. NoEndon(functions) => AllOwned(threads', objects', cells')
    BY <1>2, <2>1 DEF OwnersKept, NoneLost
  <2> QED BY <1>2, <2>1, <2>2, <2>3 DEF OwnersKept, NoneLost
<1>4. VerifiedWith(functions, sh)' /\ ThreadsInv(sh)' /\ CalmInv(sh)' /\ PoolInv'
  BY BecomesKeeps
<1> QED BY <1>3, <1>4 DEF IInv

\* Storing a value moves no variable.
LEMMA SameMemory ==
  ASSUME SameFree(cells, cells'), 
         \A o, f : /\ HasKey(objects', o, f) <=> HasKey(objects, o, f)
                   /\ HasKey(objects, o, f) => objects'[o][f] = objects[o][f]
  PROVE  OwnersKept
BY OwnersStay DEF OwnersKept

\* The running thread is one of the threads.
LEMMA Running ==
  ASSUME NEW sh, IInv(sh), cur # 0
  PROVE  /\ cur \in Threads /\ ThreadOK(functions, sh, objects, cur, Thr) /\ Thr.state # "FREE"
         /\ VerifiedWith(functions, sh) /\ IsSeq(objects) /\ Grows(objects, objects)
<1>1. cur \in Threads /\ Thr.state # "FREE"
  BY DEF IInv, PoolInv, Threads, Thr
<1>2. IsSeq(objects) /\ Grows(objects, objects)
  BY GrowsNone DEF IInv, ObjectsInv
<1> QED BY <1>1, <1>2 DEF IInv, ThreadsInv, Thr

\* What every instruction of the running thread can rely on, and what it has to do.
LEMMA InstructionKeeps ==
  ASSUME NEW sh, IInv(sh), cur # 0, Thr.state = "ACTIVE",
         UNCHANGED <<functions, cur, pool, error>>, Grows(objects, objects'),
         NEW u, NEW next, threads' = Put(threads, cur, u),
         Stepped(functions, objects', Thr, u, next), Settled(objects', Thr, u),
         u.state # "ACTIVE" => Pauses(Ins),
         u.endon = Thr.endon \/ ~NoEndon(functions),
         OwnersKept, ObjectsInv', CellsInv', EventsInv'
  PROVE  IInv(sh)'
<1>1. cur \in Threads /\ ThreadOK(functions, sh, objects, cur, Thr) /\ VerifiedWith(functions, sh) /\ Thr.state \in Going
  BY Running DEF Going
<1>2. Ins = InsOf(functions, Last(Thr))
  BY DEF Ins, Code, Frame, InsOf, Last
<1>3. ThreadOK(functions, sh, objects', cur, u)
  BY <1>1, StepFits
<1>4. /\ Pauses(Ins) => Calm(sh, u)
      /\ IsSeq(u.frames) /\ Len(u.frames) = Len(Thr.frames)
      /\ \A k \in 1 .. Len(u.frames) : u.frames[k].locals = Thr.frames[k].locals
  BY <1>1, <1>2, SteppedLaid
<1>5. DOMAIN u.frames = DOMAIN Thr.frames /\ DOMAIN u.frames = 1 .. Len(u.frames)
  <2>1. IsSeq(Thr.frames)
    BY <1>1 DEF ThreadOK
  <2> QED BY <1>4, <2>1, SeqLen
<1>6. Becomes(sh, cur, u)
  BY <1>3, <1>4 DEF Becomes, Settled, Going
<1>7. Excused(error')
  <2>1. error' = error
    OBVIOUS
  <2> QED BY <2>1 DEF IInv
<1> QED BY <1>1, <1>4, <1>5, <1>6, <1>7, AlikeKeeps DEF Thr, Going

\* Nothing changes but the error.
LEMMA ErrorKeeps ==
  ASSUME NEW sh, IInv(sh), UNCHANGED <<functions, threads, pool, cur, cells, objects, events>>, Excused(error')
  PROVE  IInv(sh)'
<1>1. /\ functions' = functions /\ threads' = threads /\ pool' = pool /\ cur' = cur
      /\ cells' = cells /\ objects' = objects /\ events' = events
  OBVIOUS
<1>2. VerifiedWith(functions, sh)' /\ Unshared(threads', objects', cells')
  BY <1>1 DEF IInv
<1>3. ThreadsInv(sh)' /\ CalmInv(sh)'
  BY <1>1 DEF IInv, ThreadsInv, CalmInv
<1>4. PoolInv' /\ ObjectsInv' /\ CellsInv' /\ EventsInv'
  BY <1>1 DEF IInv, PoolInv, ObjectsInv, CellsInv, EventsInv
<1>5. NoneLost'
  BY <1>1 DEF IInv, NoneLost
<1> QED BY <1>2, <1>3, <1>4, <1>5 DEF IInv

\* An error that a script can cause.
LEMMA RaiseKeeps ==
  ASSUME NEW sh, IInv(sh), NEW reason \in ScriptErrors, vm_error(reason)
  PROVE  IInv(sh)'
<1>1. UNCHANGED <<functions, threads, pool, cur, cells, objects, events>> /\ error' = reason
  BY DEF vm_error, memory
<1>2. Excused(reason)
  BY Zenon DEF Excused
<1> QED BY <1>1, <1>2, ErrorKeeps

-----------------------------------------------------------------------------
(* The record of a thread *)

\* What only waiting changes.
Like(r, u) ==
  /\ IsThread(u) /\ u.state = r.state /\ u.endon = r.endon
  /\ u.return_value = r.return_value /\ u.waittill = r.waittill

\* r went on to next and popped k operands.
Popped(r, u, next, k) ==
  /\ Like(r, u) /\ u.frames = Onward(r.frames, next)
  /\ IsSeq(u.stack) /\ Len(u.stack) = Len(r.stack) - k
  /\ \A j \in 1 .. Len(r.stack) - k : u.stack[j] = r.stack[j]

\* r went on to next, popped k operands and pushed v.
Pushed(r, u, next, k, v) ==
  /\ Like(r, u) /\ u.frames = Onward(r.frames, next)
  /\ IsSeq(u.stack) /\ Len(u.stack) = Len(r.stack) - k + 1
  /\ \A j \in 1 .. Len(r.stack) - k : u.stack[j] = r.stack[j]
  /\ u.stack[Len(r.stack) - k + 1] = v

\* Fetching an instruction.
LEMMA AdvanceIs ==
  ASSUME NEW r, IsThread(r), IsSeq(r.stack), IsSeq(r.frames), Len(r.frames) >= 1
  PROVE  Popped(r, Advance(r), Last(r).ip + 1, 0) /\ Advance(r).result = r.result
<1> DEFINE n == Len(r.frames)
           nf == Onward(r.frames, Last(r).ip + 1)
<1>1. n \in Nat /\ n \in DOMAIN r.frames
  BY SeqLen
<1>2. Advance(r) = [r EXCEPT !.frames = nf]
  BY <1>1 DEF Advance, Onward, Last, IsThread
<1> HIDE DEF nf
<1>3. Advance(r) = [state |-> r.state, stack |-> r.stack, frames |-> nf, result |-> r.result,
                    return_value |-> r.return_value, waittill |-> r.waittill, endon |-> r.endon]
  BY <1>2 DEF IsThread
<1>4. Len(r.stack) \in Nat /\ Len(r.stack) - 0 = Len(r.stack)
  BY SeqLen
<1>5. Like(r, Advance(r)) /\ Advance(r).stack = r.stack /\ Advance(r).frames = nf /\ Advance(r).result = r.result
  BY <1>3 DEF Like, IsThread
<1> QED BY <1>4, <1>5 DEF Popped, nf

\* The frame at ip.
At0(frame, ip) == [function |-> frame.function, ip |-> ip, locals |-> frame.locals]

\* Moving on replaces the last frame.
LEMMA OnwardIs ==
  ASSUME NEW frames, IsSeq(frames), Len(frames) >= 1, NEW fr, fr = frames[Len(frames)],
         fr = At0(fr, fr.ip), NEW next
  PROVE  Onward(frames, next) = Put(frames, Len(frames), At0(fr, next))
<1>1. [fr EXCEPT !.ip = next] = At0(fr, next)
  BY DEF At0
<1>2. Len(frames) \in DOMAIN frames
  BY SeqLen
<1> QED BY <1>1, <1>2 DEF Onward, Put

\* The second of two replacements counts.
LEMMA PutTwice ==
  ASSUME NEW s, IsSeq(s), NEW n \in 1 .. Len(s), NEW v, NEW w
  PROVE  Put(Put(s, n, v), n, w) = Put(s, n, w)
<1>1. s = [k \in DOMAIN s |-> s[k]]
  BY DEF IsSeq
<1> QED BY <1>1 DEF Put

\* Fetching a jump and taking it.
LEMMA JumpIs ==
  ASSUME NEW r, IsThread(r), IsSeq(r.stack), IsSeq(r.frames), Len(r.frames) >= 1, NEW rel,
         Last(r) = At0(Last(r), Last(r).ip)
  PROVE  Popped(r, Jump(Advance(r), rel), Last(r).ip + 1 + rel, 0)
<1> DEFINE n == Len(r.frames)
           a == Advance(r)
           fr == Last(r)
           to == fr.ip + 1
           nf == Onward(r.frames, to)
           nf2 == Onward(r.frames, to + rel)
<1>1. n \in Nat /\ n \in 1 .. n /\ DOMAIN r.frames = 1 .. n
  BY SeqLen
<1>2. Like(r, a) /\ a.stack = r.stack /\ a.frames = nf /\ IsThread(a)
  <2>1. Popped(r, a, to, 0)
    BY AdvanceIs
  <2>2. Advance(r).stack = r.stack
    BY DEF Advance, IsThread
  <2> QED BY <2>1, <2>2 DEF Popped, Like
<1>3. fr = r.frames[n]
  BY DEF Last
<1> HIDE DEF fr
<1>4. nf = Put(r.frames, n, At0(fr, to)) /\ nf2 = Put(r.frames, n, At0(fr, to + rel))
  BY <1>3, OnwardIs DEF fr
<1> HIDE DEF nf, nf2, a
<1>5. Len(nf) = n /\ nf[n] = At0(fr, to) /\ DOMAIN nf = 1 .. n
  <2>1. IsSeq(nf)
    BY <1>1, <1>4, SeqPut
  <2>2. Len(nf) = n /\ nf[n] = At0(fr, to)
    BY <1>1, <1>4, SeqPut
  <2> QED BY <2>1, <2>2, SeqLen
<1>6. [nf[n] EXCEPT !.ip = @ + rel] = At0(fr, to + rel)
  BY <1>5 DEF At0
<1>7. [nf EXCEPT ![n] = [nf[n] EXCEPT !.ip = @ + rel]] = nf2
  <2>1. [nf EXCEPT ![n] = At0(fr, to + rel)] = Put(Put(r.frames, n, At0(fr, to)), n, At0(fr, to + rel))
    BY <1>4 DEF Put
  <2>2. Put(Put(r.frames, n, At0(fr, to)), n, At0(fr, to + rel)) = nf2
    BY <1>1, <1>4, PutTwice
  <2> QED BY <1>6, <2>1, <2>2
<1>8. Jump(a, rel) = [a EXCEPT !.frames = nf2]
  <2>1. a.frames = nf
    BY <1>2
  <2>2. Jump(a, rel) = [a EXCEPT !.frames = [nf EXCEPT ![n] = [nf[n] EXCEPT !.ip = @ + rel]]]
    BY <1>2, <1>5, <2>1 DEF Jump, IsThread
  <2> QED BY <1>7, <2>2
<1>9. Jump(a, rel) = [state |-> a.state, stack |-> a.stack, frames |-> nf2, result |-> a.result,
                    return_value |-> a.return_value, waittill |-> a.waittill, endon |-> a.endon]
  BY <1>2, <1>8 DEF IsThread
<1>10. Len(r.stack) \in Nat /\ Len(r.stack) - 0 = Len(r.stack)
  BY SeqLen
<1>11. Like(r, Jump(a, rel)) /\ Jump(a, rel).stack = r.stack /\ Jump(a, rel).frames = nf2
  BY <1>2, <1>9 DEF Like, IsThread
<1> QED BY <1>10, <1>11 DEF Popped, nf2, fr, a

\* Popping k operands.
LEMMA DropIs ==
  ASSUME NEW r, NEW w, NEW next, Popped(r, w, next, 0), IsSeq(r.stack), NEW k \in 0 .. Len(r.stack)
  PROVE  Popped(r, Drop(w, k), next, k) /\ Drop(w, k).result = w.result
<1> DEFINE n == Len(r.stack)
           s == SubSeq(w.stack, 1, Len(w.stack) - k)
<1>1. n \in Nat /\ Len(w.stack) = n /\ IsSeq(w.stack) /\ \A j \in 1 .. n : w.stack[j] = r.stack[j]
  BY SeqLen DEF Popped
<1>2. n - k \in 0 .. n
  BY <1>1
<1>3. IsSeq(s) /\ Len(s) = n - k /\ \A j \in 1 .. n - k : s[j] = r.stack[j]
  BY <1>1, <1>2, SeqPrefix
<1> HIDE DEF s
<1>4. Drop(w, k) = [state |-> w.state, stack |-> s, frames |-> w.frames, result |-> w.result,
                   return_value |-> w.return_value, waittill |-> w.waittill, endon |-> w.endon]
  <2>1. IsThread(w)
    BY DEF Popped, Like
  <2>2. w = [state |-> w.state, stack |-> w.stack, frames |-> w.frames, result |-> w.result,
             return_value |-> w.return_value, waittill |-> w.waittill, endon |-> w.endon]
    BY <2>1 DEF IsThread
  <2>3. Drop(w, k) = [w EXCEPT !.stack = s]
    BY <2>2 DEF Drop, s
  <2> QED BY <2>2, <2>3
<1> QED BY <1>3, <1>4 DEF Popped, Like, IsThread

\* Pushing an operand.
LEMMA PushOnIs ==
  ASSUME NEW r, NEW w, NEW next, NEW k \in 0 .. Len(r.stack), Popped(r, w, next, k), IsSeq(r.stack), NEW v
  PROVE  Pushed(r, PushOn(w, v), next, k, v)
<1> DEFINE n == Len(r.stack)
           s == Append(w.stack, v)
<1>1. n \in Nat /\ Len(w.stack) = n - k /\ IsSeq(w.stack) /\ \A j \in 1 .. n - k : w.stack[j] = r.stack[j]
  BY SeqLen DEF Popped
<1>2. IsSeq(s) /\ Len(s) = n - k + 1 /\ s[n - k + 1] = v /\ \A j \in 1 .. n - k : s[j] = r.stack[j]
  <2>1. /\ IsSeq(s) /\ Len(s) = Len(w.stack) + 1 /\ s[Len(w.stack) + 1] = v
        /\ \A j \in 1 .. Len(w.stack) : s[j] = w.stack[j]
    <3> DEFINE ws == w.stack
    <3>1. IsSeq(ws)
      BY <1>1
    <3> HIDE DEF ws
    <3>2. /\ IsSeq(Append(ws, v)) /\ Len(Append(ws, v)) = Len(ws) + 1 /\ Append(ws, v)[Len(ws) + 1] = v
          /\ \A j \in 1 .. Len(ws) : Append(ws, v)[j] = ws[j]
      BY ONLY <3>1, SeqAppend
    <3> QED BY <3>2 DEF ws
  <2> HIDE DEF s
  <2> QED BY <1>1, <2>1
<1> HIDE DEF s
<1>3. PushOn(w, v) = [state |-> w.state, stack |-> s, frames |-> w.frames, result |-> w.result,
                   return_value |-> w.return_value, waittill |-> w.waittill, endon |-> w.endon]
  BY DEF PushOn, s, Popped, Like, IsThread
<1> QED BY <1>2, <1>3 DEF Popped, Pushed, Like, IsThread

-----------------------------------------------------------------------------
(* Instructions that touch nothing but the thread *)

\* An instruction that pops k operands and pushes one.
LEMMA PushedSteps ==
  ASSUME NEW fs, NEW objs, NEW r, NEW u, NEW next, NEW k, NEW v, NEW kd,
         Len(r.stack) \in Nat, k \in 0 .. Len(r.stack),
         Pushed(r, u, next, k, v), next \in Successors(InsOf(fs, Last(r)), Last(r).ip),
         k = Len(Pops(InsOf(fs, Last(r)))), Pushes(InsOf(fs, Last(r))) = <<kd>>, Fits(objs, Last(r), kd, v),
         Len(u.stack) <= StackSize
  PROVE  Stepped(fs, objs, r, u, next)
<1> DEFINE ins == InsOf(fs, Last(r))
           rest == Len(r.stack) - Len(Pops(ins))
<1> HIDE DEF ins
<1>1. rest = Len(r.stack) - k /\ Len(Pushes(ins)) = 1 /\ Pushes(ins)[1] = kd
  BY DEF ins
<1> HIDE DEF rest
<1>2. /\ u.frames = Onward(r.frames, next) /\ IsSeq(u.stack) /\ Len(u.stack) = rest + 1
      /\ \A j \in 1 .. rest : u.stack[j] = r.stack[j]
      /\ u.stack[rest + 1] = v
  BY <1>1 DEF Pushed
<1> QED BY <1>1, <1>2 DEF Stepped, rest, ins

\* An instruction that only pops.
LEMMA PoppedSteps ==
  ASSUME NEW fs, NEW objs, NEW r, NEW u, NEW next, NEW k,
         Len(r.stack) \in Nat, k \in 0 .. Len(r.stack),
         Popped(r, u, next, k), next \in Successors(InsOf(fs, Last(r)), Last(r).ip),
         k = Len(Pops(InsOf(fs, Last(r)))), Pushes(InsOf(fs, Last(r))) = <<>>,
         Len(u.stack) <= StackSize
  PROVE  Stepped(fs, objs, r, u, next)
<1> DEFINE ins == InsOf(fs, Last(r))
           rest == Len(r.stack) - Len(Pops(ins))
<1> HIDE DEF ins
<1>1. rest = Len(r.stack) - k /\ Len(Pushes(ins)) = 0 /\ Pushes(ins) = <<>>
  BY DEF ins
<1> HIDE DEF rest
<1>2. /\ u.frames = Onward(r.frames, next) /\ IsSeq(u.stack) /\ Len(u.stack) = rest + 0
      /\ \A j \in 1 .. rest : u.stack[j] = r.stack[j]
  BY <1>1 DEF Popped
<1> QED BY <1>1, <1>2 DEF Stepped, rest, ins

\* What instructions leave alone stays as it should be.
LEMMA LikeSettles ==
  ASSUME NEW fs, NEW sh, NEW objs, NEW more, NEW t, NEW r, ThreadOK(fs, sh, objs, t, r), r.state = "ACTIVE",
         NEW u, Like(r, u)
  PROVE  Settled(more, r, u)
BY DEF ThreadOK, Like, Settled, Going

\* The facts about the running thread that instructions use.
LEMMA AtHand ==
  ASSUME NEW sh, IInv(sh), cur # 0, Thr.state = "ACTIVE"
  PROVE  /\ cur \in Threads /\ ThreadOK(functions, sh, objects, cur, Thr) /\ Thr.state \in Going
         /\ VerifiedWith(functions, sh) /\ Grows(objects, objects)
         /\ Frame = Last(Thr) /\ Ins = InsOf(functions, Last(Thr))
         /\ Proper(functions, Frame.function, Ins) /\ FrameOK(functions, sh, Frame)
         /\ IsThread(Thr) /\ IsSeq(Thr.stack) /\ IsSeq(Thr.frames) /\ Len(Thr.frames) >= 1
         /\ Len(Thr.stack) \in Nat /\ Len(Thr.stack) <= StackSize
         /\ Last(Thr) = At0(Last(Thr), Last(Thr).ip)
         /\ Len(Pops(Ins)) \in 0 .. Len(Thr.stack)
<1>1. /\ cur \in Threads /\ ThreadOK(functions, sh, objects, cur, Thr) /\ VerifiedWith(functions, sh)
      /\ Thr.state \in Going /\ Grows(objects, objects)
  BY Running DEF Going
<1>2. Frame = Last(Thr) /\ Ins = InsOf(functions, Last(Thr))
  BY DEF Ins, Code, Frame, InsOf, Last
<1>3. FrameOK(functions, sh, Frame) /\ Len(Thr.frames) >= 1
  BY <1>1, <1>2, LastFrame
<1>4. Proper(functions, Frame.function, Ins)
  BY <1>1, <1>2, <1>3, FrameCode
<1>5. /\ IsThread(Thr) /\ IsSeq(Thr.stack) /\ IsSeq(Thr.frames) /\ Len(Thr.stack) <= StackSize
  BY <1>1 DEF ThreadOK
<1>6. Last(Thr) = At0(Last(Thr), Last(Thr).ip)
  BY <1>2, <1>3 DEF FrameOK, At0
<1>7. Len(Pops(Ins)) \in Nat /\ Len(Thr.stack) >= Len(Pops(Ins)) /\ Len(Thr.stack) \in Nat
  BY <1>1, <1>2, Operands
<1> QED BY <1>1, <1>2, <1>3, <1>4, <1>5, <1>6, <1>7

\* The invariant after an instruction that changes its thread only.
LEMMA SteppingKeeps ==
  ASSUME NEW sh, IInv(sh), cur # 0, Thr.state = "ACTIVE",
         NEW u, NEW next, Continue(u), Len(u.stack) \in Nat,
         Len(u.stack) <= StackSize => Stepped(functions, objects, Thr, u, next),
         Settled(objects, Thr, u), u.state # "ACTIVE" => Pauses(Ins),
         u.endon = Thr.endon \/ ~NoEndon(functions)
  PROVE  IInv(sh)'
<1>1. CASE Len(u.stack) > StackSize
  <2>1. vm_error("stack") /\ "stack" \in ScriptErrors
    BY <1>1 DEF Continue, ScriptErrors
  <2> QED BY <2>1, RaiseKeeps
<1>2. CASE ~(Len(u.stack) > StackSize)
  <2>1. /\ functions' = functions /\ cur' = cur /\ pool' = pool /\ error' = error
        /\ threads' = Put(threads, cur, u)
        /\ cells' = cells /\ objects' = objects /\ events' = events
    BY <1>2 DEF Continue, Frozen, memory, Put
  <2>2. Stepped(functions, objects, Thr, u, next)
    BY <1>2, Constants
  <2>3. OwnersKept
    BY <2>1, SameMemory DEF SameFree
  <2>4. ObjectsInv' /\ CellsInv' /\ EventsInv'
    BY <2>1 DEF IInv, ObjectsInv, CellsInv, EventsInv
  <2>5. Grows(objects, objects')
    BY <2>1, AtHand
  <2> QED BY <2>1, <2>2, <2>3, <2>4, <2>5, InstructionKeeps
<1> QED BY <1>1, <1>2

\* The same if it pushes an operand.
LEMMA PushKeeps ==
  ASSUME NEW sh, IInv(sh), cur # 0, Thr.state = "ACTIVE",
         NEW u, NEW next, NEW k, NEW v, NEW kd, Pushed(Thr, u, next, k, v), Continue(u),
         next \in Successors(Ins, Frame.ip), k = Len(Pops(Ins)), Pushes(Ins) = <<kd>>,
         Fits(objects, Frame, kd, v)
  PROVE  IInv(sh)'
<1>1. Len(u.stack) \in Nat
  BY AtHand DEF Pushed
<1>2. Len(u.stack) <= StackSize => Stepped(functions, objects, Thr, u, next)
  BY AtHand, PushedSteps
<1>3. Settled(objects, Thr, u)
  BY AtHand, LikeSettles DEF Pushed
<1> QED BY <1>1, <1>2, <1>3, SteppingKeeps DEF Pushed, Like

\* The same if it only pops.
LEMMA PopKeeps ==
  ASSUME NEW sh, IInv(sh), cur # 0, Thr.state = "ACTIVE",
         NEW u, NEW next, NEW k, Popped(Thr, u, next, k), Continue(u),
         next \in Successors(Ins, Frame.ip), k = Len(Pops(Ins)), Pushes(Ins) = <<>>
  PROVE  IInv(sh)'
<1>1. Len(u.stack) \in Nat
  BY AtHand DEF Popped
<1>2. Len(u.stack) <= StackSize => Stepped(functions, objects, Thr, u, next)
  BY AtHand, PoppedSteps
<1>3. Settled(objects, Thr, u)
  BY AtHand, LikeSettles DEF Popped
<1> QED BY <1>1, <1>2, <1>3, SteppingKeeps DEF Popped, Like

\* An instruction is executed by the running thread.
LEMMA AtRuns ==
  ASSUME NEW op, At(op)
  PROVE  cur # 0 /\ Thr.state = "ACTIVE" /\ Ins.op = op
BY Zenon DEF At

\* What is left of the running thread after k operands, and with v instead of them.
LEMMA Forward ==
  ASSUME NEW sh, IInv(sh), cur # 0, Thr.state = "ACTIVE", NEW k \in 0 .. Len(Thr.stack)
  PROVE  /\ Popped(Thr, Drop(Advance(Thr), k), Frame.ip + 1, k)
         /\ \A v : Pushed(Thr, Replace(Advance(Thr), k, v), Frame.ip + 1, k, v)
         /\ Popped(Thr, Advance(Thr), Frame.ip + 1, 0)
         /\ \A v : Pushed(Thr, PushOn(Advance(Thr), v), Frame.ip + 1, 0, v)
<1>1. Popped(Thr, Advance(Thr), Frame.ip + 1, 0)
  BY AtHand, AdvanceIs
<1>2. Popped(Thr, Drop(Advance(Thr), k), Frame.ip + 1, k)
  BY <1>1, AtHand, DropIs
<1>3. \A v : Pushed(Thr, Replace(Advance(Thr), k, v), Frame.ip + 1, k, v)
  BY <1>2, AtHand, PushOnIs DEF Replace
<1>4. \A v : Pushed(Thr, PushOn(Advance(Thr), v), Frame.ip + 1, 0, v)
  <2>1. 0 \in 0 .. Len(Thr.stack)
    BY AtHand
  <2> QED BY <1>1, <2>1, AtHand, PushOnIs
<1> QED BY <1>1, <1>2, <1>3, <1>4

\* The operands it needs are there.
LEMMA Needed ==
  ASSUME NEW sh, IInv(sh), cur # 0, Thr.state = "ACTIVE", NEW k, k = Len(Pops(Ins))
  PROVE  Needs(k) /\ k \in 0 .. Len(Thr.stack)
BY AtHand DEF Needs

\* OP_POP.
LEMMA PopStep == ASSUME NEW sh, IInv(sh), OP_POP PROVE IInv(sh)'
<1>1. cur # 0 /\ Thr.state = "ACTIVE" /\ Ins.op = "POP"
  BY AtRuns DEF OP_POP, Pure
<1>2. Len(Pops(Ins)) = 1 /\ Pushes(Ins) = <<>> /\ Successors(Ins, Frame.ip) = {Frame.ip + 1}
  BY <1>1 DEF Pops, Pushes, Successors
<1>3. Needs(1) /\ 1 \in 0 .. Len(Thr.stack)
  BY <1>1, <1>2, Needed
<1>4. Continue(Drop(Advance(Thr), 1))
  BY <1>3 DEF OP_POP, Pure
<1> QED BY <1>1, <1>2, <1>3, <1>4, Forward, PopKeeps

\* An instruction that pushes v.
LEMMA PushingKeeps ==
  ASSUME NEW sh, IInv(sh), cur # 0, Thr.state = "ACTIVE", NEW v, NEW kd,
         Continue(PushOn(Advance(Thr), v)), Frame.ip + 1 \in Successors(Ins, Frame.ip),
         Len(Pops(Ins)) = 0, Pushes(Ins) = <<kd>>, Fits(objects, Frame, kd, v)
  PROVE  IInv(sh)'
<1>1. 0 \in 0 .. Len(Thr.stack)
  BY AtHand
<1>2. Pushed(Thr, PushOn(Advance(Thr), v), Frame.ip + 1, 0, v)
  BY <1>1, Forward
<1> QED BY <1>2, PushKeeps

\* Values fit where values are expected.
LEMMA FitsVal ==
  ASSUME NEW objs, NEW frame, NEW v, Good(Len(objs), v) PROVE Fits(objs, frame, Val, v)
BY DEF Fits, Val

\* Values that refer to nothing are good in variables.
LEMMA GoodPlain ==
  ASSUME NEW n, NEW v, v.type \notin {"FREE", "REFERENCE", "ERROR", "OBJECT", "FUNCTION"} PROVE Good(n, v)
BY DEF Good

\* OP_PUSH: a literal is no reference, and no builtin.
LEMMA PushStep == ASSUME NEW sh, IInv(sh), OP_PUSH PROVE IInv(sh)'
<1>1. cur # 0 /\ Thr.state = "ACTIVE" /\ Ins.op = "PUSH"
  BY AtRuns DEF OP_PUSH, Pure
<1>2. Len(Pops(Ins)) = 0 /\ Frame.ip + 1 \in Successors(Ins, Frame.ip)
  BY <1>1 DEF Pops, Successors
<1>3. Needs(0)
  BY <1>1, <1>2, Needed
<1>4. Continue(PushOn(Advance(Thr), Ins.value))
  BY <1>3 DEF OP_PUSH, Pure
<1>5. Proper(functions, Frame.function, Ins)
  BY <1>1, AtHand
<1>6. Good(Len(objects), Ins.value)
  BY <1>1, <1>5 DEF Good, Proper, Literals
<1>7. CASE Ins.value.type = "INTEGER"
  <2>1. Pushes(Ins) = <<ArgCount(Ins.value.ival)>>
    BY <1>1, <1>7 DEF Pushes
  <2>2. Fits(objects, Frame, ArgCount(Ins.value.ival), Ins.value)
    BY <1>6 DEF Fits, ArgCount
  <2> QED BY <1>1, <1>2, <1>4, <2>1, <2>2, PushingKeeps
<1>8. CASE Ins.value.type # "INTEGER"
  <2>1. Pushes(Ins) = <<Val>>
    BY <1>1, <1>8 DEF Pushes
  <2> QED BY <1>1, <1>2, <1>4, <1>6, <2>1, FitsVal, PushingKeeps
<1> QED BY <1>7, <1>8

\* OP_UNDEF and the constants.
LEMMA ConstantStep == ASSUME NEW sh, IInv(sh), OP_UNDEF \/ OP_CONST_0 \/ OP_CONST_1 PROVE IInv(sh)'
<1> SUFFICES ASSUME NEW op \in {"UNDEF", "CONST_0", "CONST_1"}, NEW v, v \in {Undef, Integer(0), Integer(1)}, 
                    At(op), IF ~Needs(0) THEN vm_error("underflow") ELSE Continue(PushOn(Advance(Thr), v))
             PROVE  IInv(sh)'
  BY DEF OP_UNDEF, OP_CONST_0, OP_CONST_1, Pure
<1>1. cur # 0 /\ Thr.state = "ACTIVE" /\ Ins.op \in {"UNDEF", "CONST_0", "CONST_1"}
  BY AtRuns
<1>2. Len(Pops(Ins)) = 0 /\ Frame.ip + 1 \in Successors(Ins, Frame.ip) /\ Pushes(Ins) = <<Val>>
  BY <1>1 DEF Pops, Successors, Pushes
<1>3. Needs(0)
  BY <1>1, <1>2, Needed
<1>4. Good(Len(objects), v)
  BY GoodPlain DEF Undef, Integer
<1> QED BY <1>1, <1>2, <1>3, <1>4, FitsVal, PushingKeeps

\* OP_JMP, OP_JZ and OP_JNZ, taken or not.
LEMMA JumpStep == ASSUME NEW sh, IInv(sh), OP_JMP \/ OP_JZ \/ OP_JNZ PROVE IInv(sh)'
<1>1. cur # 0 /\ Thr.state = "ACTIVE" /\ Ins.op \in {"JMP", "JZ", "JNZ"}
  BY AtRuns DEF OP_JMP, OP_JZ, OP_JNZ, Pure
<1>2. /\ Len(Pops(Ins)) = 0 /\ Pushes(Ins) = <<>> 
      /\ Frame.ip + 1 + Ins.rel \in Successors(Ins, Frame.ip)
      /\ Ins.op # "JMP" => Frame.ip + 1 \in Successors(Ins, Frame.ip)
  BY <1>1 DEF Pops, Pushes, Successors
<1>3. Needs(0) /\ 0 \in 0 .. Len(Thr.stack)
  BY <1>1, <1>2, Needed
<1>4. \/ Continue(Jump(Advance(Thr), Ins.rel))
      \/ Continue(Advance(Thr)) /\ Ins.op # "JMP"
  <2>1. CASE OP_JMP
    BY <1>3, <2>1 DEF OP_JMP, Pure
  <2>2. CASE OP_JZ
    <3>1. Ins.op = "JZ"
      BY <2>2, AtRuns DEF OP_JZ, Pure
    <3> QED BY <1>3, <2>2, <3>1 DEF OP_JZ, Pure
  <2>3. CASE OP_JNZ
    <3>1. Ins.op = "JNZ"
      BY <2>3, AtRuns DEF OP_JNZ, Pure
    <3> QED BY <1>3, <2>3, <3>1 DEF OP_JNZ, Pure
  <2> QED BY <2>1, <2>2, <2>3
<1>5. Popped(Thr, Jump(Advance(Thr), Ins.rel), Frame.ip + 1 + Ins.rel, 0)
  BY <1>1, AtHand, JumpIs
<1>6. Popped(Thr, Advance(Thr), Frame.ip + 1, 0)
  BY <1>1, <1>3, Forward
<1> QED BY <1>1, <1>2, <1>4, <1>5, <1>6, PopKeeps

\* OP_TEST.
LEMMA TestStep == ASSUME NEW sh, IInv(sh), OP_TEST PROVE IInv(sh)'
<1>1. cur # 0 /\ Thr.state = "ACTIVE" /\ Ins.op = "TEST"
  BY AtRuns DEF OP_TEST
<1>2. Len(Pops(Ins)) = 1 /\ Pushes(Ins) = <<>> /\ Frame.ip + 1 \in Successors(Ins, Frame.ip)
  BY <1>1 DEF Pops, Pushes, Successors
<1>3. Needs(1) /\ 1 \in 0 .. Len(Thr.stack)
  BY <1>1, <1>2, Needed
<1> DEFINE w == Drop(Advance(Thr), 1)
           u == [w EXCEPT !.result = Top(Thr, 1).ival]
<1>4. vm_error("type") \/ Continue(u)
  BY <1>3 DEF OP_TEST
<1>5. Popped(Thr, w, Frame.ip + 1, 1)
  BY <1>1, <1>3, Forward
<1> HIDE DEF w
<1>6. u = [state |-> w.state, stack |-> w.stack, frames |-> w.frames, result |-> Top(Thr, 1).ival,
           return_value |-> w.return_value, waittill |-> w.waittill, endon |-> w.endon]
  BY <1>5 DEF Popped, Like, IsThread
<1> HIDE DEF u
<1>7. Popped(Thr, u, Frame.ip + 1, 1)
  BY <1>5, <1>6 DEF Popped, Like, IsThread
<1>8. "type" \in ScriptErrors
  BY DEF ScriptErrors
<1> QED BY <1>1, <1>2, <1>4, <1>7, <1>8, PopKeeps, RaiseKeeps

\* OP_GLOBAL: the global object is the first one.
LEMMA GlobalStep == ASSUME NEW sh, IInv(sh), OP_GLOBAL PROVE IInv(sh)'
<1> DEFINE v == IF Ins.n = 1 THEN Reference(-GLOBAL) ELSE Object(GLOBAL)
<1>1. cur # 0 /\ Thr.state = "ACTIVE" /\ Ins.op = "GLOBAL"
  BY AtRuns DEF OP_GLOBAL, Pure
<1>2. Len(Pops(Ins)) = 0 /\ Frame.ip + 1 \in Successors(Ins, Frame.ip)
  BY <1>1 DEF Pops, Successors
<1>3. Needs(0)
  BY <1>1, <1>2, Needed
<1>4. Continue(PushOn(Advance(Thr), v))
  BY <1>3 DEF OP_GLOBAL, Pure
<1>5. CASE Ins.n = 1
  <2>1. Pushes(Ins) = <<GlobalRef>>
    BY <1>1, <1>5 DEF Pushes
  <2>2. Fits(objects, Frame, GlobalRef, Reference(-GLOBAL))
    BY DEF Fits, GlobalRef, ValueKinds
  <2> QED BY <1>1, <1>2, <1>4, <1>5, <2>1, <2>2, PushingKeeps
<1>6. CASE Ins.n # 1
  <2>1. Pushes(Ins) = <<Val>>
    BY <1>1, <1>6 DEF Pushes
  <2>2. IsSeq(objects) /\ Len(objects) >= 1
    BY DEF IInv, ObjectsInv
  <2>3. GLOBAL \in 1 .. Len(objects)
    BY <2>2, SeqLen DEF GLOBAL
  <2>4. Good(Len(objects), Object(GLOBAL))
    BY <2>3 DEF Good, Object
  <2> QED BY <1>1, <1>2, <1>4, <1>6, <2>1, <2>4, FitsVal, PushingKeeps
<1> QED BY <1>5, <1>6

\* The locals of the running function are there.
LEMMA LocalIs ==
  ASSUME NEW sh, IInv(sh), cur # 0, Thr.state = "ACTIVE", Ins.op \in {"LOAD", "REF"}
  PROVE  /\ ValidSlot /\ Local(Ins.slot) \in Cells /\ Local(Ins.slot) \in CellsOf(Frame)
         /\ cells[Local(Ins.slot)] # Free
<1>1. Proper(functions, Frame.function, Ins) /\ FrameOK(functions, sh, Frame) /\ IsSeq(Thr.frames)
      /\ Len(Thr.frames) >= 1 /\ cur \in Threads /\ VerifiedWith(functions, sh)
  BY AtHand
<1>2. Len(Frame.locals) \in Nat /\ Frame.locals \in Seq(Cells)
      /\ Ins.slot \in 0 .. Len(Frame.locals) - 1
  <2>1. functions[Frame.function].local_count \in Nat
    BY <1>1, FrameCode DEF VerifiedFunction
  <2> QED BY <1>1, <2>1 DEF Proper, FrameOK
<1> DEFINE s == Ins.slot + 1
<1>3. s \in 1 .. Len(Frame.locals) /\ ValidSlot /\ s \in DOMAIN Frame.locals
  BY <1>2 DEF ValidSlot
<1>4. Local(Ins.slot) = Frame.locals[s] /\ Frame.locals[s] \in Cells
  BY <1>2, <1>3 DEF Local
<1> HIDE DEF s
<1>5. Frame.locals[s] \in CellsOf(Frame)
  BY <1>3 DEF CellsOf
<1>6. IsLocal(threads, cur, Len(Thr.frames), s) /\ CellAt(threads, cur, Len(Thr.frames), s) = Frame.locals[s]
  <2>1. Len(Thr.frames) \in DOMAIN Thr.frames
    BY <1>1, SeqLen
  <2> QED BY <1>1, <1>3, <2>1 DEF IsLocal, CellAt, Frame, Thr
<1>7. cells[Frame.locals[s]] # Free
  BY <1>6 DEF IInv, Unshared
<1> QED BY <1>3, <1>4, <1>5, <1>7

\* OP_LOAD: the local's cell is in use.
LEMMA LoadStep == ASSUME NEW sh, IInv(sh), OP_LOAD PROVE IInv(sh)'
<1>1. cur # 0 /\ Thr.state = "ACTIVE" /\ Ins.op = "LOAD"
  <2>1. At("LOAD")
    BY DEF OP_LOAD
  <2> QED BY <2>1, AtRuns
<1>2. Len(Pops(Ins)) = 0 /\ Frame.ip + 1 \in Successors(Ins, Frame.ip) /\ Pushes(Ins) = <<Val>>
  BY <1>1 DEF Pops, Successors, Pushes
<1>3. ValidSlot /\ Local(Ins.slot) \in Cells /\ cells[Local(Ins.slot)] # Free
  BY <1>1, LocalIs
<1>4. Continue(PushOn(Advance(Thr), cells[Local(Ins.slot)]))
  BY <1>3 DEF OP_LOAD
<1>5. Good(Len(objects), cells[Local(Ins.slot)])
  BY <1>3 DEF IInv, CellsInv
<1> QED BY <1>1, <1>2, <1>4, <1>5, FitsVal, PushingKeeps

\* OP_REF: a reference to a cell of the frame.
LEMMA RefStep == ASSUME NEW sh, IInv(sh), OP_REF PROVE IInv(sh)'
<1>1. cur # 0 /\ Thr.state = "ACTIVE" /\ Ins.op = "REF"
  <2>1. At("REF")
    BY DEF OP_REF
  <2> QED BY <2>1, AtRuns
<1>2. Len(Pops(Ins)) = 0 /\ Frame.ip + 1 \in Successors(Ins, Frame.ip) /\ Pushes(Ins) = <<Ref>>
  BY <1>1 DEF Pops, Successors, Pushes
<1>3. ValidSlot /\ Local(Ins.slot) \in CellsOf(Frame)
  BY <1>1, LocalIs
<1>4. Continue(PushOn(Advance(Thr), Reference(Local(Ins.slot))))
  BY <1>3 DEF OP_REF
<1>5. Fits(objects, Frame, Ref, Reference(Local(Ins.slot)))
  BY <1>3 DEF Fits, Ref, ValueKinds, Target, Reference
<1> QED BY <1>1, <1>2, <1>4, <1>5, PushingKeeps

-----------------------------------------------------------------------------
(* Operators *)

\* The types of what operators return.
Plainly == {"UNDEFINED", "BOOLEAN", "INTEGER", "FLOAT", "VECTOR", "STRING", "ERROR"}

\* The types of the constructors.
LEMMA Types ==
  /\ Undef.type = "UNDEFINED"
  /\ \A n : Integer(n).type = "INTEGER"
  /\ \A b : Boolean(b).type = "BOOLEAN"
  /\ \A p, q : Float(p, q).type = "FLOAT"
  /\ \A x, y, z : Vector(x, y, z).type = "VECTOR"
  /\ \A s : String(s).type = "STRING"
  /\ \A x : fraction(x).type = "FLOAT"
  /\ \A why : Error(why).type = "ERROR"
BY DEF Undef, Integer, Boolean, Float, Vector, String, fraction, Error

\* Operators never make a reference, an object or a function: the unary ones.
LEMMA UnaryType == ASSUME NEW v, NEW op PROVE unary(v, op).type \in Plainly
BY Types DEF unary, Plainly

\* The comparisons of any types.
LEMMA IdentityType == ASSUME NEW a, NEW b, NEW op PROVE identity(a, b, op).type \in Plainly
BY Types DEF identity, Plainly

\* Operators on integers.
LEMMA IntType == ASSUME NEW a, NEW b, NEW op PROVE int_binop(a, b, op).type \in Plainly
BY Types DEF int_binop, Plainly

\* Operators on floats.
LEMMA FloatType == ASSUME NEW a, NEW b, NEW op PROVE float_binop(a, b, op).type \in Plainly
BY Types DEF float_binop, Plainly

\* Operators on vectors.
LEMMA VectorType == ASSUME NEW a, NEW b, NEW op PROVE vector_binop(a, b, op).type \in Plainly
BY Types DEF vector_binop, Plainly

\* Operators on strings.
LEMMA StringType == ASSUME NEW a, NEW b, NEW op PROVE string_binop(a, b, op).type \in Plainly
BY Types DEF string_binop, Plainly

\* All binary operators, with their promotions.
LEMMA BinopType == ASSUME NEW a, NEW b, NEW token PROVE binop(a, b, token).type \in Plainly
<1> DEFINE op == Plain(token)
           type == promote_type(a.type, b.type)
<1>1. Failed(coerce_int(a)) => coerce_int(a).type \in Plainly
  BY DEF Failed, Plainly
<1> HIDE DEF op, type
<1>2. CASE type = "INTEGER"
  <2>1. \/ binop(a, b, token) = coerce_int(a) /\ Failed(coerce_int(a))
        \/ binop(a, b, token) = coerce_int(b) /\ Failed(coerce_int(b))
        \/ binop(a, b, token) = int_binop(coerce_int(a).ival, coerce_int(b).ival, op)
    BY <1>2 DEF binop, Coerced, op, type
  <2> QED BY <2>1, IntType DEF Failed, Plainly
<1>3. CASE type = "FLOAT"
  <2>1. \/ binop(a, b, token) = coerce_float(a) /\ Failed(coerce_float(a))
        \/ binop(a, b, token) = coerce_float(b) /\ Failed(coerce_float(b))
        \/ binop(a, b, token) = float_binop(coerce_float(a).fval, coerce_float(b).fval, op)
    BY <1>3 DEF binop, Coerced, op, type
  <2> QED BY <2>1, FloatType DEF Failed, Plainly
<1>4. CASE type = "VECTOR"
  <2>1. \/ binop(a, b, token) = coerce_vector(a) /\ Failed(coerce_vector(a))
        \/ binop(a, b, token) = coerce_vector(b) /\ Failed(coerce_vector(b))
        \/ binop(a, b, token) = vector_binop(coerce_vector(a).vval, coerce_vector(b).vval, op)
    BY <1>4 DEF binop, Coerced, op, type
  <2> QED BY <2>1, VectorType DEF Failed, Plainly
<1>5. CASE type = "STRING"
  <2>1. binop(a, b, token) = string_binop(vm_stringify(a), vm_stringify(b), op)
    BY <1>5 DEF binop, op, type
  <2> QED BY <2>1, StringType
<1>6. CASE type \notin {"INTEGER", "FLOAT", "VECTOR", "STRING"}
  <2>1. binop(a, b, token) = identity(a.type, b.type, op) \/ binop(a, b, token) = identity(a, b, op)
    BY <1>6 DEF binop, op, type, Coerced
  <2> QED BY <2>1, IdentityType
<1> QED BY <1>2, <1>3, <1>4, <1>5, <1>6

\* A result that is no error is good in variables.
LEMMA GoodResult ==
  ASSUME NEW n, NEW v, v.type \in Plainly, ~Failed(v) PROVE Good(n, v)
BY DEF Good, Plainly, Failed

\* What an operator returns takes the place of its operands.
LEMMA OperateKeeps ==
  ASSUME NEW sh, IInv(sh), cur # 0, Thr.state = "ACTIVE", NEW k, k = Len(Pops(Ins)), Pushes(Ins) = <<Val>>,
         Frame.ip + 1 \in Successors(Ins, Frame.ip),
         NEW v, ~Failed(v) => Good(Len(objects), v), Operate(k, v)
  PROVE  IInv(sh)'
<1>1. CASE Failed(v)
  <2>1. vm_error("trap") \/ vm_error("type")
    BY <1>1 DEF Operate
  <2>2. "trap" \in ScriptErrors /\ "type" \in ScriptErrors
    BY DEF ScriptErrors
  <2> QED BY <2>1, <2>2, RaiseKeeps
<1>2. CASE ~Failed(v)
  <2>1. Continue(Replace(Advance(Thr), k, v)) /\ Good(Len(objects), v)
    BY <1>2 DEF Operate
  <2>2. k \in 0 .. Len(Thr.stack)
    BY Needed
  <2>3. Pushed(Thr, Replace(Advance(Thr), k, v), Frame.ip + 1, k, v)
    BY <2>2, Forward
  <2> QED BY <2>1, <2>3, FitsVal, PushKeeps
<1> QED BY <1>1, <1>2

\* OP_BINOP.
LEMMA BinopStep == ASSUME NEW sh, IInv(sh), OP_BINOP PROVE IInv(sh)'
<1>1. cur # 0 /\ Thr.state = "ACTIVE" /\ Ins.op = "BINOP"
  BY AtRuns DEF OP_BINOP
<1>2. Len(Pops(Ins)) = 2 /\ Frame.ip + 1 \in Successors(Ins, Frame.ip) /\ Pushes(Ins) = <<Val>>
  BY <1>1 DEF Pops, Successors, Pushes
<1>3. Needs(2)
  BY <1>1, <1>2, Needed
<1> DEFINE v == binop(Top(Thr, 2), Top(Thr, 1), Ins.token)
<1>4. Operate(2, v)
  BY <1>3 DEF OP_BINOP
<1>5. ~Failed(v) => Good(Len(objects), v)
  BY BinopType, GoodResult
<1> HIDE DEF v
<1> QED BY <1>1, <1>2, <1>4, <1>5, OperateKeeps

\* OP_UNARY.
LEMMA UnaryStep == ASSUME NEW sh, IInv(sh), OP_UNARY PROVE IInv(sh)'
<1>1. cur # 0 /\ Thr.state = "ACTIVE" /\ Ins.op = "UNARY"
  BY AtRuns DEF OP_UNARY
<1>2. Len(Pops(Ins)) = 1 /\ Frame.ip + 1 \in Successors(Ins, Frame.ip) /\ Pushes(Ins) = <<Val>>
  BY <1>1 DEF Pops, Successors, Pushes
<1>3. Needs(1)
  BY <1>1, <1>2, Needed
<1> DEFINE v == unary(Top(Thr, 1), Ins.token)
<1>4. Operate(1, v)
  BY <1>3 DEF OP_UNARY
<1>5. ~Failed(v) => Good(Len(objects), v)
  BY UnaryType, GoodResult
<1> HIDE DEF v
<1> QED BY <1>1, <1>2, <1>4, <1>5, OperateKeeps

\* OP_VECTOR.
LEMMA VectorStep == ASSUME NEW sh, IInv(sh), OP_VECTOR PROVE IInv(sh)'
<1>1. cur # 0 /\ Thr.state = "ACTIVE" /\ Ins.op = "VECTOR"
  BY AtRuns DEF OP_VECTOR
<1>2. "type" \in ScriptErrors
  BY DEF ScriptErrors
<1>3. CASE Ins.n # 3
  BY <1>2, <1>3, RaiseKeeps DEF OP_VECTOR
<1>4. CASE Ins.n = 3
  <2>1. Len(Pops(Ins)) = 3 /\ Frame.ip + 1 \in Successors(Ins, Frame.ip) /\ Pushes(Ins) = <<Val>>
    BY <1>1, <1>4 DEF Pops, Successors, Pushes
  <2>2. Needs(3) /\ 3 \in 0 .. Len(Thr.stack)
    BY <1>1, <2>1, Needed
  <2> DEFINE el(k) == coerce_float(Top(Thr, k))
             v == Vector(el(1).fval, el(2).fval, el(3).fval)
  <2>3. vm_error("type") \/ Continue(Replace(Advance(Thr), 3, v))
    BY <1>4, <2>2 DEF OP_VECTOR
  <2>4. Good(Len(objects), v)
    BY Types, GoodPlain
  <2> HIDE DEF v
  <2>5. Pushed(Thr, Replace(Advance(Thr), 3, v), Frame.ip + 1, 3, v)
    BY <1>1, <2>2, Forward
  <2> QED BY <1>1, <1>2, <2>1, <2>3, <2>4, <2>5, FitsVal, PushKeeps, RaiseKeeps
<1> QED BY <1>3, <1>4

\* A value that is loaded from a field is as good as the variable.
LEMMA LoadedGood ==
  ASSUME NEW sh, IInv(sh), NEW o, Good(Len(objects), o), NEW key, ~Failed(Loaded(o, key))
  PROVE  Good(Len(objects), Loaded(o, key))
<1>1. CASE o.type = "VECTOR"
  <2>1. Loaded(o, key).type \in Plainly
    BY <1>1, Types DEF Loaded, Plainly
  <2> QED BY <2>1, GoodResult
<1>2. CASE o.type = "STRING"
  <2>1. Loaded(o, key) = Character(o.sval, key)
    BY <1>2 DEF Loaded
  <2>2. Character(o.sval, key).type \in Plainly
    BY Types DEF Character, Plainly
  <2> QED BY <2>1, <2>2, GoodResult
<1>3. CASE o.type = "OBJECT" /\ IsKey(key)
  <2> DEFINE f == KeyText(key)
  <2>1. \/ Loaded(o, key) = Integer(FieldCount(o.oval))
        \/ Loaded(o, key) = cells[objects[o.oval][f]] /\ f \in DOMAIN objects[o.oval]
        \/ Loaded(o, key) = Undef
    BY <1>3 DEF Loaded, HasField
  <2>2. Good(Len(objects), Integer(FieldCount(o.oval))) /\ Good(Len(objects), Undef)
    BY Types, GoodPlain
  <2>3. ASSUME f \in DOMAIN objects[o.oval] PROVE Good(Len(objects), cells[objects[o.oval][f]])
    <3>1. o.oval \in DOMAIN objects
      BY <1>3, SeqLen DEF Good, IInv, ObjectsInv
    <3>2. HasKey(objects, o.oval, f)
      BY <2>3, <3>1 DEF HasKey
    <3> HIDE DEF f
    <3>3. objects[o.oval][f] \in Cells /\ cells[objects[o.oval][f]] # Free
      BY <3>2 DEF IInv, Unshared
    <3> QED BY <3>3 DEF IInv, CellsInv
  <2> QED BY <2>1, <2>2, <2>3
<1>4. CASE o.type \notin {"VECTOR", "STRING", "OBJECT"} \/ (o.type = "OBJECT" /\ ~IsKey(key))
  <2>1. Loaded(o, key).type \in Plainly
    BY <1>4, Types DEF Loaded, Plainly
  <2> QED BY <2>1, GoodResult
<1> QED BY <1>1, <1>2, <1>3, <1>4

\* The operands the instruction pops are good values.
LEMMA GoodTop ==
  ASSUME NEW sh, IInv(sh), cur # 0, Thr.state = "ACTIVE", NEW k \in 1 .. Len(Pops(Ins)),
         Pops(Ins)[k] = ValueKinds
  PROVE  Good(Len(objects), Top(Thr, k))
BY AtHand, Operands

\* OP_LOAD_FIELD.
LEMMA LoadFieldStep == ASSUME NEW sh, IInv(sh), OP_LOAD_FIELD PROVE IInv(sh)'
<1>1. cur # 0 /\ Thr.state = "ACTIVE" /\ Ins.op = "LOAD_FIELD"
  BY AtRuns DEF OP_LOAD_FIELD
<1>2. /\ Len(Pops(Ins)) = 2 /\ Frame.ip + 1 \in Successors(Ins, Frame.ip) /\ Pushes(Ins) = <<Val>>
      /\ Pops(Ins)[1] = ValueKinds
  BY <1>1 DEF Pops, Successors, Pushes
<1>3. Needs(2)
  BY <1>1, <1>2, Needed
<1> DEFINE v == Loaded(Top(Thr, 1), Top(Thr, 2))
<1>4. Operate(2, v)
  BY <1>3 DEF OP_LOAD_FIELD
<1>5. Good(Len(objects), Top(Thr, 1))
  BY <1>1, <1>2, GoodTop
<1>6. ~Failed(v) => Good(Len(objects), v)
  BY <1>5, LoadedGood
<1> HIDE DEF v
<1> QED BY <1>1, <1>2, <1>4, <1>6, OperateKeeps


-----------------------------------------------------------------------------
(* Waiting and events *)

\* Steps are about frames and operands only.
LEMMA SteppedAlso ==
  ASSUME NEW fs, NEW objs, NEW r, NEW w, NEW next, Stepped(fs, objs, r, w, next),
         NEW u, u.frames = w.frames, u.stack = w.stack
  PROVE  Stepped(fs, objs, r, u, next)
BY DEF Stepped

\* OP_WAIT.
LEMMA WaitStep == ASSUME NEW sh, IInv(sh), OP_WAIT PROVE IInv(sh)'
<1>1. cur # 0 /\ Thr.state = "ACTIVE" /\ Ins.op = "WAIT"
  <2>1. At("WAIT")
    BY DEF OP_WAIT
  <2> QED BY <2>1, AtRuns
<1>2. Len(Pops(Ins)) = 1 /\ Frame.ip + 1 \in Successors(Ins, Frame.ip) /\ Pushes(Ins) = <<>> /\ Pauses(Ins)
  BY <1>1 DEF Pops, Successors, Pushes, Pauses
<1>3. Needs(1) /\ 1 \in 0 .. Len(Thr.stack)
  BY <1>1, <1>2, Needed
<1> DEFINE w == Drop(Advance(Thr), 1)
<1>4. Popped(Thr, w, Frame.ip + 1, 1)
  BY <1>1, <1>3, Forward
<1>5. \/ vm_error("type")
      \/ \E s \in {"WAITING_FRAME", "WAITING_TIME"} : Continue([w EXCEPT !.state = s])
  BY <1>3 DEF OP_WAIT
<1> HIDE DEF w
<1>6. "type" \in ScriptErrors
  BY DEF ScriptErrors
<1>7. ASSUME NEW s \in {"WAITING_FRAME", "WAITING_TIME"}, Continue([w EXCEPT !.state = s])
      PROVE  IInv(sh)'
  <2> DEFINE u == [w EXCEPT !.state = s]
  <2>1. u = [state |-> s, stack |-> w.stack, frames |-> w.frames, result |-> w.result,
             return_value |-> w.return_value, waittill |-> w.waittill, endon |-> w.endon]
    BY <1>4 DEF Popped, Like, IsThread
  <2>2. Continue(u)
    BY <1>7
  <2> HIDE DEF u
  <2>3. /\ IsThread(u) /\ u.state = s /\ u.endon = w.endon /\ u.return_value = w.return_value
        /\ u.stack = w.stack /\ u.frames = w.frames
    BY <2>1 DEF IsThread
  <2>4. /\ w.endon = Thr.endon /\ w.return_value = Thr.return_value /\ Len(w.stack) \in Nat
    BY <1>1, <1>4, AtHand DEF Popped, Like
  <2>5. ASSUME Len(w.stack) <= StackSize PROVE Stepped(functions, objects, Thr, w, Frame.ip + 1)
    BY <1>1, <1>2, <1>3, <1>4, <2>5, AtHand, PoppedSteps
  <2>6. Len(u.stack) <= StackSize => Stepped(functions, objects, Thr, u, Frame.ip + 1)
    BY <2>3, <2>5, SteppedAlso
  <2>7. IsSeq(Thr.endon) /\ Len(Thr.endon) <= MaxEndon
    BY <1>1, AtHand DEF ThreadOK
  <2>8. Settled(objects, Thr, u)
    BY <2>3, <2>4, <2>7 DEF Settled, Going
  <2> QED BY <1>1, <1>2, <2>2, <2>3, <2>4, <2>6, <2>8, SteppingKeeps
<1> QED BY <1>5, <1>6, <1>7, RaiseKeeps

\* OP_ENDON.
LEMMA EndonStep == ASSUME NEW sh, IInv(sh), OP_ENDON PROVE IInv(sh)'
<1>1. cur # 0 /\ Thr.state = "ACTIVE" /\ Ins.op = "ENDON"
  <2>1. At("ENDON")
    BY DEF OP_ENDON
  <2> QED BY <2>1, AtRuns
<1>2. Len(Pops(Ins)) = 2 /\ Frame.ip + 1 \in Successors(Ins, Frame.ip) /\ Pushes(Ins) = <<Val>>
  BY <1>1 DEF Pops, Successors, Pushes
<1>3. Needs(2) /\ 2 \in 0 .. Len(Thr.stack)
  BY <1>1, <1>2, Needed
<1> DEFINE w == Replace(Advance(Thr), 2, Undef)
           e == Append(Thr.endon, EventName.sval)
           u == [w EXCEPT !.endon = Append(@, EventName.sval)]
<1>4. Pushed(Thr, w, Frame.ip + 1, 2, Undef)
  BY <1>1, <1>3, Forward
<1>5. vm_error("type") \/ vm_error("endon") \/ (Continue(u) /\ ~(Len(Thr.endon) >= MaxEndon))
  BY <1>3 DEF OP_ENDON, Replace
<1>6. "type" \in ScriptErrors /\ "endon" \in ScriptErrors
  BY DEF ScriptErrors
<1> HIDE DEF w
<1>7. w.endon = Thr.endon /\ w.return_value = Thr.return_value /\ Len(w.stack) \in Nat /\ IsThread(w)
      /\ w.state = Thr.state
  BY <1>1, <1>3, <1>4, AtHand DEF Pushed, Like
<1>8. u = [state |-> w.state, stack |-> w.stack, frames |-> w.frames, result |-> w.result,
           return_value |-> w.return_value, waittill |-> w.waittill, endon |-> e]
  <2>1. u = [w EXCEPT !.endon = e]
    BY <1>7 DEF IsThread
  <2> HIDE DEF u, e
  <2> QED BY <1>7, <2>1 DEF IsThread
<1> HIDE DEF u
<1>9. ASSUME Continue(u), ~(Len(Thr.endon) >= MaxEndon) PROVE IInv(sh)'
  <2>1. IsSeq(Thr.endon) /\ Len(Thr.endon) \in Nat /\ MaxEndon \in Nat
    BY <1>1, AtHand, Constants, SeqLen DEF ThreadOK
  <2>2. IsSeq(e) /\ Len(e) <= MaxEndon
    <3> DEFINE d == Thr.endon
               x == EventName.sval
    <3>1. IsSeq(d)
      BY <2>1
    <3> HIDE DEF d, x
    <3>2. IsSeq(Append(d, x)) /\ Len(Append(d, x)) = Len(d) + 1
      BY ONLY <3>1, SeqAppend
    <3>3. Len(d) \in Nat /\ ~(Len(d) >= MaxEndon)
      BY <1>9, <2>1 DEF d
    <3>4. e = Append(d, x)
      BY DEF d, x
    <3> HIDE DEF e
    <3> QED BY <2>1, <3>2, <3>3, <3>4
  <2> HIDE DEF e
  <2>3. IsThread(u) /\ u.state = "ACTIVE" /\ u.endon = e /\ u.return_value = Thr.return_value
        /\ u.stack = w.stack /\ u.frames = w.frames
    BY <1>1, <1>7, <1>8 DEF IsThread
  <2>4. Settled(objects, Thr, u)
    BY <2>2, <2>3 DEF Settled, Going
  <2>5. Fits(objects, Frame, Val, Undef)
    BY Types, GoodPlain, FitsVal
  <2>6. ASSUME Len(w.stack) <= StackSize PROVE Stepped(functions, objects, Thr, w, Frame.ip + 1)
    BY <1>1, <1>2, <1>3, <1>4, <2>5, <2>6, AtHand, PushedSteps
  <2>7. Len(u.stack) <= StackSize => Stepped(functions, objects, Thr, u, Frame.ip + 1)
    BY <2>3, <2>6, SteppedAlso
  <2>8. ~NoEndon(functions)
    <3>1. /\ Frame.function \in DOMAIN functions /\ Frame.ip \in 0 .. Len(functions[Frame.function].instructions) - 1
          /\ Len(functions[Frame.function].instructions) \in Nat
      BY <1>1, AtHand, FrameCode
    <3>2. Frame.ip + 1 \in 1 .. Len(functions[Frame.function].instructions)
      BY <3>1
    <3>3. functions[Frame.function].instructions[Frame.ip + 1].op = "ENDON"
      BY <1>1 DEF Ins, Code
    <3> QED BY <3>1, <3>2, <3>3 DEF NoEndon
  <2> QED BY <1>1, <1>7, <1>9, <2>3, <2>4, <2>7, <2>8, SteppingKeeps
<1> QED BY <1>5, <1>6, <1>9, RaiseKeeps

\* The arguments of an event are operands that the instruction pops.
LEMMA EventOperands ==
  ASSUME NEW sh, IInv(sh), cur # 0, Thr.state = "ACTIVE", Ins.op \in {"NOTIFY", "WAITTILL"}
  PROVE  /\ Ins.n \in Nat /\ Ins.n + 1 = Len(Pops(Ins)) /\ Ins.n + 1 \in 0 .. Len(Thr.stack)
         /\ Needs(Ins.n + 1)
         /\ Pushed(Thr, AfterEvent, Frame.ip + 1, Ins.n + 1, Undef)
         /\ IsSeq(EventArgs(MaxEventArgs))
         /\ \A k \in DOMAIN EventArgs(MaxEventArgs) :
              /\ Ins.op = "NOTIFY" => Good(Len(objects), EventArgs(MaxEventArgs)[k])
              /\ Ins.op = "WAITTILL" => Target(objects, Last(Thr), EventArgs(MaxEventArgs)[k])
<1>1. Ins.n \in Nat
  BY AtHand DEF Proper
<1>2. Pops(Ins) = [k \in 1 .. Ins.n + 1 |-> IF Ins.op = "NOTIFY" \/ k <= 2 THEN ValueKinds ELSE {"reference"}]
  BY DEF Pops
<1> DEFINE n == Ins.n
           m == IF n - 1 < MaxEventArgs THEN n - 1 ELSE MaxEventArgs
           a == EventArgs(MaxEventArgs)
<1>3. n \in Nat /\ n >= 1
  BY AtHand DEF Proper
<1>4. Len(Pops(Ins)) = n + 1 /\ DOMAIN Pops(Ins) = 1 .. n + 1
  <2>1. n + 1 \in Nat
    BY <1>1
  <2> HIDE DEF n
  <2> QED BY <1>2, <2>1 DEF n
<1>5. Needs(n + 1) /\ n + 1 \in 0 .. Len(Thr.stack)
  BY <1>4, Needed
<1>6. Pushed(Thr, AfterEvent, Frame.ip + 1, n + 1, Undef)
  BY <1>5, Forward DEF AfterEvent, Replace
<1>7. a = [k \in 1 .. m |-> Top(Thr, k + 2)]
  BY DEF EventArgs
<1> HIDE DEF n, a
<1>8. m \in Nat /\ m <= n - 1
  BY <1>3, Constants
<1> HIDE DEF m
<1>9. IsSeq(a) /\ DOMAIN a = 1 .. m
  <2> DEFINE S == {Top(Thr, k + 2) : k \in 1 .. m}
  <2>1. a \in [1 .. m -> S]
    BY <1>7
  <2> HIDE DEF S
  <2>2. a \in Seq(S)
    BY <1>8, <2>1
  <2> QED BY <1>7, <2>2, AnySeq
<1>10. ASSUME NEW k \in 1 .. m
       PROVE  /\ Ins.op = "NOTIFY" => Good(Len(objects), a[k])
              /\ Ins.op = "WAITTILL" => Target(objects, Last(Thr), a[k])
  <2>1. k + 2 \in 1 .. n + 1 /\ ~(k + 2 <= 2) /\ k + 2 \in 1 .. Len(Pops(Ins))
    BY <1>3, <1>4, <1>8
  <2>2. Pops(Ins)[k + 2] = IF Ins.op = "NOTIFY" THEN ValueKinds ELSE {"reference"}
    BY <1>2, <2>1 DEF n
  <2>3. a[k] = Top(Thr, k + 2)
    BY <1>7
  <2>4. Ins.op = "NOTIFY" => Good(Len(objects), a[k])
    BY <2>1, <2>2, <2>3, GoodTop
  <2>5. ASSUME Ins.op = "WAITTILL" PROVE Target(objects, Last(Thr), a[k])
    <3> DEFINE i == k + 2
    <3>1. i \in 1 .. Len(Pops(Ins)) /\ Pops(Ins)[i] = {"reference"} /\ a[k] = Top(Thr, i)
      BY <2>1, <2>2, <2>3, <2>5
    <3> HIDE DEF i
    <3>2. Target(objects, Last(Thr), Top(Thr, i))
      BY <3>1, AtHand, Operands
    <3> QED BY <3>1, <3>2
  <2> QED BY <2>4, <2>5
<1> QED BY <1>1, <1>4, <1>5, <1>6, <1>9, <1>10 DEF n, a

\* OP_WAITTILL: the references it keeps point into its own frame or to fields.
LEMMA WaittillStep == ASSUME NEW sh, IInv(sh), OP_WAITTILL PROVE IInv(sh)'
<1>1. cur # 0 /\ Thr.state = "ACTIVE" /\ Ins.op = "WAITTILL"
  <2>1. At("WAITTILL")
    BY DEF OP_WAITTILL
  <2> QED BY <2>1, AtRuns
<1> DEFINE refs == EventArgs(MaxEventArgs)
           n == Ins.n + 1
           w == AfterEvent
<1>2. /\ n = Len(Pops(Ins)) /\ n \in 0 .. Len(Thr.stack) /\ Needs(n)
      /\ Pushed(Thr, w, Frame.ip + 1, n, Undef)
      /\ IsSeq(refs) /\ \A k \in DOMAIN refs : Target(objects, Last(Thr), refs[k])
  BY <1>1, EventOperands
<1>3. Frame.ip + 1 \in Successors(Ins, Frame.ip) /\ Pushes(Ins) = <<Val>> /\ Pauses(Ins)
  BY <1>1 DEF Successors, Pushes, Pauses
<1> DEFINE wt == [name |-> EventName.sval, object |-> EventObject.oval, arguments |-> refs]
           u == [w EXCEPT !.state = "WAITING_EVENT", !.waittill = wt]
<1>4. "type" \in ScriptErrors
  BY DEF ScriptErrors
<1>5. \A k \in DOMAIN refs : refs[k].type = "REFERENCE"
  BY <1>2 DEF Target
<1>6. vm_error("type") \/ Continue(u)
  BY <1>2, <1>5 DEF OP_WAITTILL
<1> HIDE DEF refs, w
<1>7. wt.arguments = refs
  OBVIOUS
<1> HIDE DEF wt
<1>8. u = [state |-> "WAITING_EVENT", stack |-> w.stack, frames |-> w.frames, result |-> w.result,
           return_value |-> w.return_value, waittill |-> wt, endon |-> w.endon]
  <2>1. IsThread(w)
    BY <1>2 DEF Pushed, Like
  <2> DEFINE v == [w EXCEPT !.state = "WAITING_EVENT"]
  <2>2. v = [state |-> "WAITING_EVENT", stack |-> w.stack, frames |-> w.frames, result |-> w.result,
             return_value |-> w.return_value, waittill |-> w.waittill, endon |-> w.endon]
    BY <2>1 DEF IsThread
  <2>3. u = [v EXCEPT !.waittill = wt]
    OBVIOUS
  <2> HIDE DEF v, u
  <2> QED BY <2>2, <2>3
<1> HIDE DEF u, n
<1>9. /\ IsThread(u) /\ u.state = "WAITING_EVENT" /\ u.endon = Thr.endon
      /\ u.return_value = Thr.return_value /\ u.stack = w.stack /\ u.frames = w.frames
      /\ u.waittill = wt
  BY <1>2, <1>8 DEF Pushed, Like, IsThread
<1>10. Len(w.stack) \in Nat
  BY <1>1, <1>2, AtHand DEF Pushed
<1>11. Fits(objects, Frame, Val, Undef)
  BY Types, GoodPlain, FitsVal
<1>12. ASSUME Len(w.stack) <= StackSize PROVE Stepped(functions, objects, Thr, w, Frame.ip + 1)
  BY <1>1, <1>2, <1>3, <1>11, <1>12, AtHand, PushedSteps
<1>13. Len(u.stack) <= StackSize => Stepped(functions, objects, Thr, u, Frame.ip + 1)
  BY <1>9, <1>12, SteppedAlso
<1>14. Settled(objects, Thr, u)
  <2>1. IsSeq(Thr.endon) /\ Len(Thr.endon) <= MaxEndon
    BY <1>1, AtHand DEF ThreadOK
  <2> QED BY <1>2, <1>7, <1>9, <2>1 DEF Settled, Going
<1>15. Continue(u) => IInv(sh)'
  BY <1>1, <1>3, <1>9, <1>10, <1>13, <1>14, SteppingKeeps
<1> QED BY <1>4, <1>6, <1>15, RaiseKeeps

\* OP_NOTIFY: the arguments it posts are values.
LEMMA NotifyStep == ASSUME NEW sh, IInv(sh), OP_NOTIFY PROVE IInv(sh)'
<1>1. cur # 0 /\ Thr.state = "ACTIVE" /\ Ins.op = "NOTIFY"
  <2>1. At("NOTIFY")
    BY DEF OP_NOTIFY
  <2> QED BY <2>1, AtRuns
<1> DEFINE args == EventArgs(MaxEventArgs)
           n == Ins.n + 1
           w == AfterEvent
           e == [name |-> EventName.sval, object |-> EventObject.oval, arguments |-> args]
<1>2. /\ n = Len(Pops(Ins)) /\ n \in 0 .. Len(Thr.stack) /\ Needs(n) /\ n >= 1
      /\ Pushed(Thr, w, Frame.ip + 1, n, Undef)
      /\ IsSeq(args) /\ \A k \in DOMAIN args : Good(Len(objects), args[k])
  <2>1. n >= 1
    BY <1>1, EventOperands
  <2> QED BY <1>1, <2>1, EventOperands
<1>3. Frame.ip + 1 \in Successors(Ins, Frame.ip) /\ Pushes(Ins) = <<Val>>
  BY <1>1 DEF Successors, Pushes
<1>4. "type" \in ScriptErrors /\ "events" \in ScriptErrors
  BY DEF ScriptErrors
<1>5. \/ vm_error("type") \/ vm_error("events") 
      \/ /\ ~(Len(events) >= MaxEvents) /\ events' = Append(events, e)
         /\ threads' = Put(threads, cur, w)
         /\ Frozen /\ UNCHANGED <<pool, cur, memory, text>>
  BY <1>2 DEF OP_NOTIFY, Put
<1> HIDE DEF args, w, n
<1>6. e.arguments = args
  OBVIOUS
<1> HIDE DEF e
<1>7. ASSUME /\ ~(Len(events) >= MaxEvents) /\ events' = Append(events, e)
             /\ threads' = Put(threads, cur, w)
             /\ Frozen /\ UNCHANGED <<pool, cur, memory, text>>
      PROVE  IInv(sh)'
  <2>1. /\ functions' = functions /\ cur' = cur /\ pool' = pool /\ error' = error
        /\ cells' = cells /\ objects' = objects
    BY <1>7 DEF Frozen, memory
  <2>2. OwnersKept
    BY <2>1, SameMemory DEF SameFree
  <2>3. ObjectsInv' /\ CellsInv'
    BY <2>1 DEF IInv, ObjectsInv, CellsInv
  <2>4. EventsInv'
    <3>1. IsSeq(events) /\ Len(events) \in Nat /\ MaxEvents \in Nat
      BY Constants, SeqLen DEF IInv, EventsInv
    <3>2. /\ IsSeq(events') /\ Len(events') = Len(events) + 1
          /\ events'[Len(events) + 1] = e /\ \A k \in 1 .. Len(events) : events'[k] = events[k]
      <4> DEFINE ev == events
      <4>1. IsSeq(ev)
        BY <3>1
      <4> HIDE DEF ev
      <4>2. /\ IsSeq(Append(ev, e)) /\ Len(Append(ev, e)) = Len(ev) + 1
            /\ Append(ev, e)[Len(ev) + 1] = e /\ \A k \in 1 .. Len(ev) : Append(ev, e)[k] = ev[k]
        BY ONLY <4>1, SeqAppend
      <4>3. events' = Append(ev, e)
        BY <1>7 DEF ev
      <4> QED BY <4>2, <4>3 DEF ev
    <3>3. Len(events') <= MaxEvents
      BY <1>7, <3>1, <3>2
    <3>4. ASSUME NEW k \in 1 .. Len(events'), NEW l \in DOMAIN events'[k].arguments
          PROVE  Good(Len(objects'), events'[k].arguments[l])
      <4>1. k \in 1 .. Len(events) \/ k = Len(events) + 1
        BY <3>1, <3>2
      <4>2. CASE k \in 1 .. Len(events)
        BY <2>1, <3>2, <4>2 DEF IInv, EventsInv
      <4>3. CASE k = Len(events) + 1
        BY <1>2, <1>6, <2>1, <3>2, <4>3
      <4> QED BY <4>1, <4>2, <4>3
    <3> QED BY <3>2, <3>3, <3>4 DEF EventsInv
  <2>5. Fits(objects, Frame, Val, Undef)
    BY Types, GoodPlain, FitsVal
  <2>6. Len(w.stack) <= StackSize
    <3>1. Len(w.stack) = Len(Thr.stack) - n + 1
      BY <1>2 DEF Pushed
    <3>2. Len(Thr.stack) \in Nat /\ Len(Thr.stack) <= StackSize /\ StackSize \in Nat
      BY <1>1, AtHand, Constants
    <3> QED BY <1>2, <3>1, <3>2
  <2>7. Stepped(functions, objects, Thr, w, Frame.ip + 1)
    BY <1>1, <1>2, <1>3, <2>5, <2>6, AtHand, PushedSteps
  <2>8. Settled(objects, Thr, w) /\ w.state = "ACTIVE" /\ w.endon = Thr.endon
    <3>1. Like(Thr, w)
      BY <1>2 DEF Pushed
    <3> QED BY <1>1, <3>1, AtHand, LikeSettles DEF Like
  <2>9. Grows(objects, objects')
    BY <1>1, <2>1, AtHand
  <2> QED BY <1>1, <1>7, <2>1, <2>2, <2>3, <2>4, <2>7, <2>8, <2>9, InstructionKeeps
<1> QED BY <1>4, <1>5, <1>7, RaiseKeeps

-----------------------------------------------------------------------------
(* Variables and objects *)

\* A reference that is held leads to a variable that is in use.
LEMMA TargetLive ==
  ASSUME NEW sh, IInv(sh), NEW t \in Threads, threads[t].state \in Going, NEW v,
         Target(objects, Last(threads[t]), v)
  PROVE  v.refval \in Cells /\ cells[v.refval] # Free
<1> DEFINE r == threads[t]
           n == Len(r.frames)
<1>1. ThreadOK(functions, sh, objects, t, r)
  BY DEF IInv, ThreadsInv
<1>2. n \in Nat /\ n \in 1 .. n /\ FrameOK(functions, sh, Last(r)) /\ IsSeq(r.frames)
  BY <1>1, LastFrame DEF ThreadOK
<1>3. CASE v.refval \in CellsOf(Last(r))
  <2>1. PICK k \in 1 .. Len(Last(r).locals) : v.refval = Last(r).locals[k]
    BY <1>3 DEF CellsOf
  <2>2. k \in DOMAIN Last(r).locals
    BY <1>2, <2>1 DEF FrameOK
  <2>3. n \in DOMAIN r.frames
    BY <1>2, SeqLen
  <2>4. threads[t].state # "FREE"
    BY DEF Going
  <2>5. IsLocal(threads, t, n, k) /\ CellAt(threads, t, n, k) = v.refval
    BY <2>1, <2>2, <2>3, <2>4 DEF IsLocal, CellAt, Last
  <2> QED BY <2>5 DEF IInv, Unshared
<1>4. CASE IsField(objects, v.refval)
  <2>1. PICK o \in DOMAIN objects : \E f \in DOMAIN objects[o] : objects[o][f] = v.refval
    BY <1>4 DEF IsField
  <2>2. PICK f \in DOMAIN objects[o] : objects[o][f] = v.refval
    BY <2>1
  <2>3. HasKey(objects, o, f)
    BY DEF HasKey
  <2> QED BY <2>2, <2>3 DEF IInv, Unshared
<1> QED BY <1>3, <1>4 DEF Target

\* A value in a variable is not the mark of a free cell.
LEMMA GoodIsNotFree == ASSUME NEW n, NEW v, Good(n, v) PROVE v # Free
BY DEF Good, Free

\* The operands of an instruction that does not push more than it pops.
LEMMA LowEnough ==
  ASSUME NEW sh, IInv(sh), cur # 0, Thr.state = "ACTIVE", NEW u, NEW next, NEW k, NEW v,
         Pushed(Thr, u, next, k, v), k \in Nat, k >= 1, k = Len(Pops(Ins))
  PROVE  Len(u.stack) <= StackSize
<1>1. Len(u.stack) = Len(Thr.stack) - k + 1
  BY DEF Pushed
<1>2. Len(Thr.stack) \in Nat /\ Len(Thr.stack) <= StackSize /\ StackSize \in Nat
  BY AtHand, Constants
<1> QED BY <1>1, <1>2

\* A variable gets another value.
LEMMA AssignedCells ==
  ASSUME NEW sh, IInv(sh), NEW n, Len(objects) \in Nat, n \in Nat, Len(objects) <= n,
         NEW a, cells[a] # Free, a \in Cells, NEW v, Good(n, v)
  PROVE  /\ SameFree(cells, Put(cells, a, v))
         /\ Put(cells, a, v) = [c \in Cells |-> Put(cells, a, v)[c]]
         /\ \A c \in Cells : Put(cells, a, v)[c] = Free \/ Good(n, Put(cells, a, v)[c])
         /\ Put(cells, a, v)[a] = v /\ \A c \in Cells : c # a => Put(cells, a, v)[c] = cells[c]
<1>1. cells = [c \in Cells |-> cells[c]] /\ \A c \in Cells : cells[c] = Free \/ Good(Len(objects), cells[c])
  BY DEF IInv, CellsInv
<1> DEFINE nc == Put(cells, a, v)
<1>2. /\ nc = [c \in Cells |-> nc[c]] /\ nc[a] = v /\ \A c \in Cells : c # a => nc[c] = cells[c]
  BY <1>1 DEF Put
<1> HIDE DEF nc
<1>3. v # Free
  BY GoodIsNotFree
<1>4. SameFree(cells, nc)
  BY <1>2, <1>3 DEF SameFree
<1>5. \A c \in Cells : cells[c] = Free \/ Good(n, cells[c])
  BY <1>1 DEF Good
<1>6. \A c \in Cells : nc[c] = Free \/ Good(n, nc[c])
  BY <1>2, <1>5
<1> QED BY <1>2, <1>4, <1>6 DEF nc

\* OP_STORE: what it writes to is a variable, and what it writes is a value.
LEMMA StoreStep == ASSUME NEW sh, IInv(sh), OP_STORE PROVE IInv(sh)'
<1>1. cur # 0 /\ Thr.state = "ACTIVE" /\ Ins.op = "STORE"
  <2>1. At("STORE")
    BY DEF OP_STORE
  <2> QED BY <2>1, AtRuns
<1>2. /\ Len(Pops(Ins)) = 2 /\ Frame.ip + 1 \in Successors(Ins, Frame.ip) /\ Pushes(Ins) = <<Val>>
      /\ Pops(Ins)[1] = {"reference"} /\ Pops(Ins)[2] = ValueKinds
  BY <1>1 DEF Pops, Successors, Pushes
<1>3. Needs(2) /\ 2 \in 0 .. Len(Thr.stack)
  BY <1>1, <1>2, Needed
<1> DEFINE dst == Top(Thr, 1)
           v == Top(Thr, 2)
           u == Replace(Advance(Thr), 2, v)
<1>4. Target(objects, Last(Thr), dst)
  BY <1>1, <1>2, AtHand, Operands
<1>5. Good(Len(objects), v)
  BY <1>1, <1>2, GoodTop
<1>6. dst.refval \in Cells /\ cells[dst.refval] # Free /\ dst.type = "REFERENCE"
  <2>1. cur \in Threads /\ threads[cur].state \in Going /\ Target(objects, Last(threads[cur]), dst)
    BY <1>1, <1>4, AtHand DEF Thr
  <2> QED BY <1>4, <2>1, TargetLive DEF Target
<1>7. /\ cells' = Put(cells, dst.refval, v)
      /\ threads' = Put(threads, cur, u)
      /\ Frozen /\ UNCHANGED <<pool, cur, objects, events, text>>
  BY <1>3, <1>6 DEF OP_STORE, Put
<1>8. Pushed(Thr, u, Frame.ip + 1, 2, v)
  BY <1>1, <1>3, Forward
<1> HIDE DEF u, dst, v
<1>9. /\ functions' = functions /\ cur' = cur /\ pool' = pool /\ error' = error
      /\ objects' = objects /\ events' = events
  BY <1>7 DEF Frozen
<1>10. Len(objects) \in Nat
  BY SeqLen DEF IInv, ObjectsInv
<1>11. /\ SameFree(cells, cells') /\ cells' = [c \in Cells |-> cells'[c]]
       /\ \A c \in Cells : cells'[c] = Free \/ Good(Len(objects), cells'[c])
  BY <1>5, <1>6, <1>7, <1>10, AssignedCells
<1>12. OwnersKept
  BY <1>9, <1>11, SameMemory
<1>13. ObjectsInv' /\ EventsInv' /\ CellsInv'
  BY <1>9, <1>11 DEF IInv, ObjectsInv, EventsInv, CellsInv
<1>14. Stepped(functions, objects, Thr, u, Frame.ip + 1)
  <2>1. Len(u.stack) <= StackSize
    BY <1>1, <1>2, <1>8, LowEnough
  <2>2. Fits(objects, Frame, Val, v)
    BY <1>5, FitsVal
  <2> QED BY <1>1, <1>2, <1>3, <1>8, <2>1, <2>2, AtHand, PushedSteps
<1>15. Settled(objects, Thr, u) /\ u.state = "ACTIVE" /\ u.endon = Thr.endon
  <2>1. Like(Thr, u)
    BY <1>8 DEF Pushed
  <2> QED BY <1>1, <2>1, AtHand, LikeSettles DEF Like
<1>16. Grows(objects, objects')
  BY <1>1, <1>9, AtHand
<1> QED BY <1>1, <1>7, <1>9, <1>12, <1>13, <1>14, <1>15, <1>16, InstructionKeeps

\* One more object, without fields.
LEMMA OneMore ==
  ASSUME NEW objs, IsSeq(objs)
  PROVE  LET more == Append(objs, <<>>) IN
         /\ IsSeq(more) /\ Len(more) = Len(objs) + 1 /\ more[Len(objs) + 1] = <<>>
         /\ \A o \in 1 .. Len(objs) : more[o] = objs[o]
         /\ \A o, f : /\ HasKey(more, o, f) <=> HasKey(objs, o, f)
                      /\ HasKey(objs, o, f) => more[o][f] = objs[o][f]
<1> DEFINE more == Append(objs, <<>>)
<1>1. /\ IsSeq(more) /\ Len(more) = Len(objs) + 1 /\ more[Len(objs) + 1] = <<>>
      /\ \A o \in 1 .. Len(objs) : more[o] = objs[o]
  BY SeqAppend
<1> HIDE DEF more
<1>2. Len(objs) \in Nat /\ DOMAIN objs = 1 .. Len(objs) /\ DOMAIN more = 1 .. Len(objs) + 1
  BY <1>1, SeqLen
<1>3. DOMAIN <<>> = {}
  OBVIOUS
<1>4. ASSUME NEW o, NEW f PROVE /\ HasKey(more, o, f) <=> HasKey(objs, o, f)
                                /\ HasKey(objs, o, f) => more[o][f] = objs[o][f]
  <2>1. o \in 1 .. Len(objs) + 1 <=> o \in 1 .. Len(objs) \/ o = Len(objs) + 1
    BY <1>2
  <2>2. o \in 1 .. Len(objs) => more[o] = objs[o]
    BY <1>1
  <2>3. o = Len(objs) + 1 => DOMAIN more[o] = {}
    BY <1>1, <1>3
  <2> QED BY <1>2, <2>1, <2>2, <2>3 DEF HasKey
<1> QED BY <1>1, <1>4 DEF more

\* More fields and more objects.
LEMMA MoreKeysGrow ==
  ASSUME NEW objs, NEW more, Len(objs) \in Nat, Len(more) \in Nat, Len(objs) <= Len(more),
         \A o, f : HasKey(objs, o, f) => HasKey(more, o, f) /\ more[o][f] = objs[o][f]
  PROVE  Grows(objs, more)
<1>1. ASSUME NEW a, IsField(objs, a) PROVE IsField(more, a)
  <2>1. PICK o \in DOMAIN objs : \E f \in DOMAIN objs[o] : objs[o][f] = a
    BY <1>1 DEF IsField
  <2>2. PICK f \in DOMAIN objs[o] : objs[o][f] = a
    BY <2>1
  <2>3. HasKey(objs, o, f)
    BY DEF HasKey
  <2>4. HasKey(more, o, f) /\ more[o][f] = a
    BY <2>2, <2>3
  <2> QED BY <2>4 DEF HasKey, IsField
<1> QED BY <1>1 DEF Grows

\* Posted events stay good when there are more objects.
LEMMA EventsGrow ==
  ASSUME NEW sh, IInv(sh), Grows(objects, objects'), events' = events
  PROVE  EventsInv'
<1>1. \A v : Good(Len(objects), v) => Good(Len(objects'), v)
  BY GrowsFits
<1> QED BY <1>1 DEF IInv, EventsInv

\* OP_TABLE.
LEMMA TableStep == ASSUME NEW sh, IInv(sh), OP_TABLE PROVE IInv(sh)'
<1>1. cur # 0 /\ Thr.state = "ACTIVE" /\ Ins.op = "TABLE"
  <2>1. At("TABLE")
    BY DEF OP_TABLE
  <2> QED BY <2>1, AtRuns
<1>2. Len(Pops(Ins)) = 0 /\ Frame.ip + 1 \in Successors(Ins, Frame.ip) /\ Pushes(Ins) = <<Val>>
  BY <1>1 DEF Pops, Successors, Pushes
<1> DEFINE v == Object(Len(objects) + 1)
           u == PushOn(Advance(Thr), v)
<1>3. \/ vm_error("stack")
      \/ /\ ~(Len(Thr.stack) >= StackSize) /\ objects' = Append(objects, <<>>)
         /\ threads' = Put(threads, cur, u)
         /\ Frozen /\ UNCHANGED <<pool, cur, cells, events, text>>
  BY DEF OP_TABLE, Put
<1>4. "stack" \in ScriptErrors
  BY DEF ScriptErrors
<1>5. Pushed(Thr, u, Frame.ip + 1, 0, v) /\ 0 \in 0 .. Len(Thr.stack)
  <2>1. 0 \in 0 .. Len(Thr.stack)
    BY <1>1, AtHand
  <2> QED BY <1>1, <2>1, Forward
<1>6. v.type = "OBJECT" /\ v.oval = Len(objects) + 1
  BY DEF Object
<1> HIDE DEF u, v
<1>7. ASSUME ~(Len(Thr.stack) >= StackSize), objects' = Append(objects, <<>>),
             threads' = Put(threads, cur, u), Frozen, UNCHANGED <<pool, cur, cells, events, text>>
      PROVE  IInv(sh)'
  <2>1. /\ functions' = functions /\ cur' = cur /\ pool' = pool /\ error' = error
        /\ cells' = cells /\ events' = events
    BY <1>7 DEF Frozen
  <2>2. IsSeq(objects) /\ Len(objects) \in Nat /\ Len(objects) >= 1
    BY SeqLen DEF IInv, ObjectsInv
  <2>3. /\ IsSeq(objects') /\ Len(objects') = Len(objects) + 1 /\ objects'[Len(objects) + 1] = <<>>
        /\ \A o \in 1 .. Len(objects) : objects'[o] = objects[o]
        /\ \A o, f : /\ HasKey(objects', o, f) <=> HasKey(objects, o, f)
                     /\ HasKey(objects, o, f) => objects'[o][f] = objects[o][f]
    <3> DEFINE more == Append(objects, <<>>)
    <3>1. /\ IsSeq(more) /\ Len(more) = Len(objects) + 1 /\ more[Len(objects) + 1] = <<>>
          /\ \A o \in 1 .. Len(objects) : more[o] = objects[o]
          /\ \A o, f : /\ HasKey(more, o, f) <=> HasKey(objects, o, f)
                       /\ HasKey(objects, o, f) => more[o][f] = objects[o][f]
      BY <2>2, OneMore
    <3>2. objects' = more
      BY <1>7
    <3> HIDE DEF more
    <3> QED BY <3>1, <3>2
  <2>4. Grows(objects, objects')
    BY <2>2, <2>3, MoreKeysGrow
  <2>5. OwnersKept
    BY <2>1, <2>3, SameMemory DEF SameFree
  <2>6. EventsInv'
    BY <2>1, <2>4, EventsGrow
  <2>7. CellsInv'
    <3>1. \A x : Good(Len(objects), x) => Good(Len(objects'), x)
      BY <2>4, GrowsFits
    <3> QED BY <2>1, <3>1 DEF IInv, CellsInv
  <2>8. ObjectsInv'
    <3>1. ASSUME NEW o \in 1 .. Len(objects'), NEW f \in DOMAIN objects'[o] PROVE objects'[o][f] \in Cells
      <4>1. HasKey(objects', o, f)
        BY <2>3, SeqLen DEF HasKey
      <4> QED BY <2>3, <4>1 DEF IInv, Unshared
    <3> QED BY <2>2, <2>3, <3>1 DEF ObjectsInv
  <2>9. Fits(objects', Frame, Val, v)
    <3>1. v.oval \in 1 .. Len(objects')
      BY <1>6, <2>2, <2>3
    <3>2. Good(Len(objects'), v)
      BY <1>6, <3>1 DEF Good
    <3> QED BY <3>2, FitsVal
  <2>10. Len(u.stack) <= StackSize
    <3>1. Len(u.stack) = Len(Thr.stack) - 0 + 1 /\ Len(Thr.stack) \in Nat /\ StackSize \in Nat
      BY <1>1, <1>5, AtHand, Constants DEF Pushed
    <3> QED BY <1>7, <3>1
  <2>11. Stepped(functions, objects', Thr, u, Frame.ip + 1)
    BY <1>1, <1>2, <1>5, <2>9, <2>10, AtHand, PushedSteps
  <2>12. Settled(objects', Thr, u) /\ u.state = "ACTIVE" /\ u.endon = Thr.endon
    <3>1. Like(Thr, u)
      BY <1>5 DEF Pushed
    <3> QED BY <1>1, <3>1, AtHand, LikeSettles DEF Like
  <2> QED BY <1>1, <1>7, <2>1, <2>4, <2>5, <2>6, <2>7, <2>8, <2>11, <2>12, InstructionKeeps
<1> QED BY <1>3, <1>4, <1>7, RaiseKeeps

\* Object o of known has the field k in cell.
Extended(known, o, k, cell) ==
  Put(known, o, [f \in DOMAIN known[o] \cup {k} |-> IF f = k THEN cell ELSE known[o][f]])

\* The objects when one has one more field.
LEMMA ExtendedIs ==
  ASSUME NEW known, IsSeq(known), NEW o \in 1 .. Len(known), NEW k, NEW cell
  PROVE  LET more == Extended(known, o, k, cell) IN
         /\ IsSeq(more) /\ Len(more) = Len(known) /\ more[o][k] = cell
         /\ \A p, f : /\ HasKey(more, p, f) <=> HasKey(known, p, f) \/ (p = o /\ f = k)
                      /\ HasKey(known, p, f) /\ ~(p = o /\ f = k) => more[p][f] = known[p][f]
<1> DEFINE ext == [f \in DOMAIN known[o] \cup {k} |-> IF f = k THEN cell ELSE known[o][f]]
           more == Put(known, o, ext)
<1>1. DOMAIN ext = DOMAIN known[o] \cup {k} /\ ext[k] = cell /\ \A f \in DOMAIN known[o] : f # k => ext[f] = known[o][f]
  OBVIOUS
<1> HIDE DEF ext
<1>2. /\ IsSeq(more) /\ Len(more) = Len(known) /\ more[o] = ext
      /\ \A p \in 1 .. Len(known) : p # o => more[p] = known[p]
  BY SeqPut
<1> HIDE DEF more
<1>3. DOMAIN known = 1 .. Len(known) /\ DOMAIN more = 1 .. Len(known)
  BY <1>2, SeqLen
<1>4. ASSUME NEW p, NEW f
      PROVE  /\ HasKey(more, p, f) <=> HasKey(known, p, f) \/ (p = o /\ f = k)
             /\ HasKey(known, p, f) /\ ~(p = o /\ f = k) => more[p][f] = known[p][f]
  <2>1. CASE p = o
    BY <1>1, <1>2, <1>3, <2>1 DEF HasKey
  <2>2. CASE p # o
    BY <1>2, <1>3, <2>2 DEF HasKey
  <2> QED BY <2>1, <2>2
<1> QED BY <1>1, <1>2, <1>4 DEF more, ext, Extended

\* The owner of a field: an object, or a variable that becomes a new one.
LEMMA FieldOwner ==
  ASSUME NEW sh, IInv(sh), cur # 0, Thr.state = "ACTIVE", Ins.op = "FIELD_REF"
  PROVE  LET r == Top(Thr, 1)
             owner == IF r.refval < 0 THEN Object(-r.refval) ELSE cells[r.refval]
         IN /\ r.type = "REFERENCE" /\ owner.type # "FREE"
            /\ owner.type = "OBJECT" => owner.oval \in 1 .. Len(objects)
            /\ owner.type = "UNDEFINED" => r.refval \in Cells /\ cells[r.refval] # Free
<1> DEFINE r == Top(Thr, 1)
           owner == IF r.refval < 0 THEN Object(-r.refval) ELSE cells[r.refval]
<1>1. Len(Pops(Ins)) = 2 /\ Pops(Ins)[1] = {"reference", "global"}
  BY DEF Pops
<1>2. Target(objects, Last(Thr), r) \/ r = Reference(-GLOBAL)
  BY <1>1, AtHand, Operands
<1> HIDE DEF r
<1>3. CASE Target(objects, Last(Thr), r)
  <2>1. r.refval \in Cells /\ cells[r.refval] # Free /\ r.type = "REFERENCE"
    <3>1. cur \in Threads /\ threads[cur].state \in Going /\ Target(objects, Last(threads[cur]), r)
      BY <1>3, AtHand DEF Thr
    <3> QED BY <1>3, <3>1, TargetLive DEF Target
  <2>2. ~(r.refval < 0)
    <3>1. r.refval \in Nat
      BY <2>1, Constants
    <3> QED BY <3>1
  <2>3. owner = cells[r.refval] /\ Good(Len(objects), owner)
    BY <2>1, <2>2 DEF IInv, CellsInv
  <2> QED BY <2>1, <2>3 DEF Good, r
<1>4. CASE r = Reference(-GLOBAL)
  <2>1. r.type = "REFERENCE" /\ r.refval = -1 /\ r.refval < 0
    BY <1>4 DEF Reference, GLOBAL
  <2>2. owner = Object(1)
    BY <2>1
  <2>3. owner.type = "OBJECT" /\ owner.oval = 1
    BY <2>2 DEF Object
  <2>4. 1 \in 1 .. Len(objects)
    BY SeqLen DEF IInv, ObjectsInv
  <2> QED BY <2>1, <2>3, <2>4 DEF r
<1> QED BY <1>2, <1>3, <1>4

\* The objects before the field is looked up; every cell that a field has stays.
LEMMA KnownIs ==
  ASSUME NEW sh, IInv(sh), NEW coerced \in BOOLEAN, NEW oval, ~coerced => oval \in 1 .. Len(objects)
  PROVE  LET known == IF coerced THEN Append(objects, <<>>) ELSE objects
             o == IF coerced THEN Len(objects) + 1 ELSE oval
         IN /\ IsSeq(known) /\ Len(known) \in Nat /\ Len(objects) \in Nat
            /\ Len(objects) <= Len(known) /\ o \in 1 .. Len(known) /\ 1 <= Len(objects)
            /\ coerced => o = Len(known)
            /\ \A p, f : /\ HasKey(known, p, f) <=> HasKey(objects, p, f)
                         /\ HasKey(objects, p, f) => known[p][f] = objects[p][f]
<1>1. IsSeq(objects) /\ Len(objects) \in Nat /\ Len(objects) >= 1
  BY SeqLen DEF IInv, ObjectsInv
<1>2. CASE coerced
  <2> DEFINE more == Append(objects, <<>>)
  <2>1. /\ IsSeq(more) /\ Len(more) = Len(objects) + 1
        /\ \A p, f : /\ HasKey(more, p, f) <=> HasKey(objects, p, f)
                     /\ HasKey(objects, p, f) => more[p][f] = objects[p][f]
    BY <1>1, OneMore
  <2> DEFINE known == IF coerced THEN Append(objects, <<>>) ELSE objects
             o == IF coerced THEN Len(objects) + 1 ELSE oval
  <2>2. known = more /\ o = Len(objects) + 1
    BY <1>2
  <2> HIDE DEF more, known, o
  <2>3. /\ IsSeq(known) /\ Len(known) = Len(objects) + 1
        /\ \A p, f : /\ HasKey(known, p, f) <=> HasKey(objects, p, f)
                     /\ HasKey(objects, p, f) => known[p][f] = objects[p][f]
    BY <2>1, <2>2
  <2>4. /\ Len(known) \in Nat /\ Len(objects) <= Len(known) /\ o \in 1 .. Len(known) /\ o = Len(known)
    BY <1>1, <2>2, <2>3
  <2> QED BY <1>1, <2>3, <2>4 DEF known, o
<1>3. CASE ~coerced
  BY <1>1, <1>3
<1> QED BY <1>2, <1>3

\* What FIELD_REF does to the memory: the field k of o is in cell.
FieldMade(known, o, k, cell, holder, objs2, cells2) ==
  LET new == k \notin DOMAIN known[o] IN
  /\ new => cell \in Cells /\ cells[cell] = Free
  /\ ~new => cell = known[o][k]
  /\ objs2 = Extended(known, o, k, cell)
  /\ cells2 = IF new THEN Put(holder, cell, Undef) ELSE holder

\* The memory after OP_FIELD_REF.
LEMMA FieldMemory ==
  ASSUME NEW sh, IInv(sh), NEW known, NEW o, NEW k, NEW cell, NEW holder, 
         IsSeq(known), Len(objects) \in Nat, Len(objects) <= Len(known), o \in 1 .. Len(known),
         1 <= Len(objects),
         \A p, f : /\ HasKey(known, p, f) <=> HasKey(objects, p, f)
                   /\ HasKey(objects, p, f) => known[p][f] = objects[p][f],
         SameFree(cells, holder), holder = [c \in Cells |-> holder[c]],
         \A c \in Cells : holder[c] = Free \/ Good(Len(known), holder[c]),
         FieldMade(known, o, k, cell, holder, objects', cells')
  PROVE  /\ Grows(objects, objects') /\ OwnersKept /\ ObjectsInv' /\ CellsInv' /\ IsField(objects', cell)
<1> DEFINE new == k \notin DOMAIN known[o]
           more == Extended(known, o, k, cell)
<1>1. /\ new => cell \in Cells /\ cells[cell] = Free
      /\ ~new => cell = known[o][k]
      /\ objects' = more
      /\ cells' = IF new THEN Put(holder, cell, Undef) ELSE holder
  BY DEF FieldMade
<1>2. /\ IsSeq(more) /\ Len(more) = Len(known) /\ more[o][k] = cell
      /\ \A p, f : /\ HasKey(more, p, f) <=> HasKey(known, p, f) \/ (p = o /\ f = k)
                   /\ HasKey(known, p, f) /\ ~(p = o /\ f = k) => more[p][f] = known[p][f]
  BY ExtendedIs
<1> HIDE DEF more
<1>3. new <=> ~HasKey(known, o, k)
  BY SeqLen DEF HasKey
<1> HIDE DEF new
<1>4. Len(known) \in Nat /\ Len(objects') = Len(known) /\ IsSeq(objects')
  BY <1>1, <1>2, SeqLen
<1>5. ASSUME NEW p, NEW f, HasKey(objects, p, f) PROVE HasKey(objects', p, f) /\ objects'[p][f] = objects[p][f]
  <2>1. HasKey(known, p, f) /\ known[p][f] = objects[p][f]
    BY <1>5
  <2>2. CASE p = o /\ f = k
    BY <1>1, <1>2, <1>3, <2>1, <2>2
  <2>3. CASE ~(p = o /\ f = k)
    BY <1>1, <1>2, <2>1, <2>3
  <2> QED BY <2>2, <2>3
<1>6. Grows(objects, objects')
  BY <1>4, <1>5, MoreKeysGrow
<1>7. HasKey(objects', o, k) /\ objects'[o][k] = cell
  BY <1>1, <1>2
<1>8. IsField(objects', cell)
  BY <1>7 DEF HasKey, IsField
<1>9. /\ cells' = [c \in Cells |-> cells'[c]]
      /\ new => \A c \in Cells : cells'[c] = IF c = cell THEN Undef ELSE holder[c]
  <2>1. CASE new
    BY <1>1, <2>1 DEF Put
  <2>2. CASE ~new
    BY <1>1, <2>2
  <2> QED BY <2>1, <2>2
<1>10. CellsInv'
  <2>1. Good(Len(known), Undef)
    BY Types, GoodPlain
  <2>2. \A c \in Cells : cells'[c] = Free \/ Good(Len(known), cells'[c])
    BY <1>1, <1>9, <2>1
  <2> QED BY <1>4, <1>9, <2>2 DEF CellsInv
<1>11. \A p, f : HasKey(objects', p, f) <=> HasKey(objects, p, f) \/ (p = o /\ f = k)
  BY <1>1, <1>2
<1>12. ObjectsInv'
  <2>1. ASSUME NEW p \in 1 .. Len(objects'), NEW f \in DOMAIN objects'[p] PROVE objects'[p][f] \in Cells
    <3>1. HasKey(objects', p, f)
      BY <1>4, SeqLen DEF HasKey
    <3>2. CASE HasKey(objects, p, f)
      BY <1>5, <3>2 DEF IInv, Unshared
    <3>3. CASE ~HasKey(objects, p, f)
      <4>1. p = o /\ f = k /\ new
        BY <1>3, <1>11, <3>1, <3>3
      <4> QED BY <1>1, <1>7, <4>1
    <3> QED BY <3>2, <3>3
  <2> QED BY <1>4, <2>1 DEF ObjectsInv
<1>13. OwnersKept
  <2>1. CASE new
    <3>1. \A a \in Cells : cells'[a] = Free <=> cells[a] = Free /\ a # cell
      <4>1. Undef # Free
        BY DEF Undef, Free
      <4> QED BY <1>1, <1>9, <2>1, <4>1 DEF SameFree
    <3>2. \A p, f : /\ HasKey(objects', p, f) <=> HasKey(objects, p, f) \/ (p = o /\ f = k)
                    /\ HasKey(objects, p, f) => objects'[p][f] = objects[p][f] /\ ~(p = o /\ f = k)
      BY <1>3, <1>5, <1>11, <2>1
    <3>3. cell \in Cells /\ cells[cell] = Free /\ objects'[o][k] = cell
      BY <1>1, <1>7, <2>1
    <3>4. HasOneMore(objects, objects', o, k, cell) /\ CellTaken(cells, cells', cell)
      BY <3>1, <3>2, <3>3 DEF HasOneMore, CellTaken
    <3> QED BY <3>4, OwnersExtended DEF OwnersKept
  <2>2. CASE ~new
    <3>1. SameFree(cells, cells')
      BY <1>1, <2>2
    <3>2. \A p, f : /\ HasKey(objects', p, f) <=> HasKey(objects, p, f)
                    /\ HasKey(objects, p, f) => objects'[p][f] = objects[p][f]
      BY <1>3, <1>5, <1>11, <2>2
    <3> QED BY <3>1, <3>2, SameMemory
  <2> QED BY <2>1, <2>2
<1> QED BY <1>6, <1>8, <1>10, <1>12, <1>13

\* OP_FIELD_REF, for a known field, a new one and a variable that was undefined.
LEMMA FieldRefStep == ASSUME NEW sh, IInv(sh), OP_FIELD_REF PROVE IInv(sh)'
<1>1. cur # 0 /\ Thr.state = "ACTIVE" /\ Ins.op = "FIELD_REF"
  <2>1. At("FIELD_REF")
    BY Zenon DEF OP_FIELD_REF
  <2> QED BY <2>1, AtRuns
<1>2. /\ Len(Pops(Ins)) = 2 /\ Frame.ip + 1 \in Successors(Ins, Frame.ip) /\ Pushes(Ins) = <<Ref>>
  BY <1>1 DEF Pops, Successors, Pushes
<1>3. Needs(2) /\ 2 \in 0 .. Len(Thr.stack)
  BY <1>1, <1>2, Needed
<1> DEFINE r == Top(Thr, 1)
           key == Top(Thr, 2)
           global == r.refval < 0
           owner == IF global THEN Object(-r.refval) ELSE cells[r.refval]
           coerced == owner.type = "UNDEFINED"
           o == IF coerced THEN Len(objects) + 1 ELSE owner.oval
           known == IF coerced THEN Append(objects, <<>>) ELSE objects
           k == KeyText(key)
           new == k \notin DOMAIN known[o]
           cell == IF new THEN Lowest(FreeCells) ELSE known[o][k]
           holder == IF coerced THEN [cells EXCEPT ![r.refval] = Object(o)] ELSE cells
           u == Replace(Advance(Thr), 2, Reference(cell))
<1>4. /\ r.type = "REFERENCE" /\ owner.type # "FREE"
      /\ owner.type = "OBJECT" => owner.oval \in 1 .. Len(objects)
      /\ coerced => r.refval \in Cells /\ cells[r.refval] # Free
  BY <1>1, FieldOwner
<1>5. \/ vm_error("type") \/ vm_error("not_an_object") \/ vm_error("cells")
      \/ /\ owner.type \in {"OBJECT", "UNDEFINED"} /\ ~(new /\ FreeCells = {})
         /\ objects' = [known EXCEPT ![o] =
                              [f \in DOMAIN @ \cup {k} |-> IF f = k THEN cell ELSE @[f]]]
         /\ cells' = IF new THEN [holder EXCEPT ![cell] = Undef] ELSE holder
         /\ threads' = [threads EXCEPT ![cur] = u]
         /\ Frozen /\ UNCHANGED <<pool, cur, events, text>>
  BY <1>3, <1>4, Zenon DEF OP_FIELD_REF
<1>6. "type" \in ScriptErrors /\ "not_an_object" \in ScriptErrors /\ "cells" \in ScriptErrors
  BY DEF ScriptErrors
<1> HIDE DEF r, key, owner, k
<1>7. ASSUME owner.type \in {"OBJECT", "UNDEFINED"}, ~(new /\ FreeCells = {}),
             objects' = [known EXCEPT ![o] =
                              [f \in DOMAIN @ \cup {k} |-> IF f = k THEN cell ELSE @[f]]],
             cells' = IF new THEN [holder EXCEPT ![cell] = Undef] ELSE holder,
             threads' = [threads EXCEPT ![cur] = u],
             Frozen, UNCHANGED <<pool, cur, events, text>>
      PROVE  IInv(sh)'
  <2>1. /\ functions' = functions /\ cur' = cur /\ pool' = pool /\ error' = error
        /\ events' = events
    BY <1>7 DEF Frozen
  <2>2. threads' = Put(threads, cur, u) /\ objects' = Extended(known, o, k, cell)
    BY <1>7 DEF Put, Extended
  <2>3. Pushed(Thr, u, Frame.ip + 1, 2, Reference(cell))
    BY <1>1, <1>3, Forward
  <2> HIDE DEF u
  <2>4. /\ IsSeq(known) /\ Len(known) \in Nat /\ Len(objects) \in Nat
        /\ Len(objects) <= Len(known) /\ o \in 1 .. Len(known) /\ 1 <= Len(objects)
        /\ coerced => o = Len(known)
        /\ \A p, f : /\ HasKey(known, p, f) <=> HasKey(objects, p, f)
                     /\ HasKey(objects, p, f) => known[p][f] = objects[p][f]
    <3>1. coerced \in BOOLEAN /\ (~coerced => owner.oval \in 1 .. Len(objects))
      BY <1>4, <1>7
    <3> HIDE DEF coerced
    <3> QED BY <3>1, KnownIs
  <2>5. /\ SameFree(cells, holder) /\ holder = [c \in Cells |-> holder[c]]
        /\ \A c \in Cells : holder[c] = Free \/ Good(Len(known), holder[c])
    <3>1. CASE coerced
      <4>1. Good(Len(known), Object(o))
        <5>1. o \in 1 .. Len(known)
          BY <2>4
        <5> HIDE DEF o, known
        <5> QED BY <5>1 DEF Good, Object
      <4>2. holder = Put(cells, r.refval, Object(o)) /\ r.refval \in Cells /\ cells[r.refval] # Free
        BY <1>4, <3>1 DEF Put
      <4> HIDE DEF o, known, holder, coerced
      <4> QED BY <2>4, <4>1, <4>2, AssignedCells
    <3>2. CASE ~coerced
      <4>1. holder = cells /\ known = objects
        BY <3>2
      <4> HIDE DEF holder, known
      <4> QED BY <4>1 DEF SameFree, IInv, CellsInv
    <3> QED BY <3>1, <3>2
  <2>6. FieldMade(known, o, k, cell, holder, objects', cells')
    <3>1. new => cell \in Cells /\ cells[cell] = Free
      <4>1. ASSUME new PROVE Lowest(FreeCells) \in FreeCells
        <5>1. FreeCells # {} /\ FreeCells \in SUBSET Nat
          BY <1>7, <4>1, Constants DEF FreeCells
        <5> QED BY <5>1, LowestIn
      <4> HIDE DEF new
      <4> QED BY <4>1 DEF FreeCells
    <3>2. ~new => cell = known[o][k]
      OBVIOUS
    <3>3. cells' = IF new THEN Put(holder, cell, Undef) ELSE holder
      BY <1>7 DEF Put
    <3> HIDE DEF known, o, cell, holder
    <3> QED BY <2>2, <3>1, <3>2, <3>3 DEF FieldMade
  <2> HIDE DEF known, o, cell, holder, coerced
  <2>7. Grows(objects, objects') /\ OwnersKept /\ ObjectsInv' /\ CellsInv' /\ IsField(objects', cell)
    BY <2>4, <2>5, <2>6, FieldMemory
  <2>8. EventsInv'
    BY <2>1, <2>7, EventsGrow
  <2>9. Fits(objects', Frame, Ref, Reference(cell))
    BY <2>7 DEF Fits, Ref, ValueKinds, Target, Reference
  <2>10. Len(u.stack) <= StackSize
    BY <1>1, <1>2, <2>3, LowEnough
  <2>11. Stepped(functions, objects', Thr, u, Frame.ip + 1)
    BY <1>1, <1>2, <1>3, <2>3, <2>9, <2>10, AtHand, PushedSteps
  <2>12. Settled(objects', Thr, u) /\ u.state = "ACTIVE" /\ u.endon = Thr.endon
    <3>1. Like(Thr, u)
      BY <2>3 DEF Pushed
    <3> QED BY <1>1, <3>1, AtHand, LikeSettles DEF Like
  <2> QED BY <1>1, <2>1, <2>2, <2>7, <2>8, <2>11, <2>12, InstructionKeeps
<1>8. vm_error("type") \/ vm_error("not_an_object") \/ vm_error("cells") => IInv(sh)'
  BY <1>6, RaiseKeeps
<1> QED BY <1>5, <1>7, <1>8, Zenon

-----------------------------------------------------------------------------
(* Calls *)

\* Popping j operands and then k.
LEMMA DropMore ==
  ASSUME NEW r, NEW w, NEW next, NEW j \in Nat, Popped(r, w, next, j), IsSeq(r.stack),
         NEW k \in Nat, j + k <= Len(r.stack)
  PROVE  Popped(r, Drop(w, k), next, j + k)
<1> DEFINE n == Len(r.stack)
           s == SubSeq(w.stack, 1, Len(w.stack) - k)
<1>1. n \in Nat /\ Len(w.stack) = n - j /\ IsSeq(w.stack) /\ \A i \in 1 .. n - j : w.stack[i] = r.stack[i]
  BY SeqLen DEF Popped
<1>2. Len(w.stack) - k \in 0 .. Len(w.stack) /\ Len(w.stack) - k = n - (j + k)
  BY <1>1
<1>3. IsSeq(s) /\ Len(s) = n - (j + k) /\ \A i \in 1 .. n - (j + k) : s[i] = r.stack[i]
  <2>1. IsSeq(s) /\ Len(s) = Len(w.stack) - k /\ \A i \in 1 .. Len(w.stack) - k : s[i] = w.stack[i]
    <3> DEFINE ws == w.stack
               m == Len(ws) - k
    <3>1. IsSeq(ws) /\ m \in 0 .. Len(ws)
      BY <1>1, <1>2
    <3> HIDE DEF ws, m
    <3>2. IsSeq(SubSeq(ws, 1, m)) /\ Len(SubSeq(ws, 1, m)) = m /\ \A i \in 1 .. m : SubSeq(ws, 1, m)[i] = ws[i]
      BY ONLY <3>1, SeqPrefix
    <3> QED BY <3>2 DEF ws, m
  <2>2. \A i \in 1 .. n - (j + k) : i \in 1 .. n - j
    BY <1>1
  <2> HIDE DEF s
  <2> QED BY <1>1, <1>2, <2>1, <2>2
<1> HIDE DEF s
<1>4. Drop(w, k) = [state |-> w.state, stack |-> s, frames |-> w.frames, result |-> w.result,
                   return_value |-> w.return_value, waittill |-> w.waittill, endon |-> w.endon]
  <2>1. IsThread(w)
    BY DEF Popped, Like
  <2>2. Drop(w, k) = [w EXCEPT !.stack = s]
    BY <2>1 DEF Drop, s, IsThread
  <2> QED BY <2>1, <2>2 DEF IsThread
<1> QED BY <1>3, <1>4 DEF Popped, Like, IsThread

\* The caller has pushed what the call takes.
LEMMA CallIs ==
  ASSUME NEW sh, IInv(sh), cur # 0, Thr.state = "ACTIVE", Ins.op \in {"CALL", "CALL_PTR"}
  PROVE  /\ Ins.n \in Nat /\ nargs = Ins.n /\ Height = Len(Pops(Ins)) /\ Height \in 0 .. Len(Thr.stack)
         /\ Height \in Nat /\ Height >= 2 /\ Needs(Height)
         /\ Popped(Thr, Bare, Frame.ip + 1, Height)
         /\ Pushed(Thr, PushOn(Bare, Undef), Frame.ip + 1, Height, Undef)
         /\ IsSeq(Args) /\ Len(Args) = Ins.n + 1 /\ \A k \in DOMAIN Args : Good(Len(objects), Args[k])
<1> DEFINE n == Ins.n
           skip == IF Ins.op = "CALL" THEN 0 ELSE 1
<1>1. n \in Nat
  BY AtHand DEF Proper
<1>2. Pops(Ins) = [k \in 1 .. n + 2 + skip |-> IF k = 1 + skip THEN {"count"} ELSE ValueKinds]
  <2>1. CASE Ins.op = "CALL"
    <3>1. Pops(Ins) = [k \in 1 .. n + 2 |-> IF k = 1 THEN {"count"} ELSE ValueKinds]
      BY <2>1 DEF Pops
    <3>2. skip = 0 /\ n + 2 = n + 2 + skip /\ 1 = 1 + skip
      BY <1>1, <2>1
    <3> HIDE DEF n, skip
    <3> QED BY <3>1, <3>2
  <2>2. CASE Ins.op = "CALL_PTR"
    <3>1. Pops(Ins) = [k \in 1 .. n + 3 |-> IF k = 2 THEN {"count"} ELSE ValueKinds]
      BY <2>2 DEF Pops
    <3>2. skip = 1 /\ n + 3 = n + 2 + skip /\ 2 = 1 + skip
      BY <1>1, <2>2
    <3> HIDE DEF n, skip
    <3> QED BY <3>1, <3>2
  <2> QED BY <2>1, <2>2
<1> HIDE DEF n
<1>3. skip \in Nat /\ skip \in {0, 1}
  OBVIOUS
<1>4. Ins.op = "CALL" <=> skip = 0
  OBVIOUS
<1> HIDE DEF skip
<1>5. Len(Pops(Ins)) = n + 2 + skip /\ Height = n + 2 + skip /\ Len(Pops(Ins)) \in Nat
  <2>1. n + 2 + skip \in Nat
    BY <1>1, <1>3
  <2>2. Len(Pops(Ins)) = n + 2 + skip
    BY <1>2, <2>1
  <2>3. Height = n + 2 + skip
    BY <1>1, <1>3, <1>4 DEF Height, n
  <2> QED BY <2>1, <2>2, <2>3
<1>6. Len(Thr.stack) \in Nat /\ Height \in 0 .. Len(Thr.stack) /\ Needs(Height)
  BY <1>5, AtHand, Needed
<1>7. Popped(Thr, Caller, Frame.ip + 1, skip)
  <2>1. CASE skip = 0
    <3>1. 0 \in 0 .. Len(Thr.stack)
      BY <1>6
    <3>2. Popped(Thr, Advance(Thr), Frame.ip + 1, 0)
      BY <3>1, Forward
    <3>3. Caller = Advance(Thr)
      BY <1>4, <2>1 DEF Caller
    <3> QED BY <2>1, <3>2, <3>3
  <2>2. CASE skip = 1
    <3>1. 1 \in 0 .. Len(Thr.stack)
      BY <1>1, <1>3, <1>5, <1>6
    <3>2. Popped(Thr, Drop(Advance(Thr), 1), Frame.ip + 1, 1)
      BY <3>1, Forward
    <3>3. Caller = Drop(Advance(Thr), 1)
      BY <1>4, <2>2 DEF Caller
    <3> QED BY <2>2, <3>2, <3>3
  <2> QED BY <1>3, <2>1, <2>2
<1>8. \A k \in 1 .. n + 2 : Top(Caller, k) = Top(Thr, k + skip)
  <2> TAKE k \in 1 .. n + 2
  <2>1. /\ Len(Caller.stack) = Len(Thr.stack) - skip
        /\ \A j \in 1 .. Len(Thr.stack) - skip : Caller.stack[j] = Thr.stack[j]
    BY <1>7 DEF Popped
  <2>2. /\ Len(Thr.stack) - skip + 1 - k \in 1 .. Len(Thr.stack) - skip
        /\ Len(Thr.stack) - skip + 1 - k = Len(Thr.stack) + 1 - (k + skip)
    BY <1>1, <1>3, <1>5, <1>6
  <2> QED BY <2>1, <2>2 DEF Top
<1>9. nargs = n
  <2>1. 1 + skip \in 1 .. Len(Pops(Ins)) /\ Pops(Ins)[1 + skip] = {"count"}
    BY <1>1, <1>2, <1>3, <1>5
  <2> DEFINE i == 1 + skip
  <2> HIDE DEF i
  <2>2. i \in 1 .. Len(Pops(Ins)) /\ Pops(Ins)[i] = {"count"}
    BY <2>1 DEF i
  <2>3. Top(Thr, i).ival = n
    BY <2>2, AtHand, Operands DEF n
  <2>4. 1 \in 1 .. n + 2
    BY <1>1
  <2>5. Top(Caller, 1) = Top(Thr, i)
    BY <1>8, <2>4 DEF i
  <2> QED BY <2>3, <2>5 DEF nargs
<1>10. Popped(Thr, Bare, Frame.ip + 1, Height)
  <2>1. IsSeq(Thr.stack) /\ n + 2 \in Nat /\ skip + (n + 2) = Height /\ skip + (n + 2) <= Len(Thr.stack)
    BY <1>1, <1>3, <1>5, <1>6, AtHand
  <2>2. Bare = Drop(Caller, n + 2)
    BY <1>9 DEF Bare
  <2> DEFINE k == n + 2
  <2> HIDE DEF k
  <2>3. Popped(Thr, Drop(Caller, k), Frame.ip + 1, skip + k)
    BY <1>3, <1>7, <2>1, DropMore DEF k
  <2> QED BY <2>1, <2>2, <2>3 DEF k
<1>11. Pushed(Thr, PushOn(Bare, Undef), Frame.ip + 1, Height, Undef)
  BY <1>6, <1>10, AtHand, PushOnIs
<1>12. Args = [k \in 1 .. n + 1 |-> Top(Thr, k + 1 + skip)]
  <2>1. \A k \in 1 .. n + 1 : k + 1 \in 1 .. n + 2 /\ Top(Caller, k + 1) = Top(Thr, k + 1 + skip)
    BY <1>1, <1>8
  <2> QED BY <1>9, <2>1 DEF Args
<1>13. ASSUME NEW k \in 1 .. n + 1 PROVE Good(Len(objects), Top(Thr, k + 1 + skip))
  <2> DEFINE i == k + 1 + skip
  <2>1. i \in 1 .. Len(Pops(Ins)) /\ Pops(Ins)[i] = ValueKinds
    BY <1>1, <1>2, <1>3, <1>5
  <2> HIDE DEF i
  <2>2. Good(Len(objects), Top(Thr, i))
    BY <2>1, GoodTop
  <2> QED BY <2>2 DEF i
<1>14. IsSeq(Args) /\ Len(Args) = n + 1 /\ DOMAIN Args = 1 .. n + 1
  <2> DEFINE S == {Top(Thr, k + 1 + skip) : k \in 1 .. n + 1}
             m == n + 1
  <2>1. Args \in [1 .. m -> S] /\ m \in Nat
    BY <1>1, <1>12
  <2> HIDE DEF S, m
  <2>2. Args \in Seq(S) /\ Len(Args) = m
    BY <2>1
  <2> QED BY <2>1, <2>2, AnySeq DEF m
<1>15. \A k \in DOMAIN Args : Good(Len(objects), Args[k])
  BY <1>12, <1>13
<1>16. Height \in Nat /\ Height >= 2
  BY <1>1, <1>3, <1>5
<1> QED BY <1>1, <1>5, <1>6, <1>9, <1>10, <1>11, <1>14, <1>15, <1>16 DEF n

\* Every parameter gets an argument or undefined.
LEMMA BoundGood ==
  ASSUME NEW f, functions[f].local_count \in Nat, NEW args, IsSeq(args), NEW m,
         \A k \in DOMAIN args : Good(m, args[k]), NEW reversed \in BOOLEAN
  PROVE  /\ DOMAIN Bind(f, args, reversed) = 1 .. functions[f].local_count
         /\ \A k \in 1 .. functions[f].local_count : Good(m, Bind(f, args, reversed)[k])
<1> DEFINE n == functions[f].local_count
           b == Bind(f, args, reversed)
<1>1. b = [k \in 1 .. n |-> IF k - 1 \in Kept(f, Len(args) - 1, reversed) THEN args[k] ELSE Undef]
  BY DEF Bind
<1>2. Good(m, Undef)
  BY Types, GoodPlain
<1>3. ASSUME NEW k \in 1 .. n PROVE Good(m, b[k])
  <2>1. CASE k - 1 \in Kept(f, Len(args) - 1, reversed)
    <3>1. k - 1 \in 0 .. Len(args) - 1
      BY <2>1 DEF Kept
    <3>2. k \in DOMAIN args
      BY <3>1, SeqLen
    <3>3. b[k] = args[k]
      BY <1>1, <2>1
    <3> QED BY <3>2, <3>3
  <2>2. CASE k - 1 \notin Kept(f, Len(args) - 1, reversed)
    BY <1>1, <1>2, <2>2
  <2> QED BY <2>1, <2>2
<1> QED BY <1>1, <1>3

\* A function that is called gets a frame of fresh cells.
LEMMA FreshFrame ==
  ASSUME NEW sh, IInv(sh), NEW f \in DOMAIN functions, Enough(f),
         NEW values, DOMAIN values = 1 .. functions[f].local_count,
         \A k \in DOMAIN values : Good(Len(objects), values[k])
  PROVE  LET n == functions[f].local_count
             ncs == Initialised(f, values)
         IN /\ n \in Nat
            /\ FrameOK(functions, sh, NewFrame(f)) /\ Shape(sh, NewFrame(f)) = <<>>
            /\ NewFrame(f).locals = Fresh_locals(f) /\ DOMAIN Fresh_locals(f) = 1 .. n
            /\ CellsTaken(cells, ncs, n, Fresh_locals(f))
            /\ ncs = [a \in Cells |-> ncs[a]]
            /\ \A a \in Cells : ncs[a] = Free \/ Good(Len(objects), ncs[a])
<1> DEFINE n == functions[f].local_count
           ncs == Initialised(f, values)
           fresh == Fresh_locals(f)
<1>1. VerifiedFunction(functions, f, sh[f])
  BY DEF IInv, VerifiedWith
<1>2. n \in Nat /\ 0 \in DOMAIN sh[f] /\ sh[f][0] = <<>>
  BY <1>1 DEF VerifiedFunction
<1>3. FreeCells \in SUBSET Cells /\ n <= Cardinality(FreeCells)
  <2>1. FreeCells \in SUBSET Cells /\ IsFiniteSet(FreeCells)
    <3>1. FreeCells \in SUBSET Cells
      BY DEF FreeCells
    <3> QED BY <3>1, Constants, FS_Subset
  <2>2. Cardinality(FreeCells) \in Nat
    BY <2>1, FS_CardinalityType
  <2>3. Cardinality(FreeCells) >= n
    BY DEF Enough
  <2> HIDE DEF n
  <2> QED BY <1>2, <2>1, <2>2, <2>3
<1> HIDE DEF n, ncs, fresh
<1>4. fresh = Take(FreeCells, n)
  BY DEF Fresh_locals, n, fresh
<1>5. /\ fresh \in [1 .. n -> FreeCells]
      /\ \A j, k \in 1 .. n : fresh[j] = fresh[k] => j = k
  BY <1>2, <1>3, <1>4, Taken
<1>6. fresh \in Seq(Cells) /\ Len(fresh) = n /\ DOMAIN fresh = 1 .. n
  <2>1. fresh \in [1 .. n -> Cells]
    BY <1>3, <1>5
  <2> QED BY <1>2, <2>1
<1>7. FrameOK(functions, sh, NewFrame(f)) /\ Shape(sh, NewFrame(f)) = <<>> /\ NewFrame(f).locals = fresh
  <2>1. NewFrame(f) = [function |-> f, ip |-> 0, locals |-> fresh]
    BY DEF NewFrame, fresh
  <2>2. NewFrame(f).function = f /\ NewFrame(f).ip = 0 /\ NewFrame(f).locals = fresh
    BY <2>1
  <2> QED BY <1>2, <1>6, <2>1, <2>2 DEF FrameOK, Shape, n
<1>8. ncs = [a \in Cells |-> IF \E k \in 1 .. n : fresh[k] = a
                            THEN values[CHOOSE k \in 1 .. n : fresh[k] = a]
                            ELSE cells[a]]
  BY DEF Initialised, ncs, fresh, n
<1>9. \A a \in Cells : /\ \A k \in 1 .. n : fresh[k] = a => Good(Len(objects), ncs[a])
                       /\ (\A k \in 1 .. n : fresh[k] # a) => ncs[a] = cells[a]
  <2> TAKE a \in Cells
  <2>1. ASSUME NEW k \in 1 .. n, fresh[k] = a PROVE Good(Len(objects), ncs[a])
    <3> DEFINE i == CHOOSE j \in 1 .. n : fresh[j] = a
    <3>1. i \in 1 .. n
      BY <2>1
    <3>2. ncs[a] = values[i]
      BY <1>8, <2>1
    <3> HIDE DEF i
    <3> QED BY <3>1, <3>2 DEF n
  <2>2. (\A k \in 1 .. n : fresh[k] # a) => ncs[a] = cells[a]
    BY <1>8
  <2> QED BY <2>1, <2>2
<1>10. \A k \in 1 .. n : fresh[k] \in Cells /\ cells[fresh[k]] = Free
  BY <1>5 DEF FreeCells
<1>11. \A a \in Cells : ncs[a] = Free <=> cells[a] = Free /\ \A k \in 1 .. n : fresh[k] # a
  BY <1>9, GoodIsNotFree
<1>12. CellsTaken(cells, ncs, n, fresh)
  BY <1>5, <1>10, <1>11 DEF CellsTaken
<1>13. \A a \in Cells : ncs[a] = Free \/ Good(Len(objects), ncs[a])
  BY <1>9 DEF IInv, CellsInv
<1>14. ncs = [a \in Cells |-> ncs[a]]
  BY <1>8
<1> QED BY <1>2, <1>6, <1>7, <1>12, <1>13, <1>14 DEF n, ncs, fresh

\* The caller while it waits for the result.
LEMMA CallReady ==
  ASSUME NEW sh, IInv(sh), cur # 0, Thr.state = "ACTIVE", Ins.op \in {"CALL", "CALL_PTR"}
  PROVE  LET w == PushOn(Bare, Undef) IN
         /\ Stepped(functions, objects, Thr, w, Frame.ip + 1) /\ Like(Thr, w) /\ Settled(objects, Thr, w)
         /\ ThreadOK(functions, sh, objects, cur, w) /\ Calm(sh, w)
         /\ Shape(sh, Last(w)) \in Seq(Kind) /\ Len(Shape(sh, Last(w))) >= 1
         /\ IsSeq(w.frames) /\ Len(w.frames) = Len(Thr.frames) /\ Len(w.frames) \in Nat
         /\ DOMAIN w.frames = 1 .. Len(w.frames) /\ DOMAIN Thr.frames = 1 .. Len(w.frames)
         /\ \A k \in 1 .. Len(w.frames) : w.frames[k].locals = Thr.frames[k].locals
         /\ Len(w.stack) = Len(Bare.stack) + 1 /\ Len(Bare.stack) \in Nat
         /\ \A k \in 1 .. Len(Bare.stack) : w.stack[k] = Bare.stack[k]
<1> DEFINE w == PushOn(Bare, Undef)
<1>1. /\ Height = Len(Pops(Ins)) /\ Height \in 0 .. Len(Thr.stack) /\ Height \in Nat /\ Height >= 2
      /\ Pushed(Thr, w, Frame.ip + 1, Height, Undef) /\ Popped(Thr, Bare, Frame.ip + 1, Height)
  BY CallIs
<1> HIDE DEF w
<1>2. Pushes(Ins) = <<Val>> /\ Pushes(Ins) # <<>> /\ Pauses(Ins) /\ Frame.ip + 1 \in Successors(Ins, Frame.ip)
  BY DEF Pushes, Pauses, Successors
<1>3. Len(w.stack) <= StackSize
  BY <1>1, LowEnough
<1>4. Stepped(functions, objects, Thr, w, Frame.ip + 1)
  <2>1. Fits(objects, Frame, Val, Undef)
    BY Types, GoodPlain, FitsVal
  <2> QED BY <1>1, <1>2, <1>3, <2>1, AtHand, PushedSteps
<1>5. Like(Thr, w)
  BY <1>1 DEF Pushed
<1>6. Settled(objects, Thr, w)
  BY <1>5, AtHand, LikeSettles
<1>7. ThreadOK(functions, sh, objects, cur, w)
  BY <1>4, <1>6, AtHand, StepFits
<1>8. /\ Calm(sh, w) /\ Len(Shape(sh, Last(w))) >= 1 /\ IsSeq(w.frames) /\ Len(w.frames) = Len(Thr.frames)
      /\ \A k \in 1 .. Len(w.frames) : w.frames[k].locals = Thr.frames[k].locals
  <2> DEFINE next == Frame.ip + 1
             r == Thr
  <2>1. /\ VerifiedWith(functions, sh) /\ Grows(objects, objects) /\ ThreadOK(functions, sh, objects, cur, r)
        /\ r.state \in Going /\ Ins = InsOf(functions, Last(r))
    BY AtHand
  <2>2. Stepped(functions, objects, r, w, next)
    BY <1>4
  <2>4. r = Thr
    OBVIOUS
  <2> HIDE DEF next, r
  <2>3. /\ Pauses(InsOf(functions, Last(r))) => Calm(sh, w)
        /\ Pauses(InsOf(functions, Last(r))) /\ Pushes(InsOf(functions, Last(r))) # <<>> => Len(Shape(sh, Last(w))) >= 1
        /\ IsSeq(w.frames) /\ Len(w.frames) = Len(r.frames)
        /\ \A k \in 1 .. Len(w.frames) : FrameOK(functions, sh, w.frames[k]) /\ w.frames[k].locals = r.frames[k].locals
    BY ONLY <2>1, <2>2, SteppedLaid
  <2> QED BY <1>2, <2>1, <2>3, <2>4
<1>9. Shape(sh, Last(w)) \in Seq(Kind)
  <2>1. w.state \in Going /\ VerifiedWith(functions, sh)
    BY <1>5, AtHand DEF Like
  <2>2. FrameOK(functions, sh, Last(w))
    BY <1>7, <2>1, LastFrame
  <2> QED BY <2>1, <2>2, FrameCode
<1>10. Len(w.frames) \in Nat /\ DOMAIN w.frames = 1 .. Len(w.frames) /\ DOMAIN Thr.frames = 1 .. Len(w.frames)
  <2>1. IsSeq(Thr.frames)
    BY AtHand
  <2> QED BY <1>8, <2>1, SeqLen
<1>11. /\ Len(w.stack) = Len(Bare.stack) + 1 /\ Len(Bare.stack) \in Nat
       /\ \A k \in 1 .. Len(Bare.stack) : w.stack[k] = Bare.stack[k]
  <2>1. Len(Bare.stack) = Len(Thr.stack) - Height /\ Len(Thr.stack) \in Nat
    BY <1>1, AtHand DEF Popped
  <2>2. \A k \in 1 .. Len(Thr.stack) - Height : Bare.stack[k] = Thr.stack[k] /\ w.stack[k] = Thr.stack[k]
    BY <1>1 DEF Popped, Pushed
  <2>3. Len(w.stack) = Len(Thr.stack) - Height + 1
    BY <1>1 DEF Pushed
  <2> QED BY <1>1, <2>1, <2>2, <2>3
<1> QED BY <1>4, <1>5, <1>6, <1>7, <1>8, <1>9, <1>10, <1>11 DEF w

\* A call of a compiled function: its locals are cells that were free.
LEMMA CallStep ==
  ASSUME NEW sh, IInv(sh), cur # 0, Thr.state = "ACTIVE", Ins.op \in {"CALL", "CALL_PTR"},
         Len(Thr.frames) < FrameSize, NEW f \in DOMAIN functions, call_function(f)
  PROVE  IInv(sh)'
<1>1. "cells" \in ScriptErrors
  BY DEF ScriptErrors
<1>2. CASE ~Enough(f)
  BY <1>1, <1>2, RaiseKeeps DEF call_function
<1>3. CASE Enough(f)
  <2> DEFINE w == PushOn(Bare, Undef)
             fr == NewFrame(f)
             u == [Bare EXCEPT !.frames = Append(@, fr)]
             values == Bind(f, Args, FALSE)
             n == functions[f].local_count
             fresh == Fresh_locals(f)
             ncs == Initialised(f, values)
  <2>1. /\ cells' = ncs /\ threads' = Put(threads, cur, u)
        /\ functions' = functions /\ error' = error /\ pool' = pool /\ cur' = cur 
        /\ objects' = objects /\ events' = events
    BY <1>3 DEF call_function, Frozen, Put
  <2>2. n \in Nat
    <3>1. VerifiedFunction(functions, f, sh[f])
      BY DEF IInv, VerifiedWith
    <3> QED BY <3>1 DEF VerifiedFunction
  <2>3. DOMAIN values = 1 .. n /\ \A k \in DOMAIN values : Good(Len(objects), values[k])
    <3>1. IsSeq(Args) /\ \A k \in DOMAIN Args : Good(Len(objects), Args[k])
      BY CallIs
    <3> QED BY <2>2, <3>1, BoundGood
  <2> HIDE DEF values
  <2>4. /\ FrameOK(functions, sh, fr) /\ Shape(sh, fr) = <<>>
        /\ fr.locals = fresh /\ DOMAIN fresh = 1 .. n
        /\ CellsTaken(cells, ncs, n, fresh)
        /\ ncs = [a \in Cells |-> ncs[a]]
        /\ \A a \in Cells : ncs[a] = Free \/ Good(Len(objects), ncs[a])
    BY <1>3, <2>3, FreshFrame
  <2>5. /\ Like(Thr, w) /\ ThreadOK(functions, sh, objects, cur, w) /\ Calm(sh, w)
        /\ Shape(sh, Last(w)) \in Seq(Kind) /\ Len(Shape(sh, Last(w))) >= 1
        /\ IsSeq(w.frames) /\ Len(w.frames) = Len(Thr.frames) /\ Len(w.frames) \in Nat
        /\ DOMAIN Thr.frames = 1 .. Len(w.frames)
        /\ \A k \in 1 .. Len(w.frames) : w.frames[k].locals = Thr.frames[k].locals
        /\ Len(w.stack) = Len(Bare.stack) + 1 /\ Len(Bare.stack) \in Nat
        /\ \A k \in 1 .. Len(Bare.stack) : w.stack[k] = Bare.stack[k]
    BY CallReady
  <2>6. Like(Thr, Bare) /\ IsSeq(Bare.stack)
    BY CallIs DEF Popped
  <2>7. w.frames = Bare.frames
    BY <2>6 DEF PushOn, Like, IsThread
  <2> HIDE DEF w, fr, fresh, ncs, n
  <2>8. u = [state |-> Bare.state, stack |-> Bare.stack, frames |-> Append(w.frames, fr), result |-> Bare.result,
             return_value |-> Bare.return_value, waittill |-> Bare.waittill, endon |-> Bare.endon]
    <3> DEFINE nf == Append(w.frames, fr)
    <3>1. u = [Bare EXCEPT !.frames = nf]
      BY <2>7
    <3> HIDE DEF nf, u
    <3>2. u = [state |-> Bare.state, stack |-> Bare.stack, frames |-> nf, result |-> Bare.result,
               return_value |-> Bare.return_value, waittill |-> Bare.waittill, endon |-> Bare.endon]
      BY <2>6, <3>1 DEF Like, IsThread
    <3> QED BY <3>2 DEF nf
  <2> HIDE DEF u
  <2>9. Entered(w, u, fr)
    <3>1. /\ u.state = Bare.state /\ u.stack = Bare.stack /\ u.frames = Append(w.frames, fr)
          /\ u.endon = Bare.endon /\ u.return_value = Bare.return_value /\ IsThread(u)
      <4> DEFINE nf == Append(w.frames, fr)
      <4>1. u = [state |-> Bare.state, stack |-> Bare.stack, frames |-> nf, result |-> Bare.result,
                return_value |-> Bare.return_value, waittill |-> Bare.waittill, endon |-> Bare.endon]
        BY <2>8
      <4> HIDE DEF nf
      <4>2. /\ u.state = Bare.state /\ u.stack = Bare.stack /\ u.frames = nf
            /\ u.endon = Bare.endon /\ u.return_value = Bare.return_value /\ IsThread(u)
        BY <4>1 DEF IsThread
      <4> QED BY <4>2 DEF nf
    <3>2. Bare.state = "ACTIVE" /\ Bare.endon = w.endon /\ Bare.return_value = w.return_value
      BY <2>5, <2>6 DEF Like
    <3>3. Len(w.stack) - 1 = Len(Bare.stack)
      BY <2>5
    <3> QED BY <2>5, <2>6, <3>1, <3>2, <3>3 DEF Entered
  <2>10. /\ ThreadOK(functions, sh, objects, cur, u) /\ Last(u) = fr /\ Len(u.frames) = Len(w.frames) + 1
         /\ \A k \in 1 .. Len(w.frames) : u.frames[k] = w.frames[k]
         /\ Calm(sh, u)
    <3>1. w.state \in Going /\ Len(w.frames) < FrameSize
      BY <2>5 DEF Like, Going
    <3> QED BY <2>4, <2>5, <2>9, <3>1, EnterFits
  <2>11. u.state = "ACTIVE" /\ u.endon = Thr.endon
    BY <2>5, <2>9 DEF Entered, Like
  <2>12. cur \in Threads /\ threads[cur].state # "FREE" /\ threads = [t \in Threads |-> threads[t]]
    BY AtHand DEF Thr, IInv, ThreadsInv
  <2>13. VerifiedWith(functions, sh)' /\ ThreadsInv(sh)' /\ CalmInv(sh)' /\ PoolInv'
    <3>1. Grows(objects, objects')
      BY <2>1, AtHand
    <3>2. Becomes(sh, cur, u)
      BY <2>1, <2>10, <2>11, <3>1 DEF Becomes
    <3> QED BY <2>12, <3>2, BecomesKeeps
  <2>14. ObjectsInv' /\ EventsInv' /\ CellsInv'
    BY <2>1, <2>4 DEF IInv, ObjectsInv, EventsInv, CellsInv
  <2> DEFINE j0 == Len(w.frames) + 1
  <2>15. threads'[cur] = u /\ \A x \in Threads : x # cur => threads'[x] = threads[x]
    BY <2>1, <2>12, PutThread
  <2>16. FrameAdded(threads, threads', cur, j0, n, fresh)
    <3>1. DOMAIN u.frames = 1 .. j0 /\ u.frames[j0] = fr /\ DOMAIN fr.locals = 1 .. n
      <4>1. IsSeq(u.frames)
        BY <2>10 DEF ThreadOK
      <4>2. DOMAIN u.frames = 1 .. Len(u.frames)
        BY <4>1, SeqLen
      <4>3. u.frames[j0] = Last(u)
        BY <2>10 DEF Last
      <4> QED BY <2>4, <2>10, <4>2, <4>3
    <3>2. j0 \notin DOMAIN Thr.frames /\ \A k : k \in 1 .. j0 <=> k \in DOMAIN Thr.frames \/ k = j0
      BY <2>5
    <3>3. \A k \in DOMAIN Thr.frames : u.frames[k].locals = Thr.frames[k].locals
      BY <2>5, <2>10
    <3>4. threads'[cur].state # "FREE" /\ Thr.state # "FREE"
      BY <2>11, <2>15
    <3> HIDE DEF j0
    <3>5. ASSUME NEW t, NEW j, NEW k
          PROVE  /\ IsLocal(threads', t, j, k) <=>
                       IsLocal(threads, t, j, k) \/ (t = cur /\ j = j0 /\ k \in 1 .. n)
                 /\ IsLocal(threads, t, j, k) => 
                       ~(t = cur /\ j = j0) /\ CellAt(threads', t, j, k) = CellAt(threads, t, j, k)
      <4>1. CASE t # cur
        BY <2>15, <4>1 DEF IsLocal, CellAt
      <4>2. CASE t = cur
        BY <2>12, <2>15, <3>1, <3>2, <3>3, <3>4, <4>2 DEF IsLocal, CellAt, Thr
      <4> QED BY <4>1, <4>2
    <3>6. \A k \in 1 .. n : CellAt(threads', cur, j0, k) = fresh[k]
      BY <2>4, <2>15, <3>1 DEF CellAt
    <3> QED BY <3>5, <3>6 DEF FrameAdded
  <2>17. /\ Unshared(threads, objects, cells) => Unshared(threads', objects, cells')
         /\ AllOwned(threads, objects, cells) => AllOwned(threads', objects, cells')
    BY <2>1, <2>4, <2>16, OwnersCalled
  <2>18. Unshared(threads', objects', cells') /\ NoneLost'
    <3>1. Unshared(threads, objects, cells) /\ NoneLost
      BY DEF IInv
    <3>2. \A x \in Threads : NoEndon(functions) /\ threads'[x].state # "FREE" => threads'[x].endon = <<>>
      BY <2>11, <2>12, <2>15, <3>1 DEF NoneLost, Thr
    <3> QED BY <2>1, <2>17, <3>1, <3>2 DEF NoneLost
  <2>19. Excused(error')
    BY <2>1 DEF IInv
  <2> QED BY <2>13, <2>14, <2>18, <2>19 DEF IInv
<1> QED BY <1>2, <1>3

\* A call of a builtin.
LEMMA BuiltinStep ==
  ASSUME NEW sh, IInv(sh), cur # 0, Thr.state = "ACTIVE", Ins.op \in {"CALL", "CALL_PTR"},
         NEW f, call_c_function(f)
  PROVE  IInv(sh)'
<1> DEFINE w == PushOn(Bare, Undef)
<1>1. "no_method" \in ScriptErrors /\ "no_function" \in ScriptErrors
  BY DEF ScriptErrors
<1>2. \/ vm_error("no_method") \/ vm_error("no_function")
      \/ /\ threads' = Put(threads, cur, w)
         /\ functions' = functions /\ error' = error /\ pool' = pool /\ cur' = cur 
         /\ objects' = objects /\ events' = events /\ cells' = cells
  BY DEF call_c_function, Frozen, memory, Put
<1>3. ASSUME threads' = Put(threads, cur, w), functions' = functions, error' = error, pool' = pool, cur' = cur,
             objects' = objects, events' = events, cells' = cells
      PROVE  IInv(sh)'
  <2>1. Stepped(functions, objects, Thr, w, Frame.ip + 1) /\ Like(Thr, w) /\ Settled(objects, Thr, w)
    BY CallReady
  <2> HIDE DEF w
  <2>2. OwnersKept
    BY <1>3, SameMemory DEF SameFree
  <2>3. ObjectsInv' /\ CellsInv' /\ EventsInv'
    BY <1>3 DEF IInv, ObjectsInv, CellsInv, EventsInv
  <2>4. Grows(objects, objects')
    BY <1>3, AtHand
  <2>5. w.state = "ACTIVE" /\ w.endon = Thr.endon
    BY <2>1 DEF Like
  <2> QED BY <1>3, <2>1, <2>2, <2>3, <2>4, <2>5, InstructionKeeps
<1>4. vm_error("no_method") \/ vm_error("no_function") => IInv(sh)'
  BY <1>1, RaiseKeeps
<1> HIDE DEF w
<1> QED BY <1>2, <1>3, <1>4

-----------------------------------------------------------------------------
(* Threads that start *)

\* A thread that has executed nothing yet.
FreshThread(r, fr, slot) ==
  /\ IsThread(r) /\ r.state = "ACTIVE" /\ r.stack = <<>> /\ r.frames = <<fr>>
  /\ r.return_value = slot /\ r.endon = <<>>

\* Such a thread is as it should be.
LEMMA StartFits ==
  ASSUME NEW fs, NEW sh, NEW objs, NEW t, NEW fr, FrameOK(fs, sh, fr), Shape(sh, fr) = <<>>,
         NEW slot, SlotOK(t, slot), NEW r, FreshThread(r, fr, slot)
  PROVE  /\ ThreadOK(fs, sh, objs, t, r) /\ Calm(sh, r) /\ Last(r) = fr
         /\ r.frames[1] = fr /\ \A j : j \in DOMAIN r.frames <=> j = 1
<1>1. IsSeq(r.frames) /\ Len(r.frames) = 1 /\ r.frames[1] = fr
  <2> DEFINE s == <<fr>>
  <2>1. IsSeq(s) /\ Len(s) = 1 /\ s[1] = fr
    BY SeqOne
  <2>2. r.frames = s
    BY DEF FreshThread
  <2> QED BY <2>1, <2>2
<1>2. Last(r) = fr
  BY <1>1 DEF Last
<1>3. IsSeq(r.stack) /\ Len(r.stack) = 0 /\ IsSeq(r.endon) /\ Len(r.endon) = 0
  BY SeqNone DEF FreshThread
<1>4. Len(<<>>) = 0
  OBVIOUS
<1>5. Calm(sh, r)
  BY <1>2, <1>4 DEF Calm, AllVal
<1> DEFINE base == [k \in 1 .. 1 |-> 0]
<1>6. Cut(sh, r, base)
  BY <1>1 DEF Cut
<1>7. base[Len(r.frames)] = 0
  BY <1>1
<1> HIDE DEF base
<1>8. Filled(sh, objs, r, 0)
  BY <1>2, <1>3, <1>4 DEF Filled
<1>9. Laid(sh, objs, r)
  BY <1>1, <1>6, <1>7, <1>8 DEF Laid
<1>10. 0 <= StackSize /\ 1 <= FrameSize /\ 0 <= MaxEndon
  BY Constants
<1>11. \A k \in 1 .. Len(r.frames) : FrameOK(fs, sh, r.frames[k])
  BY <1>1
<1>12. ThreadOK(fs, sh, objs, t, r)
  BY <1>1, <1>3, <1>9, <1>10, <1>11 DEF ThreadOK, FreshThread, States
<1>13. \A j : j \in DOMAIN r.frames <=> j = 1
  <2>1. DOMAIN r.frames = 1 .. 1
    BY <1>1, SeqLen
  <2> QED BY <2>1
<1> QED BY <1>1, <1>2, <1>5, <1>12, <1>13

\* Threads start like this.
LEMMA StartedIs ==
  ASSUME NEW f, NEW slot
  PROVE  FreshThread(Started(f, slot), NewFrame(f), slot)
<1> DEFINE frames == <<NewFrame(f)>>
           wait == NoWait
<1>1. Cleared = [state |-> "FREE", stack |-> <<>>, frames |-> <<>>, result |-> 0,
                 return_value |-> NoSlot, waittill |-> wait, endon |-> <<>>]
  BY DEF Cleared
<1>2. Started(f, slot) = [Cleared EXCEPT !.state = "ACTIVE", !.frames = frames, !.return_value = slot]
  BY DEF Started
<1>3. frames = <<NewFrame(f)>>
  OBVIOUS
<1> HIDE DEF frames, wait
<1>4. Started(f, slot) = [state |-> "ACTIVE", stack |-> <<>>, frames |-> frames, result |-> 0,
                          return_value |-> slot, waittill |-> wait, endon |-> <<>>]
  BY <1>1, <1>2
<1> QED BY <1>3, <1>4 DEF FreshThread, IsThread

\* The first struct of the pool is free, and the running thread is another one.
LEMMA PoolHead ==
  ASSUME NEW sh, IInv(sh), pool # <<>>
  PROVE  /\ Head(pool) \in Threads /\ Head(pool) # cur /\ threads[Head(pool)].state = "FREE"
         /\ Tail(pool) \in Seq(Threads)
         /\ \A k \in 1 .. Len(Tail(pool)) : \E l \in 1 .. Len(pool) : l # 1 /\ Tail(pool)[k] = pool[l]
         /\ \A k \in 1 .. Len(Tail(pool)) : Tail(pool)[k] # Head(pool)
         /\ \A k, l \in 1 .. Len(Tail(pool)) : Tail(pool)[k] = Tail(pool)[l] => k = l
<1>1. /\ pool \in Seq(Threads) /\ \A k \in 1 .. Len(pool) : threads[pool[k]].state = "FREE"
      /\ \A k, l \in 1 .. Len(pool) : pool[k] = pool[l] => k = l
      /\ cur # 0 => threads[cur].state # "FREE"
  BY DEF IInv, PoolInv
<1>2. Head(pool) = pool[1] /\ 1 \in 1 .. Len(pool) /\ Len(pool) \in Nat /\ Head(pool) \in Threads
  BY <1>1
<1>3. Tail(pool) \in Seq(Threads) /\ Len(Tail(pool)) = Len(pool) - 1
      /\ \A k \in 1 .. Len(pool) - 1 : Tail(pool)[k] = pool[k + 1]
  BY <1>1
<1>4. 0 \notin Threads
  BY DEF Threads
<1>5. Head(pool) # cur /\ threads[Head(pool)].state = "FREE"
  BY <1>1, <1>2, <1>4
<1>6. \A k \in 1 .. Len(Tail(pool)) : k + 1 \in 1 .. Len(pool) /\ k + 1 # 1 /\ Tail(pool)[k] = pool[k + 1]
  BY <1>2, <1>3
<1>7. \A k, l \in 1 .. Len(Tail(pool)) : Tail(pool)[k] = Tail(pool)[l] => k = l
  <2> TAKE k, l \in 1 .. Len(Tail(pool))
  <2>1. Tail(pool)[k] = Tail(pool)[l] => k + 1 = l + 1
    BY <1>1, <1>6
  <2> QED BY <2>1
<1> QED BY <1>1, <1>2, <1>3, <1>5, <1>6, <1>7

\* The other threads are as before, but for what the call did to the caller.
Base(sh, base) ==
  /\ base = [t \in Threads |-> base[t]]
  /\ \A t \in Threads : ThreadOK(functions, sh, objects, t, base[t])
  /\ \A t \in Threads : base[t].state \in Going /\ (t # cur \/ base[t].state # "ACTIVE") => Calm(sh, base[t])
  /\ SameLocals(threads, base)
  /\ \A t \in Threads : base[t].endon = threads[t].endon

\* A struct of the pool starts a function.
LEMMA StartKeeps ==
  ASSUME NEW sh, IInv(sh), NEW base, Base(sh, base),
         pool # <<>>, NEW f \in DOMAIN functions, Enough(f),
         NEW values, DOMAIN values = 1 .. functions[f].local_count,
         \A k \in DOMAIN values : Good(Len(objects), values[k]),
         NEW slot, SlotOK(Head(pool), slot),
         threads' = Put(base, Head(pool), Started(f, slot)),
         cells' = Initialised(f, values), pool' = Tail(pool),
         UNCHANGED <<functions, cur, objects, events, error>>
  PROVE  IInv(sh)'
<1> DEFINE nt == Head(pool)
           r == Started(f, slot)
           fr == NewFrame(f)
           n == functions[f].local_count
           fresh == Fresh_locals(f)
           ncs == Initialised(f, values)
<1>1. /\ FrameOK(functions, sh, fr) /\ Shape(sh, fr) = <<>>
      /\ fr.locals = fresh /\ DOMAIN fresh = 1 .. n
      /\ CellsTaken(cells, ncs, n, fresh)
      /\ ncs = [a \in Cells |-> ncs[a]]
      /\ \A a \in Cells : ncs[a] = Free \/ Good(Len(objects), ncs[a])
  BY FreshFrame
<1>2. FreshThread(r, fr, slot)
  BY StartedIs
<1>3. threads' = Put(base, nt, r) /\ cells' = ncs /\ pool' = Tail(pool) /\ SlotOK(nt, slot)
  OBVIOUS
<1>4. /\ functions' = functions /\ cur' = cur /\ objects' = objects /\ events' = events /\ error' = error
  OBVIOUS
<1>5. /\ nt \in Threads /\ nt # cur /\ threads[nt].state = "FREE"
      /\ pool' \in Seq(Threads)
      /\ \A k \in 1 .. Len(pool') : \E l \in 1 .. Len(pool) : pool'[k] = pool[l]
      /\ \A k \in 1 .. Len(pool') : pool'[k] # nt
      /\ \A k, l \in 1 .. Len(pool') : pool'[k] = pool'[l] => k = l
  BY <1>3, PoolHead
<1> HIDE DEF nt, r, fr, n, fresh, ncs
<1>6. /\ ThreadOK(functions, sh, objects, nt, r) /\ Calm(sh, r)
      /\ r.frames[1] = fr /\ \A j : j \in DOMAIN r.frames <=> j = 1
  <2>1. FrameOK(functions, sh, fr) /\ Shape(sh, fr) = <<>> /\ FreshThread(r, fr, slot) /\ SlotOK(nt, slot)
    BY <1>1, <1>2, <1>3
  <2>2. ThreadOK(functions, sh, objects, nt, r)
    BY ONLY <2>1, StartFits
  <2>3. Calm(sh, r) /\ r.frames[1] = fr
    BY ONLY <2>1, <2>2, StartFits
  <2>4. \A j : j \in DOMAIN r.frames <=> j = 1
    BY ONLY <2>1, <2>2, StartFits
  <2> QED BY <2>2, <2>3, <2>4
<1>7. /\ threads' = [x \in Threads |-> threads'[x]]
      /\ threads'[nt] = r /\ \A x \in Threads : x # nt => threads'[x] = base[x]
  BY <1>3, <1>5, PutThread DEF Base
<1>8. r.state = "ACTIVE" /\ r.endon = <<>>
  BY <1>2 DEF FreshThread
<1>9. VerifiedWith(functions, sh)'
  BY <1>4 DEF IInv
<1>10. ThreadsInv(sh)'
  <2>1. \A x \in Threads : ThreadOK(functions, sh, objects, x, threads'[x])
    BY <1>6, <1>7 DEF Base
  <2> QED BY <1>4, <1>7, <2>1 DEF ThreadsInv
<1>11. CalmInv(sh)'
  BY <1>4, <1>6, <1>7 DEF CalmInv, Base
<1>12. \A x \in Threads : base[x].state = "FREE" <=> threads[x].state = "FREE"
  BY DEF Base, SameLocals
<1>13. PoolInv'
  <2>1. \A k \in 1 .. Len(pool') : threads'[pool'[k]].state = "FREE"
    <3> TAKE k \in 1 .. Len(pool')
    <3>1. PICK l \in 1 .. Len(pool) : pool'[k] = pool[l]
      BY <1>5
    <3>2. pool[l] \in Threads /\ threads[pool[l]].state = "FREE"
      BY DEF IInv, PoolInv
    <3> QED BY <1>5, <1>7, <1>12, <3>1, <3>2
  <2>2. cur' \in 0 .. MaxThreads /\ (cur' # 0 => threads'[cur'].state # "FREE")
    <3>1. cur \in 0 .. MaxThreads /\ (cur # 0 => cur \in Threads /\ threads[cur].state # "FREE")
      BY DEF IInv, PoolInv, Threads
    <3> QED BY <1>4, <1>5, <1>7, <1>12, <3>1
  <2> QED BY <1>5, <2>1, <2>2 DEF PoolInv
<1>14. ObjectsInv' /\ EventsInv' /\ CellsInv'
  BY <1>1, <1>3, <1>4 DEF IInv, ObjectsInv, EventsInv, CellsInv
<1>15. FrameAdded(threads, threads', nt, 1, n, fresh)
  <2>1. \A t, j, k : /\ IsLocal(base, t, j, k) <=> IsLocal(threads, t, j, k)
                     /\ IsLocal(threads, t, j, k) => CellAt(base, t, j, k) = CellAt(threads, t, j, k)
    BY SameLocalsIs DEF Base
  <2>2. \A j, k : ~IsLocal(threads, nt, j, k)
    BY <1>5 DEF IsLocal
  <2>3. \A j, k : IsLocal(threads', nt, j, k) <=> j = 1 /\ k \in 1 .. n
    <3>1. nt \in Threads /\ threads'[nt] = r /\ r.state # "FREE"
      BY <1>5, <1>7, <1>8
    <3>2. \A j : j \in DOMAIN r.frames <=> j = 1
      BY <1>6
    <3>3. DOMAIN r.frames[1].locals = 1 .. n
      BY <1>1, <1>6
    <3>4. ASSUME NEW j, NEW k PROVE IsLocal(threads', nt, j, k) <=> j = 1 /\ k \in 1 .. n
      <4>1. CASE j = 1
        BY <3>1, <3>2, <3>3, <4>1 DEF IsLocal
      <4>2. CASE j # 1
        BY <3>1, <3>2, <4>2 DEF IsLocal
      <4> QED BY <4>1, <4>2
    <3> QED BY <3>4
  <2>4. \A t, j, k : t # nt => /\ IsLocal(threads', t, j, k) <=> IsLocal(base, t, j, k)
                               /\ IsLocal(base, t, j, k) => CellAt(threads', t, j, k) = CellAt(base, t, j, k)
    BY <1>7 DEF IsLocal, CellAt
  <2>5. \A k \in 1 .. n : CellAt(threads', nt, 1, k) = fresh[k]
    BY <1>1, <1>6, <1>7 DEF CellAt
  <2>6. ASSUME NEW t, NEW j, NEW k
        PROVE  /\ IsLocal(threads', t, j, k) <=>
                    IsLocal(threads, t, j, k) \/ (t = nt /\ j = 1 /\ k \in 1 .. n)
               /\ IsLocal(threads, t, j, k) => 
                    ~(t = nt /\ j = 1) /\ CellAt(threads', t, j, k) = CellAt(threads, t, j, k)
    <3>1. CASE t = nt
      BY <2>2, <2>3, <3>1
    <3>2. CASE t # nt
      BY <2>1, <2>4, <3>2
    <3> QED BY <3>1, <3>2
  <2> QED BY <2>5, <2>6 DEF FrameAdded
<1>16. /\ Unshared(threads, objects, cells) => Unshared(threads', objects', cells')
       /\ AllOwned(threads, objects, cells) => AllOwned(threads', objects', cells')
  BY <1>1, <1>3, <1>4, <1>15, OwnersCalled
<1>17. Unshared(threads', objects', cells') /\ NoneLost'
  <2>1. Unshared(threads, objects, cells) /\ NoneLost
    BY DEF IInv
  <2>2. \A x \in Threads : NoEndon(functions) /\ threads'[x].state # "FREE" => threads'[x].endon = <<>>
    BY <1>7, <1>8, <1>12, <2>1 DEF NoneLost, Base
  <2> QED BY <1>4, <1>16, <2>1, <2>2 DEF NoneLost
<1>18. Excused(error')
  BY <1>4 DEF IInv
<1> QED BY <1>9, <1>10, <1>11, <1>13, <1>14, <1>17, <1>18 DEF IInv

\* The caller of a thread goes on as if the call had returned undefined.
LEMMA CallerIsBase ==
  ASSUME NEW sh, IInv(sh), cur # 0, Thr.state = "ACTIVE", Ins.op \in {"CALL", "CALL_PTR"}
  PROVE  Base(sh, Put(threads, cur, PushOn(Bare, Undef)))
<1> DEFINE w == PushOn(Bare, Undef)
           base == Put(threads, cur, w)
<1>1. /\ Like(Thr, w) /\ ThreadOK(functions, sh, objects, cur, w) /\ Calm(sh, w)
      /\ DOMAIN w.frames = DOMAIN Thr.frames
      /\ \A k \in DOMAIN Thr.frames : w.frames[k].locals = Thr.frames[k].locals
  BY CallReady
<1>2. cur \in Threads /\ threads = [t \in Threads |-> threads[t]] /\ Thr = threads[cur]
  BY AtHand DEF IInv, ThreadsInv, Thr
<1> HIDE DEF w
<1>3. /\ base = [t \in Threads |-> base[t]] /\ base[cur] = w
      /\ \A x \in Threads : x # cur => base[x] = threads[x]
  BY <1>2, PutThread
<1> HIDE DEF base
<1>4. \A t \in Threads : ThreadOK(functions, sh, objects, t, base[t])
  BY <1>1, <1>3 DEF IInv, ThreadsInv
<1>5. \A t \in Threads : base[t].state \in Going /\ (t # cur \/ base[t].state # "ACTIVE") => Calm(sh, base[t])
  BY <1>1, <1>3 DEF IInv, CalmInv
<1>6. SameLocals(threads, base) /\ \A t \in Threads : base[t].endon = threads[t].endon
  BY <1>1, <1>2, <1>3 DEF SameLocals, Like
<1> QED BY <1>3, <1>4, <1>5, <1>6 DEF Base, base, w

\* A threaded call: the caller goes on beside the new thread.
LEMMA ThreadCallStep ==
  ASSUME NEW sh, IInv(sh), cur # 0, Thr.state = "ACTIVE", Ins.op \in {"CALL", "CALL_PTR"},
         NEW f \in DOMAIN functions, Ins.n < functions[f].local_count, thread_call(f)
  PROVE  IInv(sh)'
<1> DEFINE w == PushOn(Bare, Undef)
           nt == Head(pool)
           slot == [thread |-> cur, at |-> Len(w.stack)]
           values == Bind(f, Args, TRUE)
           S == Started(f, slot)
           base == Put(threads, cur, w)
<1>1. "threads" \in ScriptErrors /\ "cells" \in ScriptErrors
  BY DEF ScriptErrors
<1>2. functions[f].local_count \in Nat
  <2>1. VerifiedFunction(functions, f, sh[f])
    BY DEF IInv, VerifiedWith
  <2> QED BY <2>1 DEF VerifiedFunction
<1>3. ~Wild(f, nargs, TRUE)
  <2>1. nargs = Ins.n /\ Ins.n \in Nat
    BY CallIs
  <2>2. \A j \in Kept(f, nargs, TRUE) : j \in 0 .. nargs
    BY DEF Kept
  <2> DEFINE n == functions[f].local_count
  <2>3. Ins.n < n /\ n \in Nat
    BY <1>2
  <2> HIDE DEF n
  <2>4. ASSUME NEW j \in Kept(f, nargs, TRUE) PROVE ~(j >= n)
    <3>1. j \in 0 .. nargs /\ nargs \in Nat /\ nargs < n
      BY <2>1, <2>2, <2>3
    <3> DEFINE m == nargs
    <3> HIDE DEF m
    <3>2. j \in 0 .. m /\ m \in Nat /\ m < n
      BY <3>1 DEF m
    <3> QED BY ONLY <2>3, <3>2
  <2> QED BY <2>4 DEF Wild, n
<1>4. \/ vm_error("threads") \/ vm_error("cells")
      \/ /\ pool # <<>> /\ Enough(f)
         /\ cells' = Initialised(f, values)
         /\ threads' = [threads EXCEPT ![cur] = w, ![nt] = S]
         /\ pool' = Tail(pool)
         /\ UNCHANGED <<functions, cur, objects, events, error>>
  BY <1>3, Zenon DEF thread_call, Frozen
<1>5. ASSUME pool # <<>>, Enough(f), cells' = Initialised(f, values), 
             threads' = [threads EXCEPT ![cur] = w, ![nt] = S],
             pool' = Tail(pool), UNCHANGED <<functions, cur, objects, events, error>>
      PROVE  IInv(sh)'
  <2>1. Base(sh, base)
    BY CallerIsBase
  <2>2. DOMAIN values = 1 .. functions[f].local_count /\ \A k \in DOMAIN values : Good(Len(objects), values[k])
    <3>1. IsSeq(Args) /\ \A k \in DOMAIN Args : Good(Len(objects), Args[k])
      BY CallIs
    <3> QED BY <1>2, <3>1, BoundGood
  <2>3. SlotOK(nt, slot)
    <3>1. nt # cur
      BY <1>5, PoolHead
    <3>2. Len(w.stack) = Len(Bare.stack) + 1 /\ Len(Bare.stack) \in Nat
      BY CallReady
    <3>3. cur \in Threads
      BY AtHand
    <3> HIDE DEF w, nt
    <3>4. Len(w.stack) \in Nat /\ Len(w.stack) # 0
      BY <3>2
    <3> QED BY <3>1, <3>3, <3>4 DEF SlotOK
  <2> HIDE DEF w, values, slot, S
  <2>4. threads' = Put(base, nt, S)
    BY <1>5 DEF Put
  <2> HIDE DEF base
  <2>5. threads' = Put(base, Head(pool), Started(f, slot)) /\ SlotOK(Head(pool), slot)
    BY <2>3, <2>4 DEF S
  <2>6. UNCHANGED <<functions, cur, objects, events, error>> /\ pool' = Tail(pool) /\ pool # <<>>
        /\ Enough(f) /\ cells' = Initialised(f, values)
    BY <1>5
  <2> HIDE DEF nt
  <2> QED BY <2>1, <2>2, <2>5, <2>6, StartKeeps
<1> HIDE DEF w, nt, values, slot, S
<1> QED BY <1>1, <1>4, <1>5, RaiseKeeps

\* Every kind of call.
LEMMA DispatchStep ==
  ASSUME NEW sh, IInv(sh), cur # 0, Thr.state = "ACTIVE", Ins.op \in {"CALL", "CALL_PTR"},
         NEW f, Dispatch(f),
         Ins.threaded => f # "print" /\ (f \in DOMAIN functions => Ins.n < functions[f].local_count)
  PROVE  IInv(sh)'
<1>1. Needs(Height)
  BY CallIs
<1>2. "threads" \in ScriptErrors /\ "no_function" \in ScriptErrors /\ "frames" \in ScriptErrors
  BY DEF ScriptErrors
<1>3. CASE Ins.threaded
  <2>1. f # "print" /\ (f \in DOMAIN functions => Ins.n < functions[f].local_count)
    BY <1>3
  <2>2. \/ f \in DOMAIN functions /\ thread_call(f)
        \/ vm_error("threads") \/ vm_error("no_function")
    BY <1>1, <1>3, <2>1, Zenon DEF Dispatch, thread_call_c_function
  <2> QED BY <1>2, <2>1, <2>2, ThreadCallStep, RaiseKeeps
<1>4. CASE ~Ins.threaded
  <2>1. \/ vm_error("frames")
        \/ ~(Len(Thr.frames) >= FrameSize) /\ f \in DOMAIN functions /\ call_function(f)
        \/ call_c_function(f)
    BY <1>1, <1>4, Zenon DEF Dispatch
  <2>2. CASE ~(Len(Thr.frames) >= FrameSize) /\ f \in DOMAIN functions /\ call_function(f)
    <3>1. Len(Thr.frames) < FrameSize
      <4>1. Len(Thr.frames) \in Nat /\ FrameSize \in Nat
        BY AtHand, SeqLen, Constants
      <4> QED BY <2>2, <4>1
    <3> QED BY <2>2, <3>1, CallStep
  <2> QED BY <1>2, <2>1, <2>2, BuiltinStep, RaiseKeeps
<1> QED BY <1>3, <1>4

\* OP_CALL.
LEMMA CallOpStep == ASSUME NEW sh, IInv(sh), OP_CALL PROVE IInv(sh)'
<1>1. cur # 0 /\ Thr.state = "ACTIVE" /\ Ins.op = "CALL"
  <2>1. At("CALL")
    BY DEF OP_CALL
  <2> QED BY <2>1, AtRuns
<1>2. Dispatch(Ins.callee)
  BY DEF OP_CALL
<1> DEFINE f == Ins.callee
<1>3. Ins.threaded => f # "print" /\ (f \in DOMAIN functions => Ins.n < functions[f].local_count)
  BY <1>1, AtHand DEF Proper
<1> HIDE DEF f
<1> QED BY <1>1, <1>2, <1>3, DispatchStep DEF f

\* OP_CALL_PTR: the function called is not known, but its kind is.
LEMMA CallPtrStep == ASSUME NEW sh, IInv(sh), OP_CALL_PTR PROVE IInv(sh)'
<1>1. cur # 0 /\ Thr.state = "ACTIVE" /\ Ins.op = "CALL_PTR"
  <2>1. At("CALL_PTR")
    BY DEF OP_CALL_PTR
  <2> QED BY <2>1, AtRuns
<1> DEFINE v == Top(Thr, 1)
           f == v.function
<1>2. \/ vm_error("type") \/ (v.type = "FUNCTION" /\ Dispatch(f))
  BY Zenon DEF OP_CALL_PTR
<1>3. Good(Len(objects), v)
  <2>1. Pops(Ins) = [k \in 1 .. Ins.n + 3 |-> IF k = 2 THEN {"count"} ELSE ValueKinds]
    BY <1>1 DEF Pops
  <2>2. 1 \in 1 .. Ins.n + 3 /\ Len(Pops(Ins)) = Ins.n + 3
    <3>1. Ins.n \in Nat
      BY <1>1, AtHand DEF Proper
    <3> DEFINE m == Ins.n + 3
    <3>2. m \in Nat /\ 1 \in 1 .. m
      BY <3>1
    <3> HIDE DEF m
    <3> QED BY <2>1, <3>2 DEF m
  <2>3. 1 \in 1 .. Len(Pops(Ins)) /\ Pops(Ins)[1] = ValueKinds
    <3> DEFINE m == Ins.n + 3
               p == Pops(Ins)
    <3>1. p = [k \in 1 .. m |-> IF k = 2 THEN {"count"} ELSE ValueKinds] /\ 1 \in 1 .. m /\ Len(p) = m
      BY <2>1, <2>2
    <3> HIDE DEF m, p
    <3>2. p[1] = ValueKinds
      BY <3>1
    <3> QED BY <3>1, <3>2 DEF p
  <2> QED BY <1>1, <2>3, GoodTop
<1>4. v.type = "FUNCTION" => f # "print"
  BY <1>3 DEF Good
<1>5. Ins.threaded => \A g \in DOMAIN functions : Ins.n < functions[g].local_count
  BY <1>1, AtHand DEF Proper
<1>6. "type" \in ScriptErrors
  BY DEF ScriptErrors
<1>7. ASSUME v.type = "FUNCTION", Dispatch(f) PROVE IInv(sh)'
  <2>1. Ins.threaded => f # "print" /\ (f \in DOMAIN functions => Ins.n < functions[f].local_count)
    BY <1>4, <1>5, <1>7
  <2>2. Dispatch(f)
    BY <1>7
  <2> HIDE DEF f
  <2> QED BY <1>1, <2>1, <2>2, DispatchStep
<1> HIDE DEF f, v
<1> QED BY <1>2, <1>6, <1>7, RaiseKeeps

-----------------------------------------------------------------------------
(* Returns *)

\* The table of threads after a return: the frame is gone, nothing else is.
Returns(sh) ==
  /\ threads' = [x \in Threads |-> threads'[x]]
  /\ \A x \in Threads : ThreadOK(functions, sh, objects, x, threads'[x])
  /\ \A x \in Threads : threads'[x].state \in Going /\ (x # cur \/ threads'[x].state # "ACTIVE")
                        => Calm(sh, threads'[x])
  /\ \A x \in Threads : threads'[x].state = "FREE" <=> threads[x].state = "FREE"
  /\ \A x \in Threads : threads'[x].endon = threads[x].endon
  /\ FrameGone(threads, threads', cur, Len(Thr.frames))

\* The invariant after a return.
LEMMA ReturnKeeps ==
  ASSUME NEW sh, IInv(sh), cur # 0, Thr.state = "ACTIVE", Returns(sh),
         cells' = Released(Frame), UNCHANGED <<functions, pool, cur, objects, events, error>>
  PROVE  IInv(sh)'
<1>1. /\ functions' = functions /\ pool' = pool /\ cur' = cur /\ objects' = objects
      /\ events' = events /\ error' = error
  OBVIOUS
<1>2. VerifiedWith(functions, sh)' /\ Excused(error')
  BY <1>1 DEF IInv
<1>3. ThreadsInv(sh)' /\ CalmInv(sh)'
  BY <1>1 DEF Returns, ThreadsInv, CalmInv
<1>4. PoolInv'
  <2>1. cur \in 0 .. MaxThreads /\ (cur # 0 => cur \in Threads /\ threads[cur].state # "FREE")
    BY DEF IInv, PoolInv, Threads
  <2>2. \A k \in 1 .. Len(pool) : pool[k] \in Threads /\ threads[pool[k]].state = "FREE"
    BY DEF IInv, PoolInv
  <2>3. pool \in Seq(Threads) /\ \A k, l \in 1 .. Len(pool) : pool[k] = pool[l] => k = l
    BY DEF IInv, PoolInv
  <2> QED BY <1>1, <2>1, <2>2, <2>3 DEF PoolInv, Returns
<1>5. cells = [a \in Cells |-> cells[a]] /\ \A a \in Cells : cells[a] = Free \/ Good(Len(objects), cells[a])
  BY DEF IInv, CellsInv
<1>6. cells' = [a \in Cells |-> IF a \in CellsOf(Frame) THEN Free ELSE cells[a]]
  BY DEF Released
<1>7. CellsInv'
  BY <1>1, <1>5, <1>6 DEF CellsInv
<1>8. ObjectsInv' /\ EventsInv'
  BY <1>1 DEF IInv, ObjectsInv, EventsInv
<1>9. CellsGiven(threads, cells, cells', cur, Len(Thr.frames))
  <2> DEFINE n == Len(Thr.frames)
             fr == Frame
  <2>1. n \in DOMAIN Thr.frames /\ fr = Thr.frames[n] /\ cur \in Threads
    <3>1. n \in 1 .. n /\ DOMAIN Thr.frames = 1 .. n
      BY AtHand, SeqLen
    <3> QED BY <3>1, AtHand DEF Last
  <2>2. DOMAIN fr.locals = 1 .. Len(fr.locals)
    BY AtHand DEF FrameOK
  <2> HIDE DEF n, fr
  <2>3. \A k : IsLocal(threads, cur, n, k) <=> k \in 1 .. Len(fr.locals)
    BY <2>1, <2>2, Running DEF IsLocal, Thr
  <2>4. \A k : CellAt(threads, cur, n, k) = fr.locals[k]
    BY <2>1 DEF CellAt, Thr
  <2>5. \A a : a \in CellsOf(fr) <=> \E k : IsLocal(threads, cur, n, k) /\ CellAt(threads, cur, n, k) = a
    BY <2>3, <2>4 DEF CellsOf
  <2> QED BY <1>6, <2>5 DEF CellsGiven, n, fr
<1>10. /\ Unshared(threads, objects, cells) => Unshared(threads', objects', cells')
       /\ Unshared(threads, objects, cells) /\ AllOwned(threads, objects, cells) => AllOwned(threads', objects', cells')
  BY <1>1, <1>9, OwnersReturned DEF Returns
<1>11. Unshared(threads', objects', cells') /\ NoneLost'
  <2>1. Unshared(threads, objects, cells) /\ NoneLost
    BY DEF IInv
  <2>2. \A x \in Threads : NoEndon(functions) /\ threads'[x].state # "FREE" => threads'[x].endon = <<>>
    BY <2>1 DEF NoneLost, Returns
  <2> QED BY <1>1, <1>10, <2>1, <2>2 DEF NoneLost
<1> QED BY <1>2, <1>3, <1>4, <1>7, <1>8, <1>11 DEF IInv

\* A function hands its result to the one that called it.
LEMMA LeaveStep ==
  ASSUME NEW sh, IInv(sh), cur # 0, Thr.state = "ACTIVE", Ins.op = "RET", Len(Thr.frames) # 1,
         threads' = Put(threads, cur, [Thr EXCEPT !.frames = SubSeq(@, 1, Len(@) - 1)]),
         cells' = Released(Frame), UNCHANGED <<functions, pool, cur, objects, events, error>>
  PROVE  IInv(sh)'
<1> DEFINE nf == SubSeq(Thr.frames, 1, Len(Thr.frames) - 1)
           u == [Thr EXCEPT !.frames = nf]
           n == Len(Thr.frames)
<1>1. threads' = Put(threads, cur, u)
  BY AtHand DEF IsThread
<1>2. Left(Thr, u)
  <2> HIDE DEF nf
  <2>1. u = [state |-> Thr.state, stack |-> Thr.stack, frames |-> nf, result |-> Thr.result,
             return_value |-> Thr.return_value, waittill |-> Thr.waittill, endon |-> Thr.endon]
    BY AtHand DEF IsThread
  <2> HIDE DEF u
  <2> QED BY <2>1 DEF Left, IsThread, nf
<1> HIDE DEF u, nf
<1>3. InsOf(functions, Last(Thr)).op = "RET"
  BY AtHand
<1>4. /\ ThreadOK(functions, sh, objects, cur, u) /\ Calm(sh, u) /\ Len(u.frames) = n - 1
      /\ \A k \in 1 .. Len(u.frames) : u.frames[k] = Thr.frames[k]
  BY <1>2, <1>3, AtHand, LeaveFits
<1>5. cur \in Threads /\ threads = [t \in Threads |-> threads[t]] /\ Thr = threads[cur]
  BY AtHand DEF IInv, ThreadsInv, Thr
<1>6. /\ threads' = [x \in Threads |-> threads'[x]] /\ threads'[cur] = u
      /\ \A x \in Threads : x # cur => threads'[x] = threads[x]
  <2> DEFINE nth == Put(threads, cur, u)
  <2>1. /\ nth = [x \in Threads |-> nth[x]] /\ nth[cur] = u
        /\ \A x \in Threads : x # cur => nth[x] = threads[x]
    BY <1>5, PutThread
  <2>2. threads' = nth
    BY <1>1
  <2> HIDE DEF nth
  <2> QED BY <2>1, <2>2
<1>7. u.state = "ACTIVE" /\ u.endon = Thr.endon
  BY <1>2 DEF Left
<1>8. DOMAIN u.frames = 1 .. n - 1 /\ DOMAIN Thr.frames = 1 .. n /\ n \in Nat
  <2>1. IsSeq(u.frames) /\ IsSeq(Thr.frames)
    BY <1>4, AtHand DEF ThreadOK
  <2> QED BY <1>4, <2>1, SeqLen
<1>9. FrameGone(threads, threads', cur, n)
  <2> HIDE DEF n
  <2>1. \A j : j \in DOMAIN u.frames <=> j \in DOMAIN Thr.frames /\ j # n
    BY <1>8
  <2>2. \A j \in DOMAIN u.frames : u.frames[j] = Thr.frames[j]
    BY <1>4, <1>8
  <2>3. ASSUME NEW t, NEW j, NEW k
        PROVE  /\ IsLocal(threads', t, j, k) <=> IsLocal(threads, t, j, k) /\ ~(t = cur /\ j = n)
               /\ IsLocal(threads', t, j, k) => CellAt(threads', t, j, k) = CellAt(threads, t, j, k)
    <3>1. CASE t = cur
      BY <1>5, <1>6, <1>7, <2>1, <2>2, <3>1 DEF IsLocal, CellAt
    <3>2. CASE t # cur
      BY <1>6, <3>2 DEF IsLocal, CellAt
    <3> QED BY <3>1, <3>2
  <2> QED BY <2>3 DEF FrameGone
<1>10. Returns(sh)
  <2>1. \A x \in Threads : ThreadOK(functions, sh, objects, x, threads'[x])
    BY <1>4, <1>6 DEF IInv, ThreadsInv
  <2>2. \A x \in Threads : threads'[x].state \in Going /\ (x # cur \/ threads'[x].state # "ACTIVE")
                        => Calm(sh, threads'[x])
    BY <1>4, <1>6 DEF IInv, CalmInv
  <2>3. \A x \in Threads : /\ threads'[x].state = "FREE" <=> threads[x].state = "FREE"
                           /\ threads'[x].endon = threads[x].endon
    BY <1>5, <1>6, <1>7
  <2> QED BY <1>6, <1>9, <2>1, <2>2, <2>3 DEF Returns, n
<1> QED BY <1>10, ReturnKeeps

\* What is left of a thread.
LEMMA EndedIs ==
  ASSUME NEW sh, IInv(sh), cur # 0, Thr.state = "ACTIVE", Ins.op = "RET", Len(Thr.frames) = 1,
         NEW u, u = [Drop(Thr, 1) EXCEPT !.frames = <<>>, !.state = "INACTIVE"]
  PROVE  /\ ThreadOK(functions, sh, objects, cur, u) /\ u.state = "INACTIVE"
         /\ u.endon = Thr.endon /\ u.frames = <<>> /\ Needs(1) /\ Good(Len(objects), Top(Thr, 1))
<1> DEFINE s == Thr.stack
           ns == SubSeq(s, 1, Len(s) - 1)
           none == <<>>
<1>1. PICK base : /\ Cut(sh, Thr, base) /\ base[Len(Thr.frames)] \in Nat
                  /\ Len(Thr.stack) = base[Len(Thr.frames)] + 1
                  /\ \A j \in 1 .. base[Len(Thr.frames)] + 1 : Good(Len(objects), Thr.stack[j])
  BY AtHand, Returning
<1>2. base[Len(Thr.frames)] = 0
  BY <1>1 DEF Cut
<1>3. Len(s) = 1 /\ Good(Len(objects), s[1])
  BY <1>1, <1>2
<1>4. IsSeq(ns) /\ Len(ns) = 0
  <2>1. IsSeq(s) /\ Len(s) - 1 = 0 /\ 0 \in 0 .. Len(s)
    BY <1>3, AtHand
  <2> HIDE DEF s
  <2> QED BY <2>1, SeqPrefix
<1>5. ns = <<>>
  <2> HIDE DEF ns
  <2> QED BY <1>4 DEF IsSeq
<1>6. Needs(1) /\ Good(Len(objects), Top(Thr, 1))
  BY <1>3 DEF Needs, Top
<1>7. none = <<>> /\ ns = none
  BY <1>5
<1> HIDE DEF none, ns, s
<1>8. Drop(Thr, 1) = [Thr EXCEPT !.stack = none]
  BY <1>7, AtHand DEF Drop, IsThread, ns, s
<1>9. u = [state |-> "INACTIVE", stack |-> none, frames |-> none, result |-> Thr.result,
           return_value |-> Thr.return_value, waittill |-> Thr.waittill, endon |-> Thr.endon]
  <2> DEFINE d == Drop(Thr, 1)
             e == [d EXCEPT !.frames = none]
  <2>1. d = [state |-> Thr.state, stack |-> none, frames |-> Thr.frames, result |-> Thr.result,
           return_value |-> Thr.return_value, waittill |-> Thr.waittill, endon |-> Thr.endon]
    BY <1>8, AtHand DEF IsThread
  <2>2. u = [e EXCEPT !.state = "INACTIVE"]
    BY <1>7
  <2> HIDE DEF d
  <2>3. e = [state |-> Thr.state, stack |-> none, frames |-> none, result |-> Thr.result,
             return_value |-> Thr.return_value, waittill |-> Thr.waittill, endon |-> Thr.endon]
    BY <2>1
  <2> HIDE DEF e
  <2> QED BY <2>2, <2>3
<1>10. /\ IsThread(u) /\ u.state = "INACTIVE" /\ u.stack = none /\ u.frames = none
       /\ u.return_value = Thr.return_value /\ u.endon = Thr.endon
  <2>1. /\ u.state = "INACTIVE" /\ u.stack = none /\ u.frames = none /\ u.result = Thr.result
        /\ u.return_value = Thr.return_value /\ u.waittill = Thr.waittill /\ u.endon = Thr.endon
    BY ONLY <1>9
  <2> QED BY ONLY <1>9, <2>1 DEF IsThread
<1>11. IsSeq(none) /\ Len(none) = 0
  BY <1>7, SeqNone
<1>12. 0 <= StackSize /\ 0 <= FrameSize
  BY Constants
<1>13. IsSeq(Thr.endon) /\ Len(Thr.endon) <= MaxEndon /\ SlotOK(cur, Thr.return_value)
  BY AtHand DEF ThreadOK
<1>14. ThreadOK(functions, sh, objects, cur, u)
  <2>1. \A k \in 1 .. Len(u.frames) : FrameOK(functions, sh, u.frames[k])
    BY <1>10, <1>11
  <2> QED BY <1>7, <1>10, <1>11, <1>12, <1>13, <2>1 DEF ThreadOK, States, Going
<1> QED BY <1>6, <1>7, <1>10, <1>14

\* A thread hands its result to the one that started it, if that one is still there.
EndedThread == [Drop(Thr, 1) EXCEPT !.frames = <<>>, !.state = "INACTIVE"]
Reported(done) ==
  \/ threads' = done
  \/ /\ Thr.return_value # NoSlot
     /\ Thr.return_value.at <= Len(threads[Thr.return_value.thread].stack)
     /\ threads' = [done EXCEPT ![Thr.return_value.thread].stack[Thr.return_value.at] = Top(Thr, 1)]

\* Thread x keeps all but an operand.
Alike(sh, x, r) ==
  /\ ThreadOK(functions, sh, objects, x, r)
  /\ r.state \in Going => Calm(sh, r)
  /\ r.state = threads[x].state /\ r.frames = threads[x].frames /\ r.endon = threads[x].endon

\* The return that ends a thread: its result may overwrite any operand of its creator.
LEMMA EndStep ==
  ASSUME NEW sh, IInv(sh), cur # 0, Thr.state = "ACTIVE", Ins.op = "RET", Len(Thr.frames) = 1,
         NEW done, done = Put(threads, cur, EndedThread), Reported(done),
         cells' = Released(Frame), UNCHANGED <<functions, pool, cur, objects, events, error>>
  PROVE  IInv(sh)'
<1> DEFINE u == EndedThread
           slot == Thr.return_value
           v == Top(Thr, 1)
           none == <<>>
<1>1. /\ ThreadOK(functions, sh, objects, cur, u) /\ u.state = "INACTIVE"
      /\ u.endon = Thr.endon /\ u.frames = none /\ Good(Len(objects), v)
  BY EndedIs DEF EndedThread
<1>2. cur \in Threads /\ threads = [t \in Threads |-> threads[t]] /\ Thr = threads[cur]
  BY AtHand DEF IInv, ThreadsInv, Thr
<1>3. done = Put(threads, cur, u)
  OBVIOUS
<1>4. \A j : j \notin DOMAIN none
  OBVIOUS
<1>5. SlotOK(cur, slot)
  BY AtHand DEF ThreadOK
<1> HIDE DEF u, v, none
<1>6. /\ done = [x \in Threads |-> done[x]] /\ done[cur] = u
      /\ \A x \in Threads : x # cur => done[x] = threads[x]
  <2> DEFINE nth == Put(threads, cur, u)
  <2>1. /\ nth = [x \in Threads |-> nth[x]] /\ nth[cur] = u
        /\ \A x \in Threads : x # cur => nth[x] = threads[x]
    BY <1>2, PutThread
  <2>2. done = nth
    BY <1>3
  <2> HIDE DEF nth
  <2> QED BY ONLY <2>1, <2>2
<1>7. \A x \in Threads : x # cur =>
        /\ ThreadOK(functions, sh, objects, x, threads[x])
        /\ threads[x].state \in Going => Calm(sh, threads[x])
  BY DEF IInv, ThreadsInv, CalmInv
<1>8. /\ threads' = [x \in Threads |-> threads'[x]] /\ threads'[cur] = u
      /\ \A x \in Threads : x # cur => Alike(sh, x, threads'[x])
  <2>1. CASE threads' = done
    <3>1. threads' = [x \in Threads |-> threads'[x]] /\ threads'[cur] = u
      BY <1>6, <2>1
    <3>2. \A x \in Threads : x # cur => threads'[x] = threads[x]
      BY <1>6, <2>1
    <3> QED BY <1>7, <3>1, <3>2 DEF Alike
  <2>2. ASSUME slot # NoSlot, slot.at <= Len(threads[slot.thread].stack),
               threads' = [done EXCEPT ![slot.thread].stack[slot.at] = v]
        PROVE  <1>8
    <3> DEFINE p == slot.thread
               r == threads[p]
               w == [r EXCEPT !.stack = Put(r.stack, slot.at, v)]
    <3>1. p \in Threads /\ p # cur /\ slot.at \in Nat \ {0}
      BY <1>5, <2>2 DEF SlotOK
    <3>2. done[p] = r /\ ThreadOK(functions, sh, objects, p, r) /\ (r.state \in Going => Calm(sh, r))
      BY <1>6, <1>7, <3>1
    <3>3. IsThread(r) /\ IsSeq(r.stack)
      BY <3>2 DEF ThreadOK
    <3>4. slot.at \in 1 .. Len(r.stack)
      <4>1. Len(r.stack) \in Nat
        BY <3>3, SeqLen
      <4>2. slot.at <= Len(r.stack)
        BY <2>2
      <4> HIDE DEF r
      <4> QED BY <3>1, <4>1, <4>2
    <3>5. threads' = Put(done, p, w)
      <4>1. done[p].stack = r.stack
        BY <3>2
      <4>2. threads' = [done EXCEPT ![p] = [done[p] EXCEPT !.stack = [done[p].stack EXCEPT ![slot.at] = v]]]
        BY <2>2
      <4> QED BY <3>2, <4>1, <4>2 DEF Put
    <3> HIDE DEF p, r
    <3>6. w = [r EXCEPT !.stack = Put(r.stack, slot.at, v)]
      OBVIOUS
    <3> HIDE DEF w
    <3>7. /\ ThreadOK(functions, sh, objects, p, w) /\ (w.state \in Going => Calm(sh, w))
          /\ w.state = r.state /\ w.frames = r.frames /\ w.endon = r.endon
      BY <1>1, <3>2, <3>4, <3>6, OverwriteFits
    <3>8. /\ threads' = [x \in Threads |-> threads'[x]] /\ threads'[p] = w
          /\ \A x \in Threads : x # p => threads'[x] = done[x]
      <4> DEFINE nth == Put(done, p, w)
      <4>1. /\ nth = [x \in Threads |-> nth[x]] /\ nth[p] = w
            /\ \A x \in Threads : x # p => nth[x] = done[x]
        BY <1>6, <3>1, PutThread
      <4>2. threads' = nth
        BY <3>5
      <4> HIDE DEF nth
      <4> QED BY <4>1, <4>2
    <3>9. threads'[cur] = u
      BY <1>2, <1>6, <3>1, <3>8
    <3>10. r = threads[p]
      BY DEF r
    <3>11. ASSUME NEW x \in Threads, x # cur PROVE Alike(sh, x, threads'[x])
      <4>1. CASE x = p
        BY <3>7, <3>8, <3>10, <4>1 DEF Alike
      <4>2. CASE x # p
        <5>1. threads'[x] = threads[x]
          BY <1>6, <3>8, <3>11, <4>2
        <5> QED BY <1>7, <3>11, <5>1 DEF Alike
      <4> QED BY <4>1, <4>2
        <3> QED BY <3>8, <3>9, <3>11
  <2> HIDE DEF slot
  <2> QED BY <2>1, <2>2 DEF slot, v, Reported
<1>9. FrameGone(threads, threads', cur, Len(Thr.frames))
  <2>1. DOMAIN Thr.frames = 1 .. 1
    BY AtHand, SeqLen
  <2>2. ASSUME NEW t, NEW j, NEW k
        PROVE  /\ IsLocal(threads', t, j, k) <=> IsLocal(threads, t, j, k) /\ ~(t = cur /\ j = 1)
               /\ IsLocal(threads', t, j, k) => CellAt(threads', t, j, k) = CellAt(threads, t, j, k)
    <3>1. CASE t = cur
      <4>1. ~IsLocal(threads', t, j, k)
        BY <1>1, <1>4, <1>8, <3>1 DEF IsLocal
      <4>2. IsLocal(threads, t, j, k) => j = 1
        BY <1>2, <2>1, <3>1 DEF IsLocal
      <4> QED BY <3>1, <4>1, <4>2
    <3>2. CASE t # cur
      BY <1>8, <3>2 DEF IsLocal, CellAt, Alike
    <3> QED BY <3>1, <3>2
  <2>3. Len(Thr.frames) = 1
    OBVIOUS
  <2> QED BY <2>2, <2>3 DEF FrameGone
<1>10. Returns(sh)
  <2>1. \A x \in Threads : ThreadOK(functions, sh, objects, x, threads'[x])
    BY <1>1, <1>8 DEF Alike
  <2>2. \A x \in Threads : threads'[x].state \in Going /\ (x # cur \/ threads'[x].state # "ACTIVE")
                        => Calm(sh, threads'[x])
    BY <1>1, <1>8 DEF Going, Alike
  <2>3. \A x \in Threads : /\ threads'[x].state = "FREE" <=> threads[x].state = "FREE"
                           /\ threads'[x].endon = threads[x].endon
    BY <1>1, <1>2, <1>8 DEF Alike
  <2> QED BY <1>8, <1>9, <2>1, <2>2, <2>3 DEF Returns
<1> QED BY <1>10, ReturnKeeps

\* OP_RET.
LEMMA RetStep == ASSUME NEW sh, IInv(sh), OP_RET PROVE IInv(sh)'
<1>1. cur # 0 /\ Thr.state = "ACTIVE" /\ Ins.op = "RET"
  <2>1. At("RET")
    BY DEF OP_RET
  <2> QED BY <2>1, AtRuns
<1>2. Len(Thr.frames) = 1 => Needs(1)
  BY <1>1, EndedIs
<1> DEFINE done == Put(threads, cur, EndedThread)
<1>3. cells' = Released(Frame) /\ UNCHANGED <<functions, pool, cur, objects, events, error>>
  BY <1>2, Zenon DEF OP_RET, Frozen
<1>4. CASE Len(Thr.frames) # 1
  <2>1. threads' = Put(threads, cur, [Thr EXCEPT !.frames = SubSeq(@, 1, Len(@) - 1)])
    BY <1>4, Zenon DEF OP_RET, Put
  <2> QED BY <1>1, <1>3, <1>4, <2>1, LeaveStep
<1>5. CASE Len(Thr.frames) = 1
  <2>1. Reported(done)
    BY <1>2, <1>5, Zenon DEF OP_RET, Put, EndedThread, Reported
  <2> HIDE DEF done
  <2>2. done = Put(threads, cur, EndedThread)
    BY DEF done
  <2> QED BY <1>1, <1>3, <1>5, <2>1, <2>2, EndStep
<1> QED BY <1>4, <1>5

-----------------------------------------------------------------------------
(* The dispatcher *)

\* Verified code never runs off its end.
LEMMA OutOfCodeStep == ASSUME NEW sh, IInv(sh), OutOfCode PROVE FALSE
<1>1. cur # 0 /\ Thr.state = "ACTIVE" /\ ~InCode
  BY Zenon DEF OutOfCode
<1>2. /\ Frame.ip \in 0 .. Len(functions[Frame.function].instructions) - 1
  BY <1>1, AtHand, FrameCode
<1>3. Thr.frames # <<>>
  BY <1>1, AtHand
<1> QED BY <1>1, <1>2, <1>3 DEF InCode, Code

\* The dispatcher visits a thread in a state.
LEMMA IdleIs ==
  ASSUME NEW t, NEW s, Idle(t, s)
  PROVE  cur = 0 /\ threads[t].state = s
BY Zenon DEF Idle

\* Only cur changes, to a thread that need not be calm.
LEMMA SwitchKeeps ==
  ASSUME NEW sh, IInv(sh), UNCHANGED <<functions, threads, pool, cells, objects, events, error>>,
         cur' \in 0 .. MaxThreads, cur' # 0 => threads[cur'].state # "FREE",
         cur # 0 => Thr.state # "ACTIVE"
  PROVE  IInv(sh)'
<1>1. /\ functions' = functions /\ threads' = threads /\ pool' = pool /\ cells' = cells
      /\ objects' = objects /\ events' = events /\ error' = error
  OBVIOUS
<1>2. VerifiedWith(functions, sh)' /\ Unshared(threads', objects', cells') /\ Excused(error')
  BY <1>1 DEF IInv
<1>3. ThreadsInv(sh)'
  BY <1>1 DEF IInv, ThreadsInv
<1>4. CalmInv(sh)'
  <2>1. \A t \in Threads : threads[t].state \in Going => Calm(sh, threads[t]) \/ t = 0
    BY DEF IInv, CalmInv, Thr
  <2>2. 0 \notin Threads
    BY DEF Threads
  <2> QED BY <1>1, <2>1, <2>2 DEF CalmInv
<1>5. PoolInv' /\ ObjectsInv' /\ CellsInv' /\ EventsInv'
  BY <1>1 DEF IInv, PoolInv, ObjectsInv, CellsInv, EventsInv
<1>6. NoneLost'
  BY <1>1 DEF IInv, NoneLost
<1> QED BY <1>2, <1>3, <1>4, <1>5, <1>6 DEF IInv

\* A thread stops at a wait, and its operands are all values.
LEMMA SuspendStep == ASSUME NEW sh, IInv(sh), Suspend PROVE IInv(sh)'
<1>1. /\ cur' = 0 /\ UNCHANGED <<functions, threads, pool, cells, objects, events, error>>
      /\ Thr.state # "ACTIVE"
  BY Zenon DEF Suspend, Frozen, memory
<1>2. 0 \in 0 .. MaxThreads
  BY Constants
<1> QED BY <1>1, <1>2, SwitchKeeps

\* A thread goes on.
LEMMA ResumeStep == ASSUME NEW sh, IInv(sh), NEW t \in Threads, Resume(t) PROVE IInv(sh)'
<1>1. /\ cur' = t /\ UNCHANGED <<functions, threads, pool, cells, objects, events, error>>
      /\ Idle(t, "ACTIVE")
  BY Zenon DEF Resume, Frozen, memory
<1>2. t \in 0 .. MaxThreads
  BY DEF Threads
<1>3. cur = 0 /\ threads[t].state = "ACTIVE"
  BY <1>1, IdleIs
<1> QED BY <1>1, <1>2, <1>3, SwitchKeeps

\* A thread that waits runs again.
LEMMA WokenFits ==
  ASSUME NEW fs, NEW sh, NEW objs, NEW t, NEW r, ThreadOK(fs, sh, objs, t, r), r.state \in Going, Calm(sh, r),
         NEW u, u = [r EXCEPT !.state = "ACTIVE"]
  PROVE  /\ ThreadOK(fs, sh, objs, t, u) /\ Calm(sh, u) /\ u.state = "ACTIVE"
         /\ u.frames = r.frames /\ u.endon = r.endon
<1>1. u = [state |-> "ACTIVE", stack |-> r.stack, frames |-> r.frames, result |-> r.result,
           return_value |-> r.return_value, waittill |-> r.waittill, endon |-> r.endon]
  BY DEF ThreadOK, IsThread
<1>2. /\ u.state = "ACTIVE" /\ u.stack = r.stack /\ u.frames = r.frames /\ u.result = r.result
      /\ u.return_value = r.return_value /\ u.waittill = r.waittill /\ u.endon = r.endon
  BY ONLY <1>1
<1>3. IsThread(u)
  BY ONLY <1>1, <1>2 DEF IsThread
<1>4. Last(u) = Last(r)
  BY <1>2 DEF Last
<1>5. Laid(sh, objs, u)
  <2>1. PICK base : Cut(sh, r, base) /\ Filled(sh, objs, r, base[Len(r.frames)])
    BY DEF ThreadOK, Laid
  <2>2. Cut(sh, u, base)
    BY <1>2, <2>1 DEF Cut
  <2>3. Filled(sh, objs, u, base[Len(u.frames)])
    BY <1>2, <1>4, <2>1 DEF Filled
  <2>4. Len(u.frames) >= 1
    BY <1>2 DEF ThreadOK, Laid
  <2> QED BY <2>2, <2>3, <2>4 DEF Laid
<1>6. Calm(sh, u)
  BY <1>4 DEF Calm
<1>7. ThreadOK(fs, sh, objs, t, u)
  BY <1>2, <1>3, <1>5 DEF ThreadOK, States, Going
<1> QED BY <1>2, <1>6, <1>7

\* The invariant when a thread wakes.
LEMMA WakingKeeps ==
  ASSUME NEW sh, IInv(sh), NEW t \in Threads, cur = 0, threads[t].state \in Going,
         threads' = [threads EXCEPT ![t].state = "ACTIVE"],
         UNCHANGED <<functions, pool, cur, objects, error>>,
         OwnersKept, CellsInv', EventsInv'
  PROVE  IInv(sh)'
<1> DEFINE r == threads[t]
           u == [r EXCEPT !.state = "ACTIVE"]
<1>1. ThreadOK(functions, sh, objects, t, r) /\ threads = [x \in Threads |-> threads[x]]
  BY DEF IInv, ThreadsInv
<1>2. t # cur
  BY DEF Threads
<1>3. Calm(sh, r)
  BY <1>2 DEF IInv, CalmInv
<1>4. threads' = Put(threads, t, u)
  BY DEF Put
<1>5. u = [r EXCEPT !.state = "ACTIVE"] /\ r.state \in Going /\ r = threads[t]
  OBVIOUS
<1> HIDE DEF u, r
<1>6. /\ ThreadOK(functions, sh, objects, t, u) /\ Calm(sh, u) /\ u.state = "ACTIVE"
      /\ u.frames = r.frames /\ u.endon = r.endon
  BY <1>1, <1>3, <1>5, WokenFits
<1>7. /\ functions' = functions /\ pool' = pool /\ cur' = cur /\ objects' = objects /\ error' = error
  OBVIOUS
<1>8. Grows(objects, objects')
  BY <1>7, GrowsNone DEF IInv, ObjectsInv
<1>9. Becomes(sh, t, u)
  BY <1>4, <1>6, <1>7, <1>8 DEF Becomes
<1>10. ObjectsInv' /\ Excused(error')
  BY <1>7 DEF IInv, ObjectsInv
<1>11. threads[t].state # "FREE"
  BY DEF Going
<1> QED BY <1>5, <1>6, <1>9, <1>10, <1>11, AlikeKeeps

\* The end of a timed wait.
LEMMA WakeStep == ASSUME NEW sh, IInv(sh), NEW t \in Threads, Wake(t) PROVE IInv(sh)'
<1>1. /\ Idle(t, "WAITING_TIME") \/ Idle(t, "WAITING_FRAME")
      /\ threads' = [threads EXCEPT ![t].state = "ACTIVE"]
      /\ UNCHANGED <<functions, pool, cur, objects, cells, events, error>>
  BY Zenon DEF Wake, Frozen, memory
<1>2. cur = 0 /\ threads[t].state \in Going
  BY <1>1, IdleIs DEF Going
<1>3. OwnersKept
  BY <1>1, SameMemory DEF SameFree
<1>4. CellsInv' /\ EventsInv'
  BY <1>1 DEF IInv, CellsInv, EventsInv
<1> QED BY <1>1, <1>2, <1>3, <1>4, WakingKeeps

\* A finite set of numbers has a greatest one: the last of the arguments stored counts.
LEMMA Greatest ==
  ASSUME NEW n \in Nat, NEW S \in SUBSET (0 .. n), S # {}
  PROVE  \E m \in S : \A l \in S : l <= m
<1> DEFINE T == {n - k : k \in S}
<1>1. T \in SUBSET Nat /\ T # {}
  <2>1. \A k \in S : n - k \in Nat
    OBVIOUS
  <2>2. PICK k \in S : TRUE
    OBVIOUS
  <2>3. n - k \in T
    OBVIOUS
  <2> QED BY <2>1, <2>3
<1>2. PICK i \in T : \A j \in T : i <= j
  <2> HIDE DEF T
  <2> QED BY <1>1, LeastNatural
<1>3. PICK m \in S : i = n - m
  OBVIOUS
<1>4. \A l \in S : l <= m
  <2> TAKE l \in S
  <2>1. n - l \in T
    OBVIOUS
  <2>2. n - m <= n - l
    BY <1>2, <1>3, <2>1
  <2>3. l \in 0 .. n /\ m \in 0 .. n
    OBVIOUS
  <2> QED BY <2>2, <2>3
<1> QED BY <1>4

\* An event arrives: only variables are written, with values.
LEMMA DeliverStep == ASSUME NEW sh, IInv(sh), NEW t \in Threads, Deliver(t) PROVE IInv(sh)'
<1> DEFINE w == threads[t].waittill
           matching == {k \in DOMAIN events : events[k].name = w.name /\ events[k].object = w.object}
           e == Lowest(matching)
           stored == {k \in DOMAIN w.arguments : k \in DOMAIN events[e].arguments}
           to(a) == {k \in stored : w.arguments[k].refval = a}
           last(a) == CHOOSE k \in to(a) : \A l \in to(a) : l <= k
<1>1. /\ Idle(t, "WAITING_EVENT") /\ matching # {}
      /\ cells' = [a \in Cells |-> IF to(a) = {} THEN cells[a] ELSE events[e].arguments[last(a)]]
      /\ events' = [k \in 1 .. Len(events) - 1 |-> IF k < e THEN events[k] ELSE events[k + 1]]
      /\ threads' = [threads EXCEPT ![t].state = "ACTIVE"]
      /\ UNCHANGED <<functions, pool, cur, objects, error>>
  BY Zenon DEF Deliver, Frozen
<1>2. cur = 0 /\ threads[t].state = "WAITING_EVENT" /\ threads[t].state \in Going
  <2>1. Idle(t, "WAITING_EVENT")
    BY Zenon DEF Deliver
  <2>2. cur = 0 /\ threads[t].state = "WAITING_EVENT"
    BY ONLY <2>1, IdleIs
  <2> QED BY ONLY <2>2 DEF Going
<1>3. /\ IsSeq(events) /\ Len(events) <= MaxEvents /\ Len(events) \in Nat /\ DOMAIN events = 1 .. Len(events)
      /\ \A k \in 1 .. Len(events) : \A l \in DOMAIN events[k].arguments : Good(Len(objects), events[k].arguments[l])
  BY SeqLen DEF IInv, EventsInv
<1>4. e \in 1 .. Len(events)
  <2>1. matching \in SUBSET Nat /\ matching \subseteq 1 .. Len(events)
    BY <1>3
  <2> HIDE DEF matching
  <2> QED BY <1>1, <2>1, LowestIn
<1> HIDE DEF e, matching
<1>5. /\ IsSeq(w.arguments)
      /\ \A k \in DOMAIN w.arguments : Target(objects, Last(threads[t]), w.arguments[k])
  <2>1. ThreadOK(functions, sh, objects, t, threads[t])
    BY DEF IInv, ThreadsInv
  <2> QED BY <1>2, <2>1 DEF ThreadOK, WaitOK
<1>6. \A k \in DOMAIN w.arguments : w.arguments[k].refval \in Cells /\ cells[w.arguments[k].refval] # Free
  BY <1>2, <1>5, TargetLive
<1>7. ASSUME NEW a, to(a) # {}
      PROVE  /\ last(a) \in DOMAIN w.arguments /\ w.arguments[last(a)].refval = a
             /\ Good(Len(objects), events[e].arguments[last(a)])
  <2> DEFINE S == to(a)
             n == Len(w.arguments)
             k == CHOOSE i \in S : \A l \in S : l <= i
  <2>1. S \subseteq stored /\ \A i \in S : w.arguments[i].refval = a
    OBVIOUS
  <2>2. stored \subseteq DOMAIN w.arguments /\ \A i \in stored : i \in DOMAIN events[e].arguments
    OBVIOUS
  <2>3. n \in Nat /\ DOMAIN w.arguments = 1 .. n
    BY <1>5, SeqLen
  <2>4. S # {}
    BY <1>7
  <2>5. k = last(a)
    OBVIOUS
  <2> HIDE DEF S, stored, n, last
  <2>6. S \in SUBSET (0 .. n)
    BY <2>1, <2>2, <2>3
  <2>7. k \in S
    <3>1. \E m \in S : \A l \in S : l <= m
      BY <2>3, <2>4, <2>6, Greatest
    <3> QED BY <3>1
  <2> HIDE DEF k
  <2> QED BY <1>3, <1>4, <2>1, <2>2, <2>5, <2>7
<1> HIDE DEF to, last, stored, w
<1>8. \A a \in Cells : /\ to(a) = {} => cells'[a] = cells[a]
                       /\ to(a) # {} => /\ cells'[a] = events[e].arguments[last(a)]
                                        /\ Good(Len(objects), cells'[a]) /\ cells[a] # Free
  <2> TAKE a \in Cells
  <2>1. CASE to(a) = {}
    BY <1>1, <2>1
  <2>2. CASE to(a) # {}
    <3>1. cells'[a] = events[e].arguments[last(a)]
      BY <1>1, <2>2
    <3> QED BY <1>6, <1>7, <2>2, <3>1
  <2> QED BY <2>1, <2>2
<1>9. OwnersKept
  <2>1. SameFree(cells, cells')
    BY <1>8, GoodIsNotFree DEF SameFree
  <2> QED BY <1>1, <2>1, SameMemory
<1>10. CellsInv'
  <2>1. \A a \in Cells : cells'[a] = Free \/ Good(Len(objects), cells'[a])
    BY <1>8 DEF IInv, CellsInv
  <2>2. cells' = [a \in Cells |-> cells'[a]]
    BY <1>1
  <2> QED BY <1>1, <2>1, <2>2 DEF CellsInv
<1>11. EventsInv'
  <2> DEFINE n == Len(events) - 1
             ne == events'
  <2>1. n \in Nat /\ n <= MaxEvents /\ n + 1 = Len(events)
    BY <1>3, <1>4, Constants
  <2>2. ne = [k \in 1 .. n |-> IF k < e THEN events[k] ELSE events[k + 1]]
    BY <1>1
  <2> HIDE DEF n, ne
  <2>3. \A k \in 1 .. n : \E i \in 1 .. Len(events) : ne[k] = events[i]
    <3> TAKE k \in 1 .. n
    <3>1. k \in 1 .. Len(events) /\ k + 1 \in 1 .. Len(events)
      BY <2>1
    <3>2. ne[k] = events[k] \/ ne[k] = events[k + 1]
      BY <2>2
    <3> QED BY <3>1, <3>2
  <2>4. IsSeq(ne) /\ Len(ne) = n
    <3> DEFINE S == {ne[k] : k \in 1 .. n}
    <3>1. ne \in [1 .. n -> S]
      BY <2>2
    <3> HIDE DEF S
    <3>2. ne \in Seq(S) /\ Len(ne) = n
      BY <2>1, <3>1
    <3> QED BY <3>2, AnySeq
  <2>5. ASSUME NEW k \in 1 .. n, NEW l \in DOMAIN ne[k].arguments PROVE Good(Len(objects), ne[k].arguments[l])
    BY <1>3, <2>3
  <2> QED BY <1>1, <2>1, <2>4, <2>5 DEF EventsInv, ne
<1> QED BY <1>1, <1>2, <1>9, <1>10, <1>11, WakingKeeps

\* A struct goes back to the pool, with the locals of a thread that was stopped.
LEMMA ReapStep == ASSUME NEW sh, IInv(sh), NEW t \in Threads, Reap(t) PROVE IInv(sh)'
<1> DEFINE r == threads[t]
           u == [r EXCEPT !.state = "FREE"]
           new == <<t>>
<1>1. /\ cur = 0 /\ r.state # "FREE" /\ (r.state = "INACTIVE" \/ Ended(t))
      /\ threads' = [threads EXCEPT ![t].state = "FREE"] /\ pool' = new \o pool
      /\ UNCHANGED <<functions, cur, cells, objects, events, error>>
  BY Zenon DEF Reap, Frozen, memory
<1>2. /\ functions' = functions /\ cur' = cur /\ cells' = cells /\ objects' = objects
      /\ events' = events /\ error' = error
  BY <1>1
<1>3. ThreadOK(functions, sh, objects, t, r) /\ threads = [x \in Threads |-> threads[x]]
  BY DEF IInv, ThreadsInv
<1>4. threads' = Put(threads, t, u)
  BY <1>1 DEF Put
<1> HIDE DEF u
<1>5. /\ threads' = [x \in Threads |-> threads'[x]] /\ threads'[t] = u
      /\ \A x \in Threads : x # t => threads'[x] = threads[x]
  <2> DEFINE nth == Put(threads, t, u)
  <2>1. /\ nth = [x \in Threads |-> nth[x]] /\ nth[t] = u
        /\ \A x \in Threads : x # t => nth[x] = threads[x]
    BY <1>3, PutThread
  <2>2. threads' = nth
    BY <1>4
  <2> HIDE DEF nth
  <2> QED BY ONLY <2>1, <2>2
<1>6. ThreadOK(functions, sh, objects, t, u) /\ u.state = "FREE"
  <2>1. u = [state |-> "FREE", stack |-> r.stack, frames |-> r.frames, result |-> r.result,
             return_value |-> r.return_value, waittill |-> r.waittill, endon |-> r.endon]
    BY <1>3 DEF ThreadOK, IsThread, u
  <2>2. /\ u.state = "FREE" /\ u.stack = r.stack /\ u.frames = r.frames /\ u.result = r.result
        /\ u.return_value = r.return_value /\ u.waittill = r.waittill /\ u.endon = r.endon
    BY ONLY <2>1
  <2>3. IsThread(u)
    BY ONLY <2>1, <2>2 DEF IsThread
  <2> HIDE DEF r
  <2> QED BY <1>3, <2>2, <2>3 DEF ThreadOK, States, Going
<1>7. VerifiedWith(functions, sh)' /\ Excused(error')
  BY <1>2 DEF IInv
<1>8. ThreadsInv(sh)'
  <2>1. \A x \in Threads : ThreadOK(functions, sh, objects, x, threads'[x])
    BY <1>5, <1>6 DEF IInv, ThreadsInv
  <2> QED BY <1>2, <1>5, <2>1 DEF ThreadsInv
<1>9. CalmInv(sh)'
  BY <1>2, <1>5, <1>6 DEF IInv, CalmInv, Going
<1>10. PoolInv'
  <2>1. /\ pool \in Seq(Threads) /\ \A k \in 1 .. Len(pool) : pool[k] \in Threads /\ threads[pool[k]].state = "FREE"
        /\ \A k, l \in 1 .. Len(pool) : pool[k] = pool[l] => k = l
        /\ cur \in 0 .. MaxThreads
    BY DEF IInv, PoolInv
  <2>2. /\ pool' \in Seq(Threads) /\ Len(pool') = Len(pool) + 1 /\ pool'[1] = t /\ Len(pool) \in Nat
        /\ \A k \in 1 .. Len(pool) : pool'[k + 1] = pool[k]
    <3> DEFINE p == pool
               np == new \o p
    <3>1. new \in Seq(Threads) /\ Len(new) = 1 /\ new[1] = t /\ p \in Seq(Threads) /\ Len(p) \in Nat
      BY <2>1
    <3> HIDE DEF new, p
    <3>2. /\ Len(np) = 1 + Len(p) /\ np \in Seq(Threads)
          /\ \A i \in 1 .. Len(p) + 1 : np[i] = IF i <= 1 THEN new[i] ELSE p[i - 1]
      <4>1. /\ Len(np) = Len(new) + Len(p) /\ np \in Seq(Threads)
            /\ \A i \in 1 .. Len(new) + Len(p) : np[i] = IF i <= Len(new) THEN new[i] ELSE p[i - Len(new)]
        BY ONLY <3>1, ConcatProperties
      <4> HIDE DEF np
      <4>2. 1 + Len(p) = Len(p) + 1
        BY <3>1
      <4> QED BY ONLY <3>1, <4>1, <4>2
    <3> HIDE DEF np
    <3>3. np[1] = t /\ \A k \in 1 .. Len(p) : np[k + 1] = p[k]
      <4>1. 1 \in 1 .. Len(p) + 1
        BY <3>1
      <4>2. \A k \in 1 .. Len(p) : k + 1 \in 1 .. Len(p) + 1 /\ ~(k + 1 <= 1) /\ (k + 1) - 1 = k
        BY <3>1
      <4> QED BY <3>1, <3>2, <4>1, <4>2
    <3>4. pool' = np
      BY <1>1 DEF np, p
    <3> QED BY <3>1, <3>2, <3>3, <3>4 DEF p
  <2>3. \A k \in 1 .. Len(pool) : pool[k] # t
    BY <1>1, <2>1
  <2>4. \A k \in 1 .. Len(pool') : k = 1 \/ (k - 1 \in 1 .. Len(pool) /\ pool'[k] = pool[k - 1])
    <3> TAKE k \in 1 .. Len(pool')
    <3> DEFINE i == k - 1
    <3>1. CASE k # 1
      <4>1. i \in 1 .. Len(pool) /\ i + 1 = k
        BY <2>2, <3>1
      <4> HIDE DEF i
      <4>2. pool'[i + 1] = pool[i]
        BY <2>2, <4>1
      <4> QED BY <4>1, <4>2 DEF i
    <3> QED BY <3>1
  <2>5. \A k \in 1 .. Len(pool') : threads'[pool'[k]].state = "FREE"
    BY <1>5, <1>6, <2>1, <2>2, <2>3, <2>4
  <2>6. \A k, l \in 1 .. Len(pool') : pool'[k] = pool'[l] => k = l
    <3> TAKE k, l \in 1 .. Len(pool')
    <3>1. CASE k = 1 /\ l = 1
      BY <3>1
    <3>2. CASE k = 1 /\ l # 1
      BY <2>2, <2>3, <2>4, <3>2
    <3>3. CASE k # 1 /\ l = 1
      BY <2>2, <2>3, <2>4, <3>3
    <3>4. CASE k # 1 /\ l # 1
      <4> DEFINE i == k - 1
                 j == l - 1
      <4>1. i \in 1 .. Len(pool) /\ j \in 1 .. Len(pool) /\ pool'[k] = pool[i] /\ pool'[l] = pool[j]
        BY <2>4, <3>4
      <4>2. k = i + 1 /\ l = j + 1
        BY <2>2
      <4> HIDE DEF i, j
      <4>3. pool'[k] = pool'[l] => i = j
        BY <2>1, <4>1
      <4> QED BY <4>2, <4>3
    <3> QED BY <3>1, <3>2, <3>3, <3>4
  <2> QED BY <1>1, <1>2, <2>1, <2>2, <2>5, <2>6 DEF PoolInv
<1>11. ObjectsInv' /\ CellsInv' /\ EventsInv'
  BY <1>2 DEF IInv, ObjectsInv, CellsInv, EventsInv
<1>12. \A x, j, k : /\ IsLocal(threads', x, j, k) <=> IsLocal(threads, x, j, k) /\ x # t
                    /\ IsLocal(threads', x, j, k) => CellAt(threads', x, j, k) = CellAt(threads, x, j, k)
  BY <1>5, <1>6 DEF IsLocal, CellAt
<1>13. Unshared(threads', objects', cells')
  BY <1>2, <1>12 DEF IInv, Unshared
<1>14. NoneLost'
  <2> SUFFICES ASSUME NoEndon(functions)
               PROVE  /\ AllOwned(threads', objects', cells')
                      /\ \A x \in Threads : threads'[x].state # "FREE" => threads'[x].endon = <<>>
    BY <1>2 DEF NoneLost
  <2>1. AllOwned(threads, objects, cells) /\ \A x \in Threads : threads[x].state # "FREE" => threads[x].endon = <<>>
    BY DEF IInv, NoneLost
  <2>2. ~Ended(t)
    <3>1. threads[t].endon = <<>>
      BY <1>1, <2>1
    <3>2. DOMAIN threads[t].endon = {}
      BY <3>1
    <3> QED BY <3>2 DEF Ended
  <2>3. DOMAIN r.frames = {}
    <3>1. r.state = "INACTIVE"
      BY <1>1, <2>2
    <3> QED BY <1>3, <3>1 DEF ThreadOK
  <2>4. \A j, k : ~IsLocal(threads, t, j, k)
    BY <2>3 DEF IsLocal
  <2>5. AllOwned(threads', objects', cells')
    BY <1>2, <1>12, <2>1, <2>4 DEF AllOwned
  <2>6. \A x \in Threads : threads'[x].state # "FREE" => threads'[x].endon = <<>>
    BY <1>5, <1>6, <2>1
  <2> QED BY <2>5, <2>6
<1> QED BY <1>7, <1>8, <1>9, <1>10, <1>11, <1>13, <1>14 DEF IInv

\* The host calls a function.
LEMMA HostCallStep == ASSUME NEW sh, IInv(sh), NEW f \in Entries, gsc_call(f) PROVE IInv(sh)'
<1> DEFINE args == <<Undef>>
           values == Bind(f, args, TRUE)
<1>1. /\ cur = 0 /\ f \in DOMAIN functions /\ pool # <<>> /\ Enough(f)
      /\ cells' = Initialised(f, values)
      /\ threads' = [threads EXCEPT ![Head(pool)] = Started(f, NoSlot)]
      /\ pool' = Tail(pool)
      /\ UNCHANGED <<functions, cur, objects, events, error>>
  BY Zenon DEF gsc_call, Frozen
<1>2. functions[f].local_count \in Nat
  <2>1. VerifiedFunction(functions, f, sh[f])
    BY <1>1 DEF IInv, VerifiedWith
  <2> QED BY <2>1 DEF VerifiedFunction
<1>3. IsSeq(args) /\ Len(args) = 1 /\ args[1] = Undef
  BY SeqOne
<1>4. \A k \in DOMAIN args : Good(Len(objects), args[k])
  <2>1. DOMAIN args = 1 .. 1
    BY <1>3, SeqLen
  <2> QED BY <1>3, <2>1, Types, GoodPlain
<1> HIDE DEF args
<1>5. DOMAIN values = 1 .. functions[f].local_count /\ \A k \in DOMAIN values : Good(Len(objects), values[k])
  BY <1>2, <1>3, <1>4, BoundGood
<1>6. Base(sh, threads)
  <2>1. SameLocals(threads, threads)
    BY DEF SameLocals
  <2>2. \A t \in Threads : threads[t].state \in Going /\ (t # cur \/ threads[t].state # "ACTIVE") => Calm(sh, threads[t])
    BY DEF IInv, CalmInv
  <2> QED BY <2>1, <2>2 DEF Base, IInv, ThreadsInv
<1>7. SlotOK(Head(pool), NoSlot)
  BY DEF SlotOK
<1>8. threads' = Put(threads, Head(pool), Started(f, NoSlot))
  BY <1>1 DEF Put
<1> HIDE DEF values
<1> QED BY <1>1, <1>5, <1>6, <1>7, <1>8, StartKeeps

-----------------------------------------------------------------------------
(* The start *)

\* A cleared struct.
LEMMA ClearedOK ==
  ASSUME NEW fs, NEW sh, NEW objs, NEW t
  PROVE  ThreadOK(fs, sh, objs, t, Cleared) /\ Cleared.state = "FREE" /\ Cleared.endon = <<>>
<1> DEFINE wait == NoWait
           r == Cleared
<1>1. r = [state |-> "FREE", stack |-> <<>>, frames |-> <<>>, result |-> 0,
           return_value |-> NoSlot, waittill |-> wait, endon |-> <<>>]
  BY DEF Cleared
<1> HIDE DEF wait, r
<1>2. /\ IsThread(r) /\ r.state = "FREE" /\ r.stack = <<>> /\ r.frames = <<>> /\ r.return_value = NoSlot
      /\ r.endon = <<>>
  BY ONLY <1>1 DEF IsThread
<1>3. IsSeq(r.stack) /\ IsSeq(r.frames) /\ IsSeq(r.endon) /\ Len(r.stack) = 0 /\ Len(r.frames) = 0 /\ Len(r.endon) = 0
  BY <1>2, SeqNone
<1>4. 0 <= StackSize /\ 0 <= FrameSize /\ 0 <= MaxEndon
  BY Constants
<1>5. ThreadOK(fs, sh, objs, t, r)
  BY <1>2, <1>3, <1>4 DEF ThreadOK, States, Going, SlotOK
<1> QED BY <1>2, <1>5 DEF r

\* The thread of main.
Main == [Cleared EXCEPT !.state = "ACTIVE",
           !.frames = <<[function |-> "main", ip |-> 0,
                         locals |-> Take(Cells, functions["main"].local_count)]>>]

\* It has executed nothing yet.
LEMMA MainIs ==
  ASSUME NEW fr, fr = [function |-> "main", ip |-> 0, locals |-> Take(Cells, functions["main"].local_count)]
  PROVE  FreshThread(Main, fr, NoSlot)
<1> DEFINE frames == <<fr>>
           wait == NoWait
<1>1. Cleared = [state |-> "FREE", stack |-> <<>>, frames |-> <<>>, result |-> 0,
                 return_value |-> NoSlot, waittill |-> wait, endon |-> <<>>]
  BY DEF Cleared
<1>2. Main = [Cleared EXCEPT !.state = "ACTIVE", !.frames = frames]
  BY DEF Main
<1>3. frames = <<fr>>
  OBVIOUS
<1> HIDE DEF frames, wait
<1>4. Main = [state |-> "ACTIVE", stack |-> <<>>, frames |-> frames, result |-> 0,
              return_value |-> NoSlot, waittill |-> wait, endon |-> <<>>]
  BY <1>1, <1>2
<1> QED BY <1>3, <1>4 DEF FreshThread, IsThread

\* The invariant holds at the start.
LEMMA StartHolds == ASSUME NEW sh, VerifiedWith(functions, sh), Start(functions) PROVE IInv(sh)
<1> DEFINE n == functions["main"].local_count
           fresh == Take(Cells, n)
           fr == [function |-> "main", ip |-> 0, locals |-> fresh]
<1>1. /\ threads = [t \in Threads |-> IF t = 1 THEN Main ELSE Cleared]
      /\ pool = [k \in 1 .. MaxThreads - 1 |-> k + 1]
      /\ cur = 0
      /\ cells = [a \in Cells |-> IF a \in CellsOf(threads[1].frames[1]) THEN Undef ELSE Free]
      /\ objects = <<<<>>>>
      /\ events = <<>>
  BY Zenon DEF Start, Main
<1>2. Excused(error)
  BY Zenon DEF Start, Excused
<1>3. /\ "main" \in DOMAIN functions /\ n <= Cardinality(Cells) /\ VerifiedFunction(functions, "main", sh["main"])
  BY DEF VerifiedWith
<1>4. n \in Nat /\ 0 \in DOMAIN sh["main"] /\ sh["main"][0] = <<>>
  BY <1>3 DEF VerifiedFunction
<1> HIDE DEF n
<1>5. fresh \in [1 .. n -> Cells] /\ \A j, k \in 1 .. n : fresh[j] = fresh[k] => j = k
  <2>1. Cells \in SUBSET Cells
    OBVIOUS
  <2> QED BY <1>3, <1>4, <2>1, Constants, Taken
<1> HIDE DEF fresh
<1>6. fresh \in Seq(Cells) /\ Len(fresh) = n /\ DOMAIN fresh = 1 .. n
  BY <1>4, <1>5
<1>7. fr.function = "main" /\ fr.ip = 0 /\ fr.locals = fresh
      /\ fr = [function |-> fr.function, ip |-> fr.ip, locals |-> fr.locals]
  OBVIOUS
<1>8. FreshThread(Main, fr, NoSlot)
  BY MainIs DEF fresh, n
<1> HIDE DEF fr
<1>9. FrameOK(functions, sh, fr) /\ Shape(sh, fr) = <<>>
  BY <1>3, <1>4, <1>6, <1>7 DEF FrameOK, Shape, n
<1>10. 1 \in Threads /\ MaxThreads \in Nat
  BY Constants DEF Threads
<1> DEFINE r == Main
<1>11. FreshThread(r, fr, NoSlot) /\ SlotOK(1, NoSlot)
  BY <1>8 DEF SlotOK
<1> HIDE DEF r
<1>12. ThreadOK(functions, sh, objects, 1, r)
  BY ONLY <1>9, <1>11, StartFits
<1>13. Calm(sh, r) /\ r.frames[1] = fr /\ \A j : j \in DOMAIN r.frames <=> j = 1
  <2>1. Calm(sh, r)
    BY ONLY <1>9, <1>11, <1>12, StartFits
  <2>2. r.frames[1] = fr
    <3>1. r.frames = <<fr>>
      BY ONLY <1>11 DEF FreshThread
    <3> QED BY ONLY <3>1
  <2>3. \A j : j \in DOMAIN r.frames <=> j = 1
    BY ONLY <1>9, <1>11, <1>12, StartFits
  <2> QED BY <2>1, <2>2, <2>3
<1>15. r.state = "ACTIVE" /\ r.endon = <<>>
  BY <1>11 DEF FreshThread
<1>16. /\ threads = [x \in Threads |-> threads[x]] /\ threads[1] = r
       /\ \A x \in Threads : x # 1 => threads[x] = Cleared
  BY <1>1, <1>10 DEF r
<1>17. ThreadsInv(sh)
  <2>1. \A x \in Threads : ThreadOK(functions, sh, objects, x, threads[x])
    BY <1>12, <1>16, ClearedOK
  <2> QED BY <1>16, <2>1 DEF ThreadsInv
<1>18. \A x \in Threads : x # 1 => threads[x].state = "FREE" /\ threads[x].endon = <<>>
  BY <1>16, ClearedOK
<1>19. CalmInv(sh)
  BY <1>13, <1>16, <1>18 DEF CalmInv, Going
<1>20. PoolInv
  <2>1. MaxThreads - 1 \in Nat
    BY Constants
  <2>2. pool \in [1 .. MaxThreads - 1 -> Threads]
    <3>1. \A k \in 1 .. MaxThreads - 1 : k + 1 \in Threads
      BY <1>10 DEF Threads
    <3> QED BY <1>1, <3>1
  <2>3. pool \in Seq(Threads) /\ Len(pool) = MaxThreads - 1
    BY <2>1, <2>2
  <2>4. \A k \in 1 .. Len(pool) : pool[k] \in Threads /\ pool[k] # 1 /\ pool[k] = k + 1
    BY <1>1, <2>1, <2>2, <2>3
  <2>5. \A k \in 1 .. Len(pool) : threads[pool[k]].state = "FREE"
    BY <1>18, <2>4
  <2>6. \A k, l \in 1 .. Len(pool) : pool[k] = pool[l] => k = l
    BY <2>4, <2>3, <2>1
  <2>7. cur = 0 /\ cur \in 0 .. MaxThreads
    BY <1>1, <1>10
  <2> QED BY <2>3, <2>5, <2>6, <2>7 DEF PoolInv
<1>21. IsSeq(objects) /\ Len(objects) = 1 /\ objects[1] = <<>> /\ DOMAIN objects = 1 .. 1
  <2> DEFINE o == <<>>
             os == <<o>>
  <2>1. IsSeq(os) /\ Len(os) = 1 /\ os[1] = o
    BY SeqOne
  <2>2. DOMAIN os = 1 .. 1
    BY <2>1, SeqLen
  <2>3. objects = os
    BY <1>1
  <2> QED BY <2>1, <2>2, <2>3
<1>22. \A o, f : ~HasKey(objects, o, f)
  BY <1>21 DEF HasKey
<1>23. ObjectsInv
  BY <1>21 DEF ObjectsInv
<1>24. /\ cells = [a \in Cells |-> cells[a]]
       /\ \A a \in Cells : cells[a] = IF a \in CellsOf(fr) THEN Undef ELSE Free
  BY <1>1, <1>13, <1>16
<1>25. Good(Len(objects), Undef) /\ Undef # Free
  BY Types, GoodPlain, GoodIsNotFree
<1>26. CellsInv
  BY <1>24, <1>25 DEF CellsInv
<1>27. EventsInv
  <2>1. IsSeq(events) /\ Len(events) = 0
    BY <1>1, SeqNone
  <2> QED BY <2>1, Constants DEF EventsInv
<1>28. \A t, j, k : /\ IsLocal(threads, t, j, k) <=> t = 1 /\ j = 1 /\ k \in 1 .. n
                    /\ IsLocal(threads, t, j, k) => CellAt(threads, t, j, k) = fresh[k]
  <2> TAKE t, j, k
  <2>1. IsLocal(threads, t, j, k) => t = 1
    BY <1>18 DEF IsLocal
  <2>2. IsLocal(threads, 1, j, k) <=> j = 1 /\ k \in 1 .. n
    <3>1. CASE j = 1
      BY <1>6, <1>7, <1>10, <1>13, <1>15, <1>16, <3>1 DEF IsLocal
    <3>2. CASE j # 1
      BY <1>13, <1>16, <3>2 DEF IsLocal
    <3> QED BY <3>1, <3>2
  <2>3. CellAt(threads, 1, 1, k) = fresh[k]
    BY <1>7, <1>13, <1>16 DEF CellAt
  <2> QED BY <2>1, <2>2, <2>3
<1>29. CellsOf(fr) = {fresh[k] : k \in 1 .. n}
  BY <1>6, <1>7 DEF CellsOf
<1>30. Unshared(threads, objects, cells)
  <2>1. \A k \in 1 .. n : fresh[k] \in Cells /\ cells[fresh[k]] # Free
    BY <1>5, <1>24, <1>25, <1>29
  <2> QED BY <1>5, <1>22, <1>28, <2>1 DEF Unshared
<1>31. NoneLost
  <2>1. AllOwned(threads, objects, cells)
    <3> SUFFICES ASSUME NEW a \in Cells, cells[a] # Free
                 PROVE  \E t, j, k : IsLocal(threads, t, j, k) /\ CellAt(threads, t, j, k) = a
      BY DEF AllOwned
    <3>1. PICK k \in 1 .. n : fresh[k] = a
      BY <1>24, <1>29
    <3>2. IsLocal(threads, 1, 1, k) /\ CellAt(threads, 1, 1, k) = a
      BY <1>28, <3>1
    <3> QED BY <3>2
  <2>2. \A x \in Threads : threads[x].endon = <<>>
    BY <1>15, <1>16, <1>18
  <2> QED BY <2>1, <2>2 DEF NoneLost
<1> QED BY <1>2, <1>17, <1>19, <1>20, <1>23, <1>26, <1>27, <1>30, <1>31 DEF IInv

\* And so it does for some shapes.
LEMMA InitHolds == ASSUME VerifiedInit PROVE \E sh : IInv(sh)
<1>1. PICK sh : VerifiedWith(functions, sh)
  BY DEF VerifiedInit, Verified
<1>2. IInv(sh)
  <2>1. Start(functions)
    BY DEF VerifiedInit
  <2> QED BY <1>1, <2>1, StartHolds
<1> QED BY <1>2

-----------------------------------------------------------------------------
(* Every step *)

\* Every instruction keeps it.
LEMMA ExecuteHolds == ASSUME NEW sh, IInv(sh), Execute PROVE IInv(sh)'
<1>1. CASE OP_POP \/ OP_PUSH
  BY <1>1, PopStep, PushStep
<1>2. CASE OP_UNDEF \/ OP_CONST_0 \/ OP_CONST_1
  BY <1>2, ConstantStep
<1>3. CASE OP_JMP \/ OP_JZ \/ OP_JNZ
  BY <1>3, JumpStep
<1>4. CASE OP_TEST
  BY <1>4, TestStep
<1>5. CASE OP_BINOP \/ OP_UNARY \/ OP_VECTOR
  BY <1>5, BinopStep, UnaryStep, VectorStep
<1>6. CASE OP_LOAD \/ OP_REF \/ OP_GLOBAL
  BY <1>6, LoadStep, RefStep, GlobalStep
<1>7. CASE OP_LOAD_FIELD \/ OP_FIELD_REF
  BY <1>7, LoadFieldStep, FieldRefStep
<1>8. CASE OP_STORE \/ OP_TABLE
  BY <1>8, StoreStep, TableStep
<1>9. CASE OP_CALL \/ OP_CALL_PTR \/ OP_RET
  BY <1>9, CallOpStep, CallPtrStep, RetStep
<1>10. CASE OP_WAIT \/ OP_WAITTILL \/ OP_NOTIFY \/ OP_ENDON
  BY <1>10, WaitStep, WaittillStep, NotifyStep, EndonStep
<1> QED
  BY <1>1, <1>2, <1>3, <1>4, <1>5, <1>6, <1>7, <1>8, <1>9, <1>10 DEF Execute

\* Every visit of the dispatcher keeps it.
LEMMA ScheduleHolds == ASSUME NEW sh, IInv(sh), Schedule PROVE IInv(sh)'
<1>1. CASE OutOfCode
  BY <1>1, OutOfCodeStep
<1>2. CASE Suspend
  BY <1>2, SuspendStep
<1>3. ASSUME NEW t \in Threads, Resume(t) \/ Wake(t) \/ Deliver(t) \/ Reap(t) PROVE IInv(sh)'
  BY <1>3, ResumeStep, WakeStep, DeliverStep, ReapStep
<1>4. ASSUME NEW f \in Entries, gsc_call(f) PROVE IInv(sh)'
  BY <1>4, HostCallStep
<1> QED BY <1>1, <1>2, <1>3, <1>4 DEF Schedule

\* Every step keeps it.
LEMMA NextHolds == ASSUME NEW sh, IInv(sh), [Next]_vars PROVE IInv(sh)'
<1>1. CASE Next
  BY <1>1, ExecuteHolds, ScheduleHolds DEF Next
<1>2. CASE UNCHANGED vars
  <2>1. UNCHANGED <<functions, threads, pool, cur, cells, objects, events>> /\ error' = error
    BY <1>2 DEF vars, memory
  <2>2. Excused(error')
    BY <2>1 DEF IInv
  <2> QED BY <2>1, <2>2, ErrorKeeps
<1> QED BY <1>1, <1>2

\* The code is chosen once.
LEMMA SameCode == ASSUME Next PROVE functions' = functions
<1>1. ASSUME NEW reason, vm_error(reason) PROVE functions' = functions
  BY <1>1 DEF vm_error
<1>2. ASSUME Frozen PROVE functions' = functions
  BY <1>2 DEF Frozen
<1>3. ASSUME NEW t, Continue(t) PROVE functions' = functions
  BY <1>1, <1>2, <1>3, Zenon DEF Continue
<1>4. ASSUME NEW n, NEW v, Operate(n, v) PROVE functions' = functions
  BY <1>1, <1>3, <1>4, Zenon DEF Operate
<1>5. CASE OP_POP
  BY <1>1, <1>3, <1>5, Zenon DEF OP_POP, Pure
<1>6. CASE OP_PUSH
  BY <1>1, <1>3, <1>6, Zenon DEF OP_PUSH, Pure
<1>7. CASE OP_UNDEF
  BY <1>1, <1>3, <1>7, Zenon DEF OP_UNDEF, Pure
<1>8. CASE OP_CONST_0
  BY <1>1, <1>3, <1>8, Zenon DEF OP_CONST_0, Pure
<1>9. CASE OP_CONST_1
  BY <1>1, <1>3, <1>9, Zenon DEF OP_CONST_1, Pure
<1>10. CASE OP_JMP
  BY <1>1, <1>3, <1>10, Zenon DEF OP_JMP, Pure
<1>11. CASE OP_JZ
  BY <1>1, <1>3, <1>11, Zenon DEF OP_JZ, Pure
<1>12. CASE OP_JNZ
  BY <1>1, <1>3, <1>12, Zenon DEF OP_JNZ, Pure
<1>13. CASE OP_GLOBAL
  BY <1>1, <1>3, <1>13, Zenon DEF OP_GLOBAL, Pure
<1>14. CASE OP_TEST
  BY <1>1, <1>2, <1>3, <1>4, <1>14, Zenon DEF OP_TEST
<1>15. CASE OP_BINOP
  BY <1>1, <1>2, <1>3, <1>4, <1>15, Zenon DEF OP_BINOP
<1>16. CASE OP_UNARY
  BY <1>1, <1>2, <1>3, <1>4, <1>16, Zenon DEF OP_UNARY
<1>17. CASE OP_VECTOR
  BY <1>1, <1>2, <1>3, <1>4, <1>17, Zenon DEF OP_VECTOR
<1>18. CASE OP_LOAD
  BY <1>1, <1>2, <1>3, <1>4, <1>18, Zenon DEF OP_LOAD
<1>19. CASE OP_REF
  BY <1>1, <1>2, <1>3, <1>4, <1>19, Zenon DEF OP_REF
<1>20. CASE OP_LOAD_FIELD
  BY <1>1, <1>2, <1>3, <1>4, <1>20, Zenon DEF OP_LOAD_FIELD
<1>21. CASE OP_FIELD_REF
  BY <1>1, <1>2, <1>3, <1>4, <1>21, Zenon DEF OP_FIELD_REF
<1>22. CASE OP_STORE
  BY <1>1, <1>2, <1>3, <1>4, <1>22, Zenon DEF OP_STORE
<1>23. CASE OP_TABLE
  BY <1>1, <1>2, <1>3, <1>4, <1>23, Zenon DEF OP_TABLE
<1>24. CASE OP_RET
  BY <1>1, <1>2, <1>3, <1>4, <1>24, Zenon DEF OP_RET
<1>25. CASE OP_WAIT
  BY <1>1, <1>2, <1>3, <1>4, <1>25, Zenon DEF OP_WAIT
<1>26. CASE OP_WAITTILL
  BY <1>1, <1>2, <1>3, <1>4, <1>26, Zenon DEF OP_WAITTILL
<1>27. CASE OP_NOTIFY
  BY <1>1, <1>2, <1>3, <1>4, <1>27, Zenon DEF OP_NOTIFY
<1>28. CASE OP_ENDON
  BY <1>1, <1>2, <1>3, <1>4, <1>28, Zenon DEF OP_ENDON
<1>29. ASSUME NEW f, Dispatch(f) PROVE functions' = functions
  <2>1. CASE thread_call(f)
    BY <1>1, <1>2, <2>1, Zenon DEF thread_call
  <2>2. CASE thread_call_c_function(f)
    BY <1>1, <1>2, <2>2, Zenon DEF thread_call_c_function
  <2>3. CASE call_function(f)
    BY <1>1, <1>2, <2>3, Zenon DEF call_function
  <2>4. CASE call_c_function(f)
    BY <1>1, <1>2, <2>4, Zenon DEF call_c_function
  <2>5. \/ \E reason : vm_error(reason)
        \/ thread_call(f) \/ thread_call_c_function(f) \/ call_function(f) \/ call_c_function(f)
    BY <1>29, Zenon DEF Dispatch
  <2> QED BY <1>1, <2>1, <2>2, <2>3, <2>4, <2>5
<1>30. CASE OP_CALL
  BY <1>29, <1>30, Zenon DEF OP_CALL
<1>31. CASE OP_CALL_PTR
  BY <1>1, <1>29, <1>31, Zenon DEF OP_CALL_PTR
<1>32. CASE OutOfCode
  BY <1>1, <1>32, Zenon DEF OutOfCode
<1>33. CASE Suspend
  BY <1>2, <1>33, Zenon DEF Suspend
<1>34. ASSUME NEW t \in Threads, Resume(t) \/ Wake(t) \/ Deliver(t) \/ Reap(t) PROVE functions' = functions
  BY <1>2, <1>34, Zenon DEF Resume, Wake, Deliver, Reap
<1>35. ASSUME NEW f \in Entries, gsc_call(f) PROVE functions' = functions
  BY <1>2, <1>35, Zenon DEF gsc_call
<1> QED
  BY <1>5, <1>6, <1>7, <1>8, <1>9, <1>10, <1>11, <1>12, <1>13, <1>14, <1>15, <1>16, <1>17,
    <1>18, <1>19, <1>20, <1>21, <1>22, <1>23, <1>24, <1>25, <1>26, <1>27, <1>28, <1>30,
    <1>31, <1>32, <1>33, <1>34, <1>35, Zenon DEF Next, Execute, Schedule

-----------------------------------------------------------------------------
(* What the invariant says *)

\* The invariant, for some assignment of shapes.
Sound == \E sh : IInv(sh)

\* The thread's part of TypeOK.
LEMMA ThreadShaped ==
  ASSUME NEW sh, IInv(sh), NEW t \in Threads
  PROVE  /\ threads[t].state \in States
         /\ Len(threads[t].stack) <= StackSize /\ Len(threads[t].frames) <= FrameSize
         /\ \A k \in DOMAIN threads[t].frames :
              /\ threads[t].frames[k].function \in DOMAIN functions
              /\ threads[t].frames[k].ip \in 0 .. Len(functions[threads[t].frames[k].function].instructions)
              /\ CellsOf(threads[t].frames[k]) \subseteq Cells
         /\ threads[t].return_value.thread \in 0 .. MaxThreads
         /\ Len(threads[t].endon) <= MaxEndon
<1>1. ThreadOK(functions, sh, objects, t, threads[t]) /\ VerifiedWith(functions, sh)
  BY DEF IInv, ThreadsInv
<1>2. IsSeq(threads[t].frames)
  BY <1>1 DEF ThreadOK
<1>3. ASSUME NEW k \in DOMAIN threads[t].frames
      PROVE  /\ threads[t].frames[k].function \in DOMAIN functions
             /\ threads[t].frames[k].ip \in 0 .. Len(functions[threads[t].frames[k].function].instructions)
             /\ CellsOf(threads[t].frames[k]) \subseteq Cells
  <2> DEFINE fr == threads[t].frames[k]
             length == Len(functions[fr.function].instructions)
  <2>1. k \in 1 .. Len(threads[t].frames)
    BY <1>2, SeqLen
  <2>2. FrameOK(functions, sh, fr)
    BY <1>1, <2>1 DEF ThreadOK
  <2>3. /\ fr.function \in DOMAIN functions /\ fr.ip \in DOMAIN sh[fr.function]
        /\ fr.locals \in Seq(Cells)
    BY <2>2 DEF FrameOK
  <2>4. length \in Nat /\ DOMAIN sh[fr.function] \subseteq 0 .. length - 1
    BY <1>1, <2>3 DEF VerifiedWith, VerifiedFunction
  <2>5. CellsOf(fr) \subseteq Cells
    BY <2>3 DEF CellsOf
  <2> HIDE DEF fr, length
  <2>6. fr.ip \in 0 .. length
    <3>1. fr.ip \in 0 .. length - 1
      BY <2>3, <2>4
    <3> QED BY <2>4, <3>1
  <2> QED BY <2>3, <2>5, <2>6 DEF fr, length
<1>4. threads[t].return_value.thread \in 0 .. MaxThreads
  <2>1. SlotOK(t, threads[t].return_value) /\ MaxThreads \in Nat
    BY <1>1, Constants DEF ThreadOK
  <2> QED BY <2>1 DEF SlotOK, NoSlot, Threads
<1> QED BY <1>1, <1>3, <1>4 DEF ThreadOK

\* The types.
LEMMA SoundTypes == ASSUME Sound PROVE TypeOK
<1>1. PICK sh : IInv(sh)
  BY DEF Sound
<1>2. /\ cur \in 0 .. MaxThreads /\ pool \in Seq(Threads)
      /\ \A k \in 1 .. Len(pool) : threads[pool[k]].state = "FREE"
  BY <1>1 DEF IInv, PoolInv
<1>3. Len(events) <= MaxEvents
  BY <1>1 DEF IInv, EventsInv
<1>4. \A o \in DOMAIN objects : \A f \in DOMAIN objects[o] : objects[o][f] \in Cells
  BY <1>1, SeqLen DEF IInv, ObjectsInv
<1>5. \A k \in DOMAIN pool : threads[pool[k]].state = "FREE"
  BY <1>2
<1> QED BY <1>1, <1>2, <1>3, <1>4, <1>5, ThreadShaped DEF TypeOK, States

\* The errors.
LEMMA SoundErrors == ASSUME Sound PROVE NoInternalError
<1>1. Excused(error)
  BY DEF Sound, IInv
<1> QED BY <1>1, Zenon DEF Excused, NoInternalError

\* The stacks of finished threads.
LEMMA SoundStacks == ASSUME Sound PROVE FinishedThreadsLeaveNothing
<1>1. PICK sh : IInv(sh)
  BY DEF Sound
<1>2. \A t \in Threads : ThreadOK(functions, sh, objects, t, threads[t])
  BY <1>1 DEF IInv, ThreadsInv
<1> QED BY <1>2 DEF FinishedThreadsLeaveNothing, ThreadOK

\* The locals, one by one.
LEMMA LocalsAre ==
  ASSUME NEW v
  PROVE  v \in Locals <=> \E t, j, k : v = <<t, j, k>> /\ IsLocal(threads, t, j, k)
<1>1. ASSUME v \in Locals PROVE \E t, j, k : v = <<t, j, k>> /\ IsLocal(threads, t, j, k)
  <2>1. PICK t \in {u \in Threads : threads[u].state # "FREE"} :
          v \in UNION {{<<t, j, k>> : k \in DOMAIN threads[t].frames[j].locals} : j \in DOMAIN threads[t].frames}
    BY <1>1, Zenon DEF Locals
  <2>2. PICK j \in DOMAIN threads[t].frames : v \in {<<t, j, k>> : k \in DOMAIN threads[t].frames[j].locals}
    BY <2>1, Zenon
  <2>3. PICK k \in DOMAIN threads[t].frames[j].locals : v = <<t, j, k>>
    BY <2>2
  <2> QED BY <2>1, <2>2, <2>3 DEF IsLocal
<1>2. ASSUME NEW t, NEW j, NEW k, v = <<t, j, k>>, IsLocal(threads, t, j, k) PROVE v \in Locals
  <2> DEFINE inner(x, i) == {<<x, i, l>> : l \in DOMAIN threads[x].frames[i].locals}
             outer(x) == UNION {inner(x, i) : i \in DOMAIN threads[x].frames}
  <2>1. t \in {u \in Threads : threads[u].state # "FREE"} /\ j \in DOMAIN threads[t].frames
    BY <1>2 DEF IsLocal
  <2>2. v \in inner(t, j)
    BY <1>2 DEF IsLocal
  <2>3. Locals = UNION {outer(x) : x \in {u \in Threads : threads[u].state # "FREE"}}
    BY Zenon DEF Locals
  <2> HIDE DEF inner
  <2>4. v \in outer(t)
    BY <2>1, <2>2
  <2> HIDE DEF outer
  <2> QED BY <2>1, <2>3, <2>4
<1> QED BY <1>1, <1>2

\* The fields, one by one.
LEMMA FieldsAre ==
  ASSUME NEW v
  PROVE  v \in Fields <=> \E o, f : v = <<o, f>> /\ HasKey(objects, o, f)
BY DEF Fields, HasKey

\* No cell is shared.
LEMMA SoundSharing == ASSUME Sound PROVE NoCellShared
<1>1. Unshared(threads, objects, cells)
  BY DEF Sound, IInv
<1>2. \A v \in Locals : \E t, j, k : v = <<t, j, k>> /\ IsLocal(threads, t, j, k) /\ CellOfLocal(v) = CellAt(threads, t, j, k)
  <2> TAKE v \in Locals
  <2>1. PICK t, j, k : v = <<t, j, k>> /\ IsLocal(threads, t, j, k)
    BY LocalsAre
  <2>2. CellOfLocal(v) = CellAt(threads, t, j, k)
    BY <2>1 DEF CellOfLocal, CellAt
  <2> QED BY <2>1, <2>2
<1>3. \A v \in Fields : \E o, f : v = <<o, f>> /\ HasKey(objects, o, f) /\ CellOfField(v) = objects[o][f]
  <2> TAKE v \in Fields
  <2>1. PICK o, f : v = <<o, f>> /\ HasKey(objects, o, f)
    BY FieldsAre
  <2>2. CellOfField(v) = objects[o][f]
    BY <2>1 DEF CellOfField
  <2> QED BY <2>1, <2>2
<1>4. \A v \in Locals : cells[CellOfLocal(v)] # Free
  BY <1>1, <1>2 DEF Unshared
<1>5. \A v \in Fields : cells[CellOfField(v)] # Free
  BY <1>1, <1>3 DEF Unshared
<1>6. \A v, w \in Locals : CellOfLocal(v) = CellOfLocal(w) => v = w
  <2> TAKE v, w \in Locals
  <2>1. PICK t, j, k : v = <<t, j, k>> /\ IsLocal(threads, t, j, k) /\ CellOfLocal(v) = CellAt(threads, t, j, k)
    BY <1>2
  <2>2. PICK u, i, l : w = <<u, i, l>> /\ IsLocal(threads, u, i, l) /\ CellOfLocal(w) = CellAt(threads, u, i, l)
    BY <1>2
  <2> QED BY <1>1, <2>1, <2>2 DEF Unshared
<1>7. \A v, w \in Fields : CellOfField(v) = CellOfField(w) => v = w
  <2> TAKE v, w \in Fields
  <2>1. PICK o, f : v = <<o, f>> /\ HasKey(objects, o, f) /\ CellOfField(v) = objects[o][f]
    BY <1>3
  <2>2. PICK p, g : w = <<p, g>> /\ HasKey(objects, p, g) /\ CellOfField(w) = objects[p][g]
    BY <1>3
  <2> QED BY <1>1, <2>1, <2>2 DEF Unshared
<1>8. \A v \in Locals, w \in Fields : CellOfLocal(v) # CellOfField(w)
  <2> TAKE v \in Locals, w \in Fields
  <2>1. PICK t, j, k : v = <<t, j, k>> /\ IsLocal(threads, t, j, k) /\ CellOfLocal(v) = CellAt(threads, t, j, k)
    BY <1>2
  <2>2. PICK p, g : w = <<p, g>> /\ HasKey(objects, p, g) /\ CellOfField(w) = objects[p][g]
    BY <1>3
  <2> QED BY <1>1, <2>1, <2>2 DEF Unshared
<1> QED BY <1>4, <1>5, <1>6, <1>7, <1>8 DEF NoCellShared

\* Without endon every cell in use has an owner.
LEMMA SoundOwners == ASSUME Sound, NoEndon(functions) PROVE CellsOwned
<1>1. AllOwned(threads, objects, cells)
  BY DEF Sound, IInv, NoneLost
<1>2. ASSUME NEW a \in Cells, cells[a] # Free
      PROVE  (\E v \in Locals : CellOfLocal(v) = a) \/ (\E v \in Fields : CellOfField(v) = a)
  <2>1. CASE \E t, j, k : IsLocal(threads, t, j, k) /\ CellAt(threads, t, j, k) = a
    <3>1. PICK t, j, k : IsLocal(threads, t, j, k) /\ CellAt(threads, t, j, k) = a
      BY <2>1
    <3> DEFINE v == <<t, j, k>>
    <3>2. v \in Locals
      BY <3>1, LocalsAre
    <3>3. CellOfLocal(v) = a
      BY <3>1 DEF CellOfLocal, CellAt
    <3> QED BY <3>2, <3>3
  <2>2. CASE \E o, f : HasKey(objects, o, f) /\ objects[o][f] = a
    <3>1. PICK o, f : HasKey(objects, o, f) /\ objects[o][f] = a
      BY <2>2
    <3> DEFINE v == <<o, f>>
    <3>2. v \in Fields
      BY <3>1, FieldsAre
    <3>3. CellOfField(v) = a
      BY <3>1 DEF CellOfField
    <3> QED BY <3>2, <3>3
  <2> QED BY <1>1, <1>2, <2>1, <2>2 DEF AllOwned
<1> QED BY <1>2, SoundSharing DEF CellsOwned

\* References of waiting threads are alive.
LEMMA SoundDelivery == ASSUME Sound PROVE DeliveryTargetsAlive
<1>1. PICK sh : IInv(sh)
  BY DEF Sound
<1> SUFFICES ASSUME NEW t \in Threads, threads[t].state = "WAITING_EVENT",
                    NEW k \in DOMAIN threads[t].waittill.arguments
             PROVE  LET a == threads[t].waittill.arguments[k].refval IN
                    /\ cells[a] # Free
                    /\ \/ a \in CellsOf(threads[t].frames[Len(threads[t].frames)])
                       \/ \E o \in DOMAIN objects : \E f \in DOMAIN objects[o] : objects[o][f] = a
  BY DEF DeliveryTargetsAlive
<1>2. ThreadOK(functions, sh, objects, t, threads[t])
  BY <1>1 DEF IInv, ThreadsInv
<1>3. Target(objects, Last(threads[t]), threads[t].waittill.arguments[k])
  BY <1>2 DEF ThreadOK, WaitOK
<1>4. cells[threads[t].waittill.arguments[k].refval] # Free
  BY <1>1, <1>3, TargetLive DEF Going
<1> QED BY <1>3, <1>4 DEF Target, IsField, Last

-----------------------------------------------------------------------------
(* What holds of every run of verified code *)

\* Code keeps the shapes it was verified with: some assignment of shapes to the
\* instructions describes the stack of every thread in every state.
THEOREM Soundness == VerifiedSpec => []Sound
<1>1. VerifiedInit => Sound
  BY InitHolds DEF Sound
<1>2. Sound /\ [Next]_vars => Sound'
  BY NextHolds DEF Sound
<1> QED BY <1>1, <1>2, PTL DEF VerifiedSpec

\* Frames stay inside the code of functions the machine has, locals and fields
\* are cells, and the free list of threads holds free structs.
THEOREM WellTyped == VerifiedSpec => []TypeOK
BY Soundness, SoundTypes, PTL

\* Verified code never pops an empty stack, takes a value for a reference, uses a
\* slot that is free or runs off its end: it stops only by a mistake of the
\* script or when something is used up (vm.c: pop, local, op_store_field,
\* run_thread).
THEOREM NoInternalErrors == VerifiedSpec => []NoInternalError
BY Soundness, SoundErrors, PTL

\* A thread that has returned has nothing left on its stack (vm.c: OP_RET).
THEOREM NothingLeft == VerifiedSpec => []FinishedThreadsLeaveNothing
BY Soundness, SoundStacks, PTL

\* No two variables ever share a slot of the pool uo, and no variable's slot is
\* on the free list (vm.c: call_function, OP_RET, OP_FIELD_REF).
THEOREM NothingShared == VerifiedSpec => []NoCellShared
BY Soundness, SoundSharing, PTL

\* An event is stored in variables of the waiting thread's own frame or in
\* fields, and never in a slot that was freed meanwhile (vm.c: vm_run_threads).
THEOREM DeliveryIsSafe == VerifiedSpec => []DeliveryTargetsAlive
BY Soundness, SoundDelivery, PTL

\* Code without endon loses no slot: each one in use belongs to a variable.  (A
\* thread that endon stops keeps its locals: vm_run_threads does not free them.)
THEOREM NothingLost == VerifiedSpec /\ NoEndon(functions) => []CellsOwned
<1>1. NoEndon(functions) /\ [Next]_vars => NoEndon(functions)'
  <2>1. [Next]_vars => functions' = functions
    BY SameCode DEF vars
  <2> QED BY <2>1 DEF NoEndon
<1>2. Sound /\ NoEndon(functions) => CellsOwned
  BY SoundOwners
<1>3. VerifiedSpec => [][Next]_vars
  BY DEF VerifiedSpec
<1> QED BY <1>1, <1>2, <1>3, Soundness, PTL
=============================================================================
