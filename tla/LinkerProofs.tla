---------------------------- MODULE LinkerProofs ----------------------------
(***************************************************************************)
(* Linking for every set of files, names, includes and failures: what a    *)
(* table of functions holds never changes, comes from a file that is       *)
(* reached and compiled, and brings the functions it calls with it.        *)
(***************************************************************************)
EXTENDS Linker, Induction, TLAPS

\* The includes of a file are stored one after the other.
IncludesArePrefix ==
  \A p \in Keys :
    /\ Len(includes[p]) <= Len(disk[p].includes)
    /\ \A i \in 1 .. Len(includes[p]) : includes[p][i] = disk[p].includes[i]

\* Without a failed allocation only a compiled file has functions.
UnfinishedAreEmpty ==
  faults = 0 => \A p \in Keys : Unfinished(p) => \A n \in Names : functions[p][n] = NONE

\* A table that has one function of a file has a function under every name the
\* file defines.
FunctionsComeTogether ==
  faults = 0 =>
    \A p \in Keys : \A n, m \in Names :
      functions[p][n] # NONE /\ m \in Own(functions[p][n]) => functions[p][m] # NONE

\* What a table holds under a name comes from the nearest file that defines it:
\* whoever defines the name on the way there would have kept its own.
NearestCopied ==
  \A p \in Keys : \A n \in Names :
    functions[p][n] # NONE => Defines(functions[p][n], n) /\ ReachesPast(p, functions[p][n], n)

\* The function that runs is still where it was found, in a compiled file.
FrameIsFound ==
  faults = 0 /\ frame # NONE =>
    /\ status[frame.file] = "DONE"
    /\ \E n \in Names : functions[frame.file][n] = frame.origin

Tables ==
  /\ OwnFunctionsWin
  /\ NothingFromFailed
  /\ IncludesArePrefix
  /\ UnfinishedAreEmpty
  /\ FunctionsComeTogether
  /\ NearestCopied
  /\ FrameIsFound

\* Where gsc_compile is, and the dependencies it has yet to register.
Control ==
  /\ pc \in {"register", "initialise"} => path \in Keys
  /\ pc \in {"host", "link", "initialise"} => pending = <<>>
  /\ pc \in {"host", "link"} => path = NONE
  /\ pc = "initialise" => todo \subseteq InitNames(path)

Dependencies(p) == Members(disk[p].includes) \cup Members(disk[p].references)

DependenciesListed ==
  faults = 0 =>
    \A p \in Keys : status[p] = "DONE" =>
      Dependencies(p) \subseteq Members(files) \cup (IF p = path THEN Members(pending) ELSE {})

IInv == TypeOK /\ Tables /\ Control /\ DependenciesListed

-----------------------------------------------------------------------------
(* Sequences and tables *)

LEMMA AppendedFile ==
  ASSUME NEW S, NEW s \in Seq(S), NEW e \in S
  PROVE  Append(s, e) \in Seq(S) /\ Members(Append(s, e)) = Members(s) \cup {e}
<1>1. Append(s, e) \in Seq(S) /\ Len(Append(s, e)) = Len(s) + 1
  OBVIOUS
<1>2. \A i \in 1 .. Len(s) : Append(s, e)[i] = s[i]
  OBVIOUS
<1>3. Append(s, e)[Len(s) + 1] = e
  OBVIOUS
<1> QED BY <1>1, <1>2, <1>3 DEF Members

LEMMA MembersOfConcatenation ==
  ASSUME NEW S, NEW s \in Seq(S), NEW t \in Seq(S)
  PROVE  Members(s \o t) = Members(s) \cup Members(t)
<1>1. s \o t \in Seq(S) /\ Len(s \o t) = Len(s) + Len(t)
  OBVIOUS
<1>2. \A i \in 1 .. Len(s) : (s \o t)[i] = s[i]
  OBVIOUS
<1>3. \A i \in 1 .. Len(t) : (s \o t)[Len(s) + i] = t[i]
  OBVIOUS
<1>4. Members(s \o t) \subseteq Members(s) \cup Members(t)
  <2> SUFFICES ASSUME NEW i \in 1 .. Len(s) + Len(t)
               PROVE  (s \o t)[i] \in Members(s) \cup Members(t)
    BY <1>1 DEF Members
  <2>1. CASE i <= Len(s)
    BY <1>2, <2>1 DEF Members
  <2>2. CASE i > Len(s)
    <3>1. i - Len(s) \in 1 .. Len(t) /\ Len(s) + (i - Len(s)) = i
      BY <2>2
    <3> QED BY <1>3, <3>1 DEF Members
  <2> QED BY <2>1, <2>2
<1>5. Members(s) \subseteq Members(s \o t)
  <2> SUFFICES ASSUME NEW i \in 1 .. Len(s) PROVE s[i] \in Members(s \o t)
    BY DEF Members
  <2>1. i \in 1 .. Len(s) + Len(t)
    OBVIOUS
  <2> QED BY <1>1, <1>2, <2>1 DEF Members
<1>6. Members(t) \subseteq Members(s \o t)
  <2> SUFFICES ASSUME NEW i \in 1 .. Len(t) PROVE t[i] \in Members(s \o t)
    BY DEF Members
  <2>1. Len(s) + i \in 1 .. Len(s) + Len(t)
    OBVIOUS
  <2>2. (s \o t)[Len(s) + i] = t[i]
    BY <1>3
  <2> QED BY <1>1, <2>1, <2>2 DEF Members
<1> QED BY <1>4, <1>5, <1>6

LEMMA HeadAndTail ==
  ASSUME NEW S, NEW s \in Seq(S), s # <<>>
  PROVE  Head(s) \in S /\ Tail(s) \in Seq(S) /\ Members(s) = {Head(s)} \cup Members(Tail(s))
<1>1. Len(s) \in Nat \ {0} /\ Head(s) = s[1] /\ Tail(s) \in Seq(S) /\ Len(Tail(s)) = Len(s) - 1
  OBVIOUS
<1>2. \A i \in 1 .. Len(s) - 1 : Tail(s)[i] = s[i + 1]
  OBVIOUS
<1>3. Members(s) \subseteq {Head(s)} \cup Members(Tail(s))
  <2>1. ASSUME NEW i \in 1 .. Len(s), i # 1 PROVE s[i] \in Members(Tail(s))
    <3>1. i - 1 \in 1 .. Len(s) - 1 /\ (i - 1) + 1 = i
      BY <1>1, <2>1
    <3>2. Tail(s)[i - 1] = s[i] /\ i - 1 \in DOMAIN Tail(s)
      BY <1>1, <1>2, <3>1
    <3> QED BY <3>2 DEF Members
  <2> QED BY <1>1, <2>1 DEF Members
<1>4. Members(Tail(s)) \subseteq Members(s)
  <2>1. \A i \in 1 .. Len(s) - 1 : i + 1 \in 1 .. Len(s)
    BY <1>1
  <2> QED BY <1>1, <1>2, <2>1 DEF Members
<1>5. Head(s) \in S /\ Head(s) \in Members(s)
  BY <1>1 DEF Members
<1> QED BY <1>1, <1>3, <1>4, <1>5

LEMMA Elements ==
  ASSUME NEW S, NEW s \in Seq(S)
  PROVE  \A i \in DOMAIN s : s[i] \in S
OBVIOUS

LEMMA MembersTyped ==
  ASSUME NEW S, NEW T, NEW s \in Seq(S), Members(s) \subseteq T
  PROVE  s \in Seq(T)
BY DEF Members

\* What is on the disk names files without their extension.
LEMMA OnDisk ==
  ASSUME TypeOK, NEW p \in Keys
  PROVE  /\ disk[p] \in Contents
         /\ disk[p].includes \in Seq(Keys) /\ disk[p].references \in Seq(Keys)
         /\ Members(disk[p].functions) \subseteq Names
         /\ InitNames(p) \subseteq Globals
<1>1. disk[p] \in Contents /\ Members(disk[p].includes) \cup Members(disk[p].references) \subseteq Keys
  BY DisksAssumption DEF TypeOK
<1>2. /\ disk[p].includes \in Seq(Paths) /\ disk[p].references \in Seq(Paths)
      /\ disk[p].functions \in Seq(Names)
      /\ disk[p].inits \in Seq([name : Globals, from : Globals \cup {NONE}])
  BY <1>1 DEF Contents
<1>3. disk[p].includes \in Seq(Keys) /\ disk[p].references \in Seq(Keys)
  BY <1>1, <1>2, MembersTyped
<1>4. Members(disk[p].functions) \subseteq Names
  BY <1>2 DEF Members
<1>5. InitNames(p) \subseteq Globals
  <2> DEFINE inits == disk[p].inits
  <2>1. InitNames(p) = {inits[i].name : i \in DOMAIN inits}
    BY DEF InitNames, Inits
  <2>2. inits \in Seq([name : Globals, from : Globals \cup {NONE}])
    BY <1>2
  <2> HIDE DEF inits
  <2>3. \A i \in DOMAIN inits : inits[i] \in [name : Globals, from : Globals \cup {NONE}]
    BY <2>2, Elements
  <2>4. \A i \in DOMAIN inits : inits[i].name \in Globals
    BY <2>3
  <2> QED BY <2>1, <2>4
<1> QED BY <1>1, <1>3, <1>4, <1>5

LEMMA FirstFunctions ==
  ASSUME TypeOK, NEW p \in Keys, NEW k \in 0 .. Len(disk[p].functions)
  PROVE  /\ Members(SubSeq(disk[p].functions, 1, k)) \subseteq Names
         /\ Members(SubSeq(disk[p].functions, 1, k)) \subseteq Members(disk[p].functions)
<1>1. disk[p].functions \in Seq(Names)
  BY OnDisk DEF Contents
<1>2. SubSeq(disk[p].functions, 1, k) \in Seq(Names)
  BY <1>1
<1>3. Members(SubSeq(disk[p].functions, 1, k)) \subseteq Names
  BY <1>2, Elements DEF Members
<1>4. Members(SubSeq(disk[p].functions, 1, k)) \subseteq Members(disk[p].functions)
  <2> DEFINE s == disk[p].functions
  <2>1. s \in Seq(Names) /\ k \in 0 .. Len(s)
    BY <1>1
  <2> HIDE DEF s
  <2>2. Len(SubSeq(s, 1, k)) = k /\ \A i \in 1 .. k : SubSeq(s, 1, k)[i] = s[i]
    BY <2>1
  <2>3. 1 .. k \subseteq DOMAIN s /\ DOMAIN SubSeq(s, 1, k) = 1 .. k
    BY <2>1
  <2>4. Members(SubSeq(s, 1, k)) \subseteq Members(s)
    BY <2>2, <2>3 DEF Members
  <2> QED BY <2>4 DEF s
<1> QED BY <1>3, <1>4

LEMMA TrimmedIsKey ==
  ASSUME NEW p \in Paths
  PROVE  Trimmed[p] \in Keys
BY TrimmedAssumption

LEMMA KeysArePaths == Keys \subseteq Paths /\ NONE \notin Keys
BY PathsAssumption DEF Keys

\* The table of files stays one, whatever state a file takes.
LEMMA FileStored ==
  ASSUME TypeOK, NEW p \in Keys, NEW s \in States \ {"ABSENT"},
         find_or_create_compiled_file(p, s)
  PROVE  /\ files' \in Seq(Keys)
         /\ \A i, k \in DOMAIN files' : files'[i] = files'[k] => i = k
         /\ status' \in [Paths -> States]
         /\ \A q \in Paths : q \in Members(files') <=> status'[q] # "ABSENT"
         /\ Members(files') = Members(files) \cup {p}
<1>0. p \in Paths
  BY KeysArePaths
<1>1. status' = [status EXCEPT ![p] = s] /\ status' \in [Paths -> States]
  BY <1>0 DEF find_or_create_compiled_file, TypeOK
<1>2. CASE status[p] # "ABSENT"
  <2>1. files' = files /\ p \in Members(files)
    BY <1>0, <1>2 DEF find_or_create_compiled_file, TypeOK
  <2> QED BY <1>0, <1>1, <2>1 DEF TypeOK
<1>3. CASE status[p] = "ABSENT"
  <2>1. files' = Append(files, p) /\ p \notin Members(files) /\ files \in Seq(Keys)
    BY <1>0, <1>3 DEF find_or_create_compiled_file, TypeOK
  <2>2. files' \in Seq(Keys) /\ Members(files') = Members(files) \cup {p}
    BY <2>1, AppendedFile
  <2>3. \A i, k \in DOMAIN files' : files'[i] = files'[k] => i = k
    <3>1. DOMAIN files' = 1 .. Len(files) + 1 /\ files'[Len(files) + 1] = p
      BY <2>1
    <3>2. \A i \in 1 .. Len(files) : files'[i] = files[i] /\ files[i] # p
      BY <2>1 DEF Members
    <3>3. \A i, k \in 1 .. Len(files) : files[i] = files[k] => i = k
      BY <2>1 DEF TypeOK
    <3> QED BY <2>1, <3>1, <3>2, <3>3
  <2> QED BY <1>0, <1>1, <2>2, <2>3 DEF TypeOK
<1> QED BY <1>2, <1>3

LEMMA ReachesGrows ==
  ASSUME NEW p \in Keys, NEW q,
         \A x \in Keys : Members(includes[x]) \subseteq Members(includes'[x]),
         Reaches(p, q)
  PROVE  Reaches(p, q)'
BY DEF Reaches

LEMMA ReachesPastGrows ==
  ASSUME NEW p \in Keys, NEW q, NEW n, disk' = disk,
         \A x \in Keys : Members(includes[x]) \subseteq Members(includes'[x]),
         ReachesPast(p, q, n)
  PROVE  ReachesPast(p, q, n)'
<1> SUFFICES ASSUME NEW S \in SUBSET Keys, p \in S,
                    \A x \in S : Defines(x, n)' \/ Members(includes'[x]) \subseteq S
             PROVE  q \in S
  BY DEF ReachesPast, Members
<1>1. \A x \in S : Defines(x, n) <=> Defines(x, n)'
  BY DEF Defines, Members
<1>2. \A x \in S : Defines(x, n) \/ Members(includes[x]) \subseteq S
  BY <1>1
<1> QED BY <1>2 DEF ReachesPast

-----------------------------------------------------------------------------
(* The tables *)

\* A step whose tables keep every function they have.
Kept ==
  /\ functions' \in [Paths -> [Names -> Keys \cup {NONE}]]
  /\ \A p \in Keys : \A n \in Names :
       functions[p][n] # NONE => functions'[p][n] = functions[p][n]
  /\ \A p \in Keys : status[p] = "DONE" => status'[p] = "DONE"
  /\ UNCHANGED <<disk, frame>>
  /\ faults' \in {faults, faults + 1}

LEMMA KeptFacts ==
  ASSUME TypeOK, Tables, Kept
  PROVE  /\ faults' = 0 => faults = 0
         /\ \A p \in Keys : \A n \in Names : functions[p][n] \in Keys \cup {NONE}
         /\ FrameIsFound'
         /\ \A p \in Keys : \A n \in Names : n \in Own(p) => n \in Own(p)'
<1>1. faults' = 0 => faults = 0
  BY DEF Kept, TypeOK
<1>2. \A p \in Keys : \A n \in Names : functions[p][n] \in Keys \cup {NONE}
  BY KeysArePaths DEF TypeOK
<1>3. FrameIsFound'
  <2> SUFFICES ASSUME faults' = 0, frame # NONE
               PROVE  /\ status'[frame.file] = "DONE"
                      /\ \E n \in Names : functions'[frame.file][n] = frame.origin
    BY DEF Kept, FrameIsFound
  <2>0. status[frame.file] = "DONE"
    BY <1>1 DEF Tables, FrameIsFound
  <2>1. PICK n \in Names : functions[frame.file][n] = frame.origin
    BY <1>1 DEF Tables, FrameIsFound
  <2>2. frame.file \in Keys /\ frame.origin # NONE
    BY KeysArePaths DEF TypeOK
  <2> QED BY <2>0, <2>1, <2>2 DEF Kept
<1>4. \A p \in Keys : \A n \in Names : n \in Own(p) => n \in Own(p)'
  BY KeysArePaths DEF Kept, Own
<1> QED BY <1>1, <1>2, <1>3, <1>4

\* Steps that register files, or do not touch the tables at all.
LEMMA TablesKept ==
  ASSUME TypeOK, Tables, UNCHANGED <<disk, functions, includes, frame>>,
         faults' \in {faults, faults + 1},
         \A q \in Keys : \/ status'[q] = status[q]
                         \/ Unfinished(q) /\ status'[q] \in {"NULL", "NOT_STARTED"}
  PROVE  Tables'
<1>0. Kept
  BY DEF Kept, TypeOK, Unfinished
<1>1. faults' = 0 => faults = 0
  BY <1>0, KeptFacts
<1>2. FrameIsFound'
  BY <1>0, KeptFacts
<1>3. \A q \in Keys : status[q] = "DONE" <=> status'[q] = "DONE"
  BY DEF Unfinished
<1>4. \A q \in Keys : Unfinished(q)' => Unfinished(q)
  BY DEF Unfinished
<1>5. OwnFunctionsWin' /\ UnfinishedAreEmpty' /\ IncludesArePrefix'
  BY <1>1, <1>3, <1>4 DEF Tables, OwnFunctionsWin, UnfinishedAreEmpty, IncludesArePrefix, Own
<1>6. NothingFromFailed'
  <2> SUFFICES ASSUME NEW p \in Keys, NEW n \in Names, NEW q, functions'[p][n] = q, q \notin {p, NONE}
               PROVE  /\ status'[p] = "DONE" /\ Reaches(p, q)' /\ n \in Own(q)'
                      /\ faults' = 0 => status'[q] = "DONE"
    BY DEF NothingFromFailed
  <2>1. q \in Keys
    BY <1>0, KeptFacts
  <2>2. /\ status[p] = "DONE" /\ Reaches(p, q) /\ n \in Own(q)
        /\ faults = 0 => status[q] = "DONE"
    BY DEF Tables, NothingFromFailed
  <2>3. Reaches(p, q)'
    BY <2>2 DEF Reaches
  <2>4. n \in Own(q)'
    BY <2>2 DEF Own
  <2> QED BY <1>1, <1>3, <2>1, <2>2, <2>3, <2>4
<1>7. FunctionsComeTogether'
  BY <1>1 DEF Tables, FunctionsComeTogether, Own
<1>8. NearestCopied'
  BY DEF Tables, NearestCopied, Defines, ReachesPast, Members
<1> QED BY <1>2, <1>5, <1>6, <1>7, <1>8 DEF Tables

\* compile_file, as far as it gets: the functions of a file of which nothing
\* was copied yet.
LEMMA TablesCompiled ==
  ASSUME TypeOK, Tables, NEW p \in Keys, Unfinished(p), NEW names \in SUBSET Names,
         names \subseteq Members(disk[p].functions),
         NEW s \in {"NOT_STARTED", "DONE", "FAILED"}, NEW l \in Seq(Keys),
         Compiled(p, names),
         status' = [status EXCEPT ![p] = s],
         includes' = [includes EXCEPT ![p] = l],
         Len(includes[p]) <= Len(l), Len(l) <= Len(disk[p].includes),
         \A i \in 1 .. Len(l) : l[i] = disk[p].includes[i],
         s = "DONE" => Members(disk[p].functions) \subseteq names,
         UNCHANGED <<disk, frame>>,
         faults' \in {faults, faults + 1},
         s = "NOT_STARTED" => faults' = faults + 1
  PROVE  Tables' /\ functions' \in [Paths -> [Names -> Keys \cup {NONE}]]
<1>0. p \in Paths /\ NONE \notin Keys /\ status[p] # "DONE"
  BY KeysArePaths DEF Unfinished
<1>1. /\ functions' \in [Paths -> [Names -> Keys \cup {NONE}]]
      /\ \A n \in Names : functions'[p][n] = IF n \in names THEN p ELSE functions[p][n]
      /\ \A r \in Keys \ {p} : functions'[r] = functions[r] /\ status'[r] = status[r]
      /\ status'[p] = s
  BY <1>0, KeysArePaths DEF Compiled, TypeOK
<1>2. \A n \in Names : functions[p][n] \in {p, NONE}
  BY <1>0 DEF Tables, NothingFromFailed
<1>3. Kept
  <2>1. \A q \in Keys : status[q] = "DONE" => status'[q] = "DONE"
    BY <1>0, <1>1
  <2> QED BY <1>1, <1>2, <2>1 DEF Kept
<1>4. /\ faults' = 0 => faults = 0
      /\ \A q \in Keys : \A n \in Names : functions[q][n] \in Keys \cup {NONE}
      /\ \A q \in Keys : \A n \in Names : n \in Own(q) => n \in Own(q)'
      /\ FrameIsFound'
  BY <1>3, KeptFacts
<1>5. \A q \in Keys : Members(includes[q]) \subseteq Members(includes'[q])
  <2>1. includes \in [Paths -> Seq(Keys)] /\ includes'[p] = l
    BY <1>0 DEF TypeOK
  <2>2. /\ includes[p] \in Seq(Keys)
        /\ \A i \in 1 .. Len(includes[p]) : i \in 1 .. Len(l) /\ includes[p][i] = l[i]
    <3>1. includes[p] \in Seq(Keys)
      BY <1>0, <2>1
    <3>2. Len(includes[p]) \in Nat /\ Len(l) \in Nat
      BY <3>1
    <3>3. \A i \in 1 .. Len(includes[p]) : includes[p][i] = disk[p].includes[i]
      BY DEF Tables, IncludesArePrefix
    <3> QED BY <3>1, <3>2, <3>3
  <2>3. Members(includes[p]) \subseteq Members(l)
    <3>1. DOMAIN includes[p] = 1 .. Len(includes[p]) /\ DOMAIN l = 1 .. Len(l)
      BY <2>2
    <3> QED BY ONLY <2>2, <3>1 DEF Members
  <2>4. \A q \in Keys \ {p} : includes'[q] = includes[q]
    BY <2>1, KeysArePaths
  <2> QED BY <2>1, <2>3, <2>4
<1>6. OwnFunctionsWin'
  <2> SUFFICES ASSUME NEW q \in Keys, status'[q] = "DONE", NEW n \in Members(disk[q].functions)
               PROVE  n \in Own(q)'
    BY DEF OwnFunctionsWin
  <2>1. n \in Names
    BY OnDisk
  <2>2. CASE q = p
    BY <1>1, <2>1, <2>2 DEF Own
  <2>3. CASE q # p
    BY <1>1, <1>4, <2>1, <2>3 DEF Tables, OwnFunctionsWin
  <2> QED BY <2>2, <2>3
<1>7. NothingFromFailed'
  <2> SUFFICES ASSUME NEW r \in Keys, NEW n \in Names, NEW q, functions'[r][n] = q, q \notin {r, NONE}
               PROVE  /\ status'[r] = "DONE" /\ Reaches(r, q)' /\ n \in Own(q)'
                      /\ faults' = 0 => status'[q] = "DONE"
    BY DEF NothingFromFailed
  <2>1. r # p /\ functions[r][n] = q /\ q \in Keys
    BY <1>1, <1>2, <1>4
  <2>2. /\ status[r] = "DONE" /\ Reaches(r, q) /\ n \in Own(q)
        /\ faults = 0 => status[q] = "DONE"
    BY <2>1 DEF Tables, NothingFromFailed
  <2>3. Reaches(r, q)'
    BY <1>5, <2>1, <2>2, ReachesGrows
  <2>4. n \in Own(q)'
    BY <1>4, <2>1, <2>2
  <2>5. faults' = 0 => status'[q] = "DONE"
    BY <1>0, <1>1, <1>4, <2>1, <2>2
  <2> QED BY <1>1, <2>1, <2>2, <2>3, <2>4, <2>5
<1>8. IncludesArePrefix'
  BY <1>0, KeysArePaths DEF Tables, IncludesArePrefix, TypeOK
<1>9. UnfinishedAreEmpty'
  <2> SUFFICES ASSUME faults' = 0, NEW q \in Keys, Unfinished(q)', NEW n \in Names
               PROVE  functions'[q][n] = NONE
    BY DEF UnfinishedAreEmpty
  <2>1. s # "NOT_STARTED"
    BY DEF TypeOK
  <2>2. q # p
    BY <1>1, <2>1 DEF Unfinished
  <2> QED BY <1>1, <1>4, <2>2 DEF Unfinished, Tables, UnfinishedAreEmpty
<1>10. FunctionsComeTogether'
  <2> SUFFICES ASSUME faults' = 0, NEW r \in Keys, NEW n \in Names, NEW m \in Names,
                      NEW v, functions'[r][n] = v, v # NONE, m \in Own(v)'
               PROVE  functions'[r][m] # NONE
    BY DEF FunctionsComeTogether
  <2>1. CASE r = p
    <3>1. v = p
      BY <1>1, <1>2, <2>1
    <3> QED BY <1>0, <2>1, <3>1 DEF Own
  <2>2. CASE r # p
    <3>1. functions[r][n] = v /\ v \in Keys
      BY <1>1, <1>4, <2>2
    <3>2. v # p
      BY <1>0, <1>4, <2>2, <3>1 DEF Tables, NothingFromFailed
    <3>3. m \in Own(v)
      BY <1>1, <3>1, <3>2 DEF Own
    <3>4. functions[r][m] # NONE
      BY <1>4, <3>1, <3>3 DEF Tables, FunctionsComeTogether
    <3> QED BY <1>1, <2>2, <3>4
  <2> QED BY <2>1, <2>2
<1>11. NearestCopied'
  <2> SUFFICES ASSUME NEW r \in Keys, NEW n \in Names, NEW v, functions'[r][n] = v, v # NONE
               PROVE  Defines(v, n)' /\ ReachesPast(r, v, n)'
    BY DEF NearestCopied
  <2>1. CASE functions[r][n] = v
    <3>1. Defines(v, n) /\ ReachesPast(r, v, n)
      BY <2>1 DEF Tables, NearestCopied
    <3>2. Defines(v, n)'
      BY <3>1 DEF Defines, Members
    <3> QED BY <1>5, <3>1, <3>2, ReachesPastGrows
  <2>2. CASE functions[r][n] # v
    <3>1. r = p /\ v = p /\ n \in names
      BY <1>1, <2>2
    <3>2. Defines(v, n)'
      BY <3>1 DEF Defines, Members
    <3> QED BY <3>1, <3>2 DEF ReachesPast
  <2> QED BY <2>1, <2>2
<1> QED BY <1>1, <1>4, <1>6, <1>7, <1>8, <1>9, <1>10, <1>11 DEF Tables

\* gsc_link copies what a file lacks from a file it includes, or some of it if
\* an allocation fails.
LEMMA TablesLinked ==
  ASSUME TypeOK, Tables, NEW p \in Keys, NEW q \in Keys, NEW names \in SUBSET Names,
         status[p] = "DONE", get_file(q), q \in Members(includes[p]),
         functions' = [functions EXCEPT ![p] = functions'[p]],
         \A n \in Names :
           functions'[p][n] = IF n \in names /\ functions[p][n] = NONE THEN functions[q][n]
                              ELSE functions[p][n],
         functions'[p] \in [Names -> Keys \cup {NONE}],
         UNCHANGED <<disk, status, includes, frame>>,
         faults' \in {faults, faults + 1},
         faults' = 0 => names = Names
  PROVE  Tables' /\ functions' \in [Paths -> [Names -> Keys \cup {NONE}]]
<1>0. p \in Paths /\ NONE \notin Keys
  BY KeysArePaths
<1>1. /\ functions' \in [Paths -> [Names -> Keys \cup {NONE}]]
      /\ \A r \in Keys \ {p} : functions'[r] = functions[r]
  <2> DEFINE table == functions'[p]
  <2>1. functions' = [functions EXCEPT ![p] = table] /\ table \in [Names -> Keys \cup {NONE}]
    OBVIOUS
  <2> HIDE DEF table
  <2> QED BY <1>0, <2>1, KeysArePaths DEF TypeOK
<1>2. Kept
  BY <1>1 DEF Kept
<1>3. /\ faults' = 0 => faults = 0
      /\ \A r \in Keys : \A n \in Names : functions[r][n] \in Keys \cup {NONE}
      /\ \A r \in Keys : \A n \in Names : n \in Own(r) => n \in Own(r)'
      /\ FrameIsFound'
  BY <1>2, KeptFacts
<1>4. \A r \in Keys : \A n \in Names : n \in Own(r)' => n \in Own(r)
  <2> SUFFICES ASSUME NEW n \in Names, functions'[p][n] = p PROVE functions[p][n] = p
    BY <1>1 DEF Own
  <2>1. CASE functions[p][n] # NONE
    BY <2>1
  <2>2. CASE functions[p][n] = NONE
    <3>1. functions[q][n] = p
      BY <1>0, <2>2
    <3>2. q # p
      BY <1>0, <2>2, <3>1
    <3> QED BY <1>0, <3>1, <3>2 DEF Tables, NothingFromFailed, Own
  <2> QED BY <2>1, <2>2
<1>5. OwnFunctionsWin'
  <2> SUFFICES ASSUME NEW r \in Keys, status[r] = "DONE", NEW n \in Members(disk[r].functions)
               PROVE  n \in Own(r)'
    BY DEF OwnFunctionsWin
  <2>1. n \in Names
    BY OnDisk
  <2> QED BY <1>3, <2>1 DEF Tables, OwnFunctionsWin
<1>6. NothingFromFailed'
  <2> SUFFICES ASSUME NEW r \in Keys, NEW n \in Names, NEW v, functions'[r][n] = v, v \notin {r, NONE}
               PROVE  /\ status[r] = "DONE" /\ Reaches(r, v)' /\ n \in Own(v)'
                      /\ faults' = 0 => status[v] = "DONE"
    BY DEF NothingFromFailed
  <2>1. CASE functions[r][n] = v
    <3>1. v \in Keys
      BY <1>3, <2>1
    <3>2. /\ status[r] = "DONE" /\ Reaches(r, v) /\ n \in Own(v)
          /\ faults = 0 => status[v] = "DONE"
      BY <2>1, <3>1, <1>0 DEF Tables, NothingFromFailed
    <3>3. Reaches(r, v)'
      BY <3>2 DEF Reaches
    <3> QED BY <1>3, <3>1, <3>2, <3>3
  <2>2. CASE functions[r][n] # v
    <3>1. r = p /\ functions[q][n] = v /\ v \in Keys /\ v # p
      BY <1>1, <1>3, <2>2
    <3>2. Reaches(p, q)
      BY DEF Reaches
    <3>3. CASE v = q
      <4>1. n \in Own(q)'
        <5>1. n \in Own(q)
          BY <3>1, <3>3 DEF Own
        <5> QED BY <1>3, <5>1
      <4>2. faults = 0 => status[q] = "DONE"
        BY <1>0, <3>1 DEF get_file, Unfinished, Tables, UnfinishedAreEmpty
      <4>3. Reaches(p, q)'
        BY <3>2 DEF Reaches
      <4> QED BY <1>3, <3>1, <3>3, <4>1, <4>2, <4>3
    <3>4. CASE v # q
      <4>1. /\ Reaches(q, v) /\ n \in Own(v)
            /\ faults = 0 => status[v] = "DONE"
        BY <1>0, <3>1, <3>4 DEF Tables, NothingFromFailed
      <4>2. Reaches(p, v)'
        BY <3>2, <4>1 DEF Reaches
      <4> QED BY <1>3, <3>1, <4>1, <4>2
    <3> QED BY <3>3, <3>4
  <2> QED BY <2>1, <2>2
<1>7. UnfinishedAreEmpty'
  BY <1>1, <1>3 DEF Tables, UnfinishedAreEmpty, Unfinished
<1>8. FunctionsComeTogether'
  <2> SUFFICES ASSUME faults' = 0, NEW r \in Keys, NEW n \in Names, NEW m \in Names,
                      NEW v, functions'[r][n] = v, v # NONE, m \in Own(v)'
               PROVE  functions'[r][m] # NONE
    BY DEF FunctionsComeTogether
  <2>0. faults = 0 /\ names = Names
    BY <1>3
  <2>1. CASE functions[r][n] = v
    <3>1. v \in Keys /\ m \in Own(v)
      BY <1>3, <1>4, <2>1
    <3>2. functions[r][m] # NONE
      BY <2>0, <2>1, <3>1 DEF Tables, FunctionsComeTogether
    <3> QED BY <1>2, <3>2 DEF Kept
  <2>2. CASE functions[r][n] # v
    <3>1. r = p /\ functions[q][n] = v
      BY <1>1, <2>2
    <3>2. v \in Keys /\ m \in Own(v)
      BY <1>3, <1>4, <3>1
    <3>3. functions[q][m] # NONE
      BY <2>0, <3>1, <3>2 DEF Tables, FunctionsComeTogether
    <3> QED BY <2>0, <3>1, <3>3
  <2> QED BY <2>1, <2>2
<1>9. IncludesArePrefix'
  BY DEF Tables, IncludesArePrefix
<1>10. NearestCopied'
  <2> SUFFICES ASSUME NEW r \in Keys, NEW n \in Names, NEW v, functions'[r][n] = v, v # NONE
               PROVE  Defines(v, n) /\ ReachesPast(r, v, n)
    <3>1. \A v, n : Defines(v, n)' <=> Defines(v, n)
      BY DEF Defines, Members
    <3>2. \A r, v, n : ReachesPast(r, v, n)' <=> ReachesPast(r, v, n)
      BY <3>1 DEF ReachesPast, Members
    <3> QED BY <3>1, <3>2 DEF NearestCopied
  <2>1. CASE functions[r][n] = v
    BY <2>1 DEF Tables, NearestCopied
  <2>2. CASE functions[r][n] # v
    <3>1. r = p /\ functions[q][n] = v /\ functions[p][n] = NONE
      BY <1>1, <2>2
    <3>2. Defines(v, n) /\ ReachesPast(q, v, n)
      BY <3>1 DEF Tables, NearestCopied
    <3>3. ~Defines(p, n)
      BY <1>0, <3>1 DEF Tables, OwnFunctionsWin, Own, Defines
    <3>4. ReachesPast(p, v, n)
      BY <3>2, <3>3 DEF ReachesPast
    <3> QED BY <3>1, <3>2, <3>4
  <2> QED BY <2>1, <2>2
<1> QED BY <1>1, <1>3, <1>5, <1>6, <1>7, <1>8, <1>9, <1>10 DEF Tables

-----------------------------------------------------------------------------
(* The actions.  Requests name files with or without their extension. *)

\* What compiling, well or not, does to the tables: TablesCompiled for the
\* actions that store functions.
LEMMA CompileStep ==
  ASSUME IInv, NEW request \in Paths, gsc_compile(request)
  PROVE  IInv'
<1> DEFINE p == Trimmed[request]
<1>0. /\ pc = "host" /\ Unfinished(p)
      /\ find_or_create_compiled_file(p, "DONE")
      /\ Compiled(p, Members(disk[p].functions))
      /\ includes' = [includes EXCEPT ![p] = disk[p].includes]
      /\ pc' = "register" /\ path' = p
      /\ pending' = disk[p].references \o disk[p].includes
      /\ links' = 0
      /\ UNCHANGED <<disk, store, todo, it, inc, faults, frame>>
  BY DEF gsc_compile
<1>1. p \in Keys /\ p \in Paths
  BY TrimmedIsKey, KeysArePaths
<1> HIDE DEF p
<1>2. TypeOK /\ Tables
  BY DEF IInv
<1>3. /\ disk[p].includes \in Seq(Keys) /\ disk[p].references \in Seq(Keys)
      /\ Members(disk[p].functions) \subseteq Names
  BY <1>1, <1>2, OnDisk
<1>4. /\ files' \in Seq(Keys)
      /\ \A i, k \in DOMAIN files' : files'[i] = files'[k] => i = k
      /\ status' \in [Paths -> States]
      /\ \A q \in Paths : q \in Members(files') <=> status'[q] # "ABSENT"
      /\ Members(files') = Members(files) \cup {p}
  BY <1>0, <1>1, <1>2, FileStored DEF States
<1>5. Tables' /\ functions' \in [Paths -> [Names -> Keys \cup {NONE}]]
  <2>1. status' = [status EXCEPT ![p] = "DONE"]
    BY <1>0 DEF find_or_create_compiled_file
  <2>2. Len(includes[p]) <= Len(disk[p].includes)
    BY <1>1, <1>2 DEF Tables, IncludesArePrefix
  <2>3. Len(disk[p].includes) <= Len(disk[p].includes)
    BY <1>3
  <2> QED BY <1>0, <1>1, <1>2, <1>3, <2>1, <2>2, <2>3, TablesCompiled
<1>6. pending' \in Seq(Keys) /\ Members(pending') = Dependencies(p)
  BY <1>0, <1>3, MembersOfConcatenation DEF Dependencies
<1>7. TypeOK'
  <2>1. includes' \in [Paths -> Seq(Keys)]
    BY <1>0, <1>1, <1>2, <1>3 DEF TypeOK
  <2> QED BY <1>0, <1>1, <1>2, <1>4, <1>5, <1>6, <2>1 DEF TypeOK, store
<1>8. Control'
  BY <1>0, <1>1 DEF Control
<1>9. DependenciesListed'
  <2> SUFFICES ASSUME faults' = 0, NEW q \in Keys, status'[q] = "DONE"
               PROVE  Dependencies(q)' \subseteq Members(files') \cup
                                                  (IF q = path' THEN Members(pending') ELSE {})
    BY DEF DependenciesListed, Members
  <2>1. Dependencies(q)' = Dependencies(q)
    BY <1>0 DEF Dependencies, Members
  <2>2. CASE q = p
    BY <1>0, <1>6, <2>1, <2>2
  <2>3. CASE q # p
    <3>1. status[q] = "DONE" /\ path # q
      BY <1>0, <1>1, <1>2, <2>3, KeysArePaths DEF find_or_create_compiled_file, TypeOK, IInv, Control
    <3> QED BY <1>0, <1>4, <2>1, <3>1 DEF IInv, DependenciesListed
  <2> QED BY <2>2, <2>3
<1> QED BY <1>5, <1>7, <1>8, <1>9 DEF IInv

\* Steps that compile nothing.
LEMMA StillListed ==
  ASSUME DependenciesListed, disk' = disk, faults' = 0 => faults = 0,
         \A q \in Keys : status'[q] = "DONE" => status[q] = "DONE",
         Members(files) \subseteq Members(files'),
         Members(pending) \subseteq Members(files') \cup (IF path = path' THEN Members(pending') ELSE {})
  PROVE  DependenciesListed'
<1> SUFFICES ASSUME faults' = 0, NEW q \in Keys, status'[q] = "DONE"
             PROVE  Dependencies(q)' \subseteq Members(files') \cup
                                                (IF q = path' THEN Members(pending') ELSE {})
  BY DEF DependenciesListed, Members
<1>1. Dependencies(q)' = Dependencies(q)
  BY DEF Dependencies, Members
<1>2. Dependencies(q) \subseteq Members(files) \cup (IF q = path THEN Members(pending) ELSE {})
  BY DEF DependenciesListed
<1> QED BY <1>1, <1>2

LEMMA CompileErrorStep ==
  ASSUME IInv, NEW request \in Paths, gsc_compile_error(request)
  PROVE  IInv'
<1> DEFINE p == Trimmed[request]
<1>0. /\ pc = "host" /\ Unfinished(p)
      /\ find_or_create_compiled_file(p, "FAILED")
      /\ \E k \in 0 .. Len(disk[p].functions) : Compiled(p, Members(SubSeq(disk[p].functions, 1, k)))
      /\ UNCHANGED <<disk, includes, store, pc, call, link, faults, frame>>
  BY DEF gsc_compile_error
<1>1. p \in Keys /\ p \in Paths
  BY TrimmedIsKey, KeysArePaths
<1> HIDE DEF p
<1>2. TypeOK /\ Tables
  BY DEF IInv
<1>3. PICK k \in 0 .. Len(disk[p].functions) : Compiled(p, Members(SubSeq(disk[p].functions, 1, k)))
  BY <1>0
<1>4. /\ Members(SubSeq(disk[p].functions, 1, k)) \subseteq Names
      /\ Members(SubSeq(disk[p].functions, 1, k)) \subseteq Members(disk[p].functions)
  BY <1>1, <1>2, FirstFunctions
<1>5. /\ files' \in Seq(Keys)
      /\ \A i, j \in DOMAIN files' : files'[i] = files'[j] => i = j
      /\ status' \in [Paths -> States]
      /\ \A q \in Paths : q \in Members(files') <=> status'[q] # "ABSENT"
      /\ Members(files') = Members(files) \cup {p}
  BY <1>0, <1>1, <1>2, FileStored DEF States
<1>6. status' = [status EXCEPT ![p] = "FAILED"]
  BY <1>0 DEF find_or_create_compiled_file
<1>7. Tables' /\ functions' \in [Paths -> [Names -> Keys \cup {NONE}]]
  <2>1. includes[p] \in Seq(Keys) /\ includes' = [includes EXCEPT ![p] = includes[p]]
    BY <1>0, <1>1, <1>2 DEF TypeOK
  <2>2. /\ Len(includes[p]) <= Len(includes[p]) /\ Len(includes[p]) <= Len(disk[p].includes)
        /\ \A i \in 1 .. Len(includes[p]) : includes[p][i] = disk[p].includes[i]
    BY <1>1, <1>2, <2>1 DEF Tables, IncludesArePrefix
  <2> QED BY <1>0, <1>1, <1>2, <1>3, <1>4, <1>6, <2>1, <2>2, TablesCompiled
<1>8. TypeOK'
  BY <1>0, <1>2, <1>5, <1>7 DEF TypeOK, store, call, link
<1>9. Control'
  BY <1>0 DEF IInv, Control, call, InitNames, Inits
<1>10. DependenciesListed'
  <2>1. \A q \in Keys : status'[q] = "DONE" => status[q] = "DONE"
    BY <1>1, <1>2, <1>6, KeysArePaths DEF TypeOK
  <2> QED BY <1>0, <1>5, <2>1, StillListed DEF IInv, call
<1> QED BY <1>7, <1>8, <1>9, <1>10 DEF IInv

LEMMA RegisterStep ==
  ASSUME IInv, Register
  PROVE  IInv'
<1> DEFINE p == Head(pending)
           s == IF Unfinished(p) THEN "NOT_STARTED" ELSE status[p]
<1>0. /\ pc = "register" /\ pending # <<>>
      /\ find_or_create_compiled_file(p, s)
      /\ pending' = Tail(pending)
      /\ UNCHANGED <<disk, functions, includes, store, pc, path, todo, link, faults, frame>>
  BY DEF Register
<1>1. TypeOK /\ Tables /\ Control /\ DependenciesListed
  BY DEF IInv
<1>2. /\ p \in Keys /\ pending' \in Seq(Keys)
      /\ Members(pending) = {p} \cup Members(pending')
  BY <1>0, <1>1, HeadAndTail DEF TypeOK
<1>3. s \in States \ {"ABSENT"}
  BY <1>1, <1>2, KeysArePaths DEF TypeOK, States, Unfinished
<1>4. s = status[p] \/ (Unfinished(p) /\ s = "NOT_STARTED")
  BY DEF Unfinished
<1> HIDE DEF p, s
<1>5. status' = [status EXCEPT ![p] = s]
  BY <1>0 DEF find_or_create_compiled_file
<1>6. \A q \in Keys : \/ status'[q] = status[q]
                      \/ Unfinished(q) /\ status'[q] \in {"NULL", "NOT_STARTED"}
  BY <1>1, <1>2, <1>4, <1>5, KeysArePaths DEF TypeOK
<1>7. /\ files' \in Seq(Keys)
      /\ \A i, k \in DOMAIN files' : files'[i] = files'[k] => i = k
      /\ status' \in [Paths -> States]
      /\ \A q \in Paths : q \in Members(files') <=> status'[q] # "ABSENT"
      /\ Members(files') = Members(files) \cup {p}
  BY <1>0, <1>1, <1>2, <1>3, FileStored
<1>8. Tables'
  BY <1>0, <1>1, <1>6, TablesKept
<1>9. TypeOK'
  BY <1>0, <1>1, <1>2, <1>7 DEF TypeOK, store, link
<1>10. Control'
  BY <1>0, <1>1 DEF Control
<1>11. DependenciesListed'
  <2>1. \A q \in Keys : status'[q] = "DONE" => status[q] = "DONE"
    BY <1>6
  <2> QED BY <1>0, <1>1, <1>2, <1>7, <2>1, StillListed
<1> QED BY <1>8, <1>9, <1>10, <1>11 DEF IInv

\* Steps that leave the table of files alone.
LEMMA FilesAlone ==
  ASSUME IInv, UNCHANGED <<disk, files, status, functions, includes, frame>>,
         faults' \in {faults, faults + 1},
         Members(pending) \subseteq (IF path = path' THEN Members(pending') ELSE {})
  PROVE  Tables' /\ DependenciesListed'
<1>1. TypeOK /\ Tables /\ DependenciesListed /\ (faults' = 0 => faults = 0)
  BY DEF IInv, TypeOK
<1>2. Tables'
  BY <1>1, TablesKept
<1>3. DependenciesListed'
  BY <1>1, StillListed
<1> QED BY <1>2, <1>3

LEMMA NothingPending == Members(<<>>) = {}
BY DEF Members

LEMMA InitialiseSteps ==
  ASSUME IInv,
         \/ Registered \/ Initialised
         \/ \E g \in Globals : Initialise(g) \/ InitialiseError(g)
         \/ \E g \in HostGlobals : gsc_set_global(g)
  PROVE  IInv'
<1>1. TypeOK /\ Control
  BY DEF IInv
<1>2. CASE Registered
  <2>0. /\ pc = "register" /\ pending = <<>> /\ pc' = "initialise" /\ todo' = InitNames(path)
        /\ UNCHANGED <<disk, tables, store, path, pending, link, faults, frame>>
    BY <1>2 DEF Registered
  <2>1. path \in Keys /\ todo' \subseteq Globals
    BY <1>1, <2>0, OnDisk DEF Control
  <2>2. TypeOK'
    BY <1>1, <2>0, <2>1 DEF TypeOK, tables, store, link
  <2>3. Control'
    BY <2>0, <2>1 DEF Control, InitNames, Inits
  <2> QED BY <2>0, <2>2, <2>3, FilesAlone DEF IInv, tables
<1>3. CASE Initialised \/ \E g \in Globals : InitialiseError(g)
  <2>0. /\ pc = "initialise" /\ pc' = "host" /\ path' = NONE /\ pending' = <<>> /\ todo' = {}
        /\ UNCHANGED <<disk, tables, store, link, faults, frame>>
    BY <1>3 DEF Initialised, InitialiseError, ReturnToHost
  <2>1. TypeOK'
    BY <1>1, <2>0 DEF TypeOK, tables, store, link
  <2>2. Control' /\ Members(pending) = {}
    BY <1>1, <2>0, NothingPending DEF Control
  <2> QED BY <2>0, <2>1, <2>2, FilesAlone DEF IInv, tables
<1>4. ASSUME NEW g \in Globals, Initialise(g) PROVE IInv'
  <2> DEFINE from == Inits(path)[InitOf(path, g)].from
             v == IF from = NONE THEN path ELSE value[from]
  <2>0. /\ pc = "initialise" /\ g \in todo
        /\ Known(from) /\ value' = [value EXCEPT ![g] = v]
        /\ globals' = IF g \in Members(globals) THEN globals ELSE Append(globals, g)
        /\ todo' = todo \ {g}
        /\ UNCHANGED <<disk, tables, pc, path, pending, link, faults, frame>>
    BY <1>4 DEF Initialise
  <2>1. path \in Keys /\ todo \subseteq InitNames(path)
    BY <1>1, <2>0 DEF Control
  <2>2. from = NONE \/ from \in Globals
    <3>1. InitNames(path) \subseteq Globals
      BY <1>1, <2>1, OnDisk
    <3>2. Members(globals) \subseteq Globals
      BY <1>1 DEF TypeOK, Members
    <3> HIDE DEF from
    <3> QED BY <2>0, <3>1, <3>2 DEF Known
  <2>3. v \in Keys \cup {NONE}
    BY <1>1, <2>1, <2>2 DEF TypeOK
  <2> HIDE DEF from, v
  <2>4. value' \in [Globals -> Keys \cup {NONE}] /\ globals' \in Seq(Globals)
    BY <1>1, <2>0, <2>3 DEF TypeOK
  <2>5. TypeOK'
    BY <1>1, <2>0, <2>4 DEF TypeOK, tables, link
  <2>6. Control'
    BY <1>1, <2>0 DEF Control, InitNames, Inits
  <2> QED BY <2>0, <2>5, <2>6, FilesAlone DEF IInv, tables
<1>5. ASSUME NEW g \in HostGlobals, gsc_set_global(g) PROVE IInv'
  <2>1. g \in Globals
    BY GlobalsAssumption
  <2>2. value' \in [Globals -> Keys \cup {NONE}] /\ globals' \in Seq(Globals)
    BY <1>1, <1>5, <2>1 DEF TypeOK, gsc_set_global
  <2>3. TypeOK'
    BY <1>1, <1>5, <2>2 DEF TypeOK, gsc_set_global, tables, call, link
  <2>4. Control'
    BY <1>1, <1>5 DEF Control, gsc_set_global, call, InitNames, Inits
  <2> QED BY <1>5, <2>3, <2>4, FilesAlone DEF IInv, gsc_set_global, tables, call
<1> QED BY <1>2, <1>3, <1>4, <1>5

LEMMA LinkSteps ==
  ASSUME IInv, gsc_link \/ LinkNextFile \/ Linked \/ NullFile
  PROVE  IInv'
<1>1. TypeOK /\ Control
  BY DEF IInv
<1>2. /\ UNCHANGED <<disk, files, status, functions, includes, globals, value, path, pending, todo,
                     faults, frame>>
      /\ it' \in Nat \ {0} /\ inc' \in Nat \ {0} /\ links' \in Nat
      /\ pc \in {"host", "link"} /\ pc' \in {"host", "link", "crash"}
  BY <1>1 DEF gsc_link, LinkNextFile, Linked, NullFile, Linking, tables, store, call, link, TypeOK
<1>3. TypeOK'
  BY <1>1, <1>2 DEF TypeOK
<1>4. Control'
  BY <1>1, <1>2 DEF Control
<1> QED BY <1>2, <1>3, <1>4, FilesAlone DEF IInv

\* A step of gsc_link that stores functions.
LEMMA CopyStep ==
  ASSUME IInv, Linking, status[files[it]] = "DONE", inc <= Len(includes[files[it]]),
         get_file(includes[files[it]][inc]), NEW names \in SUBSET Names,
         functions' = [functions EXCEPT ![files[it]] =
                         [n \in Names |-> IF n \in names
                                          THEN Copied(files[it], includes[files[it]][inc])[files[it]][n]
                                          ELSE @[n]]],
         UNCHANGED <<disk, status, includes, frame>>,
         faults' \in {faults, faults + 1},
         faults' = 0 => names = Names
  PROVE  Tables' /\ functions' \in [Paths -> [Names -> Keys \cup {NONE}]]
<1> DEFINE p == files[it]
           q == includes[p][inc]
<1>1. TypeOK /\ Tables
  BY DEF IInv
<1>2. p \in Keys
  BY <1>1 DEF TypeOK, Linking
<1>3. q \in Keys /\ q \in Members(includes[p])
  <2>1. includes[p] \in Seq(Keys) /\ inc \in 1 .. Len(includes[p])
    BY <1>1, <1>2, KeysArePaths DEF TypeOK
  <2> QED BY <2>1, Elements DEF Members
<1> HIDE DEF p, q
<1>4. \A n \in Names :
        Copied(p, q)[p][n] = IF functions[p][n] = NONE THEN functions[q][n] ELSE functions[p][n]
  BY <1>1, <1>2, KeysArePaths DEF Copied, TypeOK
<1>5. functions' = [functions EXCEPT ![p] = functions'[p]]
  BY <1>1, <1>2, KeysArePaths DEF TypeOK, p, q
<1>6. \A n \in Names :
        functions'[p][n] = IF n \in names /\ functions[p][n] = NONE THEN functions[q][n]
                           ELSE functions[p][n]
  <2>1. functions'[p] = [n \in Names |-> IF n \in names THEN Copied(p, q)[p][n] ELSE functions[p][n]]
    BY <1>1, <1>2, KeysArePaths DEF TypeOK, p, q
  <2> QED BY <1>4, <2>1
<1>7. functions'[p] \in [Names -> Keys \cup {NONE}]
  <2>1. functions'[p] = [n \in Names |-> IF n \in names THEN Copied(p, q)[p][n] ELSE functions[p][n]]
    BY <1>1, <1>2, KeysArePaths DEF TypeOK, p, q
  <2>2. \A n \in Names : functions[p][n] \in Keys \cup {NONE} /\ functions[q][n] \in Keys \cup {NONE}
    BY <1>1, <1>2, <1>3, KeysArePaths DEF TypeOK
  <2> QED BY <1>4, <2>1, <2>2
<1>8. status[p] = "DONE" /\ get_file(q)
  BY DEF p, q
<1>9. /\ functions' = [functions EXCEPT ![p] = functions'[p]]
      /\ UNCHANGED <<disk, status, includes, frame>> /\ faults' \in {faults, faults + 1}
      /\ faults' = 0 => names = Names
  BY <1>5
<1> HIDE DEF p, q
<1> QED BY ONLY <1>1, <1>2, <1>3, <1>5, <1>6, <1>7, <1>8, <1>9, TablesLinked

LEMMA LinkIncludeStep ==
  ASSUME IInv, LinkInclude
  PROVE  IInv'
<1> DEFINE p == files[it]
           q == includes[p][inc]
<1>0. /\ Linking /\ status[p] = "DONE" /\ inc <= Len(includes[p])
      /\ functions' = IF get_file(q) THEN Copied(p, q) ELSE functions
      /\ inc' = inc + 1
      /\ UNCHANGED <<disk, files, status, includes, store, pc, call, it, links, faults, frame>>
  BY DEF LinkInclude
<1>1. TypeOK /\ Tables /\ Control
  BY DEF IInv
<1>2. Tables' /\ functions' \in [Paths -> [Names -> Keys \cup {NONE}]]
  <2>1. CASE get_file(q)
    <3>1. functions' = [functions EXCEPT ![p] =
                          [n \in Names |-> IF n \in Names THEN Copied(p, q)[p][n] ELSE @[n]]]
      <4>1. p \in Paths
        BY <1>0, <1>1, KeysArePaths DEF TypeOK, Linking
      <4> HIDE DEF p, q
      <4> QED BY <1>0, <1>1, <2>1, <4>1 DEF Copied, TypeOK
    <3> QED BY <1>0, <2>1, <3>1, CopyStep
  <2>2. CASE ~get_file(q)
    <3>1. functions' = functions
      BY <1>0, <2>2
    <3> QED BY <1>0, <1>1, <3>1, TablesKept DEF TypeOK
  <2> QED BY <2>1, <2>2
<1>3. TypeOK'
  BY <1>0, <1>1, <1>2 DEF TypeOK, store, call
<1>4. Control'
  BY <1>0, <1>1 DEF Control, call, InitNames, Inits
<1>5. DependenciesListed'
  BY <1>0, <1>1, StillListed DEF IInv, call
<1> QED BY <1>2, <1>3, <1>4, <1>5 DEF IInv

\* A script that runs changes only the frame.
LEMMA CallSteps ==
  ASSUME IInv,
         \/ \E n \in Names :
              \/ OP_CALL(n) \/ OP_CALL_PTR(n)
              \/ \E p \in Paths : gsc_call(p, n) \/ CallFile(p, n)
         \/ Return
  PROVE  IInv'
<1>1. TypeOK /\ Tables /\ Control /\ DependenciesListed
  BY DEF IInv
<1>2. UNCHANGED <<disk, tables, store, pc, call, link, faults>>
  BY DEF OP_CALL, OP_CALL_PTR, gsc_call, CallFile, Return, Enter
<1>3. \/ frame' = NONE
      \/ \E p \in Keys, n \in Names :
           /\ get_file(p) /\ functions[p][n] # NONE
           /\ frame' = [file |-> p, origin |-> functions[p][n]]
  <2>1. ASSUME NEW p, p \in Paths, NEW n \in Names, Enter(p, n)
        PROVE  p \in Keys /\ get_file(p) /\ functions[p][n] # NONE
               /\ frame' = [file |-> p, origin |-> functions[p][n]]
    <3>1. p \in Members(files)
      BY <1>1, <2>1 DEF Enter, get_file, TypeOK
    <3>2. p \in Keys
      BY <1>1, <3>1 DEF TypeOK, Members
    <3> QED BY <2>1, <3>2 DEF Enter
  <2>2. frame # NONE => frame.file \in Paths /\ frame.origin \in Paths
    BY <1>1, KeysArePaths DEF TypeOK
  <2>3. CASE Return
    BY <2>3 DEF Return
  <2>4. CASE \E n \in Names : OP_CALL(n)
    BY <2>1, <2>2, <2>4 DEF OP_CALL
  <2>5. CASE \E n \in Names : OP_CALL_PTR(n)
    BY <2>1, <2>2, <2>5 DEF OP_CALL_PTR
  <2>6. CASE \E n \in Names, p \in Paths : gsc_call(p, n) \/ CallFile(p, n)
    BY <2>1, <2>6 DEF gsc_call, CallFile
  <2> QED BY <2>3, <2>4, <2>5, <2>6
<1>4. FrameIsFound'
  <2>1. ASSUME faults = 0, NEW p \in Keys, get_file(p), NEW n \in Names, functions[p][n] # NONE
        PROVE  status[p] = "DONE"
    BY <1>1, <2>1 DEF Tables, UnfinishedAreEmpty, Unfinished, get_file
  <2> QED BY <1>2, <1>3, <2>1 DEF FrameIsFound, tables
<1>5. TypeOK'
  <2>1. frame' \in [file : Keys, origin : Keys] \cup {NONE}
    BY <1>1, <1>3, KeysArePaths DEF TypeOK
  <2> QED BY <1>1, <1>2, <2>1 DEF TypeOK, tables, store, call, link
<1>6. OwnFunctionsWin' /\ IncludesArePrefix' /\ UnfinishedAreEmpty'
  BY <1>1, <1>2 DEF Tables, OwnFunctionsWin, IncludesArePrefix, UnfinishedAreEmpty, Unfinished, Own, tables
<1>7. NothingFromFailed' /\ FunctionsComeTogether'
  BY <1>1, <1>2 DEF Tables, NothingFromFailed, FunctionsComeTogether, Reaches, Own, tables
<1>10. NearestCopied'
  BY <1>1, <1>2 DEF Tables, NearestCopied, Defines, ReachesPast, Members, tables
<1>8. Control'
  BY <1>1, <1>2 DEF Control, call, InitNames, Inits
<1>9. DependenciesListed'
  BY <1>1, <1>2, StillListed DEF tables, call
<1> QED BY <1>4, <1>5, <1>6, <1>7, <1>10, <1>8, <1>9 DEF IInv, Tables

\* An allocation that fails.
LEMMA CompileNoMemoryStep ==
  ASSUME IInv, NEW request \in Paths, CompileNoMemory(request)
  PROVE  IInv'
<1> DEFINE p == Trimmed[request]
<1>0. /\ pc = "host" /\ Unfinished(p) /\ faults' = faults + 1
      /\ \/ /\ find_or_create_compiled_file(p, "NULL")
            /\ UNCHANGED <<functions, includes>>
         \/ /\ find_or_create_compiled_file(p, "NOT_STARTED")
            /\ \E k \in 0 .. Len(disk[p].functions) : Compiled(p, Members(SubSeq(disk[p].functions, 1, k)))
            /\ \E k \in Len(includes[p]) .. Len(disk[p].includes) :
                 includes' = [includes EXCEPT ![p] = SubSeq(disk[p].includes, 1, k)]
      /\ UNCHANGED <<disk, store, pc, call, link, frame>>
  BY DEF CompileNoMemory, Fault
<1>1. p \in Keys /\ p \in Paths
  BY TrimmedIsKey, KeysArePaths
<1> HIDE DEF p
<1>2. TypeOK /\ Tables /\ Control
  BY DEF IInv
<1>3. PICK s \in {"NULL", "NOT_STARTED"} : find_or_create_compiled_file(p, s)
  BY <1>0
<1>4. /\ files' \in Seq(Keys)
      /\ \A i, j \in DOMAIN files' : files'[i] = files'[j] => i = j
      /\ status' \in [Paths -> States]
      /\ \A q \in Paths : q \in Members(files') <=> status'[q] # "ABSENT"
      /\ Members(files') = Members(files) \cup {p}
  BY <1>1, <1>2, <1>3, FileStored DEF States
<1>5. \A q \in Keys : \/ status'[q] = status[q]
                      \/ Unfinished(q) /\ status'[q] \in {"NULL", "NOT_STARTED"}
  BY <1>0, <1>1, <1>2, <1>3, KeysArePaths DEF find_or_create_compiled_file, TypeOK
<1>6. /\ Tables' /\ functions' \in [Paths -> [Names -> Keys \cup {NONE}]]
      /\ includes' \in [Paths -> Seq(Keys)]
  <2>1. CASE UNCHANGED <<functions, includes>>
    BY <1>0, <1>2, <1>5, <2>1, TablesKept DEF TypeOK
  <2>2. ASSUME find_or_create_compiled_file(p, "NOT_STARTED"),
               NEW k \in 0 .. Len(disk[p].functions),
               Compiled(p, Members(SubSeq(disk[p].functions, 1, k))),
               NEW i \in Len(includes[p]) .. Len(disk[p].includes),
               includes' = [includes EXCEPT ![p] = SubSeq(disk[p].includes, 1, i)]
        PROVE  <1>6
    <3> DEFINE l == SubSeq(disk[p].includes, 1, i)
    <3>1. /\ Members(SubSeq(disk[p].functions, 1, k)) \in SUBSET Names
          /\ Members(SubSeq(disk[p].functions, 1, k)) \subseteq Members(disk[p].functions)
      BY <1>1, <1>2, FirstFunctions
    <3>2. includes[p] \in Seq(Keys) /\ disk[p].includes \in Seq(Keys)
      BY <1>1, <1>2, OnDisk DEF TypeOK
    <3>3. /\ l \in Seq(Keys) /\ Len(l) = i
          /\ \A j \in 1 .. i : l[j] = disk[p].includes[j]
      BY <3>2
    <3>4. Len(includes[p]) <= i /\ i <= Len(disk[p].includes)
      BY <3>2
    <3>5. status' = [status EXCEPT ![p] = "NOT_STARTED"]
      BY <2>2 DEF find_or_create_compiled_file
    <3> HIDE DEF l
    <3>6. includes' = [includes EXCEPT ![p] = l]
      BY <2>2 DEF l
    <3>7. Tables' /\ functions' \in [Paths -> [Names -> Keys \cup {NONE}]]
      BY <1>0, <1>1, <1>2, <2>2, <3>1, <3>3, <3>4, <3>5, <3>6, TablesCompiled
    <3> QED BY <1>1, <1>2, <3>3, <3>6, <3>7 DEF TypeOK
  <2> QED BY <1>0, <2>1, <2>2
<1>7. TypeOK'
  BY <1>0, <1>2, <1>4, <1>6 DEF TypeOK, store, call, link
<1>8. Control'
  BY <1>0, <1>2 DEF Control, call, InitNames, Inits
<1>9. DependenciesListed'
  BY <1>0, <1>2 DEF DependenciesListed, TypeOK
<1> QED BY <1>6, <1>7, <1>8, <1>9 DEF IInv

LEMMA RegisterNoMemoryStep ==
  ASSUME IInv, RegisterNoMemory
  PROVE  IInv'
<1> DEFINE p == Head(pending)
<1>0. /\ pc = "register" /\ pending # <<>> /\ faults' = faults + 1
      /\ \/ UNCHANGED <<files, status>>
         \/ status[p] = "ABSENT" /\ find_or_create_compiled_file(p, "NULL")
      /\ pc' = "host" /\ path' = NONE /\ pending' = <<>> /\ todo' = {}
      /\ UNCHANGED <<disk, functions, includes, store, link, frame>>
  BY DEF RegisterNoMemory, Fault, ReturnToHost
<1>1. TypeOK /\ Tables
  BY DEF IInv
<1>2. p \in Keys
  BY <1>0, <1>1, HeadAndTail DEF TypeOK
<1> HIDE DEF p
<1>3. /\ files' \in Seq(Keys)
      /\ \A i, k \in DOMAIN files' : files'[i] = files'[k] => i = k
      /\ status' \in [Paths -> States]
      /\ \A q \in Paths : q \in Members(files') <=> status'[q] # "ABSENT"
  <2>1. CASE UNCHANGED <<files, status>>
    BY <1>1, <2>1 DEF TypeOK
  <2>2. CASE find_or_create_compiled_file(p, "NULL")
    BY <1>1, <1>2, <2>2, FileStored DEF States
  <2> QED BY <1>0, <2>1, <2>2
<1>4. \A q \in Keys : \/ status'[q] = status[q]
                      \/ Unfinished(q) /\ status'[q] \in {"NULL", "NOT_STARTED"}
  BY <1>0, <1>1, <1>2, KeysArePaths DEF find_or_create_compiled_file, TypeOK, Unfinished
<1>5. Tables'
  BY <1>0, <1>1, <1>4, TablesKept
<1>6. TypeOK'
  BY <1>0, <1>1, <1>3 DEF TypeOK, store, link
<1>7. Control'
  BY <1>0 DEF Control
<1>8. DependenciesListed'
  BY <1>0, <1>1 DEF DependenciesListed, TypeOK
<1> QED BY <1>5, <1>6, <1>7, <1>8 DEF IInv

LEMMA LinkNoMemoryStep ==
  ASSUME IInv, LinkNoMemory
  PROVE  IInv'
<1> DEFINE p == files[it]
           q == includes[p][inc]
<1>0. /\ Linking /\ faults' = faults + 1
      /\ \/ UNCHANGED functions
         \/ /\ status[p] = "DONE" /\ inc <= Len(includes[p]) /\ get_file(q)
            /\ \E names \in SUBSET Names :
                 functions' = [functions EXCEPT ![p] =
                                 [n \in Names |-> IF n \in names THEN Copied(p, q)[p][n] ELSE @[n]]]
      /\ pc' = "host" /\ it' = 1 /\ inc' = 1
      /\ UNCHANGED <<disk, files, status, includes, store, call, links, frame>>
  BY DEF LinkNoMemory, Fault
<1>1. TypeOK /\ Tables /\ Control
  BY DEF IInv
<1>2. Tables' /\ functions' \in [Paths -> [Names -> Keys \cup {NONE}]]
  <2>1. CASE UNCHANGED functions
    BY <1>0, <1>1, <2>1, TablesKept DEF TypeOK
  <2>2. ASSUME NEW names \in SUBSET Names, status[p] = "DONE", inc <= Len(includes[p]), get_file(q),
               functions' = [functions EXCEPT ![p] =
                               [n \in Names |-> IF n \in names THEN Copied(p, q)[p][n] ELSE @[n]]]
        PROVE  <1>2
    <3>1. faults' # 0
      BY <1>0, <1>1 DEF TypeOK
    <3> QED BY <1>0, <2>2, <3>1, CopyStep
  <2> QED BY <1>0, <2>1, <2>2
<1>3. TypeOK'
  BY <1>0, <1>1, <1>2 DEF TypeOK, store, call
<1>4. Control'
  BY <1>0, <1>1 DEF Control, call, Linking
<1>5. DependenciesListed'
  BY <1>0, <1>1 DEF DependenciesListed, TypeOK
<1> QED BY <1>2, <1>3, <1>4, <1>5 DEF IInv

-----------------------------------------------------------------------------
(* Theorems *)

LEMMA InitInv == Init => IInv
<1> SUFFICES ASSUME Init PROVE IInv
  OBVIOUS
<1>1. \A p \in Paths, n \in Names : functions[p][n] = NONE
  BY DEF Init, Empty
<1>2. TypeOK
  <2>1. Members(files) = {}
    BY NothingPending DEF Init
  <2> QED BY <2>1 DEF Init, Empty, TypeOK, States
<1>3. Tables
  <2>1. \A p \in Keys : p \in Paths /\ status[p] = "ABSENT" /\ includes[p] = <<>>
    BY KeysArePaths DEF Init
  <2>2. \A p \in Keys : Len(disk[p].includes) \in Nat
    BY <1>2, OnDisk
  <2>3. IncludesArePrefix
    BY <2>1, <2>2 DEF IncludesArePrefix
  <2>4. OwnFunctionsWin /\ NothingFromFailed /\ UnfinishedAreEmpty /\ FunctionsComeTogether
    BY <1>1, <2>1 DEF OwnFunctionsWin, NothingFromFailed, UnfinishedAreEmpty, FunctionsComeTogether
  <2>5. NearestCopied
    BY <1>1, <2>1 DEF NearestCopied
  <2> QED BY <2>3, <2>4, <2>5 DEF Tables, FrameIsFound, Init
<1>4. Control
  BY DEF Init, Control
<1>5. DependenciesListed
  BY KeysArePaths DEF Init, DependenciesListed
<1> QED BY <1>2, <1>3, <1>4, <1>5 DEF IInv

LEMMA NextInv == IInv /\ [Next]_vars => IInv'
<1> SUFFICES ASSUME IInv, [Next]_vars PROVE IInv'
  OBVIOUS
<1>1. ASSUME NEW p \in Paths, gsc_compile(p) \/ gsc_compile_error(p) \/ CompileNoMemory(p) PROVE IInv'
  BY <1>1, CompileStep, CompileErrorStep, CompileNoMemoryStep
<1>2. CASE Register
  BY <1>2, RegisterStep
<1>3. CASE \/ Registered \/ Initialised
           \/ \E g \in Globals : Initialise(g) \/ InitialiseError(g)
           \/ \E g \in HostGlobals : gsc_set_global(g)
  BY <1>3, InitialiseSteps
<1>4. CASE gsc_link \/ LinkNextFile \/ Linked \/ NullFile
  BY <1>4, LinkSteps
<1>5. CASE LinkInclude
  BY <1>5, LinkIncludeStep
<1>6. CASE \/ \E n \in Names :
                \/ OP_CALL(n) \/ OP_CALL_PTR(n)
                \/ \E p \in Paths : gsc_call(p, n) \/ CallFile(p, n)
           \/ Return
  BY <1>6, CallSteps
<1>7. CASE RegisterNoMemory
  BY <1>7, RegisterNoMemoryStep
<1>8. CASE LinkNoMemory
  BY <1>8, LinkNoMemoryStep
<1>9. CASE UNCHANGED vars
  <2>1. UNCHANGED <<disk, files, status, functions, includes, globals, value, pc, path, pending, todo,
                    it, inc, links, faults, frame>>
    BY <1>9 DEF vars, tables, store, call, link
  <2>2. TypeOK /\ Control
    BY DEF IInv
  <2>3. TypeOK'
    BY <2>1, <2>2 DEF TypeOK
  <2>4. Control'
    BY <2>1, <2>2 DEF Control, InitNames, Inits
  <2> QED BY <2>1, <2>2, <2>3, <2>4, FilesAlone DEF IInv, TypeOK
<1> QED BY <1>1, <1>2, <1>3, <1>4, <1>5, <1>6, <1>7, <1>8, <1>9 DEF Next, Compiling, Looking, Faulty

\* Every reachable state satisfies the invariant.
LEMMA AlwaysInv == Spec => []IInv
BY InitInv, NextInv, PTL DEF Spec

\* Types, for every set of files, names and failures.
THEOREM TypeCorrect == Spec => []TypeOK
<1>1. IInv => TypeOK
  BY DEF IInv
<1> QED BY <1>1, AlwaysInv, PTL

\* gsc_link's "don't overwrite it": a file calls the functions it defines, not
\* those of the same name it includes.
THEOREM OwnFunctionsAlwaysWin == Spec => []OwnFunctionsWin
<1>1. IInv => OwnFunctionsWin
  BY DEF IInv, Tables
<1> QED BY <1>1, AlwaysInv, PTL

\* What gsc_link copied comes from a file that is included, directly or not,
\* and was compiled to the end.
THEOREM NothingCopiedFromFailed == Spec => []NothingFromFailed
<1>1. IInv => NothingFromFailed
  BY DEF IInv, Tables
<1> QED BY <1>1, AlwaysInv, PTL

\* A function that was copied finds, in the table it runs in, a function under
\* every name its own file defines: its own, or that of a file that stands
\* nearer to the one it runs in.
THEOREM CalleesFound == Spec => []NearestCalleeFound
<1>1. IInv => NearestCalleeFound
  <2> SUFFICES ASSUME IInv, faults = 0, frame # NONE, NEW m \in Names, Defines(frame.origin, m)
               PROVE  LET callee == functions[frame.file][m]
                      IN  /\ callee # NONE
                          /\ Defines(callee, m) /\ ReachesPast(frame.file, callee, m)
    BY DEF NearestCalleeFound
  <2>1. frame.file \in Keys /\ frame.origin \in Keys /\ frame.origin # NONE
    BY KeysArePaths DEF IInv, TypeOK
  <2>2. PICK n \in Names : functions[frame.file][n] = frame.origin
    BY DEF IInv, Tables, FrameIsFound
  <2>3. status[frame.origin] = "DONE"
    BY <2>1, <2>2 DEF IInv, Tables, FrameIsFound, NothingFromFailed
  <2>4. m \in Own(frame.origin)
    BY <2>1, <2>3 DEF IInv, Tables, OwnFunctionsWin, Defines
  <2>5. functions[frame.file][m] # NONE
    BY <2>1, <2>2, <2>4 DEF IInv, Tables, FunctionsComeTogether
  <2> QED BY <2>1, <2>5 DEF IInv, Tables, NearestCopied
<1> QED BY <1>1, AlwaysInv, PTL

\* gsc_compile forgets no dependency of a file it compiled.
THEOREM DependenciesStayKnown == Spec => []DependenciesKnown
<1>1. IInv => DependenciesKnown
  <2> SUFFICES ASSUME IInv, pc = "host", faults = 0, NEW p \in Keys, status[p] = "DONE"
               PROVE  Dependencies(p) \subseteq Members(files)
    BY DEF DependenciesKnown, Dependencies
  <2>1. pending = <<>> /\ path = NONE
    BY DEF IInv, Control
  <2> QED BY <2>1, KeysArePaths DEF IInv, DependenciesListed
<1> QED BY <1>1, AlwaysInv, PTL

\* A compiled file stays compiled, and keeps the functions it has.
CompiledFilesKept ==
  /\ faults' = 0 => faults = 0
  /\ \A p \in Keys : \A n \in Names :
       status[p] = "DONE" =>
         /\ status'[p] = "DONE"
         /\ functions[p][n] # NONE => functions'[p][n] = functions[p][n]

LEMMA StepKeepsCompiled == IInv /\ [Next]_vars => CompiledFilesKept
<1> SUFFICES ASSUME IInv, [Next]_vars PROVE CompiledFilesKept
  OBVIOUS
<1>1. TypeOK
  BY DEF IInv
<1>2. \A p \in Keys, s \in States :
        find_or_create_compiled_file(p, s) => \A q \in Keys \ {p} : status'[q] = status[q]
  BY <1>1, KeysArePaths DEF find_or_create_compiled_file, TypeOK
<1>3. \A p \in Keys, names \in SUBSET Names :
        Compiled(p, names) => \A q \in Keys \ {p} : functions'[q] = functions[q]
  BY <1>1, KeysArePaths DEF Compiled, TypeOK
<1>4. ASSUME NEW request \in Paths,
             gsc_compile(request) \/ gsc_compile_error(request) \/ CompileNoMemory(request)
      PROVE  CompiledFilesKept
  <2> DEFINE p == Trimmed[request]
  <2>1. p \in Keys
    BY TrimmedIsKey
  <2>2. status[p] # "DONE" /\ faults' \in {faults, faults + 1}
    BY <1>4 DEF gsc_compile, gsc_compile_error, CompileNoMemory, Fault, Unfinished
  <2>3. \A q \in Keys \ {p} : status'[q] = status[q]
    BY <1>2, <1>4, <2>1 DEF gsc_compile, gsc_compile_error, CompileNoMemory, States
  <2>4. \A q \in Keys \ {p} : functions'[q] = functions[q]
    <3>1. Members(disk[p].functions) \subseteq Names
      BY <1>1, <2>1, OnDisk
    <3>2. \A k \in 0 .. Len(disk[p].functions) : Members(SubSeq(disk[p].functions, 1, k)) \subseteq Names
      BY <1>1, <2>1, FirstFunctions
    <3> QED BY <1>3, <1>4, <2>1, <3>1, <3>2 DEF gsc_compile, gsc_compile_error, CompileNoMemory
  <2>5. faults' = 0 => faults = 0
    BY <1>1, <2>2 DEF TypeOK
  <2> HIDE DEF p
  <2>6. \A q \in Keys : status[q] = "DONE" => status'[q] = status[q] /\ functions'[q] = functions[q]
    BY <2>2, <2>3, <2>4
  <2> QED BY <2>5, <2>6 DEF CompiledFilesKept
<1>5. CASE Register \/ RegisterNoMemory
  <2> DEFINE p == Head(pending)
  <2>1. p \in Keys
    BY <1>1, <1>5, HeadAndTail DEF TypeOK, Register, RegisterNoMemory
  <2>2. functions' = functions /\ faults' \in {faults, faults + 1}
    BY <1>5 DEF Register, RegisterNoMemory, Fault
  <2>3. CASE UNCHANGED status
    BY <1>1, <2>2, <2>3 DEF CompiledFilesKept, TypeOK
  <2>4. ASSUME NEW s \in States, find_or_create_compiled_file(p, s), status[p] = "DONE" => s = "DONE"
        PROVE  CompiledFilesKept
    BY <1>1, <2>1, <2>2, <2>4, KeysArePaths DEF find_or_create_compiled_file, CompiledFilesKept, TypeOK
  <2>5. CASE Register
    <3>1. find_or_create_compiled_file(p, IF Unfinished(p) THEN "NOT_STARTED" ELSE status[p])
      BY <2>5 DEF Register
    <3>2. status[p] \in States
      BY <1>1, <2>1, KeysArePaths DEF TypeOK
    <3> HIDE DEF p
    <3>3. CASE Unfinished(p)
      BY <2>4, <3>1, <3>3 DEF Unfinished, States
    <3>4. CASE ~Unfinished(p)
      BY <2>4, <3>1, <3>2, <3>4
    <3> QED BY <3>3, <3>4
  <2>6. CASE RegisterNoMemory
    <3>1. \/ UNCHANGED status
          \/ status[p] = "ABSENT" /\ find_or_create_compiled_file(p, "NULL")
      BY <2>6 DEF RegisterNoMemory
    <3> HIDE DEF p
    <3> QED BY <2>3, <2>4, <3>1 DEF States
  <2> QED BY <1>5, <2>5, <2>6
<1>6. CASE LinkInclude \/ LinkNoMemory
  <2> DEFINE p == files[it]
             q == includes[p][inc]
  <2>1. p \in Keys
    BY <1>1, <1>6 DEF TypeOK, LinkInclude, LinkNoMemory, Linking
  <2>2. status' = status /\ faults' \in {faults, faults + 1}
    BY <1>6 DEF LinkInclude, LinkNoMemory, Fault
  <2>3. \/ functions' = functions
        \/ functions' = Copied(p, q)
        \/ \E names \in SUBSET Names :
             functions' = [functions EXCEPT ![p] =
                             [n \in Names |-> IF n \in names THEN Copied(p, q)[p][n] ELSE @[n]]]
    BY <1>6 DEF LinkInclude, LinkNoMemory
  <2> HIDE DEF p, q
  <2>4. \A n \in Names :
          Copied(p, q)[p][n] = IF functions[p][n] = NONE THEN functions[q][n] ELSE functions[p][n]
    BY <1>1, <2>1, KeysArePaths DEF Copied, TypeOK
  <2>5. \A r \in Keys : \A n \in Names :
          functions[r][n] # NONE => functions'[r][n] = functions[r][n]
    <3>1. CASE functions' = Copied(p, q)
      <4>1. \A r \in Keys \ {p} : functions'[r] = functions[r]
        BY <1>1, <2>1, <3>1, KeysArePaths DEF Copied, TypeOK
      <4> QED BY <2>4, <3>1, <4>1
    <3>2. ASSUME NEW names \in SUBSET Names,
                 functions' = [functions EXCEPT ![p] =
                                 [n \in Names |-> IF n \in names THEN Copied(p, q)[p][n] ELSE @[n]]]
          PROVE  <2>5
      <4>1. \A r \in Keys \ {p} : functions'[r] = functions[r]
        BY <1>1, <2>1, <3>2, KeysArePaths DEF TypeOK
      <4>2. \A n \in Names :
              functions'[p][n] = IF n \in names THEN Copied(p, q)[p][n] ELSE functions[p][n]
        BY <1>1, <2>1, <3>2, KeysArePaths DEF TypeOK
      <4> QED BY <2>4, <4>1, <4>2
    <3> QED BY <2>3, <3>1, <3>2
  <2> QED BY <1>1, <2>2, <2>5 DEF CompiledFilesKept, TypeOK
<1>7. ASSUME UNCHANGED <<status, functions, faults>> PROVE CompiledFilesKept
  BY <1>7 DEF CompiledFilesKept
<1>8. CASE \/ Registered \/ Initialised
           \/ \E g \in Globals : Initialise(g) \/ InitialiseError(g)
           \/ \E g \in HostGlobals : gsc_set_global(g)
  BY <1>7, <1>8 DEF Registered, Initialised, Initialise, InitialiseError, gsc_set_global, tables
<1>9. CASE gsc_link \/ LinkNextFile \/ Linked \/ NullFile
  BY <1>7, <1>9 DEF gsc_link, LinkNextFile, Linked, NullFile, tables
<1>10. CASE \/ \E n \in Names :
                 \/ OP_CALL(n) \/ OP_CALL_PTR(n)
                 \/ \E p \in Paths : gsc_call(p, n) \/ CallFile(p, n)
            \/ Return
  BY <1>7, <1>10 DEF OP_CALL, OP_CALL_PTR, gsc_call, CallFile, Enter, Return, tables
<1>11. CASE UNCHANGED vars
  BY <1>7, <1>11 DEF vars, tables
<1> QED BY <1>4, <1>5, <1>6, <1>8, <1>9, <1>10, <1>11 DEF Next, Compiling, Looking, Faulty

\* Whatever is compiled, linked or set later, a name that a script could call
\* goes on to mean the same function.
THEOREM LookupsStayStable == Spec => LookupsStable
<1> DEFINE A == \A p \in Keys : \A n \in Names :
                  faults' = 0 /\ get_file(p) /\ functions[p][n] # NONE =>
                    get_file(p)' /\ functions'[p][n] = functions[p][n]
<1>1. IInv /\ [Next]_vars => A
  <2> SUFFICES ASSUME IInv, [Next]_vars, NEW p \in Keys, NEW n \in Names,
                      faults' = 0, get_file(p), functions[p][n] # NONE
               PROVE  get_file(p)' /\ functions'[p][n] = functions[p][n]
    OBVIOUS
  <2>1. CompiledFilesKept /\ faults = 0
    BY StepKeepsCompiled DEF CompiledFilesKept
  <2>2. status[p] = "DONE"
    BY <2>1 DEF IInv, Tables, UnfinishedAreEmpty, Unfinished, get_file
  <2> QED BY <2>1, <2>2 DEF CompiledFilesKept, get_file
<1>2. IInv /\ [Next]_vars => [A]_vars
  BY <1>1
<1> HIDE DEF A
<1>3. Spec => [][A]_vars
  BY <1>2, AlwaysInv, PTL DEF Spec
<1> QED BY <1>3 DEF A, LookupsStable

-----------------------------------------------------------------------------
(* Linking again: what a file sees after so many calls of gsc_link *)

\* The files within so many levels, by their recursion.
LEMMA WithinDefined ==
  ASSUME TypeOK
  PROVE  /\ Within \in [0 .. MaxLinks -> [Keys -> SUBSET Keys]]
         /\ \A p \in Keys : Within[0][p] = {p}
         /\ \A k \in 1 .. MaxLinks : \A p \in Keys :
              Within[k][p] =
                Within[k - 1][p] \cup UNION {Within[k - 1][q] : q \in Members(includes[p])}
<1> DEFINE D == [Keys -> SUBSET Keys]
           first == [p \in Keys |-> {p}]
           Wider(s) == [p \in Keys |-> s[p] \cup UNION {s[q] : q \in Members(includes[p])}]
           step == [x \in (0 .. MaxLinks) \X D |-> Wider(x[2])]
           Body(w) == [k \in 0 .. MaxLinks |->
                        [p \in Keys |->
                           IF k = 0 THEN {p}
                           ELSE w[k - 1][p] \cup UNION {w[k - 1][q] : q \in Members(includes[p])}]]
<1>1. ASSUME NEW p \in Keys PROVE Members(includes[p]) \subseteq Keys
  <2>1. includes[p] \in Seq(Keys)
    BY KeysArePaths DEF TypeOK
  <2> QED BY <2>1, Elements DEF Members
<1>2. ASSUME NEW s \in D PROVE Wider(s) \in D
  <2>1. \A p \in Keys : s[p] \in SUBSET Keys
    OBVIOUS
  <2>2. \A p \in Keys : s[p] \cup UNION {s[q] : q \in Members(includes[p])} \in SUBSET Keys
    BY <1>1, <2>1
  <2> QED BY <2>2
<1>3. first \in D /\ step \in [(0 .. MaxLinks) \X D -> D]
  BY <1>2
<1>4. MaxLinks \in Int /\ 0 <= MaxLinks /\ 0 \in Int
  BY BoundsAssumption
<1>5. PICK w : Computes(w, 0, MaxLinks, D, first, step)
  <2> HIDE DEF D, first, step, Body, Wider
  <2>1. first \in D
    BY <1>3
  <2>2. step \in [(0 .. MaxLinks) \X D -> D]
    BY <1>3
  <2> QED BY <1>4, <2>1, <2>2, Recursion
<1>6. /\ w[0] = first
      /\ \A k \in 1 .. MaxLinks : w[k] = Wider(w[k - 1])
  <2>1. w[0] = first
    <3> HIDE DEF first, D, step
    <3> QED BY <1>4, <1>5 DEF Computes
  <2>2. ASSUME NEW k \in 1 .. MaxLinks PROVE w[k] = Wider(w[k - 1])
    <3>1. k - 1 \in 0 .. MaxLinks /\ k \in 0 .. MaxLinks /\ k # 0
      BY <1>4
    <3> HIDE DEF D, Wider
    <3>2. w[k - 1] \in D
      BY <1>5, <3>1 DEF Computes
    <3>3. step[<<k, w[k - 1]>>] = Wider(w[k - 1])
      BY <3>1, <3>2
    <3> HIDE DEF step
    <3> QED BY <1>5, <3>1, <3>3 DEF Computes
  <2> QED BY <2>1, <2>2
<1>7. w = Body(w)
  <2>0. w = [k \in 0 .. MaxLinks |-> w[k]]
    <3> HIDE DEF D, first, step
    <3> QED BY <1>5 DEF Computes
  <2>1. ASSUME NEW k \in 0 .. MaxLinks PROVE w[k] = Body(w)[k]
    <3>1. CASE k = 0
      BY <1>6, <3>1
    <3>2. CASE k # 0
      <4>1. k \in 1 .. MaxLinks
        BY <3>2
      <4> QED BY <1>6, <3>2, <4>1
    <3> QED BY <3>1, <3>2
  <2>2. Body(w) = [k \in 0 .. MaxLinks |-> Body(w)[k]]
    OBVIOUS
  <2> HIDE DEF Body
  <2> QED BY <2>0, <2>1, <2>2
<1>8. Within = Body(Within)
  BY <1>7 DEF Within
<1>9. ASSUME NEW k \in 0 .. MaxLinks
      PROVE  Within[k] = [p \in Keys |->
                            IF k = 0 THEN {p}
                            ELSE Within[k - 1][p]
                                   \cup UNION {Within[k - 1][q] : q \in Members(includes[p])}]
  BY <1>8
<1>10. Within[0] = first
  BY <1>4, <1>9
<1>11. ASSUME NEW k \in 1 .. MaxLinks PROVE Within[k] = Wider(Within[k - 1])
  <2>1. k \in 0 .. MaxLinks /\ k # 0
    BY <1>4
  <2> QED BY <1>9, <2>1
<1>12. ASSUME NEW k \in 0 .. MaxLinks PROVE Within[k] \in D
  <2> DEFINE T == {l \in 0 .. MaxLinks : Within[l] \in D}
  <2>1. 0 \in T
    <3> HIDE DEF D, first
    <3> QED BY <1>3, <1>4, <1>10
  <2>2. ASSUME NEW l \in 0 .. MaxLinks, l # 0, l - 1 \in T PROVE l \in T
    <3> HIDE DEF D, Wider
    <3>1. Within[l - 1] \in D /\ l \in 1 .. MaxLinks
      BY <1>4, <2>2
    <3> QED BY <1>2, <1>11, <3>1
  <2> HIDE DEF T
  <2>3. 0 .. MaxLinks \subseteq T
    BY <1>4, <2>1, <2>2, IntervalInduction
  <2> QED BY <2>3 DEF T
<1>13. Within \in [0 .. MaxLinks -> D]
  <2> HIDE DEF D
  <2>1. Within = [k \in 0 .. MaxLinks |-> Within[k]]
    BY <1>8
  <2> QED BY <1>12, <2>1
<1>14. \A p \in Keys : Within[0][p] = {p}
  BY <1>10
<1>15. \A k \in 1 .. MaxLinks : \A p \in Keys :
         Within[k][p] =
           Within[k - 1][p] \cup UNION {Within[k - 1][q] : q \in Members(includes[p])}
  BY <1>11
<1> QED BY <1>13, <1>14, <1>15

\* The same of the next state.
LEMMA WithinDefinedNext ==
  TypeOK' => /\ Within' \in [0 .. MaxLinks -> [Keys -> SUBSET Keys]]
             /\ \A p \in Keys : Within'[0][p] = {p}
<1>1. TypeOK => /\ Within \in [0 .. MaxLinks -> [Keys -> SUBSET Keys]]
                /\ \A p \in Keys : Within[0][p] = {p}
  BY WithinDefined
<1>2. (TypeOK => /\ Within \in [0 .. MaxLinks -> [Keys -> SUBSET Keys]]
                 /\ \A p \in Keys : Within[0][p] = {p})'
  BY <1>1, PTL
<1> QED BY <1>2

\* The functions of q can be called in p.
Sees(p, q) ==
  \A n \in Names : status[q] = "DONE" /\ n \in Own(q) => functions[p][n] # NONE

LinksCounted ==
  /\ links \in 0 .. MaxLinks
  /\ pc = "link" => links < MaxLinks
  /\ pc \in {"register", "initialise"} => links = 0

\* While gsc_link runs, the files it has passed are one level ahead, and the
\* file it is at is ahead in the includes it has passed.
LinkedSoFar ==
  faults = 0 =>
    /\ \A p \in Keys : status[p] # "DONE" => includes[p] = <<>>
    /\ \A p \in Keys : status[p] = "DONE" => \A q \in Within[links][p] : Sees(p, q)
    /\ pc = "link" =>
         \A p \in Keys : status[p] = "DONE" =>
           /\ \A m \in DOMAIN files : files[m] = p /\ m < it =>
                \A q \in Within[links + 1][p] : Sees(p, q)
           /\ \A m \in DOMAIN includes[p] : it \in DOMAIN files /\ files[it] = p /\ m < inc =>
                \A q \in Within[links][includes[p][m]] : Sees(p, q)

LInv == IInv /\ LinksCounted /\ LinkedSoFar

\* A step that copies or registers: no file is compiled, no function is lost
\* and none gets a new home.
Grows ==
  /\ faults' = 0 => faults = 0
  /\ UNCHANGED includes
  /\ \A q \in Keys : status'[q] = "DONE" <=> status[q] = "DONE"
  /\ \A p \in Keys : \A n \in Names :
       /\ status[p] = "DONE" /\ functions[p][n] # NONE => functions'[p][n] # NONE
       /\ status[p] = "DONE" /\ functions'[p][n] = p => functions[p][n] = p

\* What a file sees, it goes on to see.
LEMMA SeesKept ==
  ASSUME Grows, NEW p \in Keys, NEW q \in Keys, status[p] = "DONE", Sees(p, q)
  PROVE  Sees(p, q)'
BY DEF Grows, Sees, Own

\* Such a step changes no level.
LEMMA WithinKept ==
  ASSUME TypeOK, Grows
  PROVE  /\ Within' = Within
         /\ \A k \in 0 .. MaxLinks : \A p \in Keys : Within[k][p] \subseteq Keys
<1>1. Within' = Within
  BY DEF Within, Grows
<1>2. Within \in [0 .. MaxLinks -> [Keys -> SUBSET Keys]]
  BY WithinDefined
<1> QED BY <1>1, <1>2

\* Steps outside gsc_link that grow the tables.
LEMMA GrowsHost ==
  ASSUME LInv, Grows, LinksCounted', UNCHANGED links, pc' # "link"
  PROVE  LinkedSoFar'
<1>1. TypeOK /\ LinkedSoFar /\ LinksCounted
  BY DEF LInv, IInv
<1>2. Within' = Within /\ \A k \in 0 .. MaxLinks : \A p \in Keys : Within[k][p] \subseteq Keys
  BY <1>1, WithinKept
<1>3. ASSUME faults' = 0, NEW p \in Keys, status'[p] = "DONE", NEW q \in Within[links][p]
      PROVE  Sees(p, q)'
  <2>1. q \in Keys /\ faults = 0 /\ status[p] = "DONE"
    BY <1>1, <1>2, <1>3 DEF LinksCounted, Grows
  <2>2. Sees(p, q)
    BY <1>1, <1>3, <2>1 DEF LinkedSoFar
  <2> QED BY <2>1, <2>2, SeesKept
<1>4. ASSUME faults' = 0, NEW p \in Keys, status'[p] # "DONE" PROVE includes'[p] = <<>>
  BY <1>1, <1>4 DEF LinkedSoFar, Grows
<1> QED BY <1>2, <1>3, <1>4 DEF LinkedSoFar

\* Steps that change nothing the invariant speaks of.
LEMMA Elsewhere ==
  ASSUME LInv, UNCHANGED <<files, status, functions, includes, it, inc, links>>,
         faults' \in {faults, faults + 1}, pc' = pc \/ pc' # "link",
         LinksCounted'
  PROVE  LinkedSoFar'
<1>1. TypeOK /\ LinkedSoFar
  BY DEF LInv, IInv
<1>2. faults' = 0 => faults = 0
  BY <1>1 DEF TypeOK
<1>3. Within' = Within
  BY DEF Within
<1>4. \A p, q \in Keys : Sees(p, q) => Sees(p, q)'
  BY DEF Sees, Own
<1>5. \A k \in 0 .. MaxLinks : \A p \in Keys : Within[k][p] \subseteq Keys
  BY <1>1, WithinDefined
<1> QED BY <1>1, <1>2, <1>3, <1>4 DEF LinkedSoFar, Sees, Own

\* There is nothing to see at first.
LEMMA InitLinked == Init => LinksCounted /\ LinkedSoFar
<1> SUFFICES ASSUME Init PROVE LinksCounted /\ LinkedSoFar
  OBVIOUS
<1>1. \A p \in Keys : status[p] = "ABSENT" /\ includes[p] = <<>>
  BY KeysArePaths DEF Init
<1>2. pc = "host" /\ links = 0 /\ 0 \in 0 .. MaxLinks
  BY BoundsAssumption DEF Init
<1> QED BY <1>1, <1>2 DEF LinksCounted, LinkedSoFar

\* A file that has just been compiled sees itself, and the count starts again.
LEMMA CompileLinked ==
  ASSUME LInv, IInv', NEW request \in Paths, gsc_compile(request)
  PROVE  LinkedSoFar'
<1> DEFINE p == Trimmed[request]
<1>0. /\ links' = 0 /\ pc' = "register" /\ faults' = faults
      /\ status' = [status EXCEPT ![p] = "DONE"]
      /\ includes' = [includes EXCEPT ![p] = disk[p].includes]
  BY DEF gsc_compile, find_or_create_compiled_file, link
<1>1. TypeOK /\ LinkedSoFar /\ TypeOK'
  BY DEF LInv, IInv
<1>2. p \in Keys
  BY TrimmedIsKey
<1> HIDE DEF p
<1>3. \A r \in Keys : status'[r] # "DONE" => status[r] # "DONE" /\ includes'[r] = includes[r]
  BY <1>0, <1>1, <1>2, KeysArePaths DEF TypeOK
<1>4. \A r \in Keys : Within'[0][r] = {r}
  BY <1>1, WithinDefinedNext
<1>5. ASSUME NEW r \in Keys, NEW q \in Within'[0][r] PROVE Sees(r, q)'
  <2>1. q = r
    BY <1>4, <1>5
  <2> QED BY <2>1, KeysArePaths DEF Sees, Own
<1> QED BY <1>0, <1>1, <1>3, <1>5 DEF LinkedSoFar

\* A file that failed is never DONE.
LEMMA CompileErrorLinked ==
  ASSUME LInv, NEW request \in Paths, gsc_compile_error(request), LinksCounted'
  PROVE  LinkedSoFar'
<1> DEFINE p == Trimmed[request]
<1>0. /\ links' = links /\ pc' = "host" /\ faults' = faults /\ includes' = includes
      /\ status' = [status EXCEPT ![p] = "FAILED"] /\ Unfinished(p)
      /\ \E k \in 0 .. Len(disk[p].functions) :
           Compiled(p, Members(SubSeq(disk[p].functions, 1, k)))
  BY DEF gsc_compile_error, find_or_create_compiled_file, link
<1>1. TypeOK
  BY DEF LInv, IInv
<1>2. p \in Keys
  BY TrimmedIsKey
<1> HIDE DEF p
<1>3. \A r \in Keys \ {p} : status'[r] = status[r] /\ functions'[r] = functions[r]
  BY <1>0, <1>1, <1>2, KeysArePaths DEF TypeOK, Compiled
<1>4. status[p] # "DONE" /\ status'[p] # "DONE"
  BY <1>0, <1>1, <1>2, KeysArePaths DEF TypeOK, Unfinished
<1>5. Grows
  BY <1>0, <1>3, <1>4 DEF Grows
<1> QED BY <1>0, <1>5, GrowsHost

\* Nor is one that is only registered.
LEMMA RegisterLinked ==
  ASSUME LInv, Register, LinksCounted'
  PROVE  LinkedSoFar'
<1> DEFINE p == Head(pending)
           s == IF Unfinished(p) THEN "NOT_STARTED" ELSE status[p]
<1>0. /\ links' = links /\ pc' = "register" /\ faults' = faults /\ UNCHANGED <<includes, functions>>
      /\ status' = [status EXCEPT ![p] = s] /\ pending # <<>>
  BY DEF Register, find_or_create_compiled_file, link
<1>1. TypeOK
  BY DEF LInv, IInv
<1>2. p \in Keys
  BY <1>0, <1>1, HeadAndTail DEF TypeOK
<1>3. s = "DONE" <=> status[p] = "DONE"
  BY DEF Unfinished
<1> HIDE DEF p, s
<1>4. \A q \in Keys : status'[q] = "DONE" <=> status[q] = "DONE"
  BY <1>0, <1>1, <1>2, <1>3, KeysArePaths DEF TypeOK
<1>5. Grows
  BY <1>0, <1>4 DEF Grows
<1> QED BY <1>0, <1>5, GrowsHost

\* gsc_link starts with no file passed.
LEMMA LinkStartsLinked ==
  ASSUME LInv, gsc_link
  PROVE  LinkedSoFar'
<1>0. /\ UNCHANGED <<files, status, functions, includes, links, faults>>
      /\ pc' = "link" /\ it' = 1 /\ inc' = 1
  BY DEF gsc_link, tables
<1>1. TypeOK /\ LinkedSoFar
  BY DEF LInv, IInv
<1>2. Within' = Within
  BY <1>0 DEF Within
<1>3. \A m \in DOMAIN files : ~(m < 1)
  BY <1>1 DEF TypeOK
<1>4. \A p \in Keys : \A m \in DOMAIN includes[p] : ~(m < 1)
  <2> SUFFICES ASSUME NEW p \in Keys, NEW m \in DOMAIN includes[p] PROVE ~(m < 1)
    OBVIOUS
  <2>1. includes[p] \in Seq(Keys)
    BY <1>1, KeysArePaths DEF TypeOK
  <2> QED BY <2>1
<1> QED BY <1>0, <1>1, <1>2, <1>3, <1>4 DEF LinkedSoFar, Sees, Own

\* The file is done: it sees one level further than before.
LEMMA NextFileLinked ==
  ASSUME LInv, LinkNextFile
  PROVE  LinkedSoFar'
<1>0. /\ UNCHANGED <<files, status, functions, includes, links, faults>>
      /\ pc = "link" /\ pc' = "link" /\ it' = it + 1 /\ inc' = 1 /\ it <= Len(files)
      /\ status[files[it]] = "DONE" => inc > Len(includes[files[it]])
  BY DEF LinkNextFile, tables, Linking
<1>1. TypeOK /\ LinkedSoFar /\ LinksCounted
  BY DEF LInv, IInv
<1>2. Within' = Within
  BY <1>0 DEF Within
<1>3. \A p \in Keys : includes[p] \in Seq(Keys)
  BY <1>1, KeysArePaths DEF TypeOK
<1>4. ASSUME faults = 0, NEW p \in Keys, status[p] = "DONE", NEW m \in DOMAIN files,
             files[m] = p, m < it + 1, NEW q \in Within[links + 1][p]
      PROVE  Sees(p, q)
  <2>0. m \in Nat /\ it \in Nat /\ links \in Nat /\ links + 1 \in 1 .. MaxLinks
    BY <1>0, <1>1, BoundsAssumption DEF TypeOK, LinksCounted
  <2>1. CASE m < it
    BY <1>0, <1>1, <1>4, <2>1 DEF LinkedSoFar
  <2>2. CASE m = it
    <3>1. Within[links + 1][p] =
            Within[links][p] \cup UNION {Within[links][r] : r \in Members(includes[p])}
      <4>1. (links + 1) - 1 = links
        BY <2>0
      <4>2. Within[links + 1][p] =
              Within[(links + 1) - 1][p]
                \cup UNION {Within[(links + 1) - 1][r] : r \in Members(includes[p])}
        BY <1>1, <2>0, WithinDefined
      <4> QED BY <4>1, <4>2
    <3>2. CASE q \in Within[links][p]
      BY <1>1, <1>4, <3>2 DEF LinkedSoFar
    <3>3. CASE q \notin Within[links][p]
      <4>1. PICK l \in DOMAIN includes[p] : q \in Within[links][includes[p][l]]
        BY <1>4, <3>1, <3>3 DEF Members
      <4>2. l < inc /\ it \in DOMAIN files
        BY <1>0, <1>1, <1>3, <1>4, <2>2 DEF TypeOK
      <4> QED BY <1>0, <1>1, <1>4, <2>2, <4>1, <4>2 DEF LinkedSoFar
    <3> QED BY <3>2, <3>3
  <2> QED BY <1>4, <2>0, <2>1, <2>2
<1>5. \A p \in Keys : \A m \in DOMAIN includes[p] : ~(m < 1)
  BY <1>3
<1>6. \A p, q \in Keys : Sees(p, q)' <=> Sees(p, q)
  BY <1>0 DEF Sees, Own
<1>7. \A k \in 0 .. MaxLinks : \A p \in Keys : Within[k][p] \subseteq Keys
  BY <1>1, WithinDefined
<1>8. links \in 0 .. MaxLinks /\ links + 1 \in 0 .. MaxLinks
  BY <1>0, <1>1, BoundsAssumption DEF LinksCounted
<1>9. ASSUME faults = 0
      PROVE  /\ \A p \in Keys : status[p] # "DONE" => includes[p] = <<>>
             /\ \A p \in Keys : status[p] = "DONE" => \A q \in Within[links][p] : Sees(p, q)
  BY <1>1, <1>9 DEF LinkedSoFar
<1> QED BY <1>0, <1>2, <1>4, <1>5, <1>6, <1>7, <1>8, <1>9 DEF LinkedSoFar

\* Every file has been passed.
LEMMA LinkedLinked ==
  ASSUME LInv, Linked
  PROVE  LinkedSoFar'
<1>0. /\ UNCHANGED <<files, status, functions, includes, faults>>
      /\ pc = "link" /\ pc' = "host" /\ it > Len(files) /\ links' = links + 1
  BY DEF Linked, tables
<1>1. TypeOK /\ LinkedSoFar /\ LinksCounted
  BY DEF LInv, IInv
<1>2. Within' = Within
  BY <1>0 DEF Within
<1>3. ASSUME faults = 0, NEW p \in Keys, status[p] = "DONE", NEW q \in Within[links + 1][p]
      PROVE  Sees(p, q)
  <2>1. p \in Members(files)
    BY <1>1, <1>3, KeysArePaths DEF TypeOK
  <2>2. PICK m \in DOMAIN files : files[m] = p
    BY <2>1 DEF Members
  <2>3. m < it
    BY <1>0, <1>1 DEF TypeOK
  <2> QED BY <1>0, <1>1, <1>3, <2>2, <2>3 DEF LinkedSoFar
<1>4. \A p, q \in Keys : Sees(p, q)' <=> Sees(p, q)
  BY <1>0 DEF Sees, Own
<1>5. \A k \in 0 .. MaxLinks : \A p \in Keys : Within[k][p] \subseteq Keys
  BY <1>1, WithinDefined
<1>6. links + 1 \in 0 .. MaxLinks
  BY <1>0, <1>1, BoundsAssumption DEF LinksCounted
<1>7. faults = 0 => \A p \in Keys : status[p] # "DONE" => includes[p] = <<>>
  BY <1>1 DEF LinkedSoFar
<1> QED BY <1>0, <1>2, <1>3, <1>4, <1>5, <1>6, <1>7 DEF LinkedSoFar

\* A file without includes reaches itself.
LEMMA WithinItself ==
  ASSUME TypeOK, NEW p \in Keys, includes[p] = <<>>
  PROVE  \A k \in 0 .. MaxLinks : Within[k][p] = {p}
<1> DEFINE T == {k \in 0 .. MaxLinks : Within[k][p] = {p}}
<1>1. MaxLinks \in Int /\ 0 \in Int /\ 0 \in 0 .. MaxLinks
  BY BoundsAssumption
<1>2. 0 \in T
  BY <1>1, WithinDefined
<1>3. ASSUME NEW k \in 0 .. MaxLinks, k # 0, k - 1 \in T PROVE k \in T
  <2>1. k \in 1 .. MaxLinks
    BY <1>1, <1>3
  <2>2. Within[k][p] = Within[k - 1][p] \cup UNION {Within[k - 1][q] : q \in Members(includes[p])}
    BY <2>1, WithinDefined
  <2>3. {Within[k - 1][q] : q \in Members(includes[p])} = {}
    BY NothingPending
  <2> QED BY <1>3, <2>2, <2>3
<1> HIDE DEF T
<1>4. 0 .. MaxLinks \subseteq T
  BY <1>1, <1>2, <1>3, IntervalInduction
<1> QED BY <1>4 DEF T

\* The file sees what the file it includes has seen so far.
LEMMA LinkIncludeLinked ==
  ASSUME LInv, LinkInclude, LinksCounted'
  PROVE  LinkedSoFar'
<1>1. TypeOK /\ LinkedSoFar /\ LinksCounted /\ NothingFromFailed
  BY DEF LInv, IInv, Tables
<1>2. /\ UNCHANGED <<files, status, includes, links, it, faults>>
      /\ pc = "link" /\ pc' = "link" /\ inc' = inc + 1 /\ it \in DOMAIN files /\ inc \in Nat
  BY <1>1 DEF LinkInclude, Linking, TypeOK
<1>3. PICK p \in Keys, q \in Keys :
        /\ p = files[it] /\ inc \in DOMAIN includes[p] /\ q = includes[p][inc]
        /\ status[p] = "DONE"
        /\ functions' = IF get_file(q) THEN Copied(p, q) ELSE functions
  <2>1. files[it] \in Keys
    BY <1>1, <1>2 DEF TypeOK
  <2>2. includes[files[it]] \in Seq(Keys)
    BY <1>1, <2>1, KeysArePaths DEF TypeOK
  <2>3. inc \in DOMAIN includes[files[it]]
    BY <1>1, <2>2 DEF TypeOK, LinkInclude
  <2>4. includes[files[it]][inc] \in Keys
    BY <2>2, <2>3
  <2> QED BY <2>1, <2>3, <2>4 DEF LinkInclude
<1>4. /\ \A r \in Keys \ {p} : functions'[r] = functions[r]
      /\ \A n \in Names : functions'[p][n] =
           IF get_file(q) /\ functions[p][n] = NONE THEN functions[q][n] ELSE functions[p][n]
  <2>1. CASE get_file(q)
    BY <1>1, <1>3, <2>1, KeysArePaths DEF Copied, TypeOK
  <2>2. CASE ~get_file(q)
    BY <1>3, <2>2
  <2> QED BY <2>1, <2>2
<1>5. Grows
  <2>1. ASSUME NEW n \in Names, functions'[p][n] = p PROVE functions[p][n] = p
    <3> SUFFICES ASSUME functions[p][n] = NONE, functions[q][n] = p PROVE FALSE
      BY <1>4, <2>1
    <3>1. p # q /\ p # NONE
      BY KeysArePaths
    <3>2. n \in Own(p)
      BY <1>1, <3>1 DEF NothingFromFailed
    <3> QED BY <3>1, <3>2 DEF Own
  <2> QED BY <1>2, <1>3, <1>4, <2>1 DEF Grows
<1>6. Within' = Within /\ \A k \in 0 .. MaxLinks : \A r \in Keys : Within[k][r] \subseteq Keys
  BY <1>1, <1>5, WithinKept
<1>7. ASSUME faults = 0, NEW x \in Within[links][q]
      PROVE  Sees(p, x)'
  <2>0. links \in 0 .. MaxLinks /\ x \in Keys
    BY <1>1, <1>3, <1>6, <1>7 DEF LinksCounted
  <2>1. CASE status[q] = "DONE"
    <3>1. Sees(q, x)
      BY <1>1, <1>3, <1>7, <2>1 DEF LinkedSoFar
    <3>2. SUFFICES ASSUME NEW n \in Names, status'[x] = "DONE", n \in Own(x)'
                   PROVE  functions'[p][n] # NONE
      BY DEF Sees
    <3>3. functions'[x][n] = x /\ status[x] = "DONE"
      BY <1>2, <3>2 DEF Own
    <3>4. n \in Own(x)
      BY <1>5, <2>0, <3>2, <3>3 DEF Own, Grows
    <3>5. functions[q][n] # NONE
      BY <3>1, <3>3, <3>4 DEF Sees
    <3> QED BY <1>4, <2>1, <3>5 DEF get_file
  <2>2. CASE status[q] # "DONE"
    <3>1. includes[q] = <<>>
      BY <1>1, <1>3, <1>7, <2>2 DEF LinkedSoFar
    <3>2. x = q
      BY <1>1, <1>3, <1>7, <2>0, <3>1, WithinItself
    <3> QED BY <1>2, <2>2, <3>2 DEF Sees
  <2> QED BY <2>1, <2>2
<1>8. links \in 0 .. MaxLinks /\ links + 1 \in 0 .. MaxLinks
  BY <1>1, <1>2, BoundsAssumption DEF LinksCounted
<1>9. ASSUME faults = 0
      PROVE  /\ \A r \in Keys : status[r] # "DONE" => includes[r] = <<>>
             /\ \A r \in Keys : status[r] = "DONE" =>
                  /\ \A x \in Within[links][r] : Sees(r, x)
                  /\ \A m \in DOMAIN files : files[m] = r /\ m < it =>
                       \A x \in Within[links + 1][r] : Sees(r, x)
                  /\ \A m \in DOMAIN includes[r] : files[it] = r /\ m < inc =>
                       \A x \in Within[links][includes[r][m]] : Sees(r, x)
  BY <1>1, <1>2, <1>9 DEF LinkedSoFar
<1>10. \A r \in Keys : \A m \in DOMAIN includes[r] : m \in Nat /\ includes[r][m] \in Keys
  <2>1. \A r \in Keys : includes[r] \in Seq(Keys)
    BY <1>1, KeysArePaths DEF TypeOK
  <2> QED BY <2>1
<1>11. ASSUME faults = 0, NEW r \in Keys, status[r] = "DONE"
       PROVE  /\ \A x \in Within[links][r] : Sees(r, x)'
              /\ \A m \in DOMAIN files : files[m] = r /\ m < it =>
                   \A x \in Within[links + 1][r] : Sees(r, x)'
              /\ \A m \in DOMAIN includes[r] : files[it] = r /\ m < inc + 1 =>
                   \A x \in Within[links][includes[r][m]] : Sees(r, x)'
  <2>1. \A x \in Keys : Sees(r, x) => Sees(r, x)'
    BY <1>5, <1>11, SeesKept
  <2>2. \A x \in Within[links][r] : Sees(r, x)'
    BY <1>6, <1>8, <1>9, <1>11, <2>1
  <2>3. \A m \in DOMAIN files : files[m] = r /\ m < it => \A x \in Within[links + 1][r] : Sees(r, x)'
    BY <1>6, <1>8, <1>9, <1>11, <2>1
  <2>4. ASSUME NEW m \in DOMAIN includes[r], files[it] = r, m < inc + 1,
               NEW x \in Within[links][includes[r][m]]
        PROVE  Sees(r, x)'
    <3>1. m < inc \/ m = inc
      BY <1>2, <1>10, <2>4
    <3>2. CASE m < inc
      BY <1>6, <1>8, <1>9, <1>10, <1>11, <2>1, <2>4, <3>2
    <3>3. CASE m = inc
      BY <1>3, <1>7, <1>11, <2>4, <3>3
    <3> QED BY <3>1, <3>2, <3>3
  <2> QED BY <2>2, <2>3, <2>4
<1> QED BY <1>2, <1>6, <1>9, <1>11 DEF LinkedSoFar

\* gsc_link is counted when it ends, and starts below the bound.
LEMMA LinksStayCounted ==
  ASSUME LInv, Next
  PROVE  LinksCounted'
<1>1. TypeOK /\ LinksCounted
  BY DEF LInv, IInv
<1>2. MaxLinks \in Nat
  BY BoundsAssumption
<1>3. CASE UNCHANGED <<links, pc>>
  BY <1>1, <1>3 DEF LinksCounted
<1>4. CASE links' = links /\ pc' \notin {"link", "register", "initialise"}
  BY <1>1, <1>4 DEF LinksCounted
<1>5. ASSUME NEW request \in Paths,
             gsc_compile(request) \/ gsc_compile_error(request) \/ CompileNoMemory(request)
      PROVE  LinksCounted'
  <2>1. CASE gsc_compile(request)
    BY <1>2, <2>1 DEF gsc_compile, LinksCounted
  <2>2. CASE gsc_compile_error(request) \/ CompileNoMemory(request)
    BY <1>3, <2>2 DEF gsc_compile_error, CompileNoMemory, link
  <2> QED BY <1>5, <2>1, <2>2
<1>6. CASE Register \/ RegisterNoMemory
  BY <1>3, <1>4, <1>6 DEF Register, RegisterNoMemory, ReturnToHost, link
<1>7. CASE Registered
  BY <1>1, <1>7 DEF Registered, LinksCounted, link
<1>8. CASE Initialised \/ \E g \in Globals : Initialise(g) \/ InitialiseError(g)
  BY <1>3, <1>4, <1>8 DEF Initialised, Initialise, InitialiseError, ReturnToHost, link
<1>9. CASE \E g \in HostGlobals : gsc_set_global(g)
  BY <1>3, <1>9 DEF gsc_set_global, link
<1>10. CASE gsc_link
  BY <1>1, <1>10 DEF gsc_link, LinksCounted
<1>11. CASE LinkNextFile \/ LinkInclude
  BY <1>3, <1>11 DEF LinkNextFile, LinkInclude
<1>12. CASE Linked
  <2>1. links < MaxLinks /\ links \in Nat
    BY <1>1, <1>12 DEF Linked, LinksCounted
  <2>2. links' \in 0 .. MaxLinks /\ pc' = "host"
    BY <1>2, <1>12, <2>1 DEF Linked
  <2> QED BY <2>2 DEF LinksCounted
<1>13. CASE LinkNoMemory \/ NullFile
  BY <1>4, <1>13 DEF LinkNoMemory, NullFile, link
<1>14. CASE \/ \E n \in Names :
                 \/ OP_CALL(n) \/ OP_CALL_PTR(n)
                 \/ \E p \in Paths : gsc_call(p, n) \/ CallFile(p, n)
            \/ Return
  BY <1>3, <1>14 DEF OP_CALL, OP_CALL_PTR, gsc_call, CallFile, Enter, Return, link
<1> QED BY <1>5, <1>6, <1>7, <1>8, <1>9, <1>10, <1>11, <1>12, <1>13, <1>14
         DEF Next, Compiling, Looking, Faulty

\* Every step preserves the invariant of linking.
LEMMA NextLinked == LInv /\ [Next]_vars => LInv'
<1> SUFFICES ASSUME LInv, [Next]_vars PROVE LInv'
  OBVIOUS
<1>1. TypeOK
  BY DEF LInv, IInv
<1>2. IInv'
  BY NextInv DEF LInv
<1>3. CASE UNCHANGED vars
  <2>1. /\ UNCHANGED <<files, status, functions, includes, it, inc, links>>
        /\ faults' = faults /\ pc' = pc
    BY <1>3 DEF vars, tables, link
  <2>2. LinksCounted'
    BY <2>1 DEF LInv, LinksCounted
  <2>3. LinkedSoFar'
    BY <2>1, <2>2, Elsewhere
  <2> QED BY <1>2, <2>2, <2>3 DEF LInv
<1>4. CASE Next
  <2>0. LinksCounted'
    BY <1>4, LinksStayCounted
  <2>1. CASE faults' = faults + 1
    <3>1. faults' # 0
      BY <1>1, <2>1 DEF TypeOK
    <3>2. LinkedSoFar'
      BY <3>1 DEF LinkedSoFar
    <3> QED BY <1>2, <2>0, <3>2 DEF LInv
  <2>2. ASSUME NEW request \in Paths,
               gsc_compile(request) \/ gsc_compile_error(request) \/ CompileNoMemory(request)
        PROVE  LinkedSoFar' \/ faults' = faults + 1
    BY <1>2, <2>0, <2>2, CompileLinked, CompileErrorLinked DEF CompileNoMemory, Fault
  <2>3. ASSUME Register \/ RegisterNoMemory \/ LinkNoMemory
        PROVE  LinkedSoFar' \/ faults' = faults + 1
    BY <2>0, <2>3, RegisterLinked DEF RegisterNoMemory, LinkNoMemory, Fault
  <2>4. ASSUME \/ Registered \/ Initialised
               \/ \E g \in Globals : Initialise(g) \/ InitialiseError(g)
               \/ \E g \in HostGlobals : gsc_set_global(g)
        PROVE  LinkedSoFar'
    <3>1. /\ UNCHANGED <<files, status, functions, includes, it, inc, links, faults>>
          /\ pc' = pc \/ pc' # "link"
      BY <2>4 DEF Registered, Initialised, Initialise, InitialiseError, gsc_set_global,
                  ReturnToHost, tables, link
    <3> QED BY <2>0, <3>1, Elsewhere
  <2>5. ASSUME gsc_link \/ LinkNextFile \/ LinkInclude \/ Linked
        PROVE  LinkedSoFar'
    BY <2>0, <2>5, LinkStartsLinked, NextFileLinked, LinkIncludeLinked, LinkedLinked
  <2>6. ASSUME \/ NullFile \/ Return
               \/ \E n \in Names :
                    \/ OP_CALL(n) \/ OP_CALL_PTR(n)
                    \/ \E p \in Paths : gsc_call(p, n) \/ CallFile(p, n)
        PROVE  LinkedSoFar'
    <3>1. /\ UNCHANGED <<files, status, functions, includes, it, inc, links, faults>>
          /\ pc' = pc \/ pc' # "link"
      BY <2>6 DEF NullFile, Return, OP_CALL, OP_CALL_PTR, gsc_call, CallFile, Enter, tables, link
    <3> QED BY <2>0, <3>1, Elsewhere
  <2>7. LinkedSoFar' \/ faults' = faults + 1
    BY <1>4, <2>2, <2>3, <2>4, <2>5, <2>6 DEF Next, Compiling, Looking, Faulty
  <2> QED BY <1>2, <2>0, <2>1, <2>7 DEF LInv
<1> QED BY <1>3, <1>4

\* Whenever the host has the control, every function that is included through
\* as many levels as gsc_link ran since the last compilation can be called.
THEOREM IncludesSeen == Spec => []LinkedWithin
<1>1. Init => LInv
  BY InitInv, InitLinked DEF LInv
<1>2. LInv => LinkedWithin
  BY DEF LInv, LinkedSoFar, LinkedWithin, Sees
<1> QED BY <1>1, <1>2, NextLinked, PTL DEF Spec

-----------------------------------------------------------------------------
(* Initialisers *)

Done == InitNames(path) \ todo
FromOf(g) == Inits(path)[InitOf(path, g)].from

GlobalsOnce == \A i, k \in DOMAIN globals : globals[i] = globals[k] => i = k

\* The initialisers that ran are those of the first globals, and each saw what
\* the ones before it left.
InitialisedSoFar ==
  pc = "initialise" =>
    /\ Done \subseteq Members(globals)
    /\ \A g \in Done, h \in todo : h \in Members(globals) => Position(globals, g) < Position(globals, h)
    /\ \A g \in Done :
         /\ FromOf(g) = NONE => value[g] = path
         /\ FromOf(g) \in Done /\ Position(globals, FromOf(g)) < Position(globals, g)
              => value[g] = value[FromOf(g)]

OrderInv == IInv /\ GlobalsOnce /\ InitialisedSoFar

\* The position of a global is where it is.
LEMMA PositionOf ==
  ASSUME NEW s \in Seq(Globals), NEW x \in Members(s)
  PROVE  Position(s, x) \in 1 .. Len(s) /\ s[Position(s, x)] = x
<1>1. \E i \in DOMAIN s : s[i] = x
  BY DEF Members
<1>2. Position(s, x) \in DOMAIN s /\ s[Position(s, x)] = x
  BY <1>1 DEF Position
<1> QED BY <1>2

\* A global that is not there yet comes last, and moves no other.
LEMMA AppendedGlobal ==
  ASSUME GlobalsOnce, TypeOK, NEW g \in Globals, g \notin Members(globals),
         globals' = Append(globals, g)
  PROVE  /\ GlobalsOnce'
         /\ Members(globals') = Members(globals) \cup {g}
         /\ \A x \in Members(globals) : Position(globals', x) = Position(globals, x)
         /\ \A x \in Members(globals) : Position(globals', x) < Position(globals', g)
<1>0. globals \in Seq(Globals) /\ Len(globals) \in Nat
  BY DEF TypeOK
<1>1. globals' \in Seq(Globals) /\ Members(globals') = Members(globals) \cup {g}
  BY <1>0, AppendedFile
<1>2. /\ DOMAIN globals = 1 .. Len(globals) /\ DOMAIN globals' = 1 .. Len(globals) + 1
      /\ Len(globals') = Len(globals) + 1
      /\ \A i \in 1 .. Len(globals) : globals'[i] = globals[i]
      /\ globals'[Len(globals) + 1] = g
  BY <1>0
<1>3. \A i \in 1 .. Len(globals) : globals[i] # g
  BY <1>0 DEF Members
<1>4. GlobalsOnce'
  <2> SUFFICES ASSUME NEW i \in 1 .. Len(globals) + 1, NEW k \in 1 .. Len(globals) + 1,
                      globals'[i] = globals'[k]
               PROVE  i = k
    BY <1>2 DEF GlobalsOnce
  <2>1. CASE i \in 1 .. Len(globals) /\ k \in 1 .. Len(globals)
    BY <1>2, <2>1 DEF GlobalsOnce
  <2>2. CASE ~(i \in 1 .. Len(globals) /\ k \in 1 .. Len(globals))
    BY <1>0, <1>2, <1>3, <2>2
  <2> QED BY <2>1, <2>2
<1>5. ASSUME NEW x \in Members(globals) PROVE Position(globals', x) = Position(globals, x)
  <2>1. Position(globals, x) \in 1 .. Len(globals) /\ globals[Position(globals, x)] = x
    BY <1>0, PositionOf
  <2>2. Position(globals', x) \in 1 .. Len(globals') /\ globals'[Position(globals', x)] = x
    BY <1>1, PositionOf
  <2> QED BY <1>0, <1>2, <1>4, <2>1, <2>2 DEF GlobalsOnce
<1>6. Position(globals', g) = Len(globals) + 1
  <2>1. Position(globals', g) \in 1 .. Len(globals') /\ globals'[Position(globals', g)] = g
    BY <1>1, PositionOf
  <2> QED BY <1>0, <1>2, <1>4, <2>1 DEF GlobalsOnce
<1>7. \A x \in Members(globals) : Position(globals', x) < Position(globals', g)
  <2> SUFFICES ASSUME NEW x \in Members(globals) PROVE Position(globals', x) < Position(globals', g)
    OBVIOUS
  <2>1. Position(globals, x) \in 1 .. Len(globals)
    BY <1>0, PositionOf
  <2> QED BY <1>0, <1>5, <1>6, <2>1
<1> QED BY <1>1, <1>4, <1>5, <1>7

\* An initialiser is found under its name.
LEMMA InitTyped ==
  ASSUME TypeOK, path \in Keys
  PROVE  /\ \A i \in DOMAIN Inits(path) : Inits(path)[i].from \in Globals \cup {NONE}
         /\ \A g \in InitNames(path) :
              /\ InitOf(path, g) \in DOMAIN Inits(path)
              /\ Inits(path)[InitOf(path, g)].name = g
              /\ FromOf(g) \in Globals \cup {NONE}
<1> DEFINE inits == disk[path].inits
<1>1. inits \in Seq([name : Globals, from : Globals \cup {NONE}])
  BY OnDisk DEF Contents
<1>2. Inits(path) = inits /\ InitNames(path) = {inits[i].name : i \in DOMAIN inits}
  BY DEF Inits, InitNames
<1>3. \A g : InitOf(path, g) = CHOOSE i \in DOMAIN inits : inits[i].name = g
  BY <1>2 DEF InitOf
<1> HIDE DEF inits
<1>4. \A i \in DOMAIN inits : inits[i] \in [name : Globals, from : Globals \cup {NONE}]
  BY <1>1, Elements
<1>5. \A i \in DOMAIN inits : inits[i].from \in Globals \cup {NONE}
  BY <1>4
<1>6. ASSUME NEW g \in InitNames(path)
      PROVE  InitOf(path, g) \in DOMAIN inits /\ inits[InitOf(path, g)].name = g
  <2>1. \E i \in DOMAIN inits : inits[i].name = g
    BY <1>2, <1>6
  <2> QED BY <1>3, <2>1
<1> QED BY <1>2, <1>5, <1>6 DEF FromOf

\* What changes only the global object.
LEMMA InitialiseOrdered ==
  ASSUME OrderInv, NEW g \in Globals, Initialise(g)
  PROVE  GlobalsOnce' /\ InitialisedSoFar'
<1>0. TypeOK /\ Control /\ pc = "initialise" /\ path \in Keys /\ GlobalsOnce /\ globals \in Seq(Globals)
  BY DEF OrderInv, IInv, Initialise, Control, TypeOK
<1>1. /\ g \in todo /\ g \in InitNames(path)
      /\ \A h \in todo \ {g} : Before(g, h)
      /\ value' = [value EXCEPT ![g] = IF FromOf(g) = NONE THEN path ELSE value[FromOf(g)]]
      /\ globals' = IF g \in Members(globals) THEN globals ELSE Append(globals, g)
      /\ todo' = todo \ {g}
      /\ UNCHANGED <<disk, path, pc>>
  BY <1>0 DEF Initialise, FromOf, Control
<1>2. Done' = Done \cup {g} /\ \A x : FromOf(x)' = FromOf(x)
  BY <1>1 DEF Done, FromOf, InitNames, Inits, InitOf
<1>3. /\ Done \subseteq Members(globals) /\ g \notin Done
      /\ \A x \in Done, h \in todo : h \in Members(globals) => Position(globals, x) < Position(globals, h)
      /\ \A x \in Done :
           /\ FromOf(x) = NONE => value[x] = path
           /\ FromOf(x) \in Done /\ Position(globals, FromOf(x)) < Position(globals, x)
                => value[x] = value[FromOf(x)]
  BY <1>0, <1>1 DEF OrderInv, InitialisedSoFar, Done
<1>4. /\ GlobalsOnce'
      /\ Members(globals') = Members(globals) \cup {g}
      /\ \A x \in Members(globals) : Position(globals', x) = Position(globals, x)
      /\ \A x \in Done : Position(globals', x) < Position(globals', g)
      /\ \A h \in todo \ {g} : h \in Members(globals') => Position(globals', g) < Position(globals', h)
  <2>1. CASE g \in Members(globals)
    <3>1. globals' = globals
      BY <1>1, <2>1
    <3>2. \A h \in todo \ {g} : h \in Members(globals) => Position(globals, g) < Position(globals, h)
      BY <1>1, <2>1 DEF Before
    <3> QED BY <1>0, <1>1, <1>3, <2>1, <3>1, <3>2 DEF GlobalsOnce
  <2>2. CASE g \notin Members(globals)
    <3>1. globals' = Append(globals, g)
      BY <1>1, <2>2
    <3>2. \A h \in todo \ {g} : h \notin Members(globals)
      BY <1>1, <2>2 DEF Before
    <3>3. /\ GlobalsOnce'
          /\ Members(globals') = Members(globals) \cup {g}
          /\ \A x \in Members(globals) : Position(globals', x) = Position(globals, x)
          /\ \A x \in Members(globals) : Position(globals', x) < Position(globals', g)
      BY <1>0, <2>2, <3>1, AppendedGlobal
    <3> QED BY <1>3, <3>2, <3>3
  <2> QED BY <2>1, <2>2
<1>5. \A x \in Members(globals') : Position(globals', x) \in Int
  <2>1. globals' \in Seq(Globals)
    BY <1>0, <1>1, AppendedFile
  <2> QED BY <2>1, PositionOf
<1>6. /\ \A x \in Globals : x # g => value'[x] = value[x]
      /\ value'[g] = IF FromOf(g) = NONE THEN path ELSE value[FromOf(g)]
      /\ Done \subseteq Globals
  BY <1>0, <1>1, OnDisk DEF TypeOK, Done
<1>7. ASSUME NEW x \in Done', FromOf(x) = NONE PROVE value'[x] = path
  BY <1>2, <1>3, <1>6, <1>7
<1>8. ASSUME NEW x \in Done', FromOf(x) \in Done',
             Position(globals', FromOf(x)) < Position(globals', x)
      PROVE  value'[x] = value'[FromOf(x)]
  <2>0. FromOf(x) # x
    BY <1>2, <1>3, <1>4, <1>5, <1>8
  <2>1. CASE x = g
    <3>1. FromOf(g) \in Globals /\ FromOf(g) # NONE
      BY <1>2, <1>6, <1>8, <2>0, <2>1, PathsAssumption
    <3> QED BY <1>6, <2>0, <2>1, <3>1
  <2>2. CASE x # g
    <3>1. x \in Done /\ FromOf(x) # g
      <4>1. x \in Done
        BY <1>2, <2>2
      <4>2. Position(globals', x) < Position(globals', g)
        BY <1>4, <4>1
      <4>3. Position(globals', x) \in Int /\ Position(globals', g) \in Int
        BY <1>3, <1>4, <1>5, <4>1
      <4> QED BY <1>8, <4>1, <4>2, <4>3
    <3>2. FromOf(x) \in Done
      BY <1>2, <1>8, <3>1
    <3>3. Position(globals, FromOf(x)) < Position(globals, x)
      BY <1>3, <1>4, <1>8, <3>1, <3>2
    <3>4. value[x] = value[FromOf(x)]
      BY <1>3, <3>1, <3>2, <3>3
    <3> QED BY <1>6, <2>2, <3>1, <3>2, <3>4
  <2> QED BY <2>1, <2>2
<1>9. ASSUME NEW x \in Done', NEW h \in todo', h \in Members(globals')
      PROVE  Position(globals', x) < Position(globals', h)
  <2>0. h \in todo \ {g} /\ h \in Members(globals)
    BY <1>1, <1>4, <1>9
  <2>1. CASE x = g
    BY <1>4, <1>9, <2>0, <2>1
  <2>2. CASE x # g
    BY <1>2, <1>3, <1>4, <2>0, <2>2
  <2> QED BY <2>1, <2>2
<1>10. Done' \subseteq Members(globals')
  BY <1>2, <1>3, <1>4
<1> QED BY <1>1, <1>2, <1>4, <1>7, <1>8, <1>9, <1>10 DEF InitialisedSoFar

\* The host sets globals only while no initialiser runs.
LEMMA SetGlobalOrdered ==
  ASSUME OrderInv, NEW g \in Globals, gsc_set_global(g)
  PROVE  GlobalsOnce' /\ InitialisedSoFar'
<1>1. TypeOK /\ GlobalsOnce
  BY DEF OrderInv, IInv
<1>2. pc' # "initialise"
  BY DEF gsc_set_global
<1>3. CASE g \in Members(globals)
  BY <1>1, <1>2, <1>3 DEF gsc_set_global, GlobalsOnce, InitialisedSoFar
<1>4. CASE g \notin Members(globals)
  <2>1. globals' = Append(globals, g)
    BY <1>4 DEF gsc_set_global
  <2> QED BY <1>1, <1>2, <1>4, <2>1, AppendedGlobal DEF InitialisedSoFar
<1> QED BY <1>3, <1>4

\* Every step preserves the invariant of initialising.
LEMMA NextOrdered == OrderInv /\ [Next]_vars => OrderInv'
<1> SUFFICES ASSUME OrderInv, [Next]_vars PROVE GlobalsOnce' /\ InitialisedSoFar'
  BY NextInv DEF OrderInv
<1>1. CASE Registered
  <2>1. Done' = {}
    BY <1>1 DEF Registered, Done, InitNames, Inits
  <2>2. UNCHANGED globals
    BY <1>1 DEF Registered, store
  <2> QED BY <2>1, <2>2 DEF OrderInv, GlobalsOnce, InitialisedSoFar
<1>2. ASSUME UNCHANGED globals, pc' # "initialise" PROVE GlobalsOnce' /\ InitialisedSoFar'
  BY <1>2 DEF OrderInv, GlobalsOnce, InitialisedSoFar
<1>3. ASSUME NEW request \in Paths,
             gsc_compile(request) \/ gsc_compile_error(request) \/ CompileNoMemory(request)
      PROVE  GlobalsOnce' /\ InitialisedSoFar'
  BY <1>2, <1>3 DEF gsc_compile, gsc_compile_error, CompileNoMemory, store
<1>4. CASE Register \/ RegisterNoMemory \/ Initialised \/ \E g \in Globals : InitialiseError(g)
  BY <1>2, <1>4 DEF Register, RegisterNoMemory, Initialised, InitialiseError, ReturnToHost, store
<1>5. CASE \/ \E g \in Globals : Initialise(g)
           \/ \E g \in HostGlobals : gsc_set_global(g)
  BY <1>5, InitialiseOrdered, SetGlobalOrdered, GlobalsAssumption
<1>6. CASE gsc_link \/ LinkNextFile \/ LinkInclude \/ Linked \/ LinkNoMemory \/ NullFile
  BY <1>2, <1>6 DEF gsc_link, LinkNextFile, LinkInclude, Linked, LinkNoMemory, NullFile, Linking, store
<1>7. CASE \/ \E n \in Names :
                \/ OP_CALL(n) \/ OP_CALL_PTR(n)
                \/ \E p \in Paths : gsc_call(p, n) \/ CallFile(p, n)
           \/ Return
  BY <1>2, <1>7 DEF OP_CALL, OP_CALL_PTR, gsc_call, CallFile, Enter, Return, store
<1>8. CASE UNCHANGED vars
  <2>1. UNCHANGED <<disk, path, pc, todo, globals, value>>
    BY <1>8 DEF vars, store, call
  <2>2. Done' = Done /\ \A x : FromOf(x)' = FromOf(x)
    BY <2>1 DEF Done, FromOf, InitNames, Inits, InitOf
  <2> QED BY <2>1, <2>2 DEF OrderInv, GlobalsOnce, InitialisedSoFar
<1> QED BY <1>1, <1>3, <1>4, <1>5, <1>6, <1>7, <1>8 DEF Next, Compiling, Looking, Faulty

\* If the fields of the globals are in source order, an initialiser has read
\* what the initialisers above it stored.
THEOREM InitialisersInOrder == Spec => []InitialisedAsWritten
<1>1. Init => OrderInv
  <2> SUFFICES ASSUME Init PROVE GlobalsOnce /\ InitialisedSoFar
    BY InitInv DEF OrderInv
  <2> QED BY DEF Init, GlobalsOnce, InitialisedSoFar
<1>2. OrderInv => InitialisedAsWritten
  <2> SUFFICES ASSUME OrderInv, pc = "initialise", todo = {}, InSourceOrder(path),
                      NEW i \in DOMAIN Inits(path)
               PROVE  LET init == Inits(path)[i]
                      IN /\ init.from = NONE => value[init.name] = path
                         /\ \A k \in 1 .. i - 1 :
                              init.from = Inits(path)[k].name => value[init.name] = value[init.from]
    BY DEF InitialisedAsWritten
  <2>1. TypeOK /\ path \in Keys /\ globals \in Seq(Globals)
    BY DEF OrderInv, IInv, Control, TypeOK
  <2>2. Done = InitNames(path) /\ Done \subseteq Members(globals)
    BY DEF Done, OrderInv, InitialisedSoFar
  <2>3. \A k \in DOMAIN Inits(path) : Inits(path)[k].name \in Done
    BY <2>2 DEF InitNames
  <2>4. \A g \in Done : Position(globals, g) \in Int
    BY <2>1, <2>2, PositionOf
  <2>5. DOMAIN Inits(path) \subseteq Int
    <3>1. Inits(path) \in Seq([name : Globals, from : Globals \cup {NONE}])
      BY <2>1, OnDisk DEF Inits, Contents
    <3> QED BY <3>1
  <2>6. \A k, l \in DOMAIN Inits(path) : Inits(path)[k].name = Inits(path)[l].name => k = l
    BY <2>3, <2>4, <2>5 DEF InSourceOrder
  <2> DEFINE g == Inits(path)[i].name
  <2>7. FromOf(g) = Inits(path)[i].from
    <3>1. InitOf(path, g) \in DOMAIN Inits(path) /\ Inits(path)[InitOf(path, g)].name = g
      BY <2>1, <2>2, <2>3, InitTyped
    <3> QED BY <2>6, <3>1 DEF FromOf
  <2>8. /\ FromOf(g) = NONE => value[g] = path
        /\ FromOf(g) \in Done /\ Position(globals, FromOf(g)) < Position(globals, g)
             => value[g] = value[FromOf(g)]
    BY <2>3 DEF OrderInv, InitialisedSoFar
  <2>9. ASSUME NEW k \in 1 .. i - 1, Inits(path)[i].from = Inits(path)[k].name
        PROVE  value[g] = value[Inits(path)[i].from]
    <3>1. k \in DOMAIN Inits(path) /\ k < i
      <4>1. Inits(path) \in Seq([name : Globals, from : Globals \cup {NONE}])
        BY <2>1, OnDisk DEF Inits, Contents
      <4> QED BY <4>1
    <3>2. Position(globals, Inits(path)[k].name) < Position(globals, g)
      BY <3>1 DEF InSourceOrder
    <3> QED BY <2>3, <2>7, <2>8, <2>9, <3>1, <3>2
  <2> QED BY <2>7, <2>8, <2>9
<1> QED BY <1>1, <1>2, NextOrdered, PTL DEF Spec
=============================================================================
