------------------------ MODULE SchedulerEventsProofs ------------------------
(***************************************************************************)
(* What endon and waittill promise, under the discipline of               *)
(* SchedulerEvents, for every number of threads, events, names and objects *)
(***************************************************************************)
EXTENDS SchedulerEvents, SchedulerProofs

\* The events before j that are still wanted have been copied below write.
Squeezed ==
  /\ \A x \in 1 .. write : events[x].active
  /\ \A x \in write + 1 .. j - 1 :
       events[x].active => \E y \in 1 .. write : events[y] = events[x]

HistoryTyped ==
  /\ registered \in [Threads -> SUBSET Keys] /\ heard \in [Threads -> SUBSET Keys]
  /\ owed \subseteq Threads

\* endon keeps the names of what was registered, and only names meant for it.
Registrations ==
  \A t \in Threads :
    /\ \A key \in registered[t] : key.name \in Endons(t)
    /\ \A n \in Endons(t) : n \in EndonNames /\ \E key \in registered[t] : key.name = n

\* Events with a registered name are for the object that was registered.
OneObject ==
  \A t \in Threads : \A key \in registered[t] : \A e \in 1 .. event_count :
    events[e].name = key.name => events[e].object = key.object

\* What a thread registered and then heard is pending, and nothing else is.
HeardIsPending ==
  \A t \in Threads :
    /\ \A key \in registered[t] : PendingKey(key) => key \in heard[t]
    /\ \A key \in heard[t] : key.name \in EndonNames /\ PendingKey(key)

Waiters ==
  /\ \A t \in Threads : Blocked(t) => waittill[t] \in Keys /\ waittill[t].name \notin EndonNames
  /\ \A t, u \in Threads : Blocked(t) /\ Blocked(u) /\ waittill[t] = waittill[u] => t = u

\* A thread is owed its wakeup as long as what it waits for is pending.
OwedIsPending ==
  \A t \in Threads :
    /\ t \in owed => Blocked(t)
    /\ \A key \in Keys : key = waittill[t] => (t \in owed <=> Blocked(t) /\ PendingKey(key))

History ==
  HistoryTyped /\ Registrations /\ OneObject /\ HeardIsPending /\ Waiters /\ OwedIsPending

EInv == IInv /\ RunInv /\ Squeezed /\ History

-----------------------------------------------------------------------------
(* The keys that are pending. *)

LEMMA PendingPosted ==
  ASSUME IInv, NEW key \in Keys, events' = Append(events, Event(key))
  PROVE  \A k \in Keys : PendingKey(k)' <=> PendingKey(k) \/ k = key
<1>1. events \in Seq(VMEvent) /\ Event(key) \in VMEvent
  BY DEF IInv, TypeOK, Event, Keys, VMEvent
<1>2. /\ Len(events) \in Nat /\ Len(events') = Len(events) + 1
      /\ \A e \in 1 .. Len(events) : e \in 1 .. Len(events') /\ events'[e] = events[e]
      /\ events'[Len(events')] = Event(key) /\ Len(events') \in 1 .. Len(events')
      /\ \A e \in 1 .. Len(events') : e = Len(events') \/ e \in 1 .. Len(events)
  BY <1>1, AppendProperties
<1>3. /\ Event(key).active /\ Event(key).name = key.name /\ Event(key).object = key.object
  BY DEF Event
<1>4. \A k \in Keys : k = key <=> k.name = key.name /\ k.object = key.object
  BY DEF Keys
<1>5. ASSUME NEW k \in Keys, PendingKey(k)' PROVE PendingKey(k) \/ k = key
  <2>1. PICK e \in 1 .. Len(events') :
          events'[e].active /\ events'[e].name = k.name /\ events'[e].object = k.object
    BY <1>5 DEF PendingKey, event_count
  <2>2. CASE e \in 1 .. Len(events)
    BY <1>2, <2>1, <2>2 DEF PendingKey, event_count
  <2>3. CASE e = Len(events')
    BY <1>2, <1>3, <1>4, <2>1, <2>3
  <2> QED BY <1>2, <2>2, <2>3
<1>6. ASSUME NEW k \in Keys, PendingKey(k) PROVE PendingKey(k)'
  <2>1. PICK e \in 1 .. Len(events) :
          events[e].active /\ events[e].name = k.name /\ events[e].object = k.object
    BY <1>6 DEF PendingKey, event_count
  <2> QED BY <1>2, <2>1 DEF PendingKey, event_count
<1>7. PendingKey(key)'
  BY <1>2, <1>3 DEF PendingKey, event_count
<1> QED BY <1>5, <1>6, <1>7

\* A waiter takes an event with its own key, at most.
LEMMA PendingTaken ==
  ASSUME IInv, cur \in Threads, NEW e \in 1 .. event_count, Matches(e, cur),
         events' = [events EXCEPT ![e].active = FALSE]
  PROVE  /\ \A k \in Keys : PendingKey(k)' => PendingKey(k)
         /\ \A k \in Keys : PendingKey(k) => PendingKey(k)' \/ k = waittill[cur]
         /\ \A k \in Keys : k = waittill[cur] => PendingKey(k)
<1>1. events \in Seq(VMEvent) /\ waittill \in [Threads -> Keys \cup {NoKey}]
  BY DEF IInv, TypeOK
<1>2. /\ Len(events') = Len(events)
      /\ \A f \in 1 .. Len(events) : f # e => events'[f] = events[f]
      /\ events'[e] = [events[e] EXCEPT !.active = FALSE]
      /\ events[e] \in VMEvent
  <2>1. e \in 1 .. Len(events) /\ events[e] \in VMEvent
    BY <1>1 DEF event_count
  <2>2. events' = [events EXCEPT ![e] = [events[e] EXCEPT !.active = FALSE]]
    OBVIOUS
  <2>3. \A v : events' = [events EXCEPT ![e] = v] =>
          /\ Len(events') = Len(events) /\ events'[e] = v
          /\ \A f \in 1 .. Len(events) : f # e => events'[f] = events[f]
    BY <1>1, <2>1
  <2> QED BY <2>1, <2>2, <2>3
<1>3. ~events'[e].active
  BY <1>2 DEF VMEvent
<1>4. ASSUME NEW k \in Keys, PendingKey(k)' PROVE PendingKey(k)
  BY <1>2, <1>3, <1>4 DEF PendingKey, event_count
<1>5. ASSUME NEW k \in Keys, PendingKey(k) PROVE PendingKey(k)' \/ k = waittill[cur]
  <2>1. PICK f \in 1 .. Len(events) :
          events[f].active /\ events[f].name = k.name /\ events[f].object = k.object
    BY <1>5 DEF PendingKey, event_count
  <2>2. CASE f # e
    BY <1>2, <2>1, <2>2 DEF PendingKey, event_count
  <2>3. CASE f = e
    <3>1. waittill[cur].name = k.name /\ waittill[cur].object = k.object
      BY <2>1, <2>3 DEF Matches
    <3>2. waittill[cur] \in Keys \cup {NoKey}
      BY <1>1
    <3>3. waittill[cur] = [name |-> waittill[cur].name, object |-> waittill[cur].object]
      BY <3>2 DEF Keys, NoKey
    <3>4. k = [name |-> k.name, object |-> k.object]
      BY DEF Keys
    <3> QED BY <3>1, <3>3, <3>4
  <2> QED BY <2>2, <2>3
<1>6. ASSUME NEW k \in Keys, k = waittill[cur] PROVE PendingKey(k)
  BY <1>6 DEF Matches, PendingKey
<1> QED BY <1>4, <1>5, <1>6

LEMMA PendingSame ==
  ASSUME events' = events
  PROVE  \A k \in Keys : PendingKey(k)' <=> PendingKey(k)
BY DEF PendingKey, event_count

\* The compaction forgets nobody's notification.
LEMMA PendingCompacted ==
  ASSUME IInv, Squeezed, CompactEvent
  PROVE  (\A k \in Keys : PendingKey(k)' <=> PendingKey(k)) /\ Squeezed'
<1>1. /\ events \in Seq(VMEvent) /\ Len(events) \in Nat /\ j \in Nat \ {0} /\ write \in Nat
      /\ write < j /\ j \in 1 .. Len(events) /\ j' = j + 1
  BY DEF IInv, TypeOK, CompactInv, CompactEvent, event_count
<1>2. CASE ~events[j].active /\ UNCHANGED <<events, write>>
  <2>1. \A x \in write + 1 .. j : x = j \/ x \in write + 1 .. j - 1
    BY <1>1
  <2>2. \A x \in write' + 1 .. j' - 1 :
          events'[x].active => \E y \in 1 .. write' : events'[y] = events'[x]
    BY <1>1, <1>2, <2>1 DEF Squeezed
  <2> QED BY <1>2, <2>2, PendingSame DEF Squeezed
<1>3. CASE /\ events[j].active
           /\ events' = [events EXCEPT ![write + 1] = events[j]]
           /\ write' = write + 1
  <2>1. /\ Len(events') = Len(events) /\ write + 1 \in 1 .. Len(events)
        /\ events'[write + 1] = events[j]
        /\ \A x \in 1 .. Len(events) : x # write + 1 => events'[x] = events[x]
    BY <1>1, <1>3
  <2>2. ASSUME NEW x \in 1 .. Len(events), events[x].active
        PROVE  \E y \in 1 .. Len(events) : events'[y] = events[x]
    <3>1. CASE x # write + 1
      BY <2>1, <3>1
    <3>2. CASE x = write + 1 /\ x = j
      BY <2>1, <3>2
    <3>3. CASE x = write + 1 /\ x # j
      <4>1. x \in write + 1 .. j - 1
        BY <1>1, <3>3
      <4>2. PICK y \in 1 .. write : events[y] = events[x]
        BY <2>2, <4>1 DEF Squeezed
      <4>3. y \in 1 .. Len(events) /\ y # write + 1
        BY <1>1, <2>1, <4>2
      <4> QED BY <2>1, <4>2, <4>3
    <3> QED BY <3>1, <3>2, <3>3
  <2>3. \A y \in 1 .. Len(events) : \E x \in 1 .. Len(events) : events'[y] = events[x]
    BY <1>1, <2>1
  <2>4. \A k \in Keys : PendingKey(k)' <=> PendingKey(k)
    <3>1. ASSUME NEW k \in Keys, PendingKey(k) PROVE PendingKey(k)'
      <4>1. PICK x \in 1 .. Len(events) :
              events[x].active /\ events[x].name = k.name /\ events[x].object = k.object
        BY <3>1 DEF PendingKey, event_count
      <4>2. PICK y \in 1 .. Len(events) : events'[y] = events[x]
        BY <2>2, <4>1
      <4> QED BY <2>1, <4>1, <4>2 DEF PendingKey, event_count
    <3>2. ASSUME NEW k \in Keys, PendingKey(k)' PROVE PendingKey(k)
      <4>1. PICK y \in 1 .. Len(events) :
              events'[y].active /\ events'[y].name = k.name /\ events'[y].object = k.object
        BY <2>1, <3>2 DEF PendingKey, event_count
      <4>2. PICK x \in 1 .. Len(events) : events'[y] = events[x]
        BY <2>3, <4>1
      <4> QED BY <4>1, <4>2 DEF PendingKey, event_count
    <3> QED BY <3>1, <3>2
  <2>5. \A x \in 1 .. write + 1 : events'[x].active
    <3>1. \A x \in 1 .. write + 1 : x = write + 1 \/ (x \in 1 .. write /\ x \in 1 .. Len(events))
      BY <1>1
    <3> QED BY <1>3, <2>1, <3>1 DEF Squeezed
  <2>6. ASSUME NEW x \in write + 2 .. j, events'[x].active
        PROVE  \E y \in 1 .. write + 1 : events'[y] = events'[x]
    <3>1. x \in 1 .. Len(events) /\ x # write + 1 /\ events'[x] = events[x]
      BY <1>1, <2>1
    <3>2. CASE x = j
      BY <1>1, <2>1, <3>1, <3>2
    <3>3. CASE x # j
      <4>1. x \in write + 1 .. j - 1
        BY <1>1, <3>3
      <4>2. PICK y \in 1 .. write : events[y] = events[x]
        BY <2>6, <3>1, <4>1 DEF Squeezed
      <4>3. y \in 1 .. Len(events) /\ y # write + 1 /\ y \in 1 .. write + 1
        BY <1>1, <2>1, <4>2
      <4> QED BY <2>1, <3>1, <4>2, <4>3
    <3> QED BY <3>2, <3>3
  <2>7. write' + 1 = write + 2 /\ j' - 1 = j
    BY <1>1, <1>3
  <2> QED BY <1>3, <2>4, <2>5, <2>6, <2>7 DEF Squeezed
<1> QED BY <1>2, <1>3 DEF CompactEvent

LEMMA PendingCut ==
  ASSUME IInv, Squeezed, EndOfTick
  PROVE  (\A k \in Keys : PendingKey(k)' <=> PendingKey(k)) /\ Squeezed'
<1>1. /\ events \in Seq(VMEvent) /\ Len(events) \in Nat /\ write \in Nat
      /\ write <= Len(events) /\ j - 1 = Len(events)
      /\ events' = SubSeq(events, 1, write) /\ write' = 0 /\ j' = 1
  BY DEF IInv, TypeOK, CompactInv, EndOfTick, event_count
<1>2. Len(events') = write /\ \A x \in 1 .. write : events'[x] = events[x] /\ x \in 1 .. Len(events)
  BY <1>1
<1>3. ASSUME NEW x \in 1 .. Len(events), events[x].active
      PROVE  \E y \in 1 .. write : events'[y] = events[x]
  <2>1. CASE x \in 1 .. write
    BY <1>2, <2>1
  <2>2. CASE x \notin 1 .. write
    <3>1. x \in write + 1 .. j - 1
      BY <1>1, <2>2
    <3>2. PICK y \in 1 .. write : events[y] = events[x]
      BY <1>3, <3>1 DEF Squeezed
    <3> QED BY <1>2, <3>2
  <2> QED BY <2>1, <2>2
<1>4. \A k \in Keys : PendingKey(k)' <=> PendingKey(k)
  BY <1>2, <1>3 DEF PendingKey, event_count
<1>5. Squeezed'
  BY <1>1 DEF Squeezed
<1> QED BY <1>4, <1>5

\* The compaction is the only step that leaves copies behind.
LEMMA SqueezedStep ==
  ASSUME IInv, RunInv, Squeezed, Next
  PROVE  Squeezed'
<1>1. CASE Raises \/ DispatchInactive \/ \E t \in Threads : Spawns(t)
  BY <1>1 DEF Raises, DispatchInactive, Spawns, Squeezed, compact
<1>2. CASE Quiet
  BY <1>2 DEF Quiet, Squeezed, compact
<1>3. CASE DispatchEvent
  <2>1. j' = 1 /\ write' = 0
    BY <1>3 DEF DispatchEvent, IInv, TypeOK, CompactInv, compact
  <2> QED BY <2>1 DEF Squeezed
<1>4. CASE CompactEvent \/ EndOfTick
  BY <1>4, PendingCompacted, PendingCut
<1>5. CASE \E key \in Keys : Posts(key) \/ Registers(key) \/ Blocks(key)
  <2>1. j' = 1 /\ write' = 0
    BY <1>5 DEF Posts, Registers, Blocks, IInv, TypeOK, CompactInv, compact
  <2> QED BY <2>1 DEF Squeezed
<1> QED BY <1>1, <1>2, <1>3, <1>4, <1>5, Steps

-----------------------------------------------------------------------------
(* The history. *)

LEMMA HistoryInit == EInit => History
<1> SUFFICES ASSUME EInit PROVE History
  OBVIOUS
<1>1. /\ registered = [t \in Threads |-> {}] /\ heard = [t \in Threads |-> {}] /\ owed = {}
      /\ state = [t \in Threads |-> "INACTIVE"] /\ endon = [t \in Threads |-> <<>>]
  BY DEF EInit, Init
<1>2. \A t \in Threads : Endons(t) = {} /\ ~Blocked(t)
  <2>1. Len(<<>>) = 0 /\ 1 .. 0 = {}
    OBVIOUS
  <2> QED BY <1>1, <2>1 DEF Endons, Blocked
<1> QED BY <1>1, <1>2 DEF History, HistoryTyped, Registrations, OneObject, HeardIsPending,
                        Waiters, OwedIsPending

\* What the discipline says of the next state.
LEMMA Disciplined ==
  ASSUME Discipline
  PROVE  /\ OneObject'
         /\ \A t \in Threads : Endons(t)' \subseteq EndonNames
         /\ \A t \in Threads : \A k \in registered'[t] : \A e \in 1 .. event_count' :
              events'[e].name = k.name => k \in registered[t]
         /\ \A t \in Threads, k \in Keys :
              Blocked(t)' /\ ~Blocked(t) /\ k = waittill'[t] =>
                /\ k.name \notin EndonNames /\ ~PendingKey(k)
                /\ \A u \in Threads : u # t /\ Blocked(u) => waittill[u] # k
<1>1. OneObject'
  BY DEF Discipline, OneObject, Threads
<1>2. \A t \in Threads, k \in Keys :
        Blocked(t)' /\ ~Blocked(t) /\ k = waittill'[t] =>
          /\ k.name \notin EndonNames /\ ~PendingKey(k)
          /\ \A u \in Threads : u # t /\ Blocked(u) => waittill[u] # k
  BY DEF Discipline
<1> QED BY <1>1, <1>2 DEF Discipline

\* A notification is heard by whoever registered its name, and owed to whoever
\* waits for it.
LEMMA PostStep ==
  ASSUME EInv, Discipline, NEW key \in Keys, Posts(key), Remember(key)
  PROVE  History'
<1>1. \A k \in Keys : PendingKey(k)' <=> PendingKey(k) \/ k = key
  BY PendingPosted DEF EInv, Posts
<1>2. /\ UNCHANGED <<state, waittill, endon, registered>>
      /\ heard' = [t \in Threads |->
                     IF key.name \in Endons(t) THEN heard[t] \cup {key} ELSE heard[t]]
      /\ owed' = owed \cup {t \in Threads : state[t] = "WAITING_EVENT" /\ waittill[t] = key}
  BY DEF Posts, Remember, threadvars
<1>3. \A t \in Threads : Endons(t)' = Endons(t) /\ (Blocked(t)' <=> Blocked(t))
  BY <1>2 DEF Endons, Blocked
<1>4. HistoryTyped'
  BY <1>2 DEF EInv, History, HistoryTyped, Threads
<1>5. Registrations'
  BY <1>2, <1>3 DEF EInv, History, Registrations, Threads
<1>6. Waiters'
  BY <1>2, <1>3 DEF EInv, History, Waiters, Threads
<1>7. HeardIsPending'
  <2>1. ASSUME NEW t \in Threads, NEW k \in registered[t], PendingKey(k)' PROVE k \in heard'[t]
    <3>1. k \in Keys /\ k.name \in Endons(t)
      BY DEF EInv, History, HistoryTyped, Registrations
    <3>2. PendingKey(k) \/ k = key
      BY <1>1, <2>1, <3>1
    <3>3. k = key \/ k \in heard[t]
      BY <3>2 DEF EInv, History, HeardIsPending
    <3> QED BY <1>2, <3>1, <3>3
  <2>2. ASSUME NEW t \in Threads, NEW k \in heard'[t]
        PROVE  k.name \in EndonNames /\ PendingKey(k)'
    <3>1. CASE k \in heard[t]
      <4>1. k \in Keys /\ k.name \in EndonNames /\ PendingKey(k)
        BY <3>1 DEF EInv, History, HistoryTyped, HeardIsPending
      <4> QED BY <1>1, <4>1
    <3>2. CASE k \notin heard[t]
      <4>1. k = key /\ key.name \in Endons(t)
        BY <1>2, <2>2, <3>2
      <4>2. key.name \in EndonNames
        BY <4>1 DEF EInv, History, Registrations
      <4> QED BY <1>1, <4>1, <4>2
    <3> QED BY <3>1, <3>2
  <2> QED BY <1>2, <2>1, <2>2 DEF HeardIsPending, Threads
<1>8. OwedIsPending'
  <2>1. \A t \in Threads : t \in owed' => Blocked(t)'
    BY <1>2, <1>3 DEF EInv, History, OwedIsPending, Blocked
  <2>2. ASSUME NEW t \in Threads, NEW k \in Keys, k = waittill'[t]
        PROVE  t \in owed' <=> Blocked(t)' /\ PendingKey(k)'
    <3>1. t \in owed <=> Blocked(t) /\ PendingKey(k)
      BY <1>2, <2>2 DEF EInv, History, OwedIsPending
    <3>2. t \in owed' <=> t \in owed \/ (Blocked(t) /\ k = key)
      BY <1>2, <2>2 DEF Blocked
    <3> QED BY <1>1, <1>3, <3>1, <3>2
  <2> QED BY <2>1, <2>2 DEF OwedIsPending, Threads, Keys
<1> QED BY <1>4, <1>5, <1>6, <1>7, <1>8, Disciplined DEF History

\* Nothing of the name is pending when a key is registered.
LEMMA RegisterStep ==
  ASSUME EInv, Discipline, NEW key \in Keys, Registers(key), Register(key)
  PROVE  History'
<1>0. cur \in Threads /\ endon \in [Threads -> Seq(Names)] /\ key.name \in Names
  BY HandNotFree DEF EInv, IInv, CurInv, Registers, Keys
<1>1. \A k \in Keys : PendingKey(k)' <=> PendingKey(k)
  BY PendingSame DEF Registers
<1>2. /\ UNCHANGED <<state, waittill, events, heard, owed>>
      /\ registered' = [registered EXCEPT ![cur] = registered[cur] \cup {key}]
      /\ endon' = [endon EXCEPT ![cur] = Append(endon[cur], key.name)]
      /\ registered \in [Threads -> SUBSET Keys]
  BY DEF Registers, Register, EInv, History, HistoryTyped
<1>3. \A t \in Threads : Blocked(t)' <=> Blocked(t)
  BY <1>2 DEF Blocked
<1>4. \A t \in Threads :
        /\ t # cur => registered'[t] = registered[t] /\ Endons(t)' = Endons(t)
        /\ t = cur => /\ registered'[t] = registered[t] \cup {key}
                      /\ Endons(t)' = Endons(t) \cup {key.name}
  <2>1. \A t \in Threads : t # cur => endon'[t] = endon[t]
    BY <1>0, <1>2
  <2>2. endon'[cur] = Append(endon[cur], key.name) /\ endon[cur] \in Seq(Names)
    BY <1>0, <1>2
  <2>3. /\ Len(endon'[cur]) = Len(endon[cur]) + 1 /\ Len(endon[cur]) \in Nat
        /\ \A x \in 1 .. Len(endon[cur]) : endon'[cur][x] = endon[cur][x]
        /\ endon'[cur][Len(endon[cur]) + 1] = key.name
    BY <1>0, <2>2, AppendProperties
  <2>4. {endon'[cur][x] : x \in 1 .. Len(endon'[cur])} =
          {endon[cur][x] : x \in 1 .. Len(endon[cur])} \cup {key.name}
    <3>1. /\ \A x \in 1 .. Len(endon[cur]) : x \in 1 .. Len(endon'[cur])
          /\ Len(endon'[cur]) \in 1 .. Len(endon'[cur])
          /\ \A x \in 1 .. Len(endon'[cur]) : x \in 1 .. Len(endon[cur]) \/ x = Len(endon[cur]) + 1
      BY <2>3
    <3> QED BY <2>3, <3>1
  <2>5. \A t \in Threads : t = cur => Endons(t)' = Endons(t) \cup {key.name}
    BY <2>4 DEF Endons
  <2>6. \A t \in Threads : t # cur => Endons(t)' = Endons(t)
    BY <2>1 DEF Endons
  <2> QED BY <1>0, <1>2, <2>5, <2>6
<1>5. HistoryTyped'
  BY <1>0, <1>2 DEF EInv, History, HistoryTyped, Threads, Keys
<1>6. Registrations'
  <2>1. ASSUME NEW t \in Threads, NEW k \in registered'[t] PROVE k.name \in Endons(t)'
    BY <1>4 DEF EInv, History, Registrations
  <2>2. ASSUME NEW t \in Threads, NEW n \in Endons(t)'
        PROVE  n \in EndonNames /\ \E k \in registered'[t] : k.name = n
    <3>1. n \in EndonNames
      BY Disciplined
    <3>2. \E k \in registered'[t] : k.name = n
      BY <1>4 DEF EInv, History, Registrations
    <3> QED BY <3>1, <3>2
  <2> QED BY <2>1, <2>2 DEF Registrations, Threads
<1>7. Waiters'
  BY <1>2, <1>3 DEF EInv, History, Waiters, Threads
<1>8. HeardIsPending'
  <2>1. ASSUME NEW t \in Threads, NEW k \in registered'[t], PendingKey(k)' PROVE k \in heard[t]
    <3>1. \E e \in 1 .. event_count' : events'[e].name = k.name
      BY <2>1 DEF PendingKey
    <3>2. k \in registered[t]
      BY <3>1, Disciplined
    <3>3. k \in Keys
      BY <1>2, <3>2
    <3> QED BY <1>1, <2>1, <3>2, <3>3 DEF EInv, History, HeardIsPending
  <2>2. ASSUME NEW t \in Threads, NEW k \in heard[t]
        PROVE  k.name \in EndonNames /\ PendingKey(k)'
    BY <1>1 DEF EInv, History, HistoryTyped, HeardIsPending
  <2> QED BY <1>2, <2>1, <2>2 DEF HeardIsPending, Threads
<1>9. OwedIsPending'
  BY <1>1, <1>2, <1>3 DEF EInv, History, OwedIsPending, Threads, Keys
<1> QED BY <1>5, <1>6, <1>7, <1>8, <1>9, Disciplined DEF History

\* A step that posts nothing and registers nothing.
LEMMA OtherHistory ==
  ASSUME EInv, RunInv', Discipline, Other,
         \A t \in Threads \ Free' : endon'[t] = endon[t],
         \A k \in Keys : PendingKey(k)' => PendingKey(k),
         \A k \in Keys :
           PendingKey(k) => \/ PendingKey(k)'
                            \/ /\ k.name \notin EndonNames
                               /\ \A t \in Threads : Blocked(t) /\ waittill[t] = k => ~Blocked(t)',
         \A t \in Threads :
           Blocked(t)' => \/ Blocked(t) /\ waittill'[t] = waittill[t]
                          \/ ~Blocked(t) /\ waittill'[t] \in Keys,
         \A t, u \in Threads : Blocked(t)' /\ ~Blocked(t) /\ Blocked(u)' /\ ~Blocked(u) => t = u
  PROVE  History'
<1>1. /\ registered' = [t \in Threads |-> IF t \in Free' THEN {} ELSE registered[t]]
      /\ heard' = [t \in Threads |-> IF t \in Free' THEN {} ELSE heard[t]]
      /\ owed' = {t \in owed : state'[t] = "WAITING_EVENT"}
      /\ registered \in [Threads -> SUBSET Keys] /\ heard \in [Threads -> SUBSET Keys]
      /\ owed \subseteq Threads
  BY DEF Other, EInv, History, HistoryTyped
<1>2. \A t \in Threads :
        /\ registered'[t] = IF t \in Free' THEN {} ELSE registered[t]
        /\ heard'[t] = IF t \in Free' THEN {} ELSE heard[t]
  BY <1>1
<1>3. \A t \in Threads : t \in owed' <=> t \in owed /\ Blocked(t)'
  BY <1>1 DEF Blocked
<1>4. \A t \in Threads : Endons(t)' = IF t \in Free' THEN {} ELSE Endons(t)
  <2>1. ASSUME NEW t \in Threads, t \in Free' PROVE Endons(t)' = {}
    <3>1. endon'[t] = <<>> /\ Len(<<>>) = 0 /\ 1 .. 0 = {}
      BY <2>1 DEF RunInv
    <3> QED BY <3>1 DEF Endons
  <2>2. ASSUME NEW t \in Threads, t \notin Free' PROVE Endons(t)' = Endons(t)
    <3>1. endon'[t] = endon[t]
      BY <2>2
    <3> QED BY <3>1 DEF Endons
  <2> QED BY <2>1, <2>2
<1>5. HistoryTyped'
  BY <1>1, <1>3 DEF HistoryTyped, Threads, Keys
<1>6. Registrations'
  <2>1. ASSUME NEW t \in Threads, NEW k \in registered'[t] PROVE k.name \in Endons(t)'
    BY <1>2, <1>4 DEF EInv, History, Registrations
  <2>2. ASSUME NEW t \in Threads, NEW n \in Endons(t)'
        PROVE  n \in EndonNames /\ \E k \in registered'[t] : k.name = n
    BY <1>2, <1>4 DEF EInv, History, Registrations
  <2> QED BY <2>1, <2>2 DEF Registrations, Threads
<1>7. HeardIsPending'
  <2>1. ASSUME NEW t \in Threads, NEW k \in registered'[t], PendingKey(k)' PROVE k \in heard'[t]
    <3>1. t \notin Free' /\ k \in registered[t] /\ k \in Keys
      BY <1>1, <1>2
    <3> QED BY <1>2, <2>1, <3>1 DEF EInv, History, HeardIsPending
  <2>2. ASSUME NEW t \in Threads, NEW k \in heard'[t]
        PROVE  k.name \in EndonNames /\ PendingKey(k)'
    <3>1. k \in heard[t] /\ k \in Keys
      BY <1>1, <1>2
    <3>2. k.name \in EndonNames /\ PendingKey(k)
      BY <3>1 DEF EInv, History, HeardIsPending
    <3> QED BY <3>1, <3>2
  <2> QED BY <2>1, <2>2 DEF HeardIsPending, Threads
<1>8. \A t \in Threads, k \in Keys :
        Blocked(t)' /\ ~Blocked(t) /\ k = waittill'[t] =>
          /\ k.name \notin EndonNames /\ ~PendingKey(k)
          /\ \A u \in Threads : u # t /\ Blocked(u) => waittill[u] # k
  BY Disciplined
<1>9. \A t \in Threads : Blocked(t) => waittill[t] \in Keys /\ waittill[t].name \notin EndonNames
  BY DEF EInv, History, Waiters
<1>10. Waiters'
  <2>1. ASSUME NEW t \in Threads, Blocked(t)'
        PROVE  waittill'[t] \in Keys /\ waittill'[t].name \notin EndonNames
    BY <1>8, <1>9, <2>1
  <2>2. ASSUME NEW t \in Threads, NEW u \in Threads, Blocked(t)', Blocked(u)',
               waittill'[t] = waittill'[u]
        PROVE  t = u
    <3>1. CASE Blocked(t) /\ Blocked(u)
      BY <2>2, <3>1 DEF EInv, History, Waiters
    <3>2. CASE Blocked(t) /\ ~Blocked(u)
      BY <1>8, <2>2, <3>2
    <3>3. CASE ~Blocked(t) /\ Blocked(u)
      BY <1>8, <2>2, <3>3
    <3>4. CASE ~Blocked(t) /\ ~Blocked(u)
      BY <2>2, <3>4
    <3> QED BY <3>1, <3>2, <3>3, <3>4
  <2> QED BY <2>1, <2>2 DEF Waiters, Threads, Keys
<1>11. OwedIsPending'
  <2>1. \A t \in Threads : t \in owed' => Blocked(t)'
    BY <1>3
  <2>2. ASSUME NEW t \in Threads, NEW k \in Keys, k = waittill'[t], t \in owed'
        PROVE  PendingKey(k)'
    <3>1. t \in owed /\ Blocked(t) /\ Blocked(t)'
      BY <1>3, <2>2 DEF EInv, History, OwedIsPending
    <3>2. waittill[t] = k
      BY <2>2, <3>1
    <3>3. PendingKey(k)
      BY <3>1, <3>2 DEF EInv, History, OwedIsPending
    <3> QED BY <3>1, <3>2, <3>3
  <2>3. ASSUME NEW t \in Threads, NEW k \in Keys, k = waittill'[t], Blocked(t)', PendingKey(k)'
        PROVE  t \in owed'
    <3>1. PendingKey(k)
      BY <2>3
    <3>2. Blocked(t) /\ waittill[t] = k
      BY <1>8, <2>3, <3>1
    <3>3. t \in owed
      BY <3>1, <3>2 DEF EInv, History, OwedIsPending
    <3> QED BY <1>3, <2>3, <3>3
  <2> QED BY <2>1, <2>2, <2>3 DEF OwedIsPending, Threads, Keys
<1> QED BY <1>5, <1>6, <1>7, <1>10, <1>11, Disciplined DEF History

LEMMA OtherStep ==
  ASSUME EInv, RunInv', Discipline, Other
  PROVE  History'
<1>0. /\ IInv /\ RunInv /\ Next /\ pc' # "abort"
      /\ cur \notin Free /\ Free \subseteq Threads /\ pool \in Seq(Threads) /\ PoolInjective
      /\ endon \in [Threads -> Seq(Names)] /\ waittill \in [Threads -> Keys \cup {NoKey}]
      /\ state \in [Threads -> States]
      /\ (pc \in {"dispatch", "run", "requeue"} => cur \in Threads)
  BY HandNotFree DEF EInv, Other, IInv, CurInv
<1>1. CASE Quiet
  <2>1. \A t \in Threads : Blocked(t)' <=> Blocked(t)
    BY <1>1 DEF Quiet, Blocked
  <2>2. \A k \in Keys : PendingKey(k)' <=> PendingKey(k)
    BY <1>1, PendingSame DEF Quiet
  <2>3. UNCHANGED <<endon, waittill>>
    BY <1>1 DEF Quiet
  <2> QED BY <2>1, <2>2, <2>3, OtherHistory
<1>2. CASE CompactEvent \/ EndOfTick
  <2>1. UNCHANGED <<endon, waittill, state>>
    BY <1>2 DEF CompactEvent, EndOfTick, threadvars
  <2>2. \A t \in Threads : Blocked(t)' <=> Blocked(t)
    BY <2>1 DEF Blocked
  <2>3. \A k \in Keys : PendingKey(k)' <=> PendingKey(k)
    BY <1>0, <1>2, PendingCompacted, PendingCut DEF EInv
  <2> QED BY <2>1, <2>2, <2>3, OtherHistory
<1>3. CASE DispatchInactive
  <2>1. cur \in Threads /\ Free' = Free \cup {cur}
    BY <1>0, <1>3, PoolDeallocate DEF DispatchInactive
  <2>2. \A t \in Threads : t # cur =>
          state'[t] = state[t] /\ waittill'[t] = waittill[t] /\ endon'[t] = endon[t]
    BY <1>0, <1>3 DEF DispatchInactive, object_pool_deallocate, Cleared
  <2>3. state'[cur] = "INACTIVE"
    BY <1>0, <1>3, <2>1 DEF DispatchInactive, object_pool_deallocate, Cleared
  <2>4. \A t \in Threads : Blocked(t)' => Blocked(t) /\ waittill'[t] = waittill[t]
    BY <2>2, <2>3 DEF Blocked
  <2>5. \A k \in Keys : PendingKey(k)' <=> PendingKey(k)
    BY <1>3, PendingSame DEF DispatchInactive
  <2> QED BY <2>1, <2>2, <2>4, <2>5, OtherHistory
<1>4. CASE DispatchEvent
  <2>1. /\ cur \in Threads /\ state[cur] = "WAITING_EVENT" /\ UNCHANGED <<endon, waittill>>
        /\ state' = [state EXCEPT ![cur] = "ACTIVE"]
    BY <1>0, <1>4 DEF DispatchEvent
  <2>2. PICK e \in 1 .. event_count :
          Matches(e, cur) /\ events' = [events EXCEPT ![e].active = FALSE]
    BY <1>4 DEF DispatchEvent, FirstMatch
  <2>3. /\ \A k \in Keys : PendingKey(k)' => PendingKey(k)
        /\ \A k \in Keys : PendingKey(k) => PendingKey(k)' \/ k = waittill[cur]
    BY <1>0, <2>1, <2>2, PendingTaken
  <2>4. \A t \in Threads : Blocked(t)' => Blocked(t) /\ t # cur
    BY <1>0, <2>1 DEF Blocked
  <2>5. ASSUME NEW t \in Threads, Blocked(t), waittill[t] = waittill[cur] PROVE ~Blocked(t)'
    <3>1. t = cur
      BY <2>1, <2>5 DEF EInv, History, Waiters, Blocked
    <3> QED BY <2>4, <3>1
  <2>6. waittill[cur].name \notin EndonNames
    BY <2>1 DEF EInv, History, Waiters, Blocked
  <2> QED BY <2>1, <2>3, <2>4, <2>5, <2>6, OtherHistory
<1>5. CASE \E key \in Keys : Blocks(key)
  <2>1. PICK key \in Keys : Blocks(key)
    BY <1>5
  <2>2. cur \in Threads /\ state[cur] = "ACTIVE"
    BY <1>0, <2>1 DEF Blocks, RunInv
  <2>3. \A t \in Threads :
          /\ t # cur => state'[t] = state[t] /\ waittill'[t] = waittill[t]
          /\ t = cur => waittill'[t] = key /\ ~Blocked(t)
    BY <1>0, <2>1, <2>2 DEF Blocks, Blocked
  <2>4. \A k \in Keys : PendingKey(k)' <=> PendingKey(k)
    BY <2>1, PendingSame DEF Blocks
  <2>5. endon' = endon
    BY <2>1 DEF Blocks
  <2>6. \A t \in Threads :
          Blocked(t)' => \/ Blocked(t) /\ waittill'[t] = waittill[t]
                         \/ ~Blocked(t) /\ waittill'[t] \in Keys /\ t = cur
    BY <2>3 DEF Blocked
  <2> QED BY <2>4, <2>5, <2>6, OtherHistory
<1>6. CASE \E t \in Threads : Spawns(t)
  <2>1. PICK n \in Threads : Spawns(n)
    BY <1>6
  <2>2. n \in Free /\ Free' = Free \ {n}
    BY <1>0, <2>1, PoolAllocate DEF Spawns
  <2>3. \A t \in Threads : t # n =>
          state'[t] = state[t] /\ waittill'[t] = waittill[t] /\ endon'[t] = endon[t]
    BY <1>0, <2>1 DEF Spawns, object_pool_allocate, Cleared
  <2>4. state'[n] = "ACTIVE" /\ endon'[n] = <<>>
    BY <1>0, <2>1 DEF Spawns, object_pool_allocate, Cleared
  <2>5. endon'[n] = endon[n]
    BY <1>0, <2>2, <2>4 DEF RunInv
  <2>6. \A t \in Threads : Blocked(t)' => Blocked(t) /\ waittill'[t] = waittill[t]
    BY <2>3, <2>4 DEF Blocked
  <2>7. \A k \in Keys : PendingKey(k)' <=> PendingKey(k)
    BY <2>1, PendingSame DEF Spawns
  <2> QED BY <2>3, <2>5, <2>6, <2>7, OtherHistory
<1>7. ~Raises /\ ~(\E key \in Keys : Posts(key) \/ Registers(key))
  <2>1. ~Raises /\ ~(\E key \in Keys : Posts(key))
    BY <1>0 DEF Raises, Posts, Other
  <2>2. ASSUME NEW key \in Keys, Registers(key) PROVE FALSE
    <3>1. cur \in Threads /\ endon[cur] \in Seq(Names) /\ key.name \in Names
      BY <1>0, <2>2 DEF Registers, Keys
    <3>2. endon'[cur] = Append(endon[cur], key.name)
      BY <1>0, <2>2, <3>1 DEF Registers
    <3>3. Len(endon'[cur]) > Len(endon[cur])
      BY <3>1, <3>2
    <3> QED BY <3>1, <3>3 DEF Other
  <2> QED BY <2>1, <2>2
<1> QED BY <1>0, <1>1, <1>2, <1>3, <1>4, <1>5, <1>6, <1>7, Steps

\* An error and a stutter leave everything an event needs.
LEMMA IdleHistory ==
  ASSUME EInv, UNCHANGED <<threadvars, events, registered, heard, owed>>
  PROVE  History'
<1>1. UNCHANGED <<state, waittill, endon>>
  BY DEF threadvars
<1>2. \A k \in Keys : PendingKey(k)' <=> PendingKey(k)
  BY PendingSame
<1>3. \A t : Endons(t)' = Endons(t) /\ (Blocked(t)' <=> Blocked(t))
  BY <1>1 DEF Endons, Blocked
<1>4. HistoryTyped' /\ OneObject'
  BY DEF EInv, History, HistoryTyped, OneObject, Threads, Keys, event_count
<1>5. Registrations'
  BY <1>3 DEF EInv, History, Registrations, Threads
<1>6. HeardIsPending'
  <2>1. \A t \in Threads : registered[t] \subseteq Keys /\ heard[t] \subseteq Keys
    BY DEF EInv, History, HistoryTyped
  <2> QED BY <1>2, <2>1 DEF EInv, History, HeardIsPending, Threads
<1>7. Waiters' /\ OwedIsPending'
  BY <1>1, <1>2, <1>3 DEF EInv, History, Waiters, OwedIsPending, Threads, Keys
<1> QED BY <1>4, <1>5, <1>6, <1>7 DEF History

\* What the host and the scripts tell the event list.
LEMMA NotifiesPost ==
  ASSUME NEW key \in Keys, gsc_notify(key) \/ OP_NOTIFY(key), pc' # "abort"
  PROVE  Posts(key) /\ Next
<1>1. Posts(key)
  BY DEF gsc_notify, OP_NOTIFY, vm_notify_args, vm_error, Posts
<1> QED BY <1>1 DEF Next, Host, Script

LEMMA EndonRegisters ==
  ASSUME NEW key \in Keys, OP_ENDON(key), pc' # "abort"
  PROVE  Registers(key) /\ Next
<1>1. Registers(key)
  BY DEF OP_ENDON, vm_error, Registers
<1> QED BY <1>1 DEF Next, Script

\* A step with history is a step.
LEMMA HistoryStepIsStep == ENext => Next
BY NotifiesPost, EndonRegisters DEF ENext, Other

LEMMA AbortRaises ==
  ASSUME IInv, RunInv, Next, pc' = "abort"
  PROVE  Raises
<1>1. ~(Quiet \/ DispatchInactive \/ DispatchEvent \/ CompactEvent \/ EndOfTick)
  BY DEF Quiet, DispatchInactive, DispatchEvent, CompactEvent, EndOfTick
<1>2. ~(\E key \in Keys : Posts(key) \/ Registers(key) \/ Blocks(key))
  BY DEF Posts, Registers, Blocks
<1>3. ~(\E t \in Threads : Spawns(t))
  BY DEF Spawns
<1> QED BY <1>1, <1>2, <1>3, Steps

LEMMA EInvInit == EInit => EInv
BY InitInv, RunInit, HistoryInit DEF EInit, EInv, Init, Squeezed

LEMMA EInvStep == EInv /\ [ENext /\ Discipline]_hvars => EInv'
<1> SUFFICES ASSUME EInv, [ENext /\ Discipline]_hvars PROVE EInv'
  OBVIOUS
<1>1. CASE UNCHANGED hvars
  <2>1. UNCHANGED <<vars, registered, heard, owed>>
    BY <1>1 DEF hvars
  <2>2. IInv'
    BY <2>1, NextInv DEF EInv
  <2>3. UNCHANGED <<pc, cur, pool, state, endon, events, j, write, threadvars>>
    BY <2>1 DEF vars, threadvars, compact
  <2>4. RunInv' /\ Squeezed'
    BY <2>3 DEF EInv, RunInv, Free, Squeezed
  <2>5. History'
    BY <2>1, <2>3, IdleHistory
  <2> QED BY <2>2, <2>4, <2>5 DEF EInv
<1>2. CASE ENext /\ Discipline
  <2>1. Next /\ IInv /\ RunInv
    BY <1>2, HistoryStepIsStep DEF EInv
  <2>2. IInv' /\ RunInv' /\ Squeezed'
    BY <2>1, NextInv, RunStep, SqueezedStep DEF EInv
  <2>3. ASSUME NEW key \in Keys,
               gsc_notify(key) \/ OP_NOTIFY(key), pc' # "abort", Remember(key)
        PROVE  History'
    BY <1>2, <2>3, NotifiesPost, PostStep
  <2>4. ASSUME NEW key \in Keys, OP_ENDON(key), pc' # "abort", Register(key)
        PROVE  History'
    BY <1>2, <2>4, EndonRegisters, RegisterStep
  <2>5. ASSUME Other PROVE History'
    BY <1>2, <2>2, <2>5, OtherStep
  <2>6. ASSUME Next, pc' = "abort", UNCHANGED <<registered, heard, owed>>
        PROVE  History'
    <3>1. UNCHANGED <<threadvars, events>>
      BY <2>1, <2>6, AbortRaises DEF Raises
    <3> QED BY <2>6, <3>1, IdleHistory
  <2>7. History'
    BY <1>2, <2>3, <2>4, <2>5, <2>6 DEF ENext
  <2> QED BY <2>2, <2>7 DEF EInv
<1> QED BY <1>1, <1>2

-----------------------------------------------------------------------------
(* The promises. *)

\* From the dispatch a step goes one of these ways.
LEMMA DispatchWays ==
  ASSUME IInv, Next, pc = "dispatch"
  PROVE  /\ cur \in Threads /\ state \in [Threads -> States]
         /\ \/ DispatchInactive \/ DispatchTime \/ DispatchFrame
            \/ DispatchEvent \/ DispatchNoEvent \/ DispatchActive
<1>1. ~Host /\ ~Script /\ ~Finish /\ ~Remove /\ ~Requeue /\ ~Aborted
  BY DEF Host, gsc_call, gsc_notify, gsc_update, Script, OP_NOTIFY, OP_ENDON, OP_CALL_THREADED,
         Yield, OP_WAIT, OP_WAIT_FRAME, OP_WAITTILL, OP_RET, Finish, EndOfRound, CompactEvent,
         EndOfTick, Remove, Requeue, Aborted
<1> QED BY <1>1 DEF Next, Dispatch, IInv, TypeOK, CurInv

\* An endon name that is pending dooms whoever registered it.
LEMMA PendingDooms ==
  ASSUME EInv, cur \in Threads, registered[cur] \cap heard[cur] # {}
  PROVE  Doomed(cur)
<1>1. PICK key : key \in registered[cur] /\ key \in heard[cur]
  OBVIOUS
<1>2. key.name \in Endons(cur) /\ PendingKey(key)
  BY <1>1 DEF EInv, History, Registrations, HeardIsPending
<1> QED BY <1>2 DEF Endons, PendingKey, Doomed

\* Whoever is doomed registered the key of the event and has heard it.
LEMMA DoomedHeard ==
  ASSUME EInv, cur \in Threads, Doomed(cur)
  PROVE  \E e \in 1 .. event_count :
           LET key == [name |-> events[e].name, object |-> events[e].object]
           IN events[e].active /\ key \in registered[cur] \cap heard[cur]
<1>1. PICK e \in 1 .. event_count, x \in 1 .. Len(endon[cur]) :
        events[e].active /\ events[e].name = endon[cur][x]
  BY DEF Doomed
<1>2. events[e].name \in Endons(cur)
  BY <1>1 DEF Endons
<1>3. PICK key \in registered[cur] : key.name = events[e].name
  BY <1>2 DEF EInv, History, Registrations
<1>4. key.object = events[e].object /\ key \in Keys
  BY <1>3 DEF EInv, History, OneObject, HistoryTyped
<1>5. key = [name |-> events[e].name, object |-> events[e].object]
  BY <1>3, <1>4 DEF Keys
<1>6. PendingKey(key)
  BY <1>1, <1>3, <1>4 DEF PendingKey
<1>7. key \in heard[cur]
  BY <1>6 DEF EInv, History, HeardIsPending
<1> QED BY <1>1, <1>5, <1>7

\* Under the discipline a thread that registered a key which has been notified
\* since is not dispatched again (the endon scan of vm_run_threads).
THEOREM EndonStops == DisciplinedSpec => EndonStopsThread
<1>1. EInv /\ [ENext /\ Discipline]_hvars =>
        [pc = "dispatch" /\ registered[cur] \cap heard[cur] # {} => pc' = "loop"]_hvars
  <2> SUFFICES ASSUME EInv, ENext /\ Discipline, pc = "dispatch",
                      registered[cur] \cap heard[cur] # {}
               PROVE  pc' = "loop"
    OBVIOUS
  <2>1. IInv /\ Next
    BY HistoryStepIsStep DEF EInv
  <2>2. cur \in Threads /\ Doomed(cur)
    BY <2>1, DispatchWays, PendingDooms
  <2>3. DispatchInactive
    BY <2>1, <2>2, DispatchWays DEF DispatchTime, DispatchFrame, DispatchEvent, DispatchNoEvent,
                                    DispatchActive
  <2> QED BY <2>3 DEF DispatchInactive
<1> QED BY <1>1, EInvInit, EInvStep, PTL DEF DisciplinedSpec, EndonStopsThread

\* Under the discipline a thread is stopped only by a notification sent to an
\* object it named in an endon, after it had named it (the endon scan of
\* vm_run_threads, which compares names only).
THEOREM EndonHeeds == DisciplinedSpec => EndonHeedsRegistration
<1> DEFINE Heard(t) == \E e \in 1 .. event_count :
                         LET key == [name |-> events[e].name, object |-> events[e].object]
                         IN events[e].active /\ key \in registered[t] \cap heard[t]
<1>1. EInv /\ [ENext /\ Discipline]_hvars => [\A t \in Threads : Stopped(t) => Heard(t)]_hvars
  <2> SUFFICES ASSUME EInv, ENext /\ Discipline, NEW t \in Threads, Stopped(t)
               PROVE  Heard(t)
    OBVIOUS
  <2>1. IInv /\ Next /\ pc = "dispatch" /\ pc' = "loop" /\ cur = t /\ state[t] # "INACTIVE"
    BY HistoryStepIsStep DEF EInv, Stopped
  <2>2. DispatchInactive
    BY <2>1, DispatchWays DEF DispatchTime, DispatchFrame, DispatchEvent, DispatchNoEvent,
                              DispatchActive
  <2>3. Doomed(cur)
    BY <2>1, <2>2 DEF DispatchInactive
  <2> QED BY <2>1, <2>3, DoomedHeard
<1> QED BY <1>1, EInvInit, EInvStep, PTL DEF DisciplinedSpec, EndonHeedsRegistration

\* Under the discipline a thread that was blocked on a key when it was notified
\* is awake after its next visit (the waittill scan of vm_run_threads).
THEOREM WakeupsArrive == DisciplinedSpec => NoLostWakeup
<1>1. EInv /\ [ENext /\ Discipline]_hvars =>
        [pc = "dispatch" /\ cur \in owed => pc' = "loop" \/ state'[cur] = "ACTIVE"]_hvars
  <2> SUFFICES ASSUME EInv, ENext /\ Discipline, pc = "dispatch", cur \in owed
               PROVE  pc' = "loop" \/ state'[cur] = "ACTIVE"
    OBVIOUS
  <2>1. IInv /\ Next
    BY HistoryStepIsStep DEF EInv
  <2>2. cur \in Threads /\ state \in [Threads -> States]
    BY <2>1, DispatchWays
  <2>3. state[cur] = "WAITING_EVENT" /\ waittill[cur] \in Keys
    BY <2>2 DEF EInv, History, OwedIsPending, Waiters, Blocked
  <2>4. PICK key \in Keys : key = waittill[cur] /\ PendingKey(key)
    BY <2>2, <2>3 DEF EInv, History, OwedIsPending
  <2>5. \E e \in 1 .. event_count : Matches(e, cur)
    BY <2>4 DEF PendingKey, Matches
  <2>6. DispatchInactive \/ DispatchEvent
    BY <2>1, <2>3, <2>5, DispatchWays DEF DispatchTime, DispatchFrame, DispatchNoEvent,
                                          DispatchActive
  <2> QED BY <2>2, <2>6 DEF DispatchInactive, DispatchEvent
<1> QED BY <1>1, EInvInit, EInvStep, PTL DEF DisciplinedSpec, NoLostWakeup

\* Under the discipline a thread is not woken by a notification sent before it
\* blocked, although vm_notify_args keeps events nobody waits for.
THEOREM WakeupsFresh == DisciplinedSpec => NoStaleWakeup
<1>1. EInv /\ [ENext /\ Discipline]_hvars =>
        [\A t \in Threads : state[t] = "WAITING_EVENT" /\ state'[t] = "ACTIVE" => t \in owed]_hvars
  <2> SUFFICES ASSUME EInv, ENext /\ Discipline, NEW t \in Threads,
                      state[t] = "WAITING_EVENT", state'[t] = "ACTIVE"
               PROVE  t \in owed
    OBVIOUS
  <2>1. IInv /\ RunInv /\ Next
    BY HistoryStepIsStep DEF EInv
  <2>2. /\ cur \notin Free /\ pool \in Seq(Threads) /\ PoolInjective
        /\ state \in [Threads -> States]
        /\ \A u \in Free : state[u] = "INACTIVE"
    BY <2>1, HandNotFree DEF RunInv
  <2>3. DispatchEvent /\ cur = t
    <3>1. ~Raises /\ ~CompactEvent /\ ~EndOfTick
      BY DEF Raises, CompactEvent, EndOfTick, threadvars
    <3>2. ~Quiet
      BY DEF Quiet, Blocked
    <3>3. ~DispatchInactive
      BY <2>2 DEF DispatchInactive, object_pool_deallocate, Cleared
    <3>4. ~(\E key \in Keys : Posts(key) \/ Registers(key) \/ Blocks(key))
      BY <2>2 DEF Posts, Registers, Blocks, threadvars
    <3>5. ~(\E n \in Threads : Spawns(n))
      <4> SUFFICES ASSUME NEW n \in Threads, Spawns(n) PROVE FALSE
        OBVIOUS
      <4>1. n \in Free /\ state[n] = "INACTIVE"
        BY <2>2, PoolAllocate DEF Spawns
      <4>2. state'[t] = state[t]
        BY <2>2, <4>1 DEF Spawns, object_pool_allocate, Cleared
      <4> QED BY <4>2
    <3>6. DispatchEvent
      BY <2>1, <3>1, <3>2, <3>3, <3>4, <3>5, Steps
    <3>7. cur = t
      BY <2>2, <3>6 DEF DispatchEvent
    <3> QED BY <3>6, <3>7
  <2>4. PICK e \in 1 .. event_count : Matches(e, cur)
    BY <2>3 DEF DispatchEvent, FirstMatch
  <2>5. PICK key \in Keys : key = waittill[cur]
    BY <2>3 DEF EInv, History, Waiters, Blocked
  <2>6. PendingKey(key)
    BY <2>4, <2>5 DEF Matches, PendingKey
  <2> QED BY <2>3, <2>5, <2>6 DEF EInv, History, OwedIsPending, Blocked
<1> QED BY <1>1, EInvInit, EInvStep, PTL DEF DisciplinedSpec, NoStaleWakeup
=============================================================================
