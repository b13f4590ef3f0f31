--------------------------- MODULE SchedulerEvents ---------------------------
(***************************************************************************)
(* History variables that remember what scripts were told about endon and  *)
(* waittill, to compare with what the event list does:                     *)
(*   game endon("game_ended")       "Coroutine instance will stop when     *)
(*                                   this event happens."                  *)
(*   game waittill("game_started")  "Coroutine will block until this event *)
(*                                   happens."                             *)
(***************************************************************************)
EXTENDS Scheduler

CONSTANT EndonNames   \* the names a disciplined script passes to endon

VARIABLES
  registered,   \* keys a thread passed to endon
  heard,        \* keys notified since the thread registered a key of that name
  owed          \* threads blocked on a key when it was notified, still blocked

hvars == <<vars, registered, heard, owed>>

EInit ==
  /\ Init
  /\ registered = [t \in Threads |-> {}]
  /\ heard = [t \in Threads |-> {}]
  /\ owed = {}

Endons(t) == {endon[t][k] : k \in 1 .. Len(endon[t])}

Remember(key) ==
  /\ heard' = [t \in Threads |->
                 IF key.name \in Endons(t) THEN heard[t] \cup {key} ELSE heard[t]]
  /\ owed' = owed \cup {t \in Threads : state[t] = "WAITING_EVENT" /\ waittill[t] = key}
  /\ UNCHANGED registered

Register(key) ==
  /\ registered' = [registered EXCEPT ![cur] = @ \cup {key}]
  /\ UNCHANGED <<heard, owed>>

\* Every other step: a freed struct has no past, a woken thread is owed nothing.
Other ==
  /\ Next
  /\ pc # "abort" /\ pc' # "abort"
  /\ ~(\E key \in Keys : events' = Append(events, Event(key)))
  /\ ~(\E t \in Threads : Len(endon'[t]) > Len(endon[t]))
  /\ registered' = [t \in Threads |-> IF t \in Free' THEN {} ELSE registered[t]]
  /\ heard' = [t \in Threads |-> IF t \in Free' THEN {} ELSE heard[t]]
  /\ owed' = {t \in owed : state'[t] = "WAITING_EVENT"}

ENext ==
  \/ \E key \in Keys : (gsc_notify(key) \/ OP_NOTIFY(key)) /\ pc' # "abort" /\ Remember(key)
  \/ \E key \in Keys : OP_ENDON(key) /\ pc' # "abort" /\ Register(key)
  \/ Other
  \/ (Next /\ pc' = "abort" /\ UNCHANGED <<registered, heard, owed>>)

ESpec == EInit /\ [][ENext]_hvars

Stopped(t) == pc = "dispatch" /\ cur = t /\ state[t] # "INACTIVE" /\ pc' = "loop"

\* "Coroutine instance will stop when this event happens": a thread that
\* registered a key which has been notified since is not dispatched again.
EndonStopsThread ==
  [][pc = "dispatch" /\ registered[cur] \cap heard[cur] # {} => pc' = "loop"]_hvars

\* "... when this event happens", game endon("game_ended") naming the object: a
\* thread is stopped only by a notification sent to an object it named, after
\* it had named it.
EndonHeedsRegistration ==
  [][\A t \in Threads : Stopped(t) =>
       \E e \in 1 .. event_count :
         LET key == [name |-> events[e].name, object |-> events[e].object]
         IN events[e].active /\ key \in registered[t] \cap heard[t]]_hvars

\* "Coroutine will block until this event happens": a thread that was blocked
\* on a key when it was notified is awake after its next visit.
NoLostWakeup ==
  [][pc = "dispatch" /\ cur \in owed => pc' = "loop" \/ state'[cur] = "ACTIVE"]_hvars

\* "Coroutine will block until this event happens": a thread is not woken by a
\* notification sent before it blocked.
NoStaleWakeup ==
  [][\A t \in Threads : state[t] = "WAITING_EVENT" /\ state'[t] = "ACTIVE" => t \in owed]_hvars

-----------------------------------------------------------------------------
(* A discipline under which the promises are kept: a name used with endon is *)
(* never waited on, is registered before it is notified and is notified only *)
(* on the object it was registered with; one thread at a time blocks on a    *)
(* key, and none on a key that is pending.                                   *)

PendingKey(key) ==
  \E e \in 1 .. event_count :
    events[e].active /\ events[e].name = key.name /\ events[e].object = key.object

Blocked(t) == state[t] = "WAITING_EVENT"

Discipline ==
  /\ \A t \in Threads : Blocked(t)' /\ ~Blocked(t) =>
       /\ waittill'[t].name \notin EndonNames
       /\ ~PendingKey(waittill'[t])
       /\ \A u \in Threads \ {t} : Blocked(u) => waittill[u] # waittill'[t]
  /\ \A t \in Threads : Endons(t)' \subseteq EndonNames
  /\ \A t \in Threads : \A key \in registered'[t] : \A e \in 1 .. event_count' :
       events'[e].name = key.name =>
         events'[e].object = key.object /\ key \in registered[t]

DisciplinedSpec == EInit /\ [][ENext /\ Discipline]_hvars
=============================================================================
