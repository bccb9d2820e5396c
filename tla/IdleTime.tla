------------------------------ MODULE IdleTime ------------------------------
(***************************************************************************)
(* The idle watcher of the power plugin, gpm-idletime.c, with its only     *)
(* client, the alarm set-up of gsd-power-manager.c, and the part of the X  *)
(* server it talks to: the IDLETIME counter and the XSync alarms on it.    *)
(*                                                                         *)
(* The server drops the counter to 0 on input and sends an event for every *)
(* alarm whose transition the counter makes.  The client reads its events  *)
(* later: an idle alarm makes it report idleness and arm a "reset alarm"   *)
(* just below the value in the event; the reset alarm makes it report      *)
(* activity.  Input between an event and its handler is the hard part.     *)
(* Requests are synchronous here: the handler ends in a round trip.        *)
(***************************************************************************)
EXTENDS Naturals, SequencesExt

CONSTANTS
  Ids,         \* alarm ids of the client (the reset alarm is id 0)
  Timeouts,    \* timeouts the client sets; 0 removes the alarm
  Margin,      \* margin for messaging delay of idle_adjust_timeout_dim
  Cap,         \* timeout from which it gives up doubling (24 hours)
  CounterMax,  \* bound of the model: the counter stops here
  QueueMax,    \* bound of the model: unread events
  Prompt       \* an event is read before the user can become idle again

NoAlarm == 0
Reset == 0

ASSUME IdsAssumption == Ids \subseteq Nat \ {Reset} /\ IsFiniteSet(Ids)
ASSUME TimesAssumption ==
  /\ Timeouts \subseteq Nat /\ Timeouts # {}
  /\ Margin \in Nat /\ Cap \in Nat \ {0} /\ CounterMax \in Nat
  /\ QueueMax \in Nat \ {0}
  /\ Prompt \in BOOLEAN

VARIABLES
  counter,   \* the server's IDLETIME
  alarms,    \* wait value of each alarm (PositiveTransition), or NoAlarm
  resetAt,   \* wait value of the reset alarm (NegativeTransition), or -1
  events,    \* alarm events on their way to the client
  resetSet,  \* priv->reset_set
  told,      \* last signal: alarm-expired (TRUE) or reset (FALSE)
  running    \* gsd_power_manager_start .. gsd_power_manager_stop

vars == <<counter, alarms, resetAt, events, resetSet, told, running>>

Disabled == CounterMax + 1

\* A timeout after so many turns of the loop of idle_adjust_timeout_dim.
\* After MostTurns it is larger than every idle time, with the margin.
MostTurns == CounterMax + Margin
Doubled(timeout) ==
  LET D[k \in 0 .. MostTurns] == IF k = 0 THEN timeout ELSE 2 * D[k - 1] IN D

\* The wait values the client can ask for.
WaitValues == {NoAlarm} \cup
              {Doubled(timeout)[k] : timeout \in Timeouts, k \in 0 .. MostTurns}

TypeOK ==
  /\ counter \in 0 .. CounterMax
  /\ alarms \in [Ids -> WaitValues]
  /\ resetAt \in 0 .. CounterMax \cup {Disabled}
  /\ events \in Seq([id : Ids \cup {Reset}, value : 0 .. CounterMax])
  /\ resetSet \in BOOLEAN /\ told \in BOOLEAN /\ running \in BOOLEAN

-----------------------------------------------------------------------------
(* The X server                                                            *)

\* PositiveTransition: from below the wait value to it or above.
Rising(c) == {i \in Ids : alarms[i] # NoAlarm /\ counter < alarms[i]
                                             /\ alarms[i] <= c}

\* NegativeTransition: from above the wait value to it or below.
Falling(c) == IF resetAt # Disabled /\ counter > resetAt /\ c <= resetAt
                THEN {Reset} ELSE {}

\* The counter changes; transition alarms stay active when they fire.
CounterBecomes(c) ==
  LET fired == Rising(c) \cup Falling(c)
  IN /\ Len(events) + Cardinality(fired) <= QueueMax
     /\ counter' = c
     /\ \E order \in SetToSeqs(fired) :
          events' = events \o [n \in DOMAIN order |->
                                 [id |-> order[n], value |-> c]]
     /\ UNCHANGED <<alarms, resetAt, resetSet, told, running>>

UserInput == counter > 0 /\ CounterBecomes(0)

Shortest == Min(Timeouts \ {0})

TimePasses ==
  /\ counter < CounterMax
  /\ Prompt /\ events # <<>> => \/ counter + 1 < Shortest - 1
                                \/ counter >= Shortest
  /\ CounterBecomes(counter + 1)

\* Those of the queue's events that are of these alarms, in their order.
Only(queue, ids) ==
  LET Kept[n \in 0 .. Len(queue)] ==
        IF n = 0 THEN <<>>
        ELSE IF queue[n].id \in ids THEN Append(Kept[n - 1], queue[n])
        ELSE Kept[n - 1]
  IN Kept[Len(queue)]

\* XSyncDestroyAlarm: events of the alarm that are still unread no longer
\* match an alarm of the client, which is the same as dropping them.
Without(id) == Only(events, (Ids \cup {Reset}) \ {id})

-----------------------------------------------------------------------------
(* gpm-idletime.c                                                          *)

\* gpm_idletime_alarm_reset_all: the alarms keep their wait values.
ResetAll(queue) ==
  /\ resetAt' = Disabled /\ resetSet' = FALSE /\ told' = FALSE
  /\ events' = Only(queue, Ids)

\* gpm_idletime_event_filter_cb on the reset alarm
ResetEvent ==
  /\ events # <<>> /\ Head(events).id = Reset
  /\ IF resetSet THEN ResetAll(Tail(events))
     ELSE events' = Tail(events) /\ UNCHANGED <<resetAt, resetSet, told>>
  /\ UNCHANGED <<counter, alarms, running>>

\* Mutants of AlarmEvent: the reset alarm waits for the value itself; input
\* before this handler is not noticed.
AlarmEventAtValue ==
  /\ events # <<>> /\ Head(events).id # Reset
  /\ UNCHANGED <<counter, alarms, running>>
  /\ LET threshold == Head(events).value
     IN \/ /\ resetSet
           /\ told' = TRUE /\ events' = Tail(events)
           /\ UNCHANGED <<resetAt, resetSet>>
        \/ /\ ~resetSet /\ counter >= threshold
           /\ told' = TRUE /\ events' = Tail(events)
           /\ resetAt' = threshold /\ resetSet' = TRUE
        \/ /\ ~resetSet /\ counter < threshold
           /\ ResetAll(Tail(events))

AlarmEventUnchecked ==
  /\ events # <<>> /\ Head(events).id # Reset
  /\ UNCHANGED <<counter, alarms, running>>
  /\ told' = TRUE /\ events' = Tail(events) /\ resetSet' = TRUE
  /\ resetAt' = IF resetSet THEN resetAt ELSE Head(events).value - 1

\* gpm_idletime_event_filter_cb on another alarm: emit alarm-expired, then
\* gpm_idletime_set_reset_alarm.
AlarmEvent ==
  /\ events # <<>> /\ Head(events).id # Reset
  /\ UNCHANGED <<counter, alarms, running>>
  /\ LET threshold == Head(events).value - 1
     IN \/ /\ resetSet
           /\ told' = TRUE /\ events' = Tail(events)
           /\ UNCHANGED <<resetAt, resetSet>>
        \/ /\ ~resetSet /\ counter >= threshold
           /\ told' = TRUE /\ events' = Tail(events)
           /\ resetAt' = threshold /\ resetSet' = TRUE
        \/ /\ ~resetSet /\ counter < threshold
           /\ ResetAll(Tail(events))

-----------------------------------------------------------------------------
(* gsd-power-manager.c                                                     *)

\* Mutants of Adjusted: the timeout as it is; added to instead of doubled.
AdjustedNever(idle, timeout) == timeout

AdjustedByAdding(idle, timeout) ==
  IF timeout = 0 THEN 0 ELSE timeout + idle + Margin

\* idle_adjust_timeout_dim
Adjusted(idle, timeout) ==
  IF timeout = 0 THEN 0
  ELSE Min({t \in ToSet(Doubled(timeout)) : t >= idle + Margin \/ t >= Cap})

\* idle_set_timeout_dim, with gpm_idletime_alarm_set or _remove.  A counter
\* that reads 0 is taken for a server without IDLETIME.
SetTimeout(i, timeout) ==
  IF counter = 0 THEN UNCHANGED <<alarms, events>>
  ELSE /\ alarms' = [alarms EXCEPT ![i] = Adjusted(counter, timeout)]
       /\ events' = IF timeout = 0 THEN Without(i) ELSE events

\* engine_settings_key_changed_cb for "idle-dim-time"
ChangeTimeout ==
  /\ running
  /\ \E i \in Ids, timeout \in Timeouts : SetTimeout(i, timeout)
  /\ UNCHANGED <<counter, resetAt, resetSet, told, running>>

\* gsd_power_manager_stop removes its alarm and drops its reference; the
\* reset alarm's own reference keeps the object, its event filter and the
\* manager's signal handlers in place.
Stop ==
  /\ running /\ running' = FALSE
  /\ alarms' = [i \in Ids |-> NoAlarm]
  /\ events' = Only(events, {Reset})
  /\ UNCHANGED <<counter, resetAt, resetSet, told>>

\* gsd_power_manager_start gets the same object from gpm_idletime_new.
Start ==
  /\ ~running /\ running' = TRUE
  /\ \E i \in Ids, timeout \in Timeouts : SetTimeout(i, timeout)
  /\ UNCHANGED <<counter, resetAt, resetSet, told>>

-----------------------------------------------------------------------------
Init ==
  /\ counter \in 0 .. CounterMax
  /\ alarms = [i \in Ids |-> NoAlarm]
  /\ resetAt = Disabled /\ events = <<>> /\ resetSet = FALSE /\ told = FALSE
  /\ running = FALSE

Next ==
  \/ UserInput \/ TimePasses
  \/ AlarmEvent \/ ResetEvent
  \/ ChangeTimeout \/ Start \/ Stop

Spec == Init /\ [][Next]_vars

\* Time passes while the user does nothing, and the main loop reads events.
FairSpec == Spec /\ WF_vars(TimePasses) /\ WF_vars(AlarmEvent \/ ResetEvent)

-----------------------------------------------------------------------------
(* Properties                                                              *)

\* A client that holds the user for idle can still find out about activity:
\* either the reset alarm is armed with the counter above it or just at it,
\* or its event is on the way.  Input between an event and its handler does
\* not get lost ("We've missed the alarm already", gpm-idletime.c:233).
ActivityIsReported ==
  told => /\ resetSet
          /\ \/ counter >= resetAt
             \/ \E n \in DOMAIN events : events[n].id = Reset

\* A user who does nothing is reported idle once an alarm is
\* set, also one that was set while the user was idle already ("so the idle
\* timeout will fire as designed", gsd-power-manager.c:3380).
IdlenessIsReported ==
  \A i \in Ids :
    <>[](counter = CounterMax /\ alarms[i] \in 1 .. CounterMax) => <>[]told

\* Input ends idleness: a user who does something again and again is
\* reported active again and again.
ActiveAgain == []<>(counter = 0) => []<>(~told)
=============================================================================
