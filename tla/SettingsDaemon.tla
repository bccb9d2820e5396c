--------------------------- MODULE SettingsDaemon ---------------------------
(***************************************************************************)
(* The life of the daemon's processes (gnome-settings-daemon/main.c): the  *)
(* bus name that decides which process runs the plugins, replacement, the  *)
(* ways a process ends, and the registration with gnome-session through    *)
(* which the end of the session is negotiated.                             *)
(*                                                                         *)
(* Several processes may exist at a time.  Each handles one message of its *)
(* inbox at a time, in the order the bus sent them; what it holds from the *)
(* plugin manager is whether plugins run (SettingsManager has the rest).   *)
(***************************************************************************)
EXTENDS Naturals, SequencesExt

CONSTANTS
  Daemons,      \* the processes
  MayReplace,   \* those started with --replace
  MayFail,      \* "register": gnome-session refuses; "proxy": no client proxy
  MayCrash,     \* processes that may crash
  EarlyQueries  \* gnome-session may ask a client it registered just now

ASSUME DaemonsAssumption ==
  /\ IsFiniteSet(Daemons) /\ MayReplace \subseteq Daemons
  /\ MayCrash \subseteq Daemons /\ MayFail \subseteq {"register", "proxy"}
  /\ EarlyQueries \in BOOLEAN

VARIABLES
  phase,     \* "off", "waiting", "running", "quit" or "exited"
  managing,  \* the plugins of the process run
  queue,     \* the bus: who waits for the name; the first one owns it
  inbox,     \* messages the process has not handled
  client,    \* the client proxy of the process, see below
  asked      \* gnome-session waits for EndSessionResponse

vars == <<phase, managing, queue, inbox, client, asked>>

Phases == {"off", "waiting", "running", "quit", "exited"}

\* none: not registered; calling: RegisterClient was called; known:
\* gnome-session knows the client; creating: its proxy is being created;
\* connected: client_proxy_signal_cb is connected; failed: it never will be.
Clients == {"none", "calling", "known", "creating", "connected", "failed"}

Messages == {"NameAcquired", "NameLost", "Registered", "ProxyReady",
             "SessionOver", "QueryEndSession", "Stop"}

TypeOK ==
  /\ phase \in [Daemons -> Phases] /\ managing \in [Daemons -> BOOLEAN]
  /\ queue \in Seq(Daemons)
  /\ \A m, n \in DOMAIN queue : queue[m] = queue[n] => m = n
  /\ inbox \in [Daemons -> Seq(Messages)]
  /\ client \in [Daemons -> Clients] /\ asked \in [Daemons -> BOOLEAN]
  /\ \A d \in Daemons : phase[d] \in {"off", "exited"} =>
       ~managing[d] /\ inbox[d] = <<>> /\ d \notin ToSet(queue)

Owns(d) == queue # <<>> /\ queue[1] = d
Has(d, message) == \E n \in DOMAIN inbox[d] : inbox[d][n] = message

-----------------------------------------------------------------------------
(* The session bus                                                         *)

Without(d) == RemoveFirst(queue, d)

\* The name goes from its owner to whoever is first in newQueue.
Pass(boxes, newQueue) ==
  /\ queue' = newQueue
  /\ inbox' = [e \in Daemons |->
                 IF newQueue # <<>> /\ newQueue[1] = e /\ ~Owns(e)
                   THEN Append(boxes[e], "NameAcquired")
                 ELSE IF Owns(e) /\ e \in ToSet(newQueue) /\ newQueue[1] # e
                   THEN Append(boxes[e], "NameLost")
                 ELSE boxes[e]]

\* bus_register.  A name that is taken is reported lost, but the process
\* stays in the queue for it, and so does an owner that is replaced.
BusRegister(d) ==
  /\ phase[d] = "off" /\ phase' = [phase EXCEPT ![d] = "waiting"]
  /\ IF queue = <<>> \/ d \in MayReplace
       THEN Pass(inbox, <<d>> \o queue)
       ELSE /\ queue' = Append(queue, d)
            /\ inbox' = [inbox EXCEPT ![d] = Append(@, "NameLost")]
  /\ UNCHANGED <<managing, client, asked>>

-----------------------------------------------------------------------------
(* The handlers of main.c                                                  *)

Running(d) == phase[d] \in {"waiting", "running"}

\* The next message of d is this one, and it is taken.
Takes(d, message) ==
  /\ Running(d) /\ inbox[d] # <<>> /\ Head(inbox[d]) = message
  /\ inbox' = [inbox EXCEPT ![d] = Tail(@)]
  /\ UNCHANGED queue

\* Mutant of StopManager: does not call gtk_main_quit.
StopManagerOnly(d) ==
  managing' = [managing EXCEPT ![d] = FALSE] /\ UNCHANGED phase

\* stop_manager: gnome_settings_manager_stop, then gtk_main_quit
StopManager(d) ==
  /\ managing' = [managing EXCEPT ![d] = FALSE]
  /\ phase' = [phase EXCEPT ![d] = "quit"]

\* name_acquired_handler: start_settings_manager,
\* register_with_gnome_session, watch_for_term_signal
NameAcquired(d) ==
  /\ Takes(d, "NameAcquired")
  /\ managing' = [managing EXCEPT ![d] = TRUE]
  /\ phase' = [phase EXCEPT ![d] = "running"]
  /\ client' = [client EXCEPT ![d] = "calling"]
  /\ UNCHANGED asked

\* Mutant of NameLost: the process does nothing about it while it runs.
NameLostIgnored(d) ==
  /\ Takes(d, "NameLost")
  /\ IF managing[d] THEN UNCHANGED <<managing, phase>> ELSE StopManager(d)
  /\ UNCHANGED <<client, asked>>

\* name_lost_handler
NameLost(d) ==
  /\ Takes(d, "NameLost") /\ StopManager(d)
  /\ UNCHANGED <<client, asked>>

\* on_session_over; client_proxy_signal_cb for Stop
SessionOver(d) ==
  /\ \/ Takes(d, "SessionOver") /\ client[d] # "none"
     \/ Takes(d, "Stop") /\ client[d] = "connected"
  /\ StopManager(d)
  /\ UNCHANGED <<client, asked>>

\* on_client_registered: creates the client proxy
ClientRegistered(d) ==
  /\ Takes(d, "Registered")
  /\ client' = [client EXCEPT ![d] = "creating"]
  /\ UNCHANGED <<phase, managing, asked>>

\* got_client_proxy: connects client_proxy_signal_cb
GotClientProxy(d) ==
  /\ Takes(d, "ProxyReady")
  /\ client' = [client EXCEPT ![d] = "connected"]
  /\ UNCHANGED <<phase, managing, asked>>

\* Mutant of QueryEndSession: no response.
QueryEndSessionIgnored(d) ==
  /\ Takes(d, "QueryEndSession")
  /\ UNCHANGED <<phase, managing, client, asked>>

\* client_proxy_signal_cb for QueryEndSession and EndSession
QueryEndSession(d) ==
  /\ Takes(d, "QueryEndSession")
  /\ asked' = IF client[d] = "connected" THEN [asked EXCEPT ![d] = FALSE]
                                         ELSE asked
  /\ UNCHANGED <<phase, managing, client>>

\* Stop arrives at a proxy that is not connected yet: nobody hears it.
StopUnheard(d) ==
  /\ Takes(d, "Stop") /\ client[d] # "connected"
  /\ UNCHANGED <<phase, managing, client, asked>>

\* The process is gone; the bus takes note.
Gone(d) ==
  /\ phase' = [phase EXCEPT ![d] = "exited"]
  /\ managing' = [managing EXCEPT ![d] = FALSE]
  /\ asked' = [asked EXCEPT ![d] = FALSE]
  /\ client' = [client EXCEPT ![d] = "none"]
  /\ Pass([inbox EXCEPT ![d] = <<>>], Without(d))

\* on_term_signal, on_term_signal_pipe_closed; timed_exit_cb.  Before
\* name_acquired_handler the signal kills the process.
Term(d) ==
  \/ phase[d] = "waiting" /\ Gone(d)
  \/ /\ Running(d) /\ phase' = [phase EXCEPT ![d] = "quit"]
     /\ UNCHANGED <<managing, queue, inbox, client, asked>>

\* main, after gtk_main: g_bus_unown_name, and then g_object_unref, which
\* stops the manager unless it was stopped before.
UnownName(d) ==
  /\ phase[d] = "quit" /\ d \in ToSet(queue)
  /\ Pass(inbox, Without(d))
  /\ UNCHANGED <<phase, managing, client, asked>>

\* Mutant of Exit: the manager is not released.
ExitLeaks(d) ==
  /\ phase[d] = "quit" /\ d \notin ToSet(queue)
  /\ phase' = [phase EXCEPT ![d] = "exited"]
  /\ asked' = [asked EXCEPT ![d] = FALSE]
  /\ inbox' = [inbox EXCEPT ![d] = <<>>]
  /\ client' = [client EXCEPT ![d] = "none"]
  /\ UNCHANGED <<managing, queue>>

Exit(d) == phase[d] = "quit" /\ d \notin ToSet(queue) /\ Gone(d)

Crash(d) ==
  d \in MayCrash /\ phase[d] \in {"waiting", "running", "quit"} /\ Gone(d)

Handle(d) ==
  \/ NameAcquired(d) \/ NameLost(d) \/ SessionOver(d)
  \/ ClientRegistered(d) \/ GotClientProxy(d)
  \/ QueryEndSession(d) \/ StopUnheard(d)
  \/ UnownName(d) \/ Exit(d)

-----------------------------------------------------------------------------
(* gnome-session                                                           *)

Send(d, message) == inbox' = [inbox EXCEPT ![d] = Append(@, message)]

\* It takes or refuses RegisterClient.
Register(d) ==
  /\ client[d] = "calling"
  /\ \/ client' = [client EXCEPT ![d] = "known"] /\ Send(d, "Registered")
     \/ /\ "register" \in MayFail
        /\ client' = [client EXCEPT ![d] = "failed"] /\ UNCHANGED inbox
  /\ UNCHANGED <<phase, managing, queue, asked>>

\* The bus answers what the creation of the proxy asks.
CreateProxy(d) ==
  /\ client[d] = "creating" /\ ~Has(d, "ProxyReady")
  /\ \/ Send(d, "ProxyReady") /\ UNCHANGED client
     \/ /\ "proxy" \in MayFail
        /\ client' = [client EXCEPT ![d] = "failed"] /\ UNCHANGED inbox
  /\ UNCHANGED <<phase, managing, queue, asked>>

Knows(d) == client[d] \in {"known", "creating", "connected", "failed"}

\* It asks a client whether the session may end.
Ask(d) ==
  /\ Running(d) /\ ~asked[d]
  /\ IF EarlyQueries THEN client[d] \in {"known", "creating", "connected"}
                     ELSE client[d] = "connected"
  /\ ~Has(d, "SessionOver") /\ ~Has(d, "Stop")
  /\ asked' = [asked EXCEPT ![d] = TRUE]
  /\ Send(d, "QueryEndSession")
  /\ UNCHANGED <<phase, managing, queue, client>>

\* It ends the session, or this client.
EndSession(d) ==
  /\ phase[d] = "running" /\ ~Has(d, "SessionOver") /\ ~Has(d, "Stop")
  /\ \/ Send(d, "SessionOver")
     \/ Knows(d) /\ Send(d, "Stop")
  /\ UNCHANGED <<phase, managing, queue, client, asked>>

-----------------------------------------------------------------------------
Init ==
  /\ phase = [d \in Daemons |-> "off"]
  /\ managing = [d \in Daemons |-> FALSE]
  /\ queue = <<>>
  /\ inbox = [d \in Daemons |-> <<>>]
  /\ client = [d \in Daemons |-> "none"]
  /\ asked = [d \in Daemons |-> FALSE]

Next ==
  \E d \in Daemons :
    \/ BusRegister(d) \/ Handle(d) \/ Term(d) \/ Crash(d)
    \/ Register(d) \/ CreateProxy(d) \/ Ask(d) \/ EndSession(d)

Spec == Init /\ [][Next]_vars

\* Every process handles its messages, and the bus and gnome-session answer.
FairSpec ==
  Spec /\ \A d \in Daemons : /\ WF_vars(Handle(d))
                             /\ WF_vars(Register(d)) /\ WF_vars(CreateProxy(d))

-----------------------------------------------------------------------------
(* Properties                                                              *)

\* No process goes on running plugins without the name: one that does not
\* own it has been told so, or is on its way out (name_lost_handler,
\* "Name was already taken, or the bus went away").
NoSquatter ==
  \A d \in Daemons :
    managing[d] /\ ~Owns(d) => Has(d, "NameLost") \/ phase[d] = "quit"

\* The name is not held idly: who owns it runs the plugins, will do so with
\* the message that waits, or is on its way out.
OwnerServes ==
  \A d \in Daemons :
    Owns(d) => managing[d] \/ Has(d, "NameAcquired") \/ phase[d] = "quit"

\* In the end at most one process runs plugins, however many were started.
OneInTheEnd ==
  <>[](\A d, e \in Daemons : managing[d] /\ managing[e] => d = e)

\* "we must answer with EndSessionResponse" (main.c:89): a process that is
\* asked whether the session may end answers or ends itself.
QueryIsAnswered == \A d \in Daemons : asked[d] ~> ~asked[d]
=============================================================================
