---------------------------- MODULE NewPrinters -----------------------------
(* The process for new printers (gsd-printer.c): its name on the system    *)
(* bus, and how a printer that was plugged in gets a queue.                *)
EXTENDS Naturals, Sequences, SequencesExt, FiniteSets, FiniteSetsExt, Functions

-----------------------------------------------------------------------------
(* gsd-printer of several sessions: each owns the two names on the system   *)
(* bus under which new printers are announced while its user is there, and  *)
(* takes them from the others.  The bus queues who wants a name; who loses  *)
(* one withdraws both objects.                                              *)
CONSTANTS
  Handlers,       \* the gsd-printer processes
  MaxStatuses     \* bounds the changes of presence

Objects == {"NewPrinterNotification", "PrinterDriversInstaller"}
Statuses == {"available", "invisible", "busy", "idle"}

VARIABLES
  running,        \* processes that have not ended
  wanted,         \* presence signals on their way, for each process
  statuses,       \* how many there were
  owner,          \* the names a process has called g_bus_own_name for: asked or not
  registered,     \* the objects of each process
  queue,          \* the bus: who wants a name, the owner first
  lost,           \* the bus: names lost of which a process has not heard
  registeredAtSession,  \* gnome-session knows the process
  ending,         \* gnome-session's signals to it
  answers,        \* its answers
  robbed          \* history: who has lost a name since it asked for them

nameVars == <<running, wanted, statuses, owner, registered, queue, lost,
              registeredAtSession, ending, answers, robbed>>

NameInit ==
  /\ running = {} /\ statuses = 0
  /\ wanted = [h \in Handlers |-> <<>>]
  /\ owner = [h \in Handlers |-> [o \in Objects |-> "no"]]
  /\ registered = [h \in Handlers |-> {}]
  /\ queue = [o \in Objects |-> <<>>]
  /\ lost = [h \in Handlers |-> {}]
  /\ registeredAtSession = {}
  /\ ending = [h \in Handlers |-> <<>>] /\ answers = [h \in Handlers |-> 0]
  /\ robbed = {}

Own == [o \in Objects |-> "asked"]
Disown == [o \in Objects |-> "no"]

\* gnome-session may not take the process as a client.
RegisterClient(h) == {registeredAtSession, registeredAtSession \cup {h}}

Main(h) ==
  /\ h \notin running /\ owner[h] = Disown /\ answers[h] = 0
  /\ running' = running \cup {h}
  /\ registeredAtSession' \in RegisterClient(h)
  /\ owner' = [owner EXCEPT ![h] = Own]
  /\ UNCHANGED <<wanted, statuses, registered, queue, lost, ending, answers, robbed>>

Leave(h, o) == RemoveFirst(queue[o], h)
Robbed(h, o) == IF queue[o] # <<>> THEN {Head(queue[o])} \ {h} ELSE {}

\* The connection is there: the object is registered, then the name is asked
\* for, and taken from whoever has it.
BusAcquired(h, o) ==
  /\ h \in running /\ owner[h][o] = "asked"
  /\ owner' = [owner EXCEPT ![h][o] = "owned"]
  /\ registered' = [registered EXCEPT ![h] = @ \cup {o}]
  /\ queue' = [queue EXCEPT ![o] = <<h>> \o Leave(h, o)]
  /\ lost' = [g \in Handlers |-> IF g \in Robbed(h, o) THEN lost[g] \cup {o} ELSE lost[g]]
  /\ robbed' = robbed \cup Robbed(h, o)
  /\ UNCHANGED <<running, wanted, statuses, registeredAtSession, ending, answers>>

\* unregister_objects takes both objects back, whichever name was lost.
OnNameLost(h, o) ==
  /\ o \in lost[h] /\ lost' = [lost EXCEPT ![h] = @ \ {o}]
  /\ registered' = [registered EXCEPT ![h] = {}]
  /\ UNCHANGED <<running, wanted, statuses, owner, queue, registeredAtSession,
                 ending, answers, robbed>>

\* unregister_objects and unown_names: the bus passes the names on.
Withdraw(h) ==
  /\ registered' = [registered EXCEPT ![h] = {}]
  /\ queue' = [o \in Objects |-> Leave(h, o)]
  /\ lost' = [lost EXCEPT ![h] = {}]
  /\ robbed' = robbed \ {h}

\* A bug: the names are kept while the user is away.
UnregisterOnly(h, status) ==
  /\ registered' = [registered EXCEPT ![h] = {}]
  /\ IF status = "available"
     THEN owner' = [owner EXCEPT ![h] = Own] ELSE UNCHANGED owner
  /\ UNCHANGED <<queue, lost, robbed>>

OwnAfresh(h, status) ==
  /\ Withdraw(h)
  /\ owner' = [owner EXCEPT ![h] = IF status = "available" THEN Own ELSE Disown]

SessionSignal(h) ==
  /\ h \in running /\ wanted[h] # <<>>
  /\ wanted' = [wanted EXCEPT ![h] = Tail(@)]
  /\ IF Head(wanted[h]) \in {"idle", "available"} THEN OwnAfresh(h, Head(wanted[h]))
     ELSE UNCHANGED <<owner, registered, queue, lost, robbed>>
  /\ UNCHANGED <<running, statuses, registeredAtSession, ending, answers>>

\* The user's presence changes.
Presence(h, status) ==
  /\ h \in running /\ statuses < MaxStatuses /\ statuses' = statuses + 1
  /\ wanted' = [wanted EXCEPT ![h] = Append(@, status)]
  /\ UNCHANGED <<running, owner, registered, queue, lost, registeredAtSession,
                 ending, answers, robbed>>

EndSession(h) ==
  /\ h \in registeredAtSession /\ ending[h] = <<>> /\ answers[h] = 0
  /\ ending' = [ending EXCEPT ![h] = <<"QueryEndSession", "EndSession">>]
  /\ UNCHANGED <<running, wanted, statuses, owner, registered, queue, lost,
                 registeredAtSession, answers, robbed>>

\* Both signals are answered; the second ends the main loop.
ClientSignal(h) ==
  /\ h \in running /\ ending[h] # <<>>
  /\ ending' = [ending EXCEPT ![h] = Tail(@)]
  /\ answers' = [answers EXCEPT ![h] = @ + 1]
  /\ IF Head(ending[h]) = "EndSession"
     THEN /\ running' = running \ {h}
          /\ Withdraw(h) /\ owner' = [owner EXCEPT ![h] = Disown]
     ELSE UNCHANGED <<running, owner, registered, queue, lost, robbed>>
  /\ UNCHANGED <<wanted, statuses, registeredAtSession>>

\* The plugin is stopped and sends a SIGHUP.
Hangup(h) ==
  /\ h \in running /\ running' = running \ {h}
  /\ Withdraw(h) /\ owner' = [owner EXCEPT ![h] = Disown]
  /\ answers' = [answers EXCEPT ![h] = 2] /\ ending' = [ending EXCEPT ![h] = <<>>]
  /\ UNCHANGED <<wanted, statuses, registeredAtSession>>

NameNext ==
  \E h \in Handlers :
    \/ Main(h) \/ SessionSignal(h) \/ ClientSignal(h) \/ EndSession(h) \/ Hangup(h)
    \/ \E o \in Objects : BusAcquired(h, o) \/ OnNameLost(h, o)
    \/ \E status \in Statuses : Presence(h, status)

NameSpec == NameInit /\ [][NameNext]_nameVars

NameTypeOK ==
  /\ running \subseteq Handlers /\ statuses \in 0..MaxStatuses
  /\ owner \in [Handlers -> [Objects -> {"no", "asked", "owned"}]]
  /\ registered \in [Handlers -> SUBSET Objects]
  /\ lost \in [Handlers -> SUBSET Objects]
  /\ \A o \in Objects : IsInjective(queue[o])
  /\ robbed \subseteq Handlers

\* A new printer is announced to one who answers: who has a name is there and has
\* its object registered - unless one was taken from it and came back when another
\* left, which on_name_acquired takes no notice of (on_name_lost,
\* session_signal_handler).
OwnerAnswers ==
  \A o \in Objects :
    queue[o] # <<>> =>
      LET h == Head(queue[o]) IN h \in running /\ (o \in registered[h] \/ h \in robbed)

-----------------------------------------------------------------------------
(* What gsd-printer does when udev announces a new printer: it finds a      *)
(* driver, makes a queue of a new name, sets it up, and has the programs    *)
(* installed that the driver needs.  Each step is a blocking call that may  *)
(* fail, while users and other programs add and delete queues.              *)
CONSTANTS
  Devices,      \* the printers that are plugged in
  Model,        \* the name each gives in its device id, or "none"
  MaxIndex,     \* bounds the numbers in names
  Programs,     \* what drivers need
  MaxAnnounced, \* bounds the calls
  MaxQueueEvents  \* bounds what others do

None == "none"

VARIABLES
  queues,       \* CUPS: the device of each queue, its key a model and a number
  ready,        \* CUPS: what is set for a queue
  queueEvents,
  calls,        \* announcements not taken yet
  announced,
  pc, call,     \* where handle_method_call stands, and its call
  ppd, name,    \* get_best_ppd, create_name
  packages,     \* to be installed
  installed,    \* PackageKit: what was
  replied, told, served,  \* history: calls answered, told of a missing driver, with a queue
  raced, overwritten      \* history: another took the name first; a queue lost its device

setupVars == <<queues, ready, queueEvents, calls, announced, pc, call, ppd, name,
               packages, installed, replied, told, served, raced, overwritten>>
cupsVars == <<queues, ready>>
history == <<replied, told, served, raced, overwritten>>

NoCall == [id |-> 0, method |-> None, device |-> None]
NoName == <<None, 0>>

SetupInit ==
  /\ queues = <<>> /\ ready = <<>> /\ queueEvents = 0
  /\ calls = <<>> /\ announced = 0
  /\ pc = "idle" /\ call = NoCall /\ ppd = FALSE /\ name = NoName
  /\ packages = {} /\ installed = {}
  /\ replied = {} /\ told = {} /\ served = {} /\ raced = {} /\ overwritten = FALSE

\* The names that CUPS knows.
QueueNames == DOMAIN queues
\* A table in which n has the value v.
With(table, n, v) == [m \in DOMAIN table \cup {n} |-> IF m = n THEN v ELSE table[m]]

Announce(method, device) ==
  /\ announced < MaxAnnounced /\ announced' = announced + 1
  /\ calls' = Append(calls, [id |-> announced', method |-> method, device |-> device])
  /\ UNCHANGED <<queueEvents, pc, call, ppd, name, packages, installed>>
  /\ UNCHANGED cupsVars /\ UNCHANGED history

Steady == <<calls, announced, pc, call, ppd, name, packages, installed>>

AddQueue(n, device) ==
  /\ queueEvents < MaxQueueEvents /\ queueEvents' = queueEvents + 1
  /\ n \notin QueueNames
  /\ queues' = With(queues, n, device)
  /\ ready' = With(ready, n, {"accepting", "enabled"})
  /\ raced' = IF n = name /\ pc \in {"add", "check"} THEN raced \cup {call.id} ELSE raced
  /\ UNCHANGED Steady /\ UNCHANGED <<replied, told, served, overwritten>>

DeleteQueue(n) ==
  /\ queueEvents < MaxQueueEvents /\ queueEvents' = queueEvents + 1
  /\ n \in QueueNames
  /\ queues' = Restrict(queues, QueueNames \ {n})
  /\ ready' = Restrict(ready, QueueNames \ {n})
  /\ UNCHANGED Steady /\ UNCHANGED history

Goto(label) == pc' = label
Reply == replied' = replied \cup {call.id} /\ Goto("idle")
TellMissing == told' = told \cup {call.id} /\ Reply
Same == UNCHANGED <<queueEvents, announced>>

\* GetReady shows a notice; a name without a slash is a queue that udev has set up.
HandleMethodCall ==
  /\ pc = "idle" /\ calls # <<>>
  /\ call' = Head(calls) /\ calls' = Tail(calls)
  /\ \/ /\ call'.method = "GetReady"
        /\ replied' = replied \cup {call'.id} /\ UNCHANGED pc
     \/ call'.method = "NewPrinter" /\ Goto("ppd") /\ UNCHANGED replied
     \/ call'.method = "NewQueue" /\ Goto("driver") /\ UNCHANGED replied
     \/ call'.method = "InstallDrivers" /\ Goto("drivers") /\ UNCHANGED replied
  /\ ppd' = FALSE /\ name' = NoName /\ packages' = {}
  /\ UNCHANGED <<installed, told, served, raced, overwritten>>
  /\ Same /\ UNCHANGED cupsVars

\* The best of the match levels that are offered, if any is.
GetBestPpd ==
  /\ pc = "ppd" /\ Goto("name")
  /\ ppd' \in BOOLEAN
  /\ UNCHANGED <<calls, call, name, packages, installed>>
  /\ Same /\ UNCHANGED cupsVars /\ UNCHANGED history

\* A bug: a name that is taken is taken again.
PlainName(model) == <<model, 1>>

\* The first number that is free; the first of all stands for the bare name.
FreeName(model) == <<model, Min({i \in 1..MaxIndex : <<model, i>> \notin QueueNames})>>

CreateName ==
  /\ pc = "name"
  /\ LET model == Model[call.device] IN
       IF model = None \/ ~ppd
       THEN TellMissing /\ UNCHANGED name
       ELSE /\ {i \in 1..MaxIndex : <<model, i>> \notin QueueNames} # {}
            /\ name' = FreeName(model) /\ Goto("add") /\ UNCHANGED <<told, replied>>
  /\ UNCHANGED <<calls, call, ppd, packages, installed, served, raced, overwritten>>
  /\ Same /\ UNCHANGED cupsVars

\* CUPS changes a queue that is there already.
AddPrinter ==
  /\ pc = "add" /\ Goto("check")
  /\ \/ UNCHANGED cupsVars /\ UNCHANGED overwritten
     \/ /\ queues' = With(queues, name, call.device)
        /\ ready' = IF name \in QueueNames THEN ready ELSE With(ready, name, {})
        /\ overwritten' = (overwritten \/ (name \in QueueNames /\ call.id \notin raced))
  /\ UNCHANGED <<calls, call, ppd, name, packages, installed, replied, told, served,
                 raced>>
  /\ Same

\* That there is a queue of the name is taken for success.
PrinterAdded ==
  /\ pc = "check"
  /\ IF name \in QueueNames
     THEN /\ Goto("accept")
          /\ served' = IF queues[name] = call.device THEN served \cup {call.id} ELSE served
          /\ UNCHANGED <<told, replied>>
     ELSE TellMissing /\ UNCHANGED served
  /\ UNCHANGED <<calls, call, ppd, name, packages, installed, raced, overwritten>>
  /\ Same /\ UNCHANGED cupsVars

\* A call about the new queue: that it fails is not looked at.
SetOption(label, option, next) ==
  /\ pc = label /\ Goto(next)
  /\ \/ name \in QueueNames /\ ready' = [ready EXCEPT ![name] = @ \cup {option}]
     \/ UNCHANGED ready
  /\ UNCHANGED <<calls, call, ppd, name, packages, installed, queues>>
  /\ Same /\ UNCHANGED history

SetAcceptingJobs == SetOption("accept", "accepting", "enable")
SetEnabled == SetOption("enable", "enabled", "auto")
\* A command is printed where the printer knows it.
Autoconfigure == SetOption("auto", "configured", "ppdfile")
SetPaperSize == SetOption("paper", "media", "missing")

\* cupsGetPPD, for a new queue and for one that udev made.
GetPpd ==
  /\ pc \in {"driver", "ppdfile"}
  /\ \/ Goto(IF pc = "driver" THEN "missing" ELSE "paper") /\ UNCHANGED replied
     \/ Reply
  /\ UNCHANGED <<calls, call, ppd, name, packages, installed, told, served, raced,
                 overwritten>>
  /\ Same /\ UNCHANGED cupsVars

\* What the driver lacks; without an answer nothing.
MissingExecutables == SUBSET Programs

\* A SearchFile for each.  The error of a search is freed but not forgotten: a
\* search after it does anything, or fails.
FindPackages ==
  /\ pc = "missing"
  /\ \E missing \in MissingExecutables :
       \/ \E found \in SUBSET missing :
            packages' = found /\ Goto("install")
       \/ Cardinality(missing) > 1 /\ Goto("crashed") /\ UNCHANGED packages
  /\ UNCHANGED <<calls, call, ppd, name, installed>>
  /\ Same /\ UNCHANGED cupsVars /\ UNCHANGED history

InstallPackages ==
  /\ pc = "install"
  /\ installed' \in {installed, installed \cup packages}
  /\ Reply
  /\ UNCHANGED <<calls, call, ppd, name, packages, told, served, raced, overwritten>>
  /\ Same /\ UNCHANGED cupsVars

\* InstallPrinterDrivers for the device, whatever comes of it.
InstallDrivers ==
  /\ pc = "drivers" /\ Reply
  /\ UNCHANGED <<calls, call, ppd, name, packages, installed, told, served, raced,
                 overwritten>>
  /\ Same /\ UNCHANGED cupsVars

SetupNext ==
  \/ \E d \in Devices, m \in {"GetReady", "NewPrinter", "NewQueue", "InstallDrivers"} :
       Announce(m, d)
  \/ \E d \in Devices, i \in 1..MaxIndex :
       Model[d] # None /\ AddQueue(<<Model[d], i>>, d)
  \/ \E n \in QueueNames : DeleteQueue(n)
  \/ HandleMethodCall \/ GetBestPpd \/ CreateName \/ AddPrinter \/ PrinterAdded
  \/ SetAcceptingJobs \/ SetEnabled \/ Autoconfigure \/ SetPaperSize
  \/ GetPpd \/ FindPackages \/ InstallPackages \/ InstallDrivers

SetupSpec == SetupInit /\ [][SetupNext]_setupVars

SetupTypeOK ==
  /\ DOMAIN ready = QueueNames /\ \A n \in QueueNames : queues[n] \in Devices
  /\ announced \in 0..MaxAnnounced /\ packages \subseteq Programs
  /\ installed \subseteq Programs
  /\ replied \cup told \cup served \cup raced \subseteq 1..MaxAnnounced

\* A printer that was announced has got a queue, or its user has been told that
\* it has none, and no queue was made over to another printer - but where others
\* took the name between its choice and the check (setup_printer).
QueueOrTold ==
  /\ ~overwritten
  /\ call.method = "NewPrinter" /\ call.id \in replied =>
       (call.id \in told) # (call.id \in served) \/ call.id \in raced
=============================================================================
