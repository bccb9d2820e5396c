------------------------- MODULE PrintNotifications -------------------------
(* The print-notifications plugin: what is shown of printers' problems,    *)
(* and the subscription with CUPS that tells of them.                      *)
EXTENDS Naturals, Sequences, SequencesExt, FiniteSets

-----------------------------------------------------------------------------
(* What the print-notifications plugin tells of the user's jobs and of the  *)
(* problems of printers.  CUPS sends signals with the reasons for a         *)
(* printer's state; the plugin compares lists of printers that it reads at  *)
(* moments of its own, so that what it reads is ahead of what it is told.   *)
CONSTANTS
  Printers, Remote,  \* queues, and those that is_local_dest turns down
  Reasons, Silent,   \* printer-state-reasons, and those on the black list
  Endings,           \* how jobs end: stopped, canceled, aborted, completed
  MaxPrinterEvents   \* bounds what happens in CUPS

Connecting == "connecting-to-device"

VARIABLES
  queues, gone,  \* CUPS: the printers there are, and those deleted
  real,          \* CUPS: the present reasons of each printer
  jobs,          \* CUPS: the printers with a job, and whether it is the user's
  signals,       \* signals on their way
  printerEvents,
  dests,         \* the reasons in the list of printers as last read
  printing,      \* printing_printers
  timeouts,      \* printers whose missing connection will be told of
  shownReasons,        \* notifications shown for reasons
  notice,        \* the last passing notification
  together,      \* history: two reasons of a printer have ended at once
  serving        \* the plugin runs

problemVars == <<queues, gone, real, jobs, signals, printerEvents, dests, printing,
                 timeouts, shownReasons, notice, together, serving>>

GetDests == [p \in queues |-> real[p]]
None == [text |-> "none", printer |-> "none"]

ProblemInit ==
  /\ queues \in SUBSET Printers /\ gone = {} /\ jobs = {}
  /\ real = [p \in Printers |-> {}]
  /\ signals = <<>> /\ printerEvents = 0
  /\ dests = GetDests
  /\ printing = {} /\ timeouts = <<>> /\ shownReasons = <<>> /\ notice = None
  /\ together = FALSE /\ serving = TRUE

Event(name, p, state, mine) ==
  /\ printerEvents < MaxPrinterEvents
  /\ printerEvents' = printerEvents + 1
  /\ signals' = Append(signals, [name |-> name, printer |-> p, state |-> state,
                                 mine |-> mine, reasons |-> real'[p]])
  /\ UNCHANGED <<dests, printing, timeouts, shownReasons, notice, serving>>

AddPrinter(p) ==
  /\ p \notin queues \cup gone
  /\ queues' = queues \cup {p}
  /\ UNCHANGED <<gone, real, jobs, together>>
  /\ Event("PrinterAdded", p, "none", FALSE)

DeletePrinter(p) ==
  /\ p \in queues
  /\ queues' = queues \ {p} /\ gone' = gone \cup {p}
  /\ jobs' = {j \in jobs : j.printer # p}
  /\ UNCHANGED <<real, together>>
  /\ Event("PrinterDeleted", p, "none", FALSE)

\* Problems of a printer come and go.
ChangeReasons(p) ==
  /\ p \in queues
  /\ \E new \in SUBSET Reasons \ {real[p]} :
       /\ real' = [real EXCEPT ![p] = new]
       /\ together' = (together \/ \E r, q \in real[p] \ new : r # q)
  /\ UNCHANGED <<queues, gone, jobs>>
  /\ Event("PrinterStateChanged", p, "none", FALSE)

PrintJob(p, mine) ==
  /\ p \in queues /\ \A j \in jobs : j.printer # p
  /\ jobs' = jobs \cup {[printer |-> p, mine |-> mine]}
  /\ UNCHANGED <<queues, gone, real, together>>
  /\ \E name \in {"JobCreated", "JobState"} : Event(name, p, "processing", mine)

EndJob(j, state) ==
  /\ j \in jobs /\ jobs' = jobs \ {j}
  /\ UNCHANGED <<queues, gone, real, together>>
  /\ \E name \in {"JobCompleted", "JobState"} : Event(name, j.printer, state, j.mine)

\* A bug: the timer outlives the problem it would tell of.
KeepTimeout(p) == timeouts

\* Only the first timer of a printer is looked for.
WithoutTimeout(p) ==
  LET at == {i \in DOMAIN timeouts : timeouts[i] = p}
  IN  IF at = {} THEN timeouts
      ELSE RemoveAt(timeouts, CHOOSE i \in at : \A j \in at : i <= j)

\* The loop steps on twice after it has closed one: its neighbour is not looked at.
CloseSolved(p, reasons) ==
  LET Look(acc, n) ==
        IF ~acc.skip /\ n.printer = p /\ n.reason \notin reasons
        THEN [acc EXCEPT !.skip = TRUE]
        ELSE [kept |-> Append(acc.kept, n), skip |-> FALSE]
  IN  FoldLeft(Look, [kept |-> <<>>, skip |-> FALSE], shownReasons).kept

Blacklisted(reasons) == reasons \cap Silent

\* What the list, read anew, has for a printer that it had not.  A printer that
\* is no longer listed is compared with its own former reasons.
Added(p) ==
  IF p \notin queues THEN {}
  ELSE IF p \in DOMAIN dests THEN real[p] \ dests[p] ELSE real[p]

PrinterStateChanged(s) ==
  LET p == s.printer
      kept == IF Connecting \in s.reasons THEN timeouts ELSE WithoutTimeout(p)
      new == IF p \in printing THEN Added(p) ELSE {}
      shown == SetToSeq(new \ (Blacklisted(new) \cup {Connecting}))
  IN  /\ timeouts' = IF Connecting \in new THEN Append(kept, p) ELSE kept
      /\ shownReasons' = CloseSolved(p, s.reasons) \o
                     [i \in DOMAIN shown |-> [printer |-> p, reason |-> shown[i]]]
      /\ dests' = IF p \in printing THEN GetDests ELSE dests
      /\ UNCHANGED <<printing, notice>>

IsLocal(p, list) == p \in list \ Remote
Say(text, p) == notice' = [text |-> text, printer |-> p]

PrinterAdded(s) ==
  /\ dests' = GetDests
  /\ IF IsLocal(s.printer, queues) THEN Say("Printer added", s.printer)
     ELSE UNCHANGED notice
  /\ UNCHANGED <<printing, timeouts, shownReasons>>

\* The list from before tells what the printer was.
PrinterDeleted(s) ==
  /\ dests' = GetDests
  /\ IF IsLocal(s.printer, DOMAIN dests) THEN Say("Printer removed", s.printer)
     ELSE UNCHANGED notice
  /\ UNCHANGED <<printing, timeouts, shownReasons>>

\* CUPS is asked whose job it is; without an answer it is nobody's.
JobChanged(s) ==
  /\ \/ /\ s.mine
        /\ \/ /\ s.name \in {"JobState", "JobCreated"} /\ s.state = "processing"
              /\ printing' = printing \cup {s.printer}
              /\ Say("Printing", s.printer)
           \/ /\ s.name = "JobState" /\ s.state # "processing"
              /\ printing' = printing \ {s.printer}
              /\ UNCHANGED notice
           \/ /\ s.name = "JobCompleted"
              /\ printing' = printing \ {s.printer}
              /\ Say(s.state, s.printer)
     \/ UNCHANGED <<printing, notice>>
  /\ UNCHANGED <<timeouts, shownReasons, dests>>

OnCupsNotification ==
  /\ serving /\ signals # <<>> /\ signals' = Tail(signals)
  /\ LET s == Head(signals) IN
       \/ s.name = "PrinterStateChanged" /\ PrinterStateChanged(s)
       \/ s.name = "PrinterAdded" /\ PrinterAdded(s)
       \/ s.name = "PrinterDeleted" /\ PrinterDeleted(s)
       \/ s.name \in {"JobCreated", "JobState", "JobCompleted"} /\ JobChanged(s)
  /\ UNCHANGED <<queues, gone, real, jobs, printerEvents, together, serving>>

Outside == <<queues, gone, real, jobs, signals, printerEvents, dests, printing,
             notice, together, serving>>

\* The connection is still missing after a while.
ShowNotification(i) ==
  /\ shownReasons' = Append(shownReasons, [printer |-> timeouts[i], reason |-> Connecting])
  /\ timeouts' = RemoveAt(timeouts, i)
  /\ UNCHANGED Outside

\* The user closes a notification, or it has been shown long enough.
NotificationClosed(i) ==
  /\ shownReasons' = RemoveAt(shownReasons, i)
  /\ UNCHANGED timeouts /\ UNCHANGED Outside

StopNotices ==
  /\ serving /\ serving' = FALSE
  /\ dests' = <<>> /\ printing' = {} /\ timeouts' = <<>> /\ shownReasons' = <<>>
  /\ UNCHANGED <<queues, gone, real, jobs, signals, printerEvents, notice, together>>

ProblemNext ==
  \/ \E p \in Printers :
       \/ AddPrinter(p) \/ DeletePrinter(p) \/ ChangeReasons(p)
       \/ \E mine \in BOOLEAN : PrintJob(p, mine)
  \/ \E j \in jobs, state \in Endings : EndJob(j, state)
  \/ OnCupsNotification
  \/ \E i \in DOMAIN timeouts : ShowNotification(i)
  \/ \E i \in DOMAIN shownReasons : NotificationClosed(i)
  \/ StopNotices

ProblemSpec == ProblemInit /\ [][ProblemNext]_problemVars

ProblemTypeOK ==
  /\ queues \subseteq Printers /\ gone \subseteq Printers
  /\ real \in [Printers -> SUBSET Reasons]
  /\ DOMAIN dests \subseteq Printers /\ printing \subseteq Printers
  /\ \A i \in DOMAIN timeouts : timeouts[i] \in Printers
  /\ \A i \in DOMAIN shownReasons : shownReasons[i] \in
         [printer : Printers, reason : Reasons]
  /\ {together, serving} \subseteq BOOLEAN

\* When all signals have been handled, no problem that has been solved is told
\* of any more, nor about to be, though lists read ahead of the signals had it
\* come and go (on_cups_notification).  Reasons that end at once are not all
\* found.
ProblemsEnd ==
  serving /\ signals = <<>> /\ ~together =>
    /\ \A i \in DOMAIN timeouts :
         timeouts[i] \in queues => Connecting \in real[timeouts[i]]
    /\ \A i \in DOMAIN shownReasons :
         shownReasons[i].printer \in queues
             => shownReasons[i].reason \in real[shownReasons[i].printer]

-----------------------------------------------------------------------------
(* How the print-notifications plugin subscribes at CUPS: it tries to       *)
(* connect until there are printers, creates or renews its subscription,    *)
(* and cancels it when it stops.  None of its timers and connections is     *)
(* ended by a stop.                                                         *)
CONSTANTS
  MaxTimers,      \* bounds the timers of each kind and the calls under way
  MaxStarts,      \* bounds how often the plugin is started
  MaxCupsChanges  \* bounds what happens to CUPS

Never == 0  \* the subscription_id of -1

VARIABLES
  tcp,             \* cupsServer() is no local socket
  up, printers,    \* CUPS: it can be reached, and has printers
  server,          \* CUPS: the subscriptions of the plugin
  lastId, cupsChanges,
  cupsActive, starts,  \* the plugin is started
  startIdles,      \* start_idle callbacks that have not run
  loaded,          \* dests is not NULL
  tests, known,    \* connection test timers, and cups_connection_timeout_id
  connecting,      \* connection tests under way, the first ones
  renewals,        \* timers that renew
  renewing,        \* connection tests under way, for a renewal
  subscriptionId,
  handlers, handlerPid,  \* gsd-printer processes, scp_handler_spawned
  clean            \* history: no stop came while it tried to subscribe

cupsVars == <<tcp, up, printers, server, lastId, cupsChanges, cupsActive, starts,
              startIdles, loaded, tests, known, connecting, renewals, renewing,
              subscriptionId, handlers, handlerPid, clean>>
cups == <<tcp, up, printers, cupsChanges>>
plugin == <<cupsActive, starts, startIdles, handlers, handlerPid, clean>>

CupsInit ==
  /\ tcp \in BOOLEAN /\ up \in BOOLEAN /\ printers \in BOOLEAN
  /\ server = {} /\ lastId = 0 /\ cupsChanges = 0
  /\ cupsActive = FALSE /\ starts = 0 /\ startIdles = 0
  /\ loaded = FALSE /\ tests = 0 /\ known = FALSE /\ connecting = 0
  /\ renewals = 0 /\ renewing = 0 /\ subscriptionId = Never
  /\ handlers = {} /\ handlerPid = 0 /\ clean = TRUE

Start ==
  /\ ~cupsActive /\ starts < MaxStarts
  /\ cupsActive' = TRUE /\ starts' = starts + 1 /\ startIdles' = startIdles + 1
  /\ subscriptionId' = Never /\ loaded' = FALSE /\ known' = FALSE
  /\ handlerPid' = 0
  /\ UNCHANGED <<server, lastId, tests, connecting, renewals, renewing, handlers,
                 clean>>
  /\ UNCHANGED cups

\* A bug: the number of the subscription is not looked at.
CreateAlways ==
  \/ UNCHANGED <<subscriptionId, server, lastId>>
  \/ /\ up /\ lastId' = lastId + 1
     /\ subscriptionId' = lastId' /\ server' = server \cup {lastId'}

\* Whether a renewal is refused is not looked at.
RenewSubscription ==
  \/ UNCHANGED <<subscriptionId, server, lastId>>
  \/ /\ up /\ subscriptionId = Never
     /\ lastId' = lastId + 1
     /\ subscriptionId' = lastId' /\ server' = server \cup {lastId'}

\* cupsGetDests, and what follows a connection.  Where there are no printers
\* dests stays NULL.
GetDestsAndRenew ==
  /\ loaded' = (up /\ printers)
  /\ RenewSubscription
  /\ renewals < MaxTimers /\ renewals' = renewals + 1

ConnectionTest ==
  IF loaded THEN UNCHANGED <<loaded, connecting, renewals, subscriptionId, server,
                             lastId>>
  ELSE IF tcp
       THEN /\ connecting < MaxTimers /\ connecting' = connecting + 1
            /\ UNCHANGED <<loaded, renewals, subscriptionId, server, lastId>>
       ELSE GetDestsAndRenew /\ UNCHANGED connecting

\* The handler for new printers is started beside, once.
ScpHandler ==
  \/ UNCHANGED <<handlers, handlerPid>>
  \/ /\ handlerPid = 0
     /\ handlerPid' = starts /\ handlers' = handlers \cup {starts}

StartIdle ==
  /\ startIdles > 0 /\ startIdles' = startIdles - 1
  /\ ConnectionTest
  /\ ScpHandler
  /\ UNCHANGED <<cupsActive, starts, tests, known, renewing, clean>>
  /\ UNCHANGED cups

TestTimer ==
  /\ tests > 0
  /\ ConnectionTest
  /\ IF loaded' THEN tests' = tests - 1 /\ known' = FALSE
     ELSE UNCHANGED <<tests, known>>
  /\ UNCHANGED renewing /\ UNCHANGED plugin /\ UNCHANGED cups

ConnectionTested ==
  /\ connecting > 0 /\ connecting' = connecting - 1
  /\ \/ GetDestsAndRenew /\ UNCHANGED <<tests, known>>
     \/ /\ IF known THEN UNCHANGED <<tests, known>>
           ELSE tests < MaxTimers /\ tests' = tests + 1 /\ known' = TRUE
        /\ UNCHANGED <<loaded, renewals, subscriptionId, server, lastId>>
  /\ UNCHANGED renewing /\ UNCHANGED plugin /\ UNCHANGED cups

RenewTimer ==
  /\ renewals > 0
  /\ IF tcp
     THEN /\ renewing < MaxTimers /\ renewing' = renewing + 1
          /\ UNCHANGED <<subscriptionId, server, lastId>>
     ELSE RenewSubscription /\ UNCHANGED renewing
  /\ UNCHANGED <<loaded, tests, known, connecting, renewals>>
  /\ UNCHANGED plugin /\ UNCHANGED cups

RenewalTested ==
  /\ renewing > 0 /\ renewing' = renewing - 1
  /\ \/ RenewSubscription
     \/ UNCHANGED <<subscriptionId, server, lastId>>
  /\ UNCHANGED <<loaded, tests, known, connecting, renewals>>
  /\ UNCHANGED plugin /\ UNCHANGED cups

CancelSubscription ==
  server' = IF up THEN server \ {subscriptionId} ELSE server

\* The number of the subscription is kept, so that the timers renew what is
\* cancelled; without a number they create one.
Stop ==
  /\ cupsActive /\ cupsActive' = FALSE
  /\ loaded' = FALSE
  /\ CancelSubscription
  /\ handlers' = handlers \ {handlerPid} /\ handlerPid' = 0
  /\ clean' = (clean /\ up /\ subscriptionId # Never /\ startIdles = 0)
  /\ UNCHANGED <<lastId, starts, startIdles, tests, known, connecting, renewals,
                 renewing, subscriptionId>>
  /\ UNCHANGED cups

\* CUPS comes and goes, gets printers, and drops subscriptions that were not
\* renewed in time.
CupsChanges ==
  /\ cupsChanges < MaxCupsChanges /\ cupsChanges' = cupsChanges + 1
  /\ \/ up' = ~up /\ UNCHANGED <<printers, server>>
     \/ printers' = ~printers /\ UNCHANGED <<up, server>>
     \/ server # {} /\ server' = {} /\ UNCHANGED <<up, printers>>
  /\ UNCHANGED <<tcp, lastId, loaded, tests, known, connecting, renewals, renewing,
                 subscriptionId>>
  /\ UNCHANGED plugin

CupsNext ==
  \/ Start \/ StartIdle \/ Stop \/ CupsChanges
  \/ TestTimer \/ ConnectionTested \/ RenewTimer \/ RenewalTested

CupsSpec == CupsInit /\ [][CupsNext]_cupsVars

CupsTypeOK ==
  /\ {tcp, up, printers, cupsActive, loaded, known, clean} \subseteq BOOLEAN
  /\ {tests, connecting, renewals, renewing} \subseteq 0..MaxTimers
  /\ startIdles \in 0..MaxStarts /\ handlers \subseteq 1..MaxStarts
  /\ server \subseteq 1..lastId /\ subscriptionId \in 0..lastId

\* Whatever timers and connections are left from before, the plugin has one
\* subscription and one handler at most, and none when it is stopped - as long
\* as each stop found it subscribed and CUPS there (renew_subscription, stop).
OneSubscription ==
  clean => /\ Cardinality(server) <= (IF cupsActive THEN 1 ELSE 0)
           /\ Cardinality(handlers) <= (IF cupsActive THEN 1 ELSE 0)
=============================================================================
