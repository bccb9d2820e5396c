------------------------------- MODULE Upkeep --------------------------------
(***************************************************************************)
(* What is done behind the user's back and told when it matters: notices   *)
(* about full disks, the purge of old files and thumbnails (Housekeeping), *)
(* notices about printers and the subscription that brings them            *)
(* (PrintNotifications), and queues for printers that are plugged in       *)
(* (NewPrinters).  The parts share no state, so that one moves in each     *)
(* behaviour: the one that focus names.                                    *)
(***************************************************************************)
EXTENDS Naturals, Sequences, FiniteSets

CONSTANTS
  Volumes, Low, Again, Period, MaxFree, DiskTime, DiskEvents, Entries, Dirs,
  Root, Parent, PurgeEvents, Files, MaxAge, MaxSize, ThumbEvents, Printers,
  Remote, Reasons, Silent, Endings, MaxPrinterEvents, MaxTimers, MaxStarts,
  MaxCupsChanges, Handlers, MaxStatuses, NewDevices, Model, MaxNumber,
  Programs, MaxAnnounced, MaxQueueEvents

\* What the code counts is finite, and what it compares are numbers; files lie
\* in a tree below Root.
DiskConstants ==
  /\ IsFiniteSet(Volumes) /\ Again \in Nat /\ Period \in Nat /\ MaxFree \in Nat
  /\ DiskTime \in Nat
ThumbConstants ==
  IsFiniteSet(Files) /\ MaxAge \in Nat \ {0} /\ MaxSize \in Nat \ {0}
TreeConstants ==
  /\ IsFiniteSet(Entries)
  /\ \E depth \in [Entries \cup {Root} -> 0..Cardinality(Entries)] :
       /\ depth[Root] = 0
       /\ \A e \in Entries : /\ Parent[e] \in Entries \cup {Root}
                             /\ depth[e] = depth[Parent[e]] + 1
ASSUME UpkeepAssumption ==
  DiskConstants /\ ThumbConstants /\ TreeConstants /\ MaxNumber \in Nat

VARIABLES focus,
  hasActions, disksRunning, disksTimer, mounted, noticed, free, ignored,
  notified, shown, rest, from, disksTold, disksMuted, nagged, stray,
  disksClock, disksEvents,
  trash, exists, age, mine, tasks, wrong, purgeEvents,
  started, thumbsAge, size, ageLimit, sizeLimit, soon, before, clean, unread,
  thumbsEvents,
  queues, gone, real, jobs, printersSignals, printerEvents, dests, printing,
  timeouts, shownReasons, notice, together, serving,
  tcp, up, printers, server, lastId, cupsChanges, cupsActive, starts,
  startIdles, loaded, tests, cupsKnown, connecting, renewals, renewing,
  subscriptionId, handlers, handlerPid, cupsClean,
  printersRunning, newprintersWanted, statuses, nameOwner, registered,
  busQueue, newprintersLost, registeredAtSession, ending, answers, robbed,
  setupQueues, ready, queueEvents, calls, announced, pc, printerCall, ppd,
  name, packages, installed, replied, setupTold, served, raced, overwritten

HK == INSTANCE Housekeeping WITH
  running <- disksRunning, timer <- disksTimer, told <- disksTold, muted <-
  disksMuted, clock <- disksClock, MaxTime <- DiskTime
PN == INSTANCE PrintNotifications WITH
  signals <- printersSignals, known <- cupsKnown, clean <- cupsClean
NP == INSTANCE NewPrinters WITH
  running <- printersRunning, wanted <- newprintersWanted, owner <- nameOwner,
  queue <- busQueue, lost <- newprintersLost, queues <- setupQueues, call <-
  printerCall, told <- setupTold, Devices <- NewDevices, MaxIndex <- MaxNumber

disksVars ==
  <<hasActions, disksRunning, disksTimer, mounted, noticed, free, ignored,
    notified, shown, rest, from, disksTold, disksMuted, nagged, stray,
    disksClock, disksEvents>>
purgeVars ==
  <<trash, exists, age, mine, tasks, wrong, purgeEvents>>
thumbsVars ==
  <<started, thumbsAge, size, ageLimit, sizeLimit, soon, before, clean,
    unread, thumbsEvents>>
printersVars ==
  <<queues, gone, real, jobs, printersSignals, printerEvents, dests, printing,
    timeouts, shownReasons, notice, together, serving>>
cupsVars ==
  <<tcp, up, printers, server, lastId, cupsChanges, cupsActive, starts,
    startIdles, loaded, tests, cupsKnown, connecting, renewals, renewing,
    subscriptionId, handlers, handlerPid, cupsClean>>
newprintersVars ==
  <<printersRunning, newprintersWanted, statuses, nameOwner, registered,
    busQueue, newprintersLost, registeredAtSession, ending, answers, robbed>>
setupVars ==
  <<setupQueues, ready, queueEvents, calls, announced, pc, printerCall, ppd,
    name, packages, installed, replied, setupTold, served, raced, overwritten>>
upkeepVars ==
  <<disksVars, purgeVars, thumbsVars, printersVars, cupsVars,
    newprintersVars, setupVars>>

UpkeepInit ==
  /\ HK!DiskInit /\ (focus # "disks" => hasActions)
  /\ HK!PurgeInit /\ (focus # "purge" => trash /\ \A e \in Entries : age[e] = 0)
  /\ HK!ThumbInit /\ (focus # "thumbs" => ageLimit = 0 /\ sizeLimit = 0)
  /\ PN!ProblemInit /\ (focus # "printers" => queues = {})
  /\ PN!CupsInit /\ (focus # "cups" => ~tcp /\ up /\ printers)
  /\ NP!NameInit /\ NP!SetupInit

UpkeepNext ==
  \/ focus = "disks" /\ HK!DiskNext /\ UNCHANGED
       <<purgeVars, thumbsVars, printersVars, cupsVars, newprintersVars,
         setupVars>>
  \/ focus = "purge" /\ HK!PurgeNext /\ UNCHANGED
       <<disksVars, thumbsVars, printersVars, cupsVars, newprintersVars,
         setupVars>>
  \/ focus = "thumbs" /\ HK!ThumbNext /\ UNCHANGED
       <<disksVars, purgeVars, printersVars, cupsVars, newprintersVars,
         setupVars>>
  \/ focus = "printers" /\ PN!ProblemNext /\ UNCHANGED
       <<disksVars, purgeVars, thumbsVars, cupsVars, newprintersVars,
         setupVars>>
  \/ focus = "cups" /\ PN!CupsNext /\ UNCHANGED
       <<disksVars, purgeVars, thumbsVars, printersVars, newprintersVars,
         setupVars>>
  \/ focus = "newprinters" /\ NP!NameNext /\ UNCHANGED
       <<disksVars, purgeVars, thumbsVars, printersVars, cupsVars,
         setupVars>>
  \/ focus = "setup" /\ NP!SetupNext /\ UNCHANGED
       <<disksVars, purgeVars, thumbsVars, printersVars, cupsVars,
         newprintersVars>>

\* As part of the group that MC_Devices has, where another part may move.
UpkeepSpec ==
  UpkeepInit /\ [][UNCHANGED focus /\ UpkeepNext]_<<focus, upkeepVars>>

-----------------------------------------------------------------------------
(* Nothing that users want is lost, none of it is touched before its time, *)
(* and what they have to know is told, once.                               *)
NothingLost ==
  /\ focus = "disks" => HK!NotNagged /\ HK!LowIsTold /\ HK!StopsForGood
  /\ focus = "purge" => HK!YoungKept
  /\ focus = "thumbs" => HK!LimitsKept
  /\ focus = "cups" => PN!OneSubscription
  /\ focus = "newprinters" => NP!OwnerAnswers
  /\ focus = "setup" => NP!QueueOrTold
==============================================================================
