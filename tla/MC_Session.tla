----------------------------- MODULE MC_Session -----------------------------
(* Small instances of the daemon's processes and of the parts that look at *)
(* the session, its clock, its screens as the user sets them, and the keys *)
(* that run commands.  They share no state, so that one moves in each      *)
(* behaviour.                                                              *)
EXTENDS SettingsDaemon, FiniteSets

CONSTANTS
  Backends, WireMax, Callers, CookieMax, MayStop, Zones, Plain, Data,
  ZoneChanges, Timeout, HasHwclock, MaxClock, Ids, Timeouts, Margin, Cap,
  CounterMax, QueueMax, Prompt, Slots, Bindable, Super, Usable, KeyCommands,
  Keymaps, Code, Unbound, MaxKeyActs, Keyboard, MaxMoves, Hardware, Looks,
  Seconds, MaxDialogs, MaxSaves, MaxChanges, MaxFlying

VARIABLES focus,
  backend, real, state, step, wire, missed,
  running, alive, inhibitors, cookies, watches, made, departed, forgotten,
  localtime, config, call, told, before, changes,
  callsAlive, left, callsQueue, callsAsked, answer, twice, work, script, ntpd,
  silent, promised, clock,
  counter, alarms, resetAt, events, resetSet, idletimeTold, idletimeRunning,
  keysServed, keySetting, signals, table, bindings, grabs, record, keymap,
  shared, moved, acts,
  down, grabbed, superEvents, key_press_cnt, super_press, busy, how,
  swallowed, last, moves,
  up, hw, screen, intended, backup, called, queued, frames, saves,
  confirmBefore, trial,
  two, copy, extend, only, layout, flying, notice, shownOne, isCopy, names,
  written, monitorsChanges

ST == INSTANCE SessionTracker
SP == INSTANCE ScreensaverProxy
DT == INSTANCE DateTime WITH
  MaxChanges <- ZoneChanges, alive <- callsAlive, queue <- callsQueue, asked
  <- callsAsked, Clients <- Callers
IT == INSTANCE IdleTime WITH
  told <- idletimeTold, running <- idletimeRunning
SH == INSTANCE Shortcuts WITH
  running <- keysServed, setting <- keySetting, layout <- keymap, Shortcuts <-
  Bindable, Commands <- KeyCommands, Layouts <- Keymaps, Nothing <- Unbound,
  MaxActs <- MaxKeyActs, events <- superEvents
XR == INSTANCE XrandrCommands WITH
  before <- confirmBefore, changes <- monitorsChanges

\* What the code counts are numbers; what stands for "nothing" is nothing else;
\* and keys that can be grabbed have different codes in every layout.
TrackerConstants ==
  WireMax \in Nat /\ Backends \subseteq {"systemd", "consolekit"}
ConfirmConstants ==
  /\ Seconds \in Nat /\ MaxDialogs \in Nat /\ MaxSaves \in Nat
  /\ "none" \notin Hardware
ZoneConstants == Plain \cap DT!Unset = {}
KeyConstants ==
  /\ Slots \in Nat /\ Unbound \notin SH!Value
  /\ \A l \in Keymaps : \A j, k \in Usable \ {Super} : Code[l][j] = Code[l][k] => j = k
ASSUME PartsAssumption ==
  TrackerConstants /\ ConfirmConstants /\ ZoneConstants /\ KeyConstants /\ CookieMax \in Nat

trackerVars ==
  <<backend, real, state, step, wire, missed>>
proxyVars ==
  <<running, alive, inhibitors, cookies, watches, made, departed, forgotten>>
zoneVars ==
  <<localtime, config, call, told, before, changes>>
callsVars ==
  <<callsAlive, left, callsQueue, callsAsked, answer, twice, work, script,
    ntpd, silent, promised, clock>>
idletimeVars ==
  <<counter, alarms, resetAt, events, resetSet, idletimeTold, idletimeRunning>>
slotsVars ==
  <<keysServed, keySetting, signals, table, bindings, grabs, record, keymap,
    shared, moved, acts>>
superVars ==
  <<down, grabbed, superEvents, key_press_cnt, super_press, busy, how,
    swallowed, last, moves>>
confirmVars ==
  <<up, hw, screen, intended, backup, called, queued, frames, saves,
    confirmBefore, trial>>
monitorsVars ==
  <<two, copy, extend, only, layout, flying, notice, shownOne, isCopy, names,
    written, monitorsChanges>>
PartsVars ==
  <<focus, vars, trackerVars, proxyVars, zoneVars, callsVars, idletimeVars,
    slotsVars, superVars, confirmVars, monitorsVars>>

\* One key is in one layout where another is in the other.
TheirCodes ==
  [l \in Keymaps |-> [k \in Bindable |-> IF l = "us" THEN IF k = "a" THEN 1 ELSE 2
                                        ELSE IF k = "a" THEN 2 ELSE 3]]

\* What the zones' files have in them.
TheirData == [z \in Zones |-> IF z = "PRC" THEN "Shanghai" ELSE z]

\* Where a component may start in several ways, the others start in one.
PartsInit ==
  /\ focus \in {"daemon", "tracker", "proxy", "zone", "calls", "idletime", "slots",
       "super", "confirm", "monitors"}
  /\ Init
  /\ ST!Init /\ (focus # "tracker" => backend = "systemd" /\ real = "active")
  /\ SP!Init
  /\ DT!ZoneInit
  /\ focus # "zone" =>
       localtime = [kind |-> "link", zone |-> "PRC"] /\ config["TZ"] = "PRC"
  /\ DT!ClockInit /\ (focus # "calls" => script = {} /\ ntpd = "none")
  /\ IT!Init /\ (focus # "idletime" => counter = 0)
  /\ SH!SlotsInit
  /\ focus # "slots" =>
       keymap = "us" /\ \A s \in SH!Slot : keySetting[s] = Unbound
  /\ SH!SuperInit
  /\ XR!ConfirmInit /\ (focus # "confirm" => hw = "laptop" /\ screen.look = "auto")
  /\ XR!DeepinInit /\ (focus # "monitors" => ~two /\ ~copy /\ ~extend)

PartsNext ==
  /\ UNCHANGED focus
  /\ \/ focus = "daemon" /\ Next /\ UNCHANGED
          <<trackerVars, proxyVars, zoneVars, callsVars, idletimeVars,
            slotsVars, superVars, confirmVars, monitorsVars>>
     \/ focus = "tracker" /\ ST!Next /\ UNCHANGED
          <<vars, proxyVars, zoneVars, callsVars, idletimeVars, slotsVars,
            superVars, confirmVars, monitorsVars>>
     \/ focus = "proxy" /\ SP!Next /\ UNCHANGED
          <<vars, trackerVars, zoneVars, callsVars, idletimeVars, slotsVars,
            superVars, confirmVars, monitorsVars>>
     \/ focus = "zone" /\ DT!ZoneNext /\ UNCHANGED
          <<vars, trackerVars, proxyVars, callsVars, idletimeVars, slotsVars,
            superVars, confirmVars, monitorsVars>>
     \/ focus = "calls" /\ DT!ClockNext /\ UNCHANGED
          <<vars, trackerVars, proxyVars, zoneVars, idletimeVars, slotsVars,
            superVars, confirmVars, monitorsVars>>
     \/ focus = "idletime" /\ IT!Next /\ UNCHANGED
          <<vars, trackerVars, proxyVars, zoneVars, callsVars, slotsVars,
            superVars, confirmVars, monitorsVars>>
     \/ focus = "slots" /\ SH!SlotsNext /\ UNCHANGED
          <<vars, trackerVars, proxyVars, zoneVars, callsVars, idletimeVars,
            superVars, confirmVars, monitorsVars>>
     \/ focus = "super" /\ SH!SuperNext /\ UNCHANGED
          <<vars, trackerVars, proxyVars, zoneVars, callsVars, idletimeVars,
            slotsVars, confirmVars, monitorsVars>>
     \/ focus = "confirm" /\ XR!ConfirmNext /\ UNCHANGED
          <<vars, trackerVars, proxyVars, zoneVars, callsVars, idletimeVars,
            slotsVars, superVars, monitorsVars>>
     \/ focus = "monitors" /\ XR!DeepinNext /\ UNCHANGED
          <<vars, trackerVars, proxyVars, zoneVars, callsVars, idletimeVars,
            slotsVars, superVars, confirmVars>>

DaemonStep(A) ==
  focus = "daemon" /\ A /\ UNCHANGED
    <<focus, trackerVars, proxyVars, zoneVars, callsVars, idletimeVars,
      slotsVars, superVars, confirmVars, monitorsVars>>
IdletimeStep(A) ==
  focus = "idletime" /\ A /\ UNCHANGED
    <<focus, vars, trackerVars, proxyVars, zoneVars, callsVars, slotsVars,
      superVars, confirmVars, monitorsVars>>
ConfirmStep(A) ==
  focus = "confirm" /\ A /\ UNCHANGED
    <<focus, vars, trackerVars, proxyVars, zoneVars, callsVars, idletimeVars,
      slotsVars, superVars, monitorsVars>>
MonitorsStep(A) ==
  focus = "monitors" /\ A /\ UNCHANGED
    <<focus, vars, trackerVars, proxyVars, zoneVars, callsVars, idletimeVars,
      slotsVars, superVars, confirmVars>>
PartsSafe == PartsInit /\ [][PartsNext]_PartsVars
PartsFair ==
  /\ \A d \in Daemons: WF_PartsVars(DaemonStep(Handle(d)))
  /\ \A d \in Daemons: WF_PartsVars(DaemonStep(Register(d)))
  /\ \A d \in Daemons: WF_PartsVars(DaemonStep(CreateProxy(d)))
  /\ WF_PartsVars(IdletimeStep(IT!TimePasses))
  /\ WF_PartsVars(IdletimeStep(IT!AlarmEvent \/ IT!ResetEvent))
  /\ WF_PartsVars(ConfirmStep(XR!Deciding))
  /\ WF_PartsVars(MonitorsStep(XR!Commanded))
  /\ WF_PartsVars(MonitorsStep(XR!ScreenChanged))
PartsSpec == PartsSafe /\ PartsFair

PartsTypeOK ==
  /\ focus = "daemon" => TypeOK
  /\ focus = "tracker" => ST!TypeOK
  /\ focus = "proxy" => SP!TypeOK
  /\ focus = "zone" => DT!ZoneTypeOK
  /\ focus = "calls" => DT!ClockTypeOK
  /\ focus = "idletime" => IT!TypeOK
  /\ focus = "slots" => SH!SlotsTypeOK
  /\ focus = "super" => SH!SuperTypeOK
  /\ focus = "confirm" => XR!ConfirmTypeOK
  /\ focus = "monitors" => XR!DeepinTypeOK

(* Once all has been read and all commands and calls have ended, what is   *)
(* kept, shown and promised is so.                                         *)
Settled ==
  /\ focus = "tracker" => ST!Settled
  /\ focus = "calls" => DT!NtpTold
  /\ focus = "monitors" => XR!Obeyed

(* Nobody is left waiting, and what one who leaves has asked for ends.     *)
Released ==
  /\ focus = "proxy" => SP!Released /\ SP!Watched
  /\ focus = "calls" => DT!Answered

(* The zone that was set is the one that is found, and keys run what they  *)
(* should and are taken for nothing else.                                  *)
KeysAndZones ==
  /\ focus = "zone" => DT!ZoneTold /\ DT!ZoneKept
  /\ focus = "slots" => SH!KeysRun /\ SH!NoneTaken
  /\ focus = "super" => SH!AloneRuns

(* A configuration that was not kept leaves no trace, and names that are   *)
(* used late still belong to someone.                                      *)
Reverts ==
  /\ focus = "confirm" => XR!Reverts
  /\ focus = "monitors" => XR!NotDangling

(* Idleness is told of in the end, and so is its end.                      *)
IdlenessKnown == IT!IdlenessIsReported /\ IT!ActiveAgain

(* Dialogs, and reactions to one's own effects, come to an end.            *)
ReactionsEnd == XR!ConfirmationEnds /\ XR!ComesToRest
=============================================================================
