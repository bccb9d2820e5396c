----------------------------- MODULE MC_Devices -----------------------------
(* Small instances of what is done with keys, pointers and other devices.  *)
(* The components share no state, so that one moves in each behaviour.     *)
EXTENDS Upkeep

CONSTANTS
  Engines, SourceLists, OldLists, SystemLists, MaxCalls, SourceChanges,
  Options, Others, MaxWait, MaxInput, Switchers, KeyEvents, MaxPids,
  KeyChanges, Pads, Mice, Kept, PointerEvents, PointerChanges, Frames,
  LocateInput, HardCoded, Settings, Customs, Bindings, GrabChanges, Names,
  Usb, MaxIndex, MaxQueue, MaxMoves, Step, MaxVolume, VolumeQueue,
  MaxPresses, Apps, Connections, MaxWire, MaxTime

VARIABLES
  sources, current, module, localed, bus, engines, listing, overtaken, spoilt, wire,
  global, failed, changes,
  option, held, queue, grabbed, frozen, buttons, seen, lock, complete, owed,
  missing, input,
  phase, remember, saved, old, keysLock, xkb, reported, switcher, spawned,
  procs, signals, last, keysChanges,
  running, plugged, on, known, events, blacklist, enabled, handed, tap, left,
  pointersButtons, taps, pointersChanges,
  down, grab, clicks, inbox, tapped, wanted, swallowed, animate, source,
  timer, elapsed, since, circles, inputs,
  grabsRunning, idle, setting, command, binding, notices, keys, grabsGrabbed,
  taken, lost, late, grabsChanges,
  here, chosen, index, link, asked, told, sinks, streams, serial, mixerWanted,
  defaultId, stream, cached, blind, moves,
  volume, muted, volumeKnown, silent, op, sent, heard, volumeWanted, presses,
  alive, playersWire, players, playersAsked, both, clock

KB == INSTANCE Keyboard WITH
  lockOld <- old, MaxEvents <- KeyEvents
MO == INSTANCE Mouse WITH
  buttons <- pointersButtons, changes <- pointersChanges, MaxEvents <-
  PointerEvents, MaxChanges <- PointerChanges, MaxInput <- LocateInput
MK == INSTANCE MediaKeys WITH
  running <- grabsRunning, grabbed <- grabsGrabbed, changes <- grabsChanges,
  MaxChanges <- GrabChanges, known <- volumeKnown, wire <- playersWire

sourcesVars ==
  <<sources, current, module, localed, bus, engines, listing, overtaken, spoilt, wire,
    global, failed, changes>>
switcherVars ==
  <<option, held, queue, grabbed, frozen, buttons, seen, lock, complete, owed,
    missing, input>>
keysVars ==
  <<phase, remember, saved, old, keysLock, xkb, reported, switcher, spawned,
    procs, signals, last, keysChanges>>
pointersVars ==
  <<running, plugged, on, known, events, blacklist, enabled, handed, tap,
    left, pointersButtons, taps, pointersChanges>>
locateVars ==
  <<down, grab, clicks, inbox, tapped, wanted, swallowed, animate, source,
    timer, elapsed, since, circles, inputs>>
grabsVars ==
  <<grabsRunning, idle, setting, command, binding, notices, keys,
    grabsGrabbed, taken, lost, late, grabsChanges>>
mixerVars ==
  <<here, chosen, index, link, asked, told, sinks, streams, serial,
    mixerWanted, defaultId, stream, cached, blind, moves>>
volumeVars ==
  <<volume, muted, volumeKnown, silent, op, sent, heard, volumeWanted, presses>>
playersVars ==
  <<alive, playersWire, players, playersAsked, both, clock>>
PartsVars ==
  <<focus, upkeepVars, sourcesVars, switcherVars, keysVars, pointersVars,
    locateVars, grabsVars, mixerVars, volumeVars, playersVars>>

\* Lists of sources: what the user sets, what older programs have stored and
\* what the system suggests.  IBus does not have "gone".
TheirSources == {<<>>, <<"xkb">>, <<"xkb", "pinyin">>, <<"pinyin", "gone", "xkb">>}
Stored == {<<>>, <<"pinyin">>}
Suggested == {<<>>, <<"xkb", "pinyin">>}
\* A directory with another one and a file in it.
TheirParent == [e \in Entries |-> IF e = "d" THEN "root" ELSE "d"]
\* The odd printer does not tell its model.
TheirModel == [d \in NewDevices |-> IF d = "odd" THEN "none" ELSE "laser"]

\* Where a component may start in several ways, the others start in one.
PartsInit ==
  /\ focus \in {"sources", "switcher", "keys", "pointers", "locate", "grabs", "mixer",
       "volume", "players", "disks", "purge", "thumbs", "printers", "cups",
       "newprinters", "setup"}
  /\ KB!SourceInit /\ (focus # "sources" => sources = <<"xkb">> /\ module = "ibus")
  /\ KB!SwitcherInit /\ (focus # "switcher" => option = "caps")
  /\ KB!LockInit
  /\ focus # "keys" =>
       ~remember /\ saved = "on" /\ keysLock = "on" /\ switcher = "off"
  /\ MO!PointerInit
  /\ focus # "pointers" =>
       plugged = Pads /\ enabled /\ handed = "left" /\ ~left
  /\ MO!LocateInit /\ (focus # "locate" => animate)
  /\ MK!GrabInit /\ (focus # "grabs" => setting = [k \in Settings |-> "x"])
  /\ MK!MixerInit /\ (focus # "mixer" => chosen = Usb)
  /\ MK!VolumeInit /\ (focus # "volume" => volume = 0 /\ ~muted)
  /\ MK!PlayerInit
  /\ UpkeepInit

PartsNext ==
  /\ UNCHANGED focus
  /\ \/ focus = "sources" /\ KB!SourceNext /\ UNCHANGED
          <<upkeepVars, switcherVars, keysVars, pointersVars, locateVars,
            grabsVars, mixerVars, volumeVars, playersVars>>
     \/ focus = "switcher" /\ KB!SwitcherNext /\ UNCHANGED
          <<upkeepVars, sourcesVars, keysVars, pointersVars, locateVars,
            grabsVars, mixerVars, volumeVars, playersVars>>
     \/ focus = "keys" /\ KB!LockNext /\ UNCHANGED
          <<upkeepVars, sourcesVars, switcherVars, pointersVars, locateVars,
            grabsVars, mixerVars, volumeVars, playersVars>>
     \/ focus = "pointers" /\ MO!PointerNext /\ UNCHANGED
          <<upkeepVars, sourcesVars, switcherVars, keysVars, locateVars,
            grabsVars, mixerVars, volumeVars, playersVars>>
     \/ focus = "locate" /\ MO!LocateNext /\ UNCHANGED
          <<upkeepVars, sourcesVars, switcherVars, keysVars, pointersVars,
            grabsVars, mixerVars, volumeVars, playersVars>>
     \/ focus = "grabs" /\ MK!GrabNext /\ UNCHANGED
          <<upkeepVars, sourcesVars, switcherVars, keysVars, pointersVars,
            locateVars, mixerVars, volumeVars, playersVars>>
     \/ focus = "mixer" /\ MK!MixerNext /\ UNCHANGED
          <<upkeepVars, sourcesVars, switcherVars, keysVars, pointersVars,
            locateVars, grabsVars, volumeVars, playersVars>>
     \/ focus = "volume" /\ MK!VolumeNext /\ UNCHANGED
          <<upkeepVars, sourcesVars, switcherVars, keysVars, pointersVars,
            locateVars, grabsVars, mixerVars, playersVars>>
     \/ focus = "players" /\ MK!PlayerNext /\ UNCHANGED
          <<upkeepVars, sourcesVars, switcherVars, keysVars, pointersVars,
            locateVars, grabsVars, mixerVars, volumeVars>>
     \/ UpkeepNext /\ UNCHANGED
          <<sourcesVars, switcherVars, keysVars, pointersVars, locateVars,
            grabsVars, mixerVars, volumeVars, playersVars>>

PartsSpec == PartsInit /\ [][PartsNext]_PartsVars

PartsTypeOK ==
  /\ focus = "sources" => KB!SourceTypeOK
  /\ focus = "switcher" => KB!SwitcherTypeOK
  /\ focus = "keys" => KB!LockTypeOK
  /\ focus = "pointers" => MO!PointerTypeOK
  /\ focus = "locate" => MO!LocateTypeOK
  /\ focus = "grabs" => MK!GrabTypeOK
  /\ focus = "mixer" => MK!MixerTypeOK
  /\ focus = "volume" => MK!VolumeTypeOK
  /\ focus = "players" => MK!PlayerTypeOK
  /\ focus = "disks" => HK!DiskTypeOK
  /\ focus = "purge" => HK!PurgeTypeOK
  /\ focus = "thumbs" => HK!ThumbTypeOK
  /\ focus = "printers" => PN!ProblemTypeOK
  /\ focus = "cups" => PN!CupsTypeOK
  /\ focus = "newprinters" => NP!NameTypeOK
  /\ focus = "setup" => NP!SetupTypeOK

(* Once all has been read and all calls have ended, devices are as the     *)
(* settings say, whatever came and went meanwhile.                         *)
DevicesFollow ==
  /\ focus = "sources" => KB!SourceFollows
  /\ focus = "keys" => KB!NumlockKept
  /\ focus = "pointers" => MO!PointersFollow /\ MO!PointerLeft
  /\ focus = "grabs" => MK!GrabsFollow
  /\ focus = "printers" => PN!ProblemsEnd

(* What the user does with keys is done once, by one process, and goes to  *)
(* the right one.                                                          *)
KeysDone ==
  /\ focus = "switcher" => KB!SwitchedOnce
  /\ focus = "keys" => KB!OneSwitcher
  /\ focus = "locate" => MO!TapsOnly /\ MO!CirclesGo
  /\ focus = "mixer" => MK!KeyActsOnSink
  /\ focus = "volume" => MK!StepsCount
  /\ focus = "players" => MK!KeysToLast
=============================================================================
