----------------------------- MODULE MC_Display -----------------------------
(* Small instances of what is done with screens, and of colors, tablets,   *)
(* volumes and the clipboard.  They share no state, so that one moves in   *)
(* each behaviour.                                                         *)
EXTENDS Screens

CONSTANTS
  Ports, Panel,
  Monitors, ColorProfiles, Vcgt, Bright, MaxColorChanges, Dirs, UserDir,
  Depth, ProfileFiles, Dir, MaxLevels, MaxFileChanges, Edids, Names, Volumes,
  AutoVolumes, MaxPlugs, MaxLocks, Contents, Software, Programs, MaxMounts,
  MaxClicks, Apps, Targets, Big, Pieces, MaxTakes, Windows, PasteTargets,
  PasteBig, MaxSavings, Beside, Cintiq, Nameless, Turns, MaxTabletChanges,
  Pens, MaxPenChanges, Translated, Overridable, MaxWishes, GtkFiles,
  Switched, MaxSeconds, AccessNumbers, AccessOptions, AccessOwner, SlowMax,
  Unit, MaxAccess, MaxNotes, AccessApps, MaxAppActs, Pointers, TouchScreens,
  MaxUses, Samples, MaxTheme, MaxSoundActs, MaxRemoteActs, Conversions,
  ConvertedKeys, GconfValues, ConvertedFit, MaxGconfActs, Pictures,
  MaxPictureActs, MaxFileTime, Pads, PadModels, Keys, MaxHeld, MaxLit,
  MaxPadChanges

VARIABLES
  monitor, primary, screen, edidCache, devices, default, colordCalls,
  colorsEvents, assigning, files, gamma, icc, percentage, active, colorsLate,
  changes,
  there, file, signals, queries, listings, watched, names, storeCalls, found,
  registered, missed, skipped, storeLate, storeChanges,
  sent, ok, edid, dmi, profile,
  plugged, mounts, pending, plugs, locks, saver, locked, automountWire,
  automount, started, session_is_active, screensaver_active, ss_proxy,
  volume_queue, asking, allow, timers, runs, behind, automountDropped,
  start, ignore, open, defaultApp, auto_open, mounted, mountings, guessing,
  dialogs, clicks, windows, outcomes, orphans,
  alive, clipOwner, changed, takes, asked, sending, deletions, property,
  savingWire, answer, requestor, time, contents, kept, mixed,
  servingContents, partial, saves, conversions, refs, servingRunning,
  servingEvents, servingProperty, wants, servingRefused, got,
  deviceType, screen_tablet, tabletPlugged, screensOn, tabletSetting,
  tabletSignals, rotation, matrix, area, absolute, raw, stale, tabletChanges,
  penType, tool, held, pensPlugged, last_stylus, penSetting, penEvents, curve,
  buttons, pensRefused, pensChanges,
  xsettingsRunning, wish, override, xsettingsPending, settings, serial,
  overrides, notify_idle, xsettingsProperty, client, shell, have_shell,
  shell_told, start_idle, handles, timeouts, xsettingsStale, loaded,
  restarted, crashed, xsettingsChanges,
  modulesTime, dir, enabled, disabled, switch, modulesSignals, dir_modules,
  cond_settings, dir_mtime, modules, unseen, lagging,
  accessRunning, accessSettings, server, desc, accessTold, noticed, shortcut,
  notes, accessCurrent, accessShown, dead, accessWire, undone, accessActs,
  appsRunning, appsOn, toolkitAccessible, appsTold, byUser, appsActs,
  cursorRunning, attached, monitors, cursorShown, cursorEvents, last,
  cursorMissed, cursorActs,
  soundRunning, theme, soundSignals, timeout, cached, failed, soundActs,
  remote, remoteRunning, vino, remoteWire, remoteAsked, proxies, remoteHeld,
  animations, watches, remoteActs,
  gconfRunning, watchers, gconfSetting, gconfSignals, gconf, gconfChanged,
  gconfActs,
  backgroundRunning, backgroundCurrent, uris, gnome, backgroundSignals,
  backgroundPrev, account, backgroundFile, helpers, working, cache,
  backgroundLost, backgroundActs,
  model, padsButtons, pads, padsHeld, action, keys, padsRunning, modes, led,
  osd_window, padsSent, disturbed, padsExcused, padsChanges

CO == INSTANCE Color WITH
  events <- colorsEvents, deviceGamma <- gamma, Outputs <- Ports, Laptop <-
  Panel, storeThere <- there, Top <- UserDir, edidProfile <- profile
RE == INSTANCE Removable WITH
  wire <- automountWire, dropped <- automountDropped, default <- defaultApp,
  Kinds <- Contents
CB == INSTANCE Clipboard WITH
  owner <- clipOwner, wire <- savingWire, running <- servingRunning, refused
  <- servingRefused, serveGot <- got, MaxSaves <- MaxSavings
WA == INSTANCE Wacom WITH
  screen <- screensOn, signals <- tabletSignals, Outputs <- Beside, Laptop <-
  Panel, TabletTurns <- Turns, events <- penEvents, refused <- pensRefused,
  running <- padsRunning, sent <- padsSent, excused <- padsExcused, Models <-
  PadModels
XT == INSTANCE Xsettings WITH
  running <- xsettingsRunning, pending <- xsettingsPending, property <-
  xsettingsProperty, stale <- xsettingsStale, changes <- xsettingsChanges,
  Keys <- Translated, MaxChanges <- MaxWishes, time <- modulesTime, signals <-
  modulesSignals, Modules <- GtkFiles, MaxTime <- MaxSeconds
AC == INSTANCE Accessibility WITH
  settings <- accessSettings, current <- accessCurrent, wire <- accessWire,
  Numbers <- AccessNumbers, Options <- AccessOptions, Owner <- AccessOwner,
  toolkit <- toolkitAccessible, Apps <- AccessApps, events <- cursorEvents,
  missed <- cursorMissed, Devices <- Pointers, Touch <- TouchScreens
DE == INSTANCE Desktop WITH
  wire <- remoteWire, asked <- remoteAsked, held <- remoteHeld, setting <-
  gconfSetting, changed <- gconfChanged, Files <- Conversions, Keys <-
  ConvertedKeys, Values <- GconfValues, Fit <- ConvertedFit, current <-
  backgroundCurrent, prev <- backgroundPrev, file <- backgroundFile, lost <-
  backgroundLost, MaxTime <- MaxFileTime

colorsVars ==
  <<monitor, primary, screen, edidCache, devices, default, colordCalls,
    colorsEvents, assigning, files, gamma, icc, percentage, active,
    colorsLate, changes>>
storeVars ==
  <<there, file, signals, queries, listings, watched, names, storeCalls,
    found, registered, missed, skipped, storeLate, storeChanges>>
edidVars ==
  <<sent, ok, edid, dmi, profile>>
automountVars ==
  <<plugged, mounts, pending, plugs, locks, saver, locked, automountWire,
    automount, started, session_is_active, screensaver_active, ss_proxy,
    volume_queue, asking, allow, timers, runs, behind, automountDropped>>
autorunVars ==
  <<start, ignore, open, defaultApp, auto_open, mounted, mountings, guessing,
    dialogs, clicks, windows, outcomes, orphans>>
savingVars ==
  <<alive, clipOwner, changed, takes, asked, sending, deletions, property,
    savingWire, answer, requestor, time, contents, kept, mixed>>
servingVars ==
  <<servingContents, partial, saves, conversions, refs, servingRunning,
    servingEvents, servingProperty, wants, servingRefused, got>>
tabletVars ==
  <<deviceType, screen_tablet, tabletPlugged, screensOn, tabletSetting,
    tabletSignals, rotation, matrix, area, absolute, raw, stale, tabletChanges>>
pensVars ==
  <<penType, tool, held, pensPlugged, last_stylus, penSetting, penEvents,
    curve, buttons, pensRefused, pensChanges>>
xsettingsVars ==
  <<xsettingsRunning, wish, override, xsettingsPending, settings, serial,
    overrides, notify_idle, xsettingsProperty, client, shell, have_shell,
    shell_told, start_idle, handles, timeouts, xsettingsStale, loaded,
    restarted, crashed, xsettingsChanges>>
modulesVars ==
  <<modulesTime, dir, enabled, disabled, switch, modulesSignals, dir_modules,
    cond_settings, dir_mtime, modules, unseen, lagging>>
accessVars ==
  <<accessRunning, accessSettings, server, desc, accessTold, noticed,
    shortcut, notes, accessCurrent, accessShown, dead, accessWire, undone,
    accessActs>>
appsVars ==
  <<appsRunning, appsOn, toolkitAccessible, appsTold, byUser, appsActs>>
cursorVars ==
  <<cursorRunning, attached, monitors, cursorShown, cursorEvents, last,
    cursorMissed, cursorActs>>
soundVars ==
  <<soundRunning, theme, soundSignals, timeout, cached, failed, soundActs>>
remoteVars ==
  <<remote, remoteRunning, vino, remoteWire, remoteAsked, proxies, remoteHeld,
    animations, watches, remoteActs>>
gconfVars ==
  <<gconfRunning, watchers, gconfSetting, gconfSignals, gconf, gconfChanged,
    gconfActs>>
backgroundVars ==
  <<backgroundRunning, backgroundCurrent, uris, gnome, backgroundSignals,
    backgroundPrev, account, backgroundFile, helpers, working, cache,
    backgroundLost, backgroundActs>>
padsVars ==
  <<model, padsButtons, pads, padsHeld, action, keys, padsRunning, modes, led,
    osd_window, padsSent, disturbed, padsExcused, padsChanges>>
PartsVars ==
  <<focus, screenVars, colorsVars, storeVars, edidVars, automountVars,
    autorunVars, savingVars, servingVars, tabletVars, pensVars, xsettingsVars,
    modulesVars, accessVars, appsVars, cursorVars, soundVars, remoteVars,
    gconfVars, backgroundVars, padsVars>>

\* The panel and one output, with a mode in common.
PanelAndVga == <<"vga", "panel">>
TheirModes == [o \in {"vga", "panel"} |-> IF o = "vga" THEN {2, 3} ELSE {1, 2}]

\* The user's directory and one in it, with two files.
TheirDepth == [d \in Dirs |-> IF d = "icc" THEN 0 ELSE 1]
TheirDir == [p \in ProfileFiles |-> IF p = "a" THEN "icc" ELSE "sub"]

\* Two monitors, one with names that cannot be read, and what is no EDID.
Text(kind, text, unprintable) ==
  [kind |-> kind, text |-> text, unprintable |-> unprintable]
Point(first, second) == [kind |-> "point", first |-> first, second |-> second]
Blocks ==
  {<<[kind |-> "timing"], Text("name", "L225W", 0), Text("serial", "", 0),
     Text("name", "junk", 5)>>,
   <<Text("serial", "77", 4), Point(255, 80), Point(90, 80), Text("eisa", "LTN", 0)>>}
TheirCoordinates == {"rx", "ry", "gx", "gy", "bx", "by", "wx", "wy"}
TheirEdids ==
  {[id |-> id, whole |-> id # "short", header |-> id # "odd", vendor |-> v,
    serial |-> IF v = "LG" THEN 5 ELSE 0, gamma |-> IF id = "two" THEN 255 ELSE 120,
    high |-> [c \in TheirCoordinates |-> IF id = "two" THEN 170 ELSE 85],
    low |-> IF id = "two" THEN <<109, 146>> ELSE <<0, 255>>, blocks |-> b] :
     id \in {"one", "two", "short", "odd"}, v \in {"none", "LG"}, b \in Blocks}
FirstEdid == CHOOSE e \in Edids : TRUE

\* A laptop's screen, one beside it, and that of a tablet.
ThreeScreens == <<"panel", "vga", "cintiq">>
Pen(id, general, eraser) == [id |-> id, general |-> general, eraser |-> eraser]
ThreePens == <<Pen("pen", TRUE, FALSE), Pen("ink", FALSE, FALSE), Pen("rubber", TRUE, TRUE)>>

\* Which feature's beep an option is.
BeepOwner == [o \in AccessOptions |-> IF o = "press" THEN "slow" ELSE "none"]

\* Conversion files of which two name one schema and the last is broken.
ThreeFiles ==
  <<[whole |-> TRUE, groups |-> [wm |-> [theme |-> "/metacity/theme", font |-> "/metacity/font"]]],
    [whole |-> TRUE, groups |-> [mouse |-> [speed |-> "/mouse/speed"],
                                 wm |-> [theme |-> "/wm/theme"]]],
    [whole |-> FALSE, groups |-> [sound |-> [theme |-> "/sound/theme"]]]>>
FourKeys ==
  {[schema |-> "wm", key |-> "theme"], [schema |-> "wm", key |-> "font"],
   [schema |-> "mouse", key |-> "speed"], [schema |-> "sound", key |-> "theme"]}

\* XRandR's panels with few and with many levels, and one of the helper's.
ThreePanels ==
  {[path |-> "xrandr", min |-> 0, max |-> 4], [path |-> "xrandr", min |-> 1, max |-> 41],
   [path |-> "helper", min |-> 0, max |-> 4]}

\* A pad with a ring of two modes and one with two strips.
TwoPads ==
  {[buttons |-> <<{"left"}, {"top"}, {"left", "ring"}>>, rings |-> 1, ring_modes |-> 2,
    ring2_modes |-> 0, strips |-> 0, strips_modes |-> 0, led |-> TRUE, layout |-> TRUE],
   [buttons |-> <<{"left"}, {"right", "strip2"}, {"right", "strip2"}, {"right", "strip2"}>>,
    rings |-> 0, ring_modes |-> 0, ring2_modes |-> 0, strips |-> 2, strips_modes |-> 2,
    led |-> TRUE, layout |-> FALSE]}

\* Where a component may start in several ways, the others start in one.
PartsInit ==
  /\ focus \in {"idletime", "setups", "orientation", "delay", "colors", "store",
       "edid", "automount", "autorun", "saving", "serving", "tablet", "pens",
       "xsettings", "modules", "access", "apps", "cursor", "sound", "remote",
       "gconf", "background", "plan", "panel", "phone", "pads"}
  /\ ScreensInit
  /\ CO!DeviceInit /\ (focus # "colors" => primary = "vga" /\ colordCalls = <<>>)
  /\ CO!StoreInit
  /\ focus # "store" =>
       there = Dirs /\ \A p \in ProfileFiles : file[p] = "none"
  /\ CO!EdidInit
  /\ focus # "edid" =>
       sent = FirstEdid /\ dmi = [name |-> "none", vendor |-> "none"]
  /\ RE!MountInit /\ (focus # "automount" => automount /\ saver /\ plugged = {})
  /\ RE!RunInit
  /\ focus # "autorun" =>
       start = {} /\ open = {} /\ auto_open /\ \A k \in Contents : defaultApp[k] = "none"
  /\ CB!SaveInit /\ (focus # "saving" => clipOwner = "none")
  /\ CB!ServeInit
  /\ WA!TabletInit /\ (focus # "tablet" => deviceType = "pad" /\ ~screen_tablet)
  /\ WA!PenInit /\ (focus # "pens" => penType = "stylus")
  /\ XT!XsInit
  /\ XT!GtkInit
  /\ focus # "modules" =>
       dir = [files |-> {}, mtime |-> 0] /\ disabled = {}
  /\ AC!KeysInit /\ (focus # "access" => accessSettings.on["slow"])
  /\ AC!AppsInit /\ (focus # "apps" => appsOn = {})
  /\ AC!CursorInit /\ DE!SoundInit
  /\ DE!RemoteInit /\ (focus # "remote" => ~remote)
  /\ DE!GconfInit
  /\ DE!PictureInit /\ (focus # "background" => uris = {})
  /\ WA!PadInit /\ (focus # "pads" => WA!HasSwitch(1))

PartsNext ==
  /\ UNCHANGED focus
  /\ \/ ScreensNext /\ UNCHANGED
          <<colorsVars, storeVars, edidVars, automountVars, autorunVars,
            savingVars, servingVars, tabletVars, pensVars, xsettingsVars,
            modulesVars, accessVars, appsVars, cursorVars, soundVars,
            remoteVars, gconfVars, backgroundVars, padsVars>>
     \/ focus = "colors" /\ CO!DeviceNext /\ UNCHANGED
          <<screenVars, storeVars, edidVars, automountVars, autorunVars,
            savingVars, servingVars, tabletVars, pensVars, xsettingsVars,
            modulesVars, accessVars, appsVars, cursorVars, soundVars,
            remoteVars, gconfVars, backgroundVars, padsVars>>
     \/ focus = "store" /\ CO!StoreNext /\ UNCHANGED
          <<screenVars, colorsVars, edidVars, automountVars, autorunVars,
            savingVars, servingVars, tabletVars, pensVars, xsettingsVars,
            modulesVars, accessVars, appsVars, cursorVars, soundVars,
            remoteVars, gconfVars, backgroundVars, padsVars>>
     \/ focus = "edid" /\ CO!EdidNext /\ UNCHANGED
          <<screenVars, colorsVars, storeVars, automountVars, autorunVars,
            savingVars, servingVars, tabletVars, pensVars, xsettingsVars,
            modulesVars, accessVars, appsVars, cursorVars, soundVars,
            remoteVars, gconfVars, backgroundVars, padsVars>>
     \/ focus = "automount" /\ RE!MountNext /\ UNCHANGED
          <<screenVars, colorsVars, storeVars, edidVars, autorunVars,
            savingVars, servingVars, tabletVars, pensVars, xsettingsVars,
            modulesVars, accessVars, appsVars, cursorVars, soundVars,
            remoteVars, gconfVars, backgroundVars, padsVars>>
     \/ focus = "autorun" /\ RE!RunNext /\ UNCHANGED
          <<screenVars, colorsVars, storeVars, edidVars, automountVars,
            savingVars, servingVars, tabletVars, pensVars, xsettingsVars,
            modulesVars, accessVars, appsVars, cursorVars, soundVars,
            remoteVars, gconfVars, backgroundVars, padsVars>>
     \/ focus = "saving" /\ CB!SaveNext /\ UNCHANGED
          <<screenVars, colorsVars, storeVars, edidVars, automountVars,
            autorunVars, servingVars, tabletVars, pensVars, xsettingsVars,
            modulesVars, accessVars, appsVars, cursorVars, soundVars,
            remoteVars, gconfVars, backgroundVars, padsVars>>
     \/ focus = "serving" /\ CB!ServeNext /\ UNCHANGED
          <<screenVars, colorsVars, storeVars, edidVars, automountVars,
            autorunVars, savingVars, tabletVars, pensVars, xsettingsVars,
            modulesVars, accessVars, appsVars, cursorVars, soundVars,
            remoteVars, gconfVars, backgroundVars, padsVars>>
     \/ focus = "tablet" /\ WA!TabletNext /\ UNCHANGED
          <<screenVars, colorsVars, storeVars, edidVars, automountVars,
            autorunVars, savingVars, servingVars, pensVars, xsettingsVars,
            modulesVars, accessVars, appsVars, cursorVars, soundVars,
            remoteVars, gconfVars, backgroundVars, padsVars>>
     \/ focus = "pens" /\ WA!PenNext /\ UNCHANGED
          <<screenVars, colorsVars, storeVars, edidVars, automountVars,
            autorunVars, savingVars, servingVars, tabletVars, xsettingsVars,
            modulesVars, accessVars, appsVars, cursorVars, soundVars,
            remoteVars, gconfVars, backgroundVars, padsVars>>
     \/ focus = "xsettings" /\ XT!XsNext /\ UNCHANGED
          <<screenVars, colorsVars, storeVars, edidVars, automountVars,
            autorunVars, savingVars, servingVars, tabletVars, pensVars,
            modulesVars, accessVars, appsVars, cursorVars, soundVars,
            remoteVars, gconfVars, backgroundVars, padsVars>>
     \/ focus = "modules" /\ XT!GtkNext /\ UNCHANGED
          <<screenVars, colorsVars, storeVars, edidVars, automountVars,
            autorunVars, savingVars, servingVars, tabletVars, pensVars,
            xsettingsVars, accessVars, appsVars, cursorVars, soundVars,
            remoteVars, gconfVars, backgroundVars, padsVars>>
     \/ focus = "access" /\ AC!KeysNext /\ UNCHANGED
          <<screenVars, colorsVars, storeVars, edidVars, automountVars,
            autorunVars, savingVars, servingVars, tabletVars, pensVars,
            xsettingsVars, modulesVars, appsVars, cursorVars, soundVars,
            remoteVars, gconfVars, backgroundVars, padsVars>>
     \/ focus = "apps" /\ AC!AppsNext /\ UNCHANGED
          <<screenVars, colorsVars, storeVars, edidVars, automountVars,
            autorunVars, savingVars, servingVars, tabletVars, pensVars,
            xsettingsVars, modulesVars, accessVars, cursorVars, soundVars,
            remoteVars, gconfVars, backgroundVars, padsVars>>
     \/ focus = "cursor" /\ AC!CursorNext /\ UNCHANGED
          <<screenVars, colorsVars, storeVars, edidVars, automountVars,
            autorunVars, savingVars, servingVars, tabletVars, pensVars,
            xsettingsVars, modulesVars, accessVars, appsVars, soundVars,
            remoteVars, gconfVars, backgroundVars, padsVars>>
     \/ focus = "sound" /\ DE!SoundNext /\ UNCHANGED
          <<screenVars, colorsVars, storeVars, edidVars, automountVars,
            autorunVars, savingVars, servingVars, tabletVars, pensVars,
            xsettingsVars, modulesVars, accessVars, appsVars, cursorVars,
            remoteVars, gconfVars, backgroundVars, padsVars>>
     \/ focus = "remote" /\ DE!RemoteNext /\ UNCHANGED
          <<screenVars, colorsVars, storeVars, edidVars, automountVars,
            autorunVars, savingVars, servingVars, tabletVars, pensVars,
            xsettingsVars, modulesVars, accessVars, appsVars, cursorVars,
            soundVars, gconfVars, backgroundVars, padsVars>>
     \/ focus = "gconf" /\ DE!GconfNext /\ UNCHANGED
          <<screenVars, colorsVars, storeVars, edidVars, automountVars,
            autorunVars, savingVars, servingVars, tabletVars, pensVars,
            xsettingsVars, modulesVars, accessVars, appsVars, cursorVars,
            soundVars, remoteVars, backgroundVars, padsVars>>
     \/ focus = "background" /\ DE!PictureNext /\ UNCHANGED
          <<screenVars, colorsVars, storeVars, edidVars, automountVars,
            autorunVars, savingVars, servingVars, tabletVars, pensVars,
            xsettingsVars, modulesVars, accessVars, appsVars, cursorVars,
            soundVars, remoteVars, gconfVars, padsVars>>
     \/ focus = "pads" /\ WA!PadNext /\ UNCHANGED
          <<screenVars, colorsVars, storeVars, edidVars, automountVars,
            autorunVars, savingVars, servingVars, tabletVars, pensVars,
            xsettingsVars, modulesVars, accessVars, appsVars, cursorVars,
            soundVars, remoteVars, gconfVars, backgroundVars>>

PartsSpec == PartsInit /\ [][PartsNext]_PartsVars

PartsTypeOK ==
  /\ focus = "idletime" => TypeOK
  /\ focus = "setups" => XS!TypeOK
  /\ focus = "orientation" => OR!TypeOK
  /\ focus = "delay" => ID!TypeOK
  /\ focus = "colors" => CO!DeviceTypeOK
  /\ focus = "store" => CO!StoreTypeOK
  /\ focus = "edid" => CO!EdidTypeOK
  /\ focus = "automount" => RE!MountTypeOK
  /\ focus = "autorun" => RE!RunTypeOK
  /\ focus = "saving" => CB!SaveTypeOK
  /\ focus = "serving" => CB!ServeTypeOK
  /\ focus = "tablet" => WA!TabletTypeOK
  /\ focus = "pens" => WA!PenTypeOK
  /\ focus = "xsettings" => XT!XsTypeOK
  /\ focus = "modules" => XT!GtkTypeOK
  /\ focus = "access" => AC!KeysTypeOK
  /\ focus = "apps" => AC!AppsTypeOK
  /\ focus = "cursor" => AC!CursorTypeOK
  /\ focus = "sound" => DE!SoundTypeOK
  /\ focus = "remote" => DE!RemoteTypeOK
  /\ focus = "gconf" => DE!GconfTypeOK
  /\ focus = "background" => DE!PictureTypeOK
  /\ focus = "plan" => PW!PlanTypeOK
  /\ focus = "panel" => PW!PanelTypeOK
  /\ focus = "phone" => PW!PhoneTypeOK
  /\ focus = "pads" => WA!PadTypeOK

(* Once all is quiet, screens have the colors that colord wants, tablets   *)
(* what their settings and the screens want, and pads show their modes.    *)
ColorsAndTablets ==
  /\ focus = "colors" => CO!ColorsFollow
  /\ focus = "store" => CO!ProfilesKnown
  /\ focus = "edid" => CO!OwnData
  /\ focus = "tablet" => WA!TabletFollows /\ WA!TurnsAddUp
  /\ focus = "pads" => WA!ModesShown /\ WA!LabelsGoOff

(* Volumes wait for the screen to be unlocked, what is in them is run      *)
(* once, as the user has chosen, what is saved of the clipboard and pasted *)
(* is whole, and what is kept in several places agrees once all was heard. *)
OthersServed ==
  /\ focus = "automount" => RE!WaitsForUnlock /\ RE!RunOnce /\ RE!LockKnown
  /\ focus = "autorun" => RE!DialogsOfMounts /\ RE!OneWindow /\ RE!ShownIsDone
  /\ focus = "saving" => CB!SavedWhole /\ CB!RequestsServed
  /\ focus = "serving" => CB!ServedWhole /\ CB!FreedLast
  /\ focus = "pens" => WA!PenKnown
  /\ focus = "pads" => WA!KeysGoUp
  /\ focus = "xsettings" => XT!Published /\ XT!ChangesSeen /\ XT!ShellAndFontsKnown
  /\ focus = "modules" => XT!ModulesKnown
  /\ focus = "access" => AC!Agree /\ AC!TakenBack
  /\ focus = "apps" => AC!ToolkitFollows
  /\ focus = "cursor" => AC!CursorKnown
  /\ focus = "sound" => DE!NoOldSamples
  /\ focus = "remote" => DE!AnimationsFit
  /\ focus = "gconf" => DE!GconfFollows
  /\ focus = "background" => DE!AccountShows /\ DE!BlurTrue
=============================================================================
