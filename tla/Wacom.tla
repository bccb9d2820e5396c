------------------------------- MODULE Wacom --------------------------------
(* The wacom plugin: the screen a tablet is mapped to, the pens that are   *)
(* used on it, and the buttons, rings and strips of its pad.               *)
EXTENDS Naturals, Sequences, SequencesExt, FiniteSets

-----------------------------------------------------------------------------
(* One device of a tablet: which screen it is mapped to, how it is turned    *)
(* and which area of it is used.  All devices of a tablet share its settings.*)
CONSTANTS
  Outputs,          \* sequence of the outputs, from left to right
  Laptop, Cintiq,   \* the builtin one, and that of a screen tablet
  Nameless,         \* outputs whose EDID cannot be read
  TabletTurns,            \* rotations that are tried
  MaxTabletChanges        \* bounds what the user changes

VARIABLES
  deviceType, screen_tablet,
  tabletPlugged,
  screen,           \* each output: "gone", "off" or its rotation
  tabletSetting,          \* rotation, display, area, keep-aspect, is-absolute
  signals,          \* of settings and screens, on their way
  rotation, matrix, \* the device's properties
  area, absolute,
  raw,              \* history: the rotation was set without regard to the screen
  stale,            \* history: the area's aspect may be of something else
  tabletChanges

device == <<rotation, matrix, area, absolute, raw, stale>>
tabletVars == <<deviceType, screen_tablet, tabletPlugged, screen, tabletSetting,
                signals, rotation, matrix, area, absolute, raw, stale,
                tabletChanges>>

TabletNone == "none"
All == "all"
Default == <<"default">>
Rotations == <<"half", "cw", "none", "ccw">>
OutputNames == ToSet(Outputs)

-----------------------------------------------------------------------------
(* Screens                                                                 *)

Connected(o) == screen[o] # "gone"
IsOn(o) == screen[o] \notin {"gone", "off"}
MonitorsInUse == SelectSeq(Outputs, IsOn)
\* Width and height are exchanged.
Upright(o) == screen[o] \in {"cw", "ccw"}

FindOutputByEdid(o) == IF o \in OutputNames \ Nameless
    /\ Connected(o) THEN o ELSE TabletNone

\* What cannot be found is, for a screen tablet, a screen of Wacom or the laptop's.
FindOutputByHeuristic ==
  IF FindOutputByEdid(Cintiq) # TabletNone THEN Cintiq
  ELSE IF Connected(Laptop) THEN Laptop ELSE TabletNone

\* The setting is the EDID's, or empty.
FindOutputByDisplay == FindOutputByEdid(tabletSetting.display)

FindOutput ==
  IF FindOutputByDisplay = TabletNone /\ screen_tablet THEN FindOutputByHeuristic
  ELSE FindOutputByDisplay

DisplayMonitor == IF FindOutput # TabletNone /\ IsOn(FindOutput) THEN FindOutput ELSE All

\* All outputs decide on where one of them is.
DisplayMatrix == IF DisplayMonitor = All THEN <<All>> ELSE <<DisplayMonitor, screen>>

DisplayRotation == IF FindOutput # TabletNone
    /\ IsOn(FindOutput) THEN screen[FindOutput] ELSE "none"

\* A bug: turned to the other side.
RelativeRotationWrong(of, to) ==
  LET at(r) == CHOOSE i \in 1..4 : Rotations[i] = r IN
    IF to = "none" THEN of ELSE Rotations[1 + ((at(of) + at(to)) % 4)]

\* get_relative_rotation
RelativeRotation(of, to) ==
  LET i == (CHOOSE k \in 1..4 : Rotations[k] = of) - 1 IN
    CASE of = to -> "none"
      [] to = "none" -> of
      [] to = "half" -> Rotations[1 + ((i + 2) % 4)]
      [] to = "cw" -> Rotations[1 + ((i + 3) % 4)]
      [] to = "ccw" -> Rotations[1 + ((i + 1) % 4)]

\* compute_aspect_area: of the whole screen or of the monitor, for the device as
\* the setting has it turned.
AspectArea ==
  <<IF DisplayMonitor = All THEN <<All, screen>>
      ELSE <<DisplayMonitor, Upright(DisplayMonitor)>>,
    tabletSetting.rotation>>

-----------------------------------------------------------------------------
(* What is set                                                             *)

SetDisplay ==
  /\ matrix' = DisplayMatrix
  /\ rotation' = RelativeRotation(tabletSetting.rotation, DisplayRotation) /\ raw' = FALSE

\* The area is written as a setting, and set when that is told.
SetKeepAspect(keep) ==
  LET new == IF keep THEN AspectArea ELSE Default IN
    tabletSetting' = [tabletSetting EXCEPT !.area = new] /\ area' = new /\ stale' = FALSE

HasAspect == deviceType \notin {"touch", "cursor", "pad"} /\ ~screen_tablet

Area ==
  IF deviceType = "touch" THEN UNCHANGED <<tabletSetting, area, stale>>
  ELSE IF screen_tablet
       THEN area' = tabletSetting.area /\ UNCHANGED <<tabletSetting, stale>>
  ELSE SetKeepAspect(tabletSetting.keep)

\* set_wacom_settings
SetWacomSettings ==
  CASE deviceType = "touch" /\ ~screen_tablet ->
         /\ rotation' = tabletSetting.rotation /\ absolute' = FALSE
         /\ UNCHANGED <<matrix, area, raw, stale, tabletSetting>>
    [] deviceType = "cursor" ->
         /\ rotation' = tabletSetting.rotation /\ absolute' = FALSE /\ area' = Default
         /\ UNCHANGED <<matrix, raw, stale, tabletSetting>>
    [] deviceType = "pad" ->
         /\ rotation' = tabletSetting.rotation
         /\ UNCHANGED <<matrix, area, absolute, raw, stale, tabletSetting>>
    [] OTHER -> absolute' = tabletSetting.absolute /\ Area /\ SetDisplay

\* wacom_settings_changed: the rotation is set as it is, and a new display or
\* rotation leaves the aspect.
WacomSettingsChanged(key) ==
  CASE key = "rotation" /\ deviceType # "pad" ->
         /\ rotation' = tabletSetting.rotation /\ raw' = TRUE
         /\ UNCHANGED <<matrix, area, absolute, stale, tabletSetting>>
    [] key = "absolute" /\ deviceType \notin {"cursor", "pad", "touch"} ->
         /\ absolute' = tabletSetting.absolute
         /\ UNCHANGED <<rotation, matrix, area, raw, stale, tabletSetting>>
    [] key = "area" /\ deviceType \notin {"cursor", "pad", "touch"} ->
         /\ area' = tabletSetting.area
         /\ UNCHANGED <<rotation, matrix, absolute, raw, stale, tabletSetting>>
    [] key = "display" /\ deviceType \notin {"cursor", "pad"} ->
         /\ SetDisplay
         /\ UNCHANGED <<area, absolute, stale, tabletSetting>>
    [] key = "keep" /\ HasAspect ->
         /\ SetKeepAspect(tabletSetting.keep)
         /\ UNCHANGED <<rotation, matrix, absolute, raw>>
    [] OTHER -> UNCHANGED <<device, tabletSetting>>

\* A bug: what the keep-aspect setting says is not looked at again.
ScreenChangedOnce ==
  IF deviceType \in {"cursor", "pad"} THEN UNCHANGED <<device, tabletSetting>>
  ELSE SetDisplay /\ UNCHANGED <<area, absolute, stale, tabletSetting>>

\* on_screen_changed_cb
ScreenChanged ==
  IF deviceType \in {"cursor", "pad"} THEN UNCHANGED <<device, tabletSetting>>
  ELSE Area /\ SetDisplay /\ UNCHANGED absolute

-----------------------------------------------------------------------------
TabletInit ==
  /\ deviceType \in {"stylus", "touch", "cursor", "pad"} /\ screen_tablet \in BOOLEAN
  /\ tabletPlugged = FALSE /\ signals = <<>> /\ tabletChanges = 0
  /\ screen = [o \in OutputNames |-> IF o = Cintiq THEN "gone" ELSE "none"]
  /\ tabletSetting = [rotation |-> "none", display |-> TabletNone, area |-> Default,
         keep |-> FALSE,
                absolute |-> TRUE]
  /\ rotation = "none" /\ matrix = <<All>> /\ area = Default /\ absolute = TRUE
  /\ raw = FALSE /\ stale = FALSE

TabletChanges == tabletChanges < MaxTabletChanges /\ tabletChanges' = tabletChanges + 1

\* The server starts with a device's properties as they are.
TabletDeviceAdded ==
  /\ ~tabletPlugged /\ tabletPlugged' = TRUE /\ SetWacomSettings
  /\ UNCHANGED <<deviceType, screen_tablet, screen, signals, tabletChanges>>

TabletDeviceRemoved ==
  /\ TabletChanges /\ tabletPlugged /\ tabletPlugged' = FALSE
  /\ rotation' = "none" /\ matrix' = <<All>> /\ area' = Default /\ absolute' = TRUE
  /\ raw' = FALSE /\ stale' = FALSE /\ UNCHANGED <<deviceType, screen_tablet,
                                                   screen, tabletSetting, signals>>

\* The user's own area, or a display or rotation that changes the aspect.
TabletUserSets(key, value) ==
  /\ TabletChanges /\ tabletSetting[key] # value
  /\ tabletSetting' = [tabletSetting EXCEPT ![key] = value]
  /\ signals' = Append(signals, key)
         /\ stale' = (stale \/ key \in {"area", "rotation", "display"})
  /\ UNCHANGED <<deviceType, screen_tablet, tabletPlugged, screen, rotation, matrix,
                 area, absolute, raw>>

ScreensChange(o, s) ==
  /\ TabletChanges /\ screen[o] # s /\ screen' = [screen EXCEPT ![o] = s]
  /\ \E k \in OutputNames : screen'[k] \notin {"gone", "off"}
  /\ signals' = Append(signals, "screen")
  /\ UNCHANGED <<deviceType, screen_tablet, tabletPlugged, tabletSetting, device>>

\* Values are read when the signal is handled.
Signal ==
  /\ signals # <<>> /\ signals' = Tail(signals)
  /\ IF ~tabletPlugged THEN UNCHANGED <<device, tabletSetting>>
     ELSE IF Head(signals) = "screen" THEN ScreenChanged
         ELSE WacomSettingsChanged(Head(signals))
  /\ UNCHANGED <<deviceType, screen_tablet, tabletPlugged, screen, tabletChanges>>

\* One without a readable EDID is set as none at all.
SetDisplayByOutput(o) ==
  tabletSetting' = [tabletSetting EXCEPT !.display = IF o \in Nameless THEN TabletNone
      ELSE o]

\* After the last monitor come all of them.
NextDisplay ==
  LET at == IF DisplayMonitor = All THEN 0
            ELSE CHOOSE i \in DOMAIN MonitorsInUse : MonitorsInUse[i] = DisplayMonitor
  IN IF at + 1 > Len(MonitorsInUse) THEN TabletNone ELSE MonitorsInUse[at + 1]

SwitchMonitor ==
  /\ TabletChanges /\ ~screen_tablet /\ Len(MonitorsInUse) >= 2
  /\ SetDisplayByOutput(NextDisplay) /\ stale' = TRUE
  /\ signals' = Append(signals, "display")
  /\ UNCHANGED <<deviceType, screen_tablet, tabletPlugged, screen, rotation, matrix,
                 area, absolute, raw>>

TabletNext ==
  \/ TabletDeviceAdded \/ TabletDeviceRemoved \/ Signal \/ SwitchMonitor
  \/ \E r \in TabletTurns : TabletUserSets("rotation", r)
  \/ \E d \in OutputNames \cup {TabletNone} : TabletUserSets("display", d)
  \/ TabletUserSets("area", <<"user">>)
  \/ \E b \in BOOLEAN : TabletUserSets("keep", b) \/ TabletUserSets("absolute", b)
  \/ \E o \in OutputNames, s \in TabletTurns \cup {"off", "gone"} : ScreensChange(o, s)

TabletSpec == TabletInit /\ [][TabletNext]_tabletVars

-----------------------------------------------------------------------------
TabletTypeOK ==
  /\ tabletPlugged \in BOOLEAN /\ tabletChanges \in 0..MaxTabletChanges
  /\ Len(signals) <= MaxTabletChanges
  /\ rotation \in ToSet(Rotations) /\ absolute \in BOOLEAN
  /\ DOMAIN tabletSetting = {"rotation", "display", "area", "keep", "absolute"}

Mapped == deviceType = "stylus" \/ (deviceType = "touch" /\ screen_tablet)

(* Once all is told, a device is mapped to the screen it should be, turned   *)
(* as that is, and has the area of the settings, of the right aspect unless  *)
(* the user had his own say in it (set_display, set_keep_aspect).            *)
TabletFollows ==
  tabletPlugged /\ signals = <<>> =>
    /\ Mapped => /\ matrix = DisplayMatrix
                 /\ ~raw => rotation = RelativeRotation(tabletSetting.rotation,
                        DisplayRotation)
    /\ deviceType = "stylus" =>
         /\ area = tabletSetting.area /\ absolute = tabletSetting.absolute
         /\ HasAspect /\ tabletSetting.keep /\ ~stale => area = AspectArea
    /\ deviceType = "cursor" => area = Default /\ ~absolute

(* A device is turned by its setting and by its screen together, but not at  *)
(* all when both are the same (get_relative_rotation): a tablet that is      *)
(* turned a quarter on a screen turned the same way is not turned half.      *)
TurnsAddUp ==
  Mapped /\ tabletPlugged /\ ~raw /\ signals = <<>> =>
    LET quarters(r) == CASE r = "none" -> 0 [] r = "cw" -> 1 [] r = "half" -> 2 [] r =
        "ccw" -> 3
    IN IF tabletSetting.rotation = DisplayRotation THEN rotation = "none"
       ELSE quarters(rotation) = (quarters(tabletSetting.rotation) +
           quarters(DisplayRotation)) % 4

-----------------------------------------------------------------------------
(* The pens of a tablet: its stylus device, or the one of their erasers,     *)
(* takes the settings of the pen that was last near it.                      *)
CONSTANTS
  Pens,             \* sequence of [id, general, eraser], as libwacom knows them
  MaxPenChanges        \* bounds what the user does

VARIABLES
  penType,
  tool,             \* the last pen, as the device says: its id, "zero" or an unknown one
  held,             \* a button of the pen is down
  pensPlugged,
  last_stylus,
  penSetting,          \* curve and button mapping of each pen
  events,           \* about the tool, and of changed settings
  curve, buttons,   \* properties of the device
  refused,          \* history: the server did not take the last button mapping
  pensChanges

penVars == <<penType, tool, held, pensPlugged, last_stylus, penSetting, events,
             curve, buttons, refused, pensChanges>>

PenNone == "none"
PenIds == {Pens[i].id : i \in DOMAIN Pens}
Kinds == {"curve", "buttons"}

-----------------------------------------------------------------------------
\* A stylus device has no erasers and an eraser device nothing else.
Styli == Reverse(SelectSeq(Pens, LAMBDA p : p.eraser = (penType = "eraser")))

\* A bug: the general one stands in only for a pen that is not near.
CurrentStylusStrict(id) ==
  LET of == SelectSeq(Styli, LAMBDA s : s.id = id \/ (id = "zero" /\ s.general))
  IN IF of # <<>> THEN of[1].id ELSE last_stylus

\* gsd_wacom_device_set_current_stylus: the pen itself, the general one, the first.
CurrentStylus(id) ==
  LET of == SelectSeq(Styli, LAMBDA s : s.id = id \/ (id = "zero" /\ s.general))
      general == SelectSeq(Styli, LAMBDA s : s.general)
  IN IF last_stylus = id THEN id
     ELSE IF of # <<>> THEN of[1].id
     ELSE IF general # <<>> THEN general[1].id ELSE Styli[1].id

\* X refuses to change the mapping while a button is down, and 20 tries may not do.
SetButtonmap(s) ==
  \/ buttons' = penSetting[s].buttons /\ refused' = FALSE
  \/ held /\ UNCHANGED buttons /\ refused' = TRUE

\* apply_stylus_settings
ApplyStylusSettings(s) == curve' = penSetting[s].curve /\ SetButtonmap(s)

\* A bug: whichever pen's settings change are taken.
StylusSettingsChangedAny(s, key) ==
  IF key = "curve" THEN curve' = penSetting[s].curve /\ UNCHANGED <<buttons, refused>>
  ELSE SetButtonmap(s) /\ UNCHANGED curve

\* stylus_settings_changed
StylusSettingsChanged(s, key) ==
  IF s # last_stylus THEN UNCHANGED <<curve, buttons, refused>>
  ELSE IF key = "curve" THEN curve' = penSetting[s].curve /\ UNCHANGED <<buttons, refused>>
  ELSE SetButtonmap(s) /\ UNCHANGED curve

-----------------------------------------------------------------------------
PenInit ==
  /\ penType \in {"stylus", "eraser"} /\ tool = "zero" /\ held = FALSE
  /\ pensPlugged = FALSE
  /\ last_stylus = PenNone /\ events = <<>> /\ pensChanges = 0
  /\ penSetting = [s \in PenIds |-> [curve |-> <<s, 0>>, buttons |-> <<s, 0>>]]
  /\ curve = <<PenNone, 0>> /\ buttons = <<PenNone, 0>> /\ refused = FALSE

PenChanges == pensChanges < MaxPenChanges /\ pensChanges' = pensChanges + 1

\* The pen is asked for before anyone listens; all is applied at the end.
PenDeviceAdded ==
  /\ ~pensPlugged /\ pensPlugged' = TRUE
  /\ last_stylus' = CurrentStylus(tool) /\ ApplyStylusSettings(last_stylus')
  /\ UNCHANGED <<penType, tool, held, penSetting, events, pensChanges>>

PenDeviceRemoved ==
  /\ PenChanges /\ pensPlugged /\ pensPlugged' = FALSE /\ last_stylus' = PenNone
  /\ events' = <<>>
  /\ tool' = "zero" /\ held' = FALSE /\ curve' = <<PenNone, 0>>
  /\ buttons' = <<PenNone, 0>> /\ refused' = FALSE
  /\ UNCHANGED <<penType, penSetting>>

PenNears(id) ==
  /\ PenChanges /\ pensPlugged /\ ~held /\ id # tool /\ tool' = id
  /\ events' = Append(events, <<"tool">>)
  /\ UNCHANGED <<penType, held, pensPlugged, last_stylus, penSetting, curve,
                 buttons, refused>>

PenButton ==
  /\ pensPlugged /\ tool # "zero" /\ held' = ~held
  /\ UNCHANGED <<penType, tool, pensPlugged, last_stylus, penSetting, events, curve,
                 buttons, refused, pensChanges>>

PenUserSets(s, key) ==
  /\ PenChanges /\ penSetting' = [penSetting EXCEPT ![s][key] = <<s, 1 - @[2]>>]
  /\ events' = IF pensPlugged /\ (\E i \in DOMAIN Styli : Styli[i].id = s)
               THEN Append(events, <<s, key>>) ELSE events
  /\ UNCHANGED <<penType, tool, held, pensPlugged, last_stylus, curve, buttons, refused>>

\* filter_events asks for the tool as it is by now; last_stylus_changed.
Event ==
  /\ events # <<>> /\ events' = Tail(events)
  /\ IF Head(events) = <<"tool">>
     THEN /\ last_stylus' = CurrentStylus(tool)
          /\ IF last_stylus = tool THEN UNCHANGED <<curve, buttons, refused>>
             ELSE ApplyStylusSettings(last_stylus')
     ELSE StylusSettingsChanged(Head(events)[1], Head(events)[2]) /\ UNCHANGED last_stylus
  /\ UNCHANGED <<penType, tool, held, pensPlugged, penSetting, pensChanges>>

PenNext ==
  \/ PenDeviceAdded \/ PenDeviceRemoved \/ PenButton \/ Event
  \/ \E id \in PenIds \cup {"zero", "unknown"} : PenNears(id)
  \/ \E s \in PenIds, key \in Kinds : PenUserSets(s, key)

PenSpec == PenInit /\ [][PenNext]_penVars

-----------------------------------------------------------------------------
PenTypeOK ==
  /\ held \in BOOLEAN /\ pensPlugged \in BOOLEAN /\ refused \in BOOLEAN
  /\ pensChanges \in 0..MaxPenChanges /\ last_stylus \in PenIds \cup {PenNone}

(* Once all is told, the device has the settings of the pen that is near it, *)
(* the general pen's if that one is not known, except for a button mapping   *)
(* the server refused because a button was down: that is never tried again   *)
(* (set_device_buttonmap, gsd_wacom_device_set_current_stylus).              *)
PenKnown ==
  pensPlugged /\ events = <<>> =>
    /\ (\E i \in DOMAIN Styli : Styli[i].id = tool) => last_stylus = tool
    /\ tool = "unknown" => \E i \in DOMAIN Styli : Styli[i].id = last_stylus
           /\ Styli[i].general
    /\ curve = penSetting[last_stylus].curve
    /\ refused \/ buttons = penSetting[last_stylus].buttons

-----------------------------------------------------------------------------
(* The pads of tablets: buttons and rings that send keys, switch modes or    *)
(* show the window with their labels.                                        *)
CONSTANTS
  Pads,             \* tablets that may be plugged in, all of one model
  Models,           \* what libwacom may say of the model
  Keys,             \* keys that buttons may send
  MaxHeld,          \* bounds how many buttons are down at a time
  MaxLit,           \* bounds how many labels are to be turned off
  MaxPadChanges        \* bounds what else the user changes

VARIABLES
  model,            \* libwacom: the model's buttons, rings and strips
  padsButtons,          \* the list of buttons and modes that is made of it
  pads,             \* pads that are plugged in
  padsHeld,             \* buttons that are down
  action,           \* the settings of the buttons, one for all pads
  keys,             \* the server: keys that are down
  running,          \* the plugin has been started
  modes, led,       \* the mode of each group, the lamp that is lit
  osd_window,       \* whose window is shown, the modes it shows, labels shown as
                    \* pressed, and those that it turns off later
  sent,             \* history: the key that each button has sent when pressed
  disturbed,        \* history: buttons that were down while something else changed
  excused,          \* history: their keys
  padsChanges

padVars == <<model, padsButtons, pads, padsHeld, action, keys, running, modes, led,
             osd_window, sent, disturbed, excused, padsChanges>>

PadNone == "none"
Actions == Keys \cup {"none", "help", "switch-monitor"}
Groups == 1..4

-----------------------------------------------------------------------------
(* The buttons of a model, in the order of the list, and their groups: 1 and *)
(* 2 are rings, 3 and 4 strips.                                              *)

Switch == {"ring", "ring2", "strip", "strip2"}

FlagsToGroup(flags) ==
  CASE "ring" \in flags -> 1 [] "ring2" \in flags -> 2
    [] "strip" \in flags -> 3 [] "strip2" \in flags -> 4 [] OTHER -> 0

NumModes(m, g) ==
  CASE g = 1 -> m.ring_modes [] g = 2 -> m.ring2_modes [] OTHER -> m.strips_modes

\* A ring or strip without modes has one all the same.
Elevator(m, id, type, g) ==
  [i \in 1..(IF NumModes(m, g) = 0 THEN 1 ELSE NumModes(m, g)) |->
     [id |-> <<id, i>>, type |-> type, group |-> g, led |-> FALSE]]

AddRingModes(m, direction) ==
  IF direction = "left" /\ m.rings >= 1 THEN Elevator(m, "left-ring", "ring", 1)
  ELSE IF direction = "right" /\ m.rings >= 2 THEN Elevator(m, "right-ring", "ring", 2)
  ELSE <<>>

AddStripModes(m, direction) ==
  IF direction = "left" /\ m.strips >= 1 THEN Elevator(m, "left-strip", "strip", 3)
  ELSE IF direction = "right" /\ m.strips >= 2 THEN Elevator(m, "right-strip", "strip", 4)
  ELSE <<>>

\* Those that switch modes come after the others.
AddButtonsDir(m, direction) ==
  LET there(switches) ==
        SelectSeq([i \in DOMAIN m.buttons |-> i],
                  LAMBDA i : /\ direction \in m.buttons[i]
                             /\ switches = (m.buttons[i] \cap Switch # {}))
      made(i, type) == [id |-> <<"button", i>>, type |-> type,
                        group |-> FlagsToGroup(m.buttons[i]), led |-> m.led]
      of(s, type) == [k \in DOMAIN s |-> made(s[k], type)]
  IN of(there(FALSE), "normal") \o of(there(TRUE), "hardcoded")
       \o AddRingModes(m, direction) \o AddStripModes(m, direction)

AddButtons(m) ==
  AddButtonsDir(m, "left") \o AddButtonsDir(m, "right") \o AddButtonsDir(m, "top")
    \o AddButtonsDir(m, "bottom")


\* What XI sends for rings and strips.
PadTurns == (IF model.rings >= 1 THEN {90, 91} ELSE {}) \cup
         (IF model.rings >= 2 THEN {92, 93} ELSE {}) \cup
         (IF model.strips >= 1 THEN {94, 95} ELSE {}) \cup
         (IF model.strips >= 2 THEN {96, 97} ELSE {})

FindButton(id) ==
  LET found == SelectSeq(padsButtons, LAMBDA b : b.id = id)
  IN IF found = <<>> THEN [id |-> <<>>, type |-> PadNone] ELSE Head(found)

\* Mouse buttons 5 to 7 are the wheel.
Physical(button) == IF button > 4 THEN button - 4 ELSE button
MouseButton(button) == IF button < 4 THEN button ELSE button + 4

GetButton(of, button) ==
  IF button <= 26 THEN FindButton(<<"button", Physical(button)>>)
  ELSE IF button <= 91 THEN FindButton(<<"left-ring", of[1]>>)
  ELSE IF button <= 93 THEN FindButton(<<"right-ring", of[2]>>)
  ELSE IF button <= 95 THEN FindButton(<<"left-strip", of[3]>>)
  ELSE FindButton(<<"right-strip", of[4]>>)

\* Groups without a button have no mode.
AddModes ==
  [g \in Groups |-> IF \E i \in DOMAIN padsButtons : padsButtons[i].group = g THEN 1 ELSE 0]

\* A bug: the mode is not wrapped.
NextModeOn(of, button) == of[button.group] + 1

\* With several switches each one has its mode, with one it goes through them.
NextMode(of, button) ==
  LET switches == SelectSeq(padsButtons, LAMBDA b :
                              b.type = "hardcoded" /\ b.group = button.group)
      at == CHOOSE i \in DOMAIN switches : switches[i].id = button.id
      next == IF Len(switches) = 1 THEN of[button.group] + 1 ELSE at
  IN IF next > NumModes(model, button.group) THEN 1 ELSE next

HasSwitch(g) == \E i \in DOMAIN padsButtons : padsButtons[i].group = g
    /\ padsButtons[i].type = "hardcoded"

-----------------------------------------------------------------------------
(* The plugin                                                              *)

NoWindow == [pad |-> PadNone, visible |-> AddModes, active |-> {}, timeouts |-> {}]

\* get_elevator_current_mode: without a switch the first.
NewWindow(p) ==
  [NoWindow EXCEPT !.pad = p,
                   !.visible = [g \in Groups |-> IF HasSwitch(g) THEN modes[p][g]
                                                 ELSE AddModes[g]]]

ToggledVisibility(w, p) ==
  IF w.pad # PadNone THEN NoWindow ELSE IF model.layout THEN NewWindow(p) ELSE w

\* Another pad's button closes the window, and is then handled as without one.
WindowFor(p) == IF osd_window.pad = p THEN osd_window ELSE NoWindow

UpdatedViewable(w, b, press) ==
  IF w.pad = PadNone THEN w
  ELSE [w EXCEPT !.active = IF press THEN @ \cup {b.id} ELSE @ \ {b.id}]

PadInit ==
  /\ model \in Models /\ padsButtons = AddButtons(model)
  /\ pads = Pads /\ padsHeld = {} /\ running = TRUE
  /\ action = [i \in DOMAIN model.buttons |->
                 IF i = 1 THEN CHOOSE k \in Keys : TRUE ELSE "help"]
  /\ keys = {} /\ modes = [p \in Pads |-> AddModes]
  /\ led = [p \in Pads |-> [g \in Groups |-> IF HasSwitch(g) /\ model.led THEN 1 ELSE 0]]
  /\ osd_window = NoWindow
  /\ sent = [h \in Pads \X DOMAIN model.buttons |-> {}]
  /\ disturbed = {} /\ excused = {} /\ padsChanges = 0

\* Of what is down all is disturbed when the window is shown or closed, but what
\* is handled.
Disturbs(h) ==
  disturbed' = (IF osd_window'.pad # osd_window.pad THEN padsHeld ELSE disturbed) \ {h}

\* A key is looked up when the button is pressed and again when it is released.
KeyOf(b) == IF b.type = "normal" /\ action[b.id[2]] \in Keys THEN {action[b.id[2]]} ELSE {}

\* A bug: keys are released unless the window is shown.
GenerateKeyFirst(w, b, press) ==
  IF press THEN keys \cup KeyOf(b) ELSE IF w.pad = PadNone THEN keys \ KeyOf(b) ELSE keys

GenerateKey(w, b, press) ==
  IF w.pad # PadNone THEN keys ELSE IF press THEN keys \cup KeyOf(b) ELSE keys \ KeyOf(b)

SetLed(p, b, mode) == IF b.led THEN [led EXCEPT ![p][b.group] = mode] ELSE led

\* A bug: the window goes on to show the mode before.
SwitchModeUnseen(p, b) ==
  LET next == NextMode(modes[p], b) IN
    /\ modes' = [modes EXCEPT ![p][b.group] = next]
    /\ led' = SetLed(p, b, next)
    /\ osd_window' = UpdatedViewable(WindowFor(p), b, TRUE)

\* gsd_wacom_osd_window_set_mode: its labels are shown instead of the others'.
SetMode(w, b, mode) ==
  IF w.pad = PadNone THEN w ELSE UpdatedViewable([w EXCEPT !.visible[b.group] = mode], b,
      TRUE)

SwitchMode(p, b) ==
  LET next == NextMode(modes[p], b) IN
    /\ modes' = [modes EXCEPT ![p][b.group] = next]
    /\ led' = SetLed(p, b, next)
    /\ osd_window' = SetMode(WindowFor(p), b, next)

Press(p, i) ==
  LET b == GetButton(modes[p], MouseButton(i)) IN
    /\ running /\ p \in pads /\ <<p, i>> \notin padsHeld /\ Cardinality(padsHeld) < MaxHeld
    /\ b.type # PadNone /\ padsHeld' = padsHeld \cup {<<p, i>>}
    /\ \/ b.type = "hardcoded" /\ SwitchMode(p, b) /\ UNCHANGED <<keys, sent>>
       \/ /\ b.type # "hardcoded" /\ osd_window' = UpdatedViewable(WindowFor(p), b, TRUE)
          /\ keys' = GenerateKey(WindowFor(p), b, TRUE)
          /\ sent' = [sent EXCEPT ![<<p, i>>] = keys' \cap KeyOf(b)]
          /\ UNCHANGED <<modes, led>>
    /\ Disturbs(<<p, i>>) /\ UNCHANGED <<model, padsButtons, pads, action, running,
                                         excused, padsChanges>>

\* What is released after the plugin was stopped is not seen.
Release(p, i) ==
  LET b == GetButton(modes[p], MouseButton(i))
      w == UpdatedViewable(WindowFor(p), b, FALSE)
  IN /\ <<p, i>> \in padsHeld /\ padsHeld' = padsHeld \ {<<p, i>>}
     /\ sent' = [sent EXCEPT ![<<p, i>>] = {}]
     /\ excused' = IF <<p, i>> \in disturbed THEN excused \cup sent[<<p, i>>] ELSE excused
     /\ \/ ~running /\ UNCHANGED <<keys, osd_window>>
        \/ /\ running /\ osd_window' = IF b.type = "normal" /\ action[i] = "help"
                                       THEN ToggledVisibility(w, p) ELSE w
           /\ keys' = GenerateKey(w, b, FALSE)
     /\ Disturbs(<<p, i>>) /\ UNCHANGED <<model, padsButtons, pads, action, running,
                                          modes, led, padsChanges>>

\* A ring sends a press and at once a release, of the mode's own settings.
Turn(p, n) ==
  LET b == GetButton(modes[p], n)
      w == WindowFor(p)
  IN /\ running /\ p \in pads /\ n \in PadTurns /\ Cardinality(w.timeouts) < MaxLit
     /\ osd_window' = IF w.pad = PadNone THEN w
                      ELSE [w EXCEPT !.active = @ \cup {<<b.id[1], b.id[2], n>>},
                                     !.timeouts = @ \cup {<<b.id[1], b.id[2], n>>}]
     /\ osd_window' # osd_window /\ Disturbs(<<>>)
     /\ UNCHANGED <<model, padsButtons, pads, padsHeld, action, keys, running,
                    modes, led, sent, excused, padsChanges>>

\* gsd_wacom_osd_button_timer
LabelOff(l) ==
  /\ l \in osd_window.timeouts
  /\ osd_window' = [osd_window EXCEPT !.active = @ \ {l}, !.timeouts = @ \ {l}]
  /\ UNCHANGED <<model, padsButtons, pads, padsHeld, action, keys, running, modes,
                 led, sent, disturbed, excused, padsChanges>>

\* Escape, or the focus goes elsewhere.
OsdWindowDestroy ==
  /\ osd_window.pad # PadNone /\ osd_window' = NoWindow /\ Disturbs(<<>>)
  /\ UNCHANGED <<model, padsButtons, pads, padsHeld, action, keys, running, modes,
                 led, sent, excused, padsChanges>>

PadChanges == padsChanges < MaxPadChanges /\ padsChanges' = padsChanges + 1

\* set_wacom_settings: a pad starts with its first modes, and its lamps.
Reset(P) ==
  /\ modes' = [p \in Pads |-> IF p \in P THEN AddModes ELSE modes[p]]
  /\ led' = [p \in Pads |-> IF p \notin P THEN led[p]
                            ELSE [g \in Groups |-> IF HasSwitch(g) /\ model.led THEN 1
                                                   ELSE led[p][g]]]

PadDeviceAdded(p) ==
  /\ p \notin pads /\ pads' = pads \cup {p} /\ UNCHANGED padsChanges
  /\ IF running THEN Reset({p}) ELSE UNCHANGED <<modes, led>>
  /\ UNCHANGED <<model, padsButtons, padsHeld, action, keys, running, osd_window,
                 sent, disturbed, excused>>

\* The window goes with its device.  Nothing tells of what was down.
PadDeviceRemoved(p) ==
  LET mine == {h \in padsHeld : h[1] = p} IN
    /\ PadChanges /\ p \in pads /\ pads' = pads \ {p} /\ padsHeld' = padsHeld \ mine
    /\ excused' = excused \cup UNION {sent[h] : h \in mine}
    /\ sent' = [h \in DOMAIN sent |-> IF h \in mine THEN {} ELSE sent[h]]
    /\ osd_window' = IF osd_window.pad = p THEN NoWindow ELSE osd_window
    /\ disturbed' = (IF osd_window.pad = p THEN padsHeld ELSE disturbed) \ mine
    /\ UNCHANGED <<model, padsButtons, action, keys, running, modes, led>>

\* Switches have no settings.
SettingChanges(i, a) ==
  /\ PadChanges /\ FindButton(<<"button", i>>).type = "normal" /\ a # action[i]
  /\ action' = [action EXCEPT ![i] = a]
  /\ disturbed' = disturbed \cup {h \in padsHeld : h[2] = i}
  /\ UNCHANGED <<model, padsButtons, pads, padsHeld, keys, running, modes, led,
                 osd_window, sent, excused>>

\* Pads stay grabbed, for their type is asked of the wrong object.
Stop ==
  /\ PadChanges /\ running /\ running' = FALSE /\ osd_window' = NoWindow
  /\ disturbed' = padsHeld
  /\ UNCHANGED <<model, padsButtons, pads, padsHeld, action, keys, modes, led, sent,
                 excused>>

Start ==
  /\ ~running /\ running' = TRUE /\ Reset(pads)
  /\ UNCHANGED <<model, padsButtons, pads, padsHeld, action, keys, osd_window, sent,
                 disturbed, excused, padsChanges>>

PadNext ==
  \/ \E p \in Pads, i \in DOMAIN model.buttons : Press(p, i) \/ Release(p, i)
  \/ \E p \in Pads, n \in 90..97 : Turn(p, n)
  \/ \E l \in osd_window.timeouts : LabelOff(l)
  \/ \E p \in Pads : PadDeviceAdded(p) \/ PadDeviceRemoved(p)
  \/ \E i \in DOMAIN model.buttons, a \in Actions : SettingChanges(i, a)
  \/ OsdWindowDestroy \/ Stop \/ Start

PadSpec == PadInit /\ [][PadNext]_padVars

-----------------------------------------------------------------------------
PadTypeOK ==
  /\ model \in Models /\ pads \subseteq Pads /\ keys \subseteq Keys
  /\ padsHeld \subseteq pads \X DOMAIN model.buttons /\ disturbed \subseteq padsHeld
  /\ action \in [DOMAIN model.buttons -> Actions] /\ excused \subseteq Keys
  /\ osd_window.pad \in pads \cup {PadNone} /\ padsChanges \in 0..MaxPadChanges
  /\ \A p \in Pads, g \in Groups : modes[p][g] \in Nat /\ led[p][g] \in Nat

(* When all buttons are up all keys are, unless the window was shown or     *)
(* closed, the setting changed, the pad pulled or the plugin stopped in the *)
(* meantime (filter_button_events).                                        *)
KeysGoUp == padsHeld = {} => keys \subseteq excused

(* Each ring and strip always has a mode with settings (add_modes,          *)
(* set_next_mode, get_button), the lamp and the window show it.             *)
ModesShown ==
  /\ \A p \in pads, n \in PadTurns : GetButton(modes[p], n).type # PadNone
  /\ running => \A p \in pads, g \in Groups :
       HasSwitch(g) /\ model.led => led[p][g] = modes[p][g]
  /\ \A g \in Groups :
       osd_window.pad # PadNone => osd_window.visible[g] = modes[osd_window.pad][g]

(* Labels shown as pressed are of buttons that are down, or are about to    *)
(* be turned off.                                                          *)
LabelsGoOff ==
  \A l \in osd_window.active :
    l \in osd_window.timeouts \/ \E h \in padsHeld : h[1] = osd_window.pad
        /\ l = <<"button", h[2]>>
=============================================================================
