------------------------------- MODULE Mouse --------------------------------
(* The mouse plugin (plugins/mouse): devices that come and go, and the     *)
(* pointer that is located with Ctrl.                                      *)
EXTENDS Naturals, Sequences, SequencesExt, FiniteSetsExt, Integers

-----------------------------------------------------------------------------
(***************************************************************************)
(* Mice and touchpads (gsd-mouse-manager.c): devices are plugged in and    *)
(* out, touchpads are switched on and off by a setting, and each device    *)
(* gets its settings when GDK reports it.  Switching a touchpad off makes  *)
(* the server report it as gone, so the plugin sees its own effects; when  *)
(* no other pointing device is left it switches touchpads on again.        *)
(*                                                                         *)
(* A mouse stands for touchscreens and trackballs too.  Of the settings of *)
(* devices, handedness and tap-to-click are kept; the others are applied   *)
(* at the same places.                                                     *)
(***************************************************************************)
CONSTANTS
  Pads, Mice,
  Kept,           \* devices that the custom command keeps for itself
  MaxEvents,      \* bound on events that GDK has not read
  MaxChanges      \* bound on what the user does

VARIABLES
  running,
  plugged,   \* the devices the server has
  on,        \* "Device Enabled", where plugged
  known,     \* the devices GDK lists
  events,    \* from the server, not read
  blacklist, \* devices left to the custom command
  enabled, handed, tap,  \* touchpad settings
  left,      \* mouse setting left-handed
  buttons,   \* left-handed or not, for each device
  taps,      \* tap-to-click, for each device
  changes

pointerVars == <<running, plugged, on, known, events, blacklist, enabled, handed,
                 tap, left, buttons, taps, changes>>

Devices == Pads \cup Mice
Event(type, device) == [type |-> type, device |-> device]

PointerTypeOK ==
  /\ {running, enabled, tap, left} \subseteq BOOLEAN
  /\ plugged \in SUBSET Devices /\ known \in SUBSET Devices
  /\ blacklist \in SUBSET Devices
  /\ on \in [Devices -> BOOLEAN] /\ buttons \in [Devices -> BOOLEAN]
  /\ taps \in [Devices -> BOOLEAN] /\ handed \in {"right", "left", "mouse"}
  /\ \A n \in DOMAIN events : events[n] \in [type : {"added", "removed"}, device : Devices]
  /\ changes \in 0..MaxChanges
  /\ \A m \in Mice : on[m]

PointerInit ==
  /\ running = FALSE /\ plugged \in {Devices, Pads} /\ known = plugged
  /\ on = [d \in Devices |-> TRUE] /\ events = <<>> /\ blacklist = {}
  /\ enabled \in BOOLEAN /\ handed \in {"left", "mouse"} /\ tap = FALSE /\ left \in BOOLEAN
  /\ buttons = [d \in Devices |-> FALSE] /\ taps = [d \in Devices |-> FALSE]
  /\ changes = 0

Change == changes < MaxChanges /\ changes' = changes + 1

\* run_custom_command: the command keeps a device if its wait status is 1,
\* which is not what an exit value of 1 gives.
RunCustomCommand(device) == device \in Kept

-----------------------------------------------------------------------------
(* Settings applied                                                        *)

\* get_touchpad_handedness, and the mouse's.
LeftHanded(device, pad, mouse) ==
  IF device \in Pads /\ pad # "mouse" THEN pad = "left" ELSE mouse

\* set_mouse_settings for a set of devices, but for the last step.
SetMouseSettings(devices) ==
  /\ buttons' = [d \in Devices |-> IF d \in devices THEN LeftHanded(d, handed, left)
                                   ELSE buttons[d]]
  /\ taps' = [d \in Devices |-> IF d \in devices \cap Pads THEN tap ELSE taps[d]]

\* set_touchpad_disabled and set_touchpad_enabled: the server reports what
\* it changes, after the events it has.
SwitchOff(pads) == {Event("removed", p) : p \in {q \in pads \cap plugged : on[q]}}
SwitchOn(pads) == {Event("added", p) : p \in {q \in pads \cap plugged : ~on[q]}}
Reported(before, reports) ==
  /\ events' = before \o SetToSeq(reports) /\ Len(events') <= MaxEvents
  /\ on' = [d \in Devices |->
              IF Event("removed", d) \in reports THEN FALSE
              ELSE IF Event("added", d) \in reports THEN TRUE ELSE on[d]]

\* Bug: only the devices that GDK lists are switched on.
ToSwitchOnListed(listed, black) == Pads \cap (listed \ black)

\* touchpad_callback for "touchpad-enabled": the devices that are listed,
\* and those the server has and GDK does not list.
ToSwitchOn(listed, black) == Pads \cap ((listed \ black) \cup (plugged \ listed))

\* Bug: the touchpad that is looked for has to be the only device there was.
OnlyTouchpadsBefore(present) == known = {} /\ present # {} /\ present \subseteq Pads

\* ensure_touchpad_active: touchpads, when they are the only devices.
OnlyTouchpads(present) == present # {} /\ present \subseteq Pads

-----------------------------------------------------------------------------
(* The user                                                                *)

Same == UNCHANGED <<running, known, blacklist>>

PlugIn(device) ==
  /\ Change /\ device \notin plugged /\ plugged' = plugged \cup {device}
  /\ on' = [on EXCEPT ![device] = TRUE]
  /\ buttons' = [buttons EXCEPT ![device] = FALSE]
  /\ taps' = [taps EXCEPT ![device] = FALSE]
  /\ events' = Append(events, Event("added", device)) /\ Len(events') <= MaxEvents
  /\ Same /\ UNCHANGED <<enabled, handed, tap, left>>

\* A device stays in until GDK has read that it is there: a mouse that is
\* gone by then leaves no event that calls ensure_touchpad_active.
PullOut(device) ==
  /\ Change /\ device \in plugged /\ ~Contains(events, Event("added", device))
  /\ plugged' = plugged \ {device}
  /\ on' = [on EXCEPT ![device] = TRUE]
  /\ events' = Append(events, Event("removed", device)) /\ Len(events') <= MaxEvents
  /\ Same /\ UNCHANGED <<enabled, handed, tap, left, buttons, taps>>

\* touchpad_callback: "touchpad-enabled".
EnabledChanged ==
  /\ Change /\ enabled' = ~enabled
  /\ IF ~running THEN UNCHANGED <<on, events>>
     ELSE Reported(events, IF enabled' THEN SwitchOn(ToSwitchOn(known, blacklist))
                           ELSE SwitchOff((Pads \cap known) \ blacklist))
  /\ Same /\ UNCHANGED <<plugged, handed, tap, left, buttons, taps>>

\* mouse_callback and touchpad_callback: "left-handed".
HandednessChanged ==
  /\ Change
  /\ \/ left' = ~left /\ UNCHANGED handed
     \/ handed' \in {"left", "mouse"} \ {handed} /\ UNCHANGED left
  /\ buttons' = [d \in Devices |->
                   IF running /\ d \in (known \ blacklist) \cap plugged
                   THEN LeftHanded(d, handed', left') ELSE buttons[d]]
  /\ Same /\ UNCHANGED <<plugged, on, events, enabled, tap, taps>>

\* touchpad_callback: "tap-to-click".
TapChanged ==
  /\ Change /\ tap' = ~tap
  /\ taps' = [d \in Devices |->
                IF running /\ d \in (known \ blacklist) \cap plugged \cap Pads
                THEN tap' ELSE taps[d]]
  /\ Same /\ UNCHANGED <<plugged, on, events, enabled, handed, left, buttons>>

-----------------------------------------------------------------------------
(* The manager                                                             *)

\* gsd_mouse_manager_idle_cb: every device that is listed, then
\* ensure_touchpad_active, then all that are off if they should be on.  An
\* idle callback runs when there are no more events.
Start ==
  /\ ~running /\ Change /\ running' = TRUE /\ events = <<>>
  /\ blacklist' = blacklist \cup {d \in known : RunCustomCommand(d)}
  /\ SetMouseSettings((known \ blacklist') \cap plugged)
  /\ enabled' = (enabled \/ OnlyTouchpads(plugged))
  /\ LET off == IF enabled THEN {} ELSE SwitchOff((Pads \cap known) \ blacklist')
         off2 == {p \in Pads \cap plugged : ~on[p] \/ Event("removed", p) \in off}
         again == {p \in off2 : p \notin blacklist'}
     IN IF enabled' /\ ~enabled
          THEN /\ events' = events \o SetToSeq(off) \o SetToSeq({Event("added", p) : p \in again})
               /\ Len(events') <= MaxEvents
               /\ on' = [d \in Devices |-> on[d] \/ d \in again]
          ELSE Reported(events, IF enabled' THEN SwitchOn((Pads \cap plugged) \ known)
              ELSE off)
  /\ UNCHANGED <<plugged, known, handed, tap, left>>

\* gsd_mouse_manager_stop
Stop ==
  /\ running /\ Change /\ running' = FALSE
  /\ UNCHANGED <<plugged, on, known, events, blacklist, enabled, handed, tap, left,
                 buttons, taps>>

\* GDK asks the server for a device that was added; device_added_cb.
DeviceAdded ==
  /\ events # <<>> /\ Head(events).type = "added"
  /\ LET d == Head(events).device IN
       IF d \in known \/ d \notin plugged
         THEN /\ events' = Tail(events)
              /\ UNCHANGED <<known, on, blacklist, buttons, taps>>
       ELSE /\ known' = known \cup {d}
            /\ IF ~running \/ d \in blacklist
                 THEN events' = Tail(events) /\ UNCHANGED <<on, blacklist, buttons, taps>>
               ELSE IF RunCustomCommand(d)
                 THEN /\ blacklist' = blacklist \cup {d} /\ events' = Tail(events)
                      /\ UNCHANGED <<on, buttons, taps>>
               ELSE /\ SetMouseSettings({d})
                    /\ Reported(Tail(events),
                                IF enabled THEN {} ELSE SwitchOff({d} \cap Pads))
                    /\ UNCHANGED blacklist
  /\ UNCHANGED <<running, plugged, enabled, handed, tap, left, changes>>

\* device_removed_cb, for a device that GDK had listed.
DeviceRemoved ==
  /\ events # <<>> /\ Head(events).type = "removed"
  /\ LET d == Head(events).device
         ensure == d \in known /\ running /\ OnlyTouchpads(plugged)
     IN /\ known' = known \ {d}
        /\ blacklist' = IF d \in known /\ running THEN blacklist \ {d} ELSE blacklist
        /\ enabled' = (enabled \/ ensure)
        /\ Reported(Tail(events),
                    IF ensure THEN SwitchOn(ToSwitchOn(known', blacklist')) ELSE {})
  /\ UNCHANGED <<running, plugged, handed, tap, left, buttons, taps, changes>>

PointerNext ==
  \/ \E d \in Devices : PlugIn(d) \/ PullOut(d)
  \/ EnabledChanged \/ HandednessChanged \/ TapChanged
  \/ Start \/ Stop \/ DeviceAdded \/ DeviceRemoved
PointerSpec == PointerInit /\ [][PointerNext]_pointerVars

-----------------------------------------------------------------------------
AtRest == running /\ events = <<>>

(* PointerLeft: once all has been reported, a user with only touchpads can *)
(* point with them, whatever the setting was when the mouse was pulled.    *)
PointerLeft ==
  AtRest /\ plugged \subseteq Pads => \A p \in plugged : on[p]

(* PointersFollow: then every device that is listed and left to the plugin *)
(* has the settings as they are, and touchpads are on if the setting says  *)
(* so, however often they went and came.                                   *)
PointersFollow ==
  AtRest => \A d \in plugged \ blacklist :
    /\ d \in known => /\ buttons[d] = LeftHanded(d, handed, left)
                      /\ d \in Pads => taps[d] = tap
    /\ d \in Pads => on[d] = enabled

-----------------------------------------------------------------------------
(***************************************************************************)
(* Circles around the pointer when Ctrl is tapped (gsd-locate-pointer.c):  *)
(* Ctrl is grabbed synchronously, its press may become a shortcut or a     *)
(* click, and only its release right after starts the animation, which     *)
(* gsd-timeline.c runs.  A tap while it runs starts it again.  Time is     *)
(* counted in frames.                                                      *)
(***************************************************************************)
CONSTANTS
  Frames,    \* the length of the animation
  MaxInput   \* bound on what the user does

VARIABLES
  down,      \* keys that are down
  grab,      \* the keyboard is grabbed by the process
  clicks,    \* and the buttons are
  inbox,     \* what the filter is to see; the keyboard is frozen until then
  tapped,    \* Ctrl was the last key that was pressed (for the property)
  wanted,    \* animations asked for and not started
  swallowed, \* input that no client has got
  animate,   \* gtk-enable-animations
  source,    \* priv->source_id is set
  timer,     \* priv->timer is there
  elapsed,   \* its time
  since,     \* time since the last tap (history)
  circles,   \* the window is shown
  inputs

locateVars == <<down, grab, clicks, inbox, tapped, wanted, swallowed, animate,
                source, timer, elapsed, since, circles, inputs>>
keyVars == <<down, grab, clicks, inbox, tapped, wanted, swallowed>>
timelineVars == <<source, timer, elapsed, since, circles>>

Keys == {"ctrl", "x"}
Events == [type : {"press", "release"}, key : Keys]
            \cup [type : {"click"}, key : {"none"}]

LocateTypeOK ==
  /\ down \in SUBSET Keys
  /\ {grab, clicks, tapped, animate, source, timer, circles} \subseteq BOOLEAN
  /\ Len(inbox) <= 2 /\ \A n \in DOMAIN inbox : inbox[n] \in Events
  /\ elapsed \in 0..Frames /\ since \in 0..Frames
  /\ wanted \in Int /\ swallowed \in Int /\ inputs \in 0..MaxInput
  /\ source => timer

LocateInit ==
  /\ down = {} /\ grab = FALSE /\ clicks = FALSE /\ inbox = <<>>
  /\ tapped = FALSE /\ wanted = 0 /\ swallowed = 0 /\ animate \in BOOLEAN
  /\ source = FALSE /\ timer = FALSE /\ elapsed = 0 /\ since = 0
  /\ circles = FALSE /\ inputs = 0

Input == inputs < MaxInput /\ inputs' = inputs + 1
IsPress(event) == event.type \in {"press", "click"}

-----------------------------------------------------------------------------
(* The server, as set_locate_pointer has grabbed its keys                  *)

\* A key is pressed or let go; the grab ends with Ctrl.  A click does not
\* freeze the keyboard, but nothing is pressed until the filter has seen it.
Key(key) ==
  /\ Input /\ \A n \in DOMAIN inbox : inbox[n].type = "click" /\ key \in down
  /\ LET event == [type |-> IF key \in down THEN "release" ELSE "press", key |-> key]
         begins == event = [type |-> "press", key |-> "ctrl"]
         ends == event = [type |-> "release", key |-> "ctrl"]
         taken == grab \/ begins
     IN /\ down' = IF key \in down THEN down \ {key} ELSE down \cup {key}
        /\ inbox' = IF taken THEN Append(inbox, event) ELSE inbox
        /\ grab' = (taken /\ ~ends)
        /\ tapped' = begins
        /\ wanted' = IF tapped /\ ends THEN wanted + 1 ELSE wanted
        /\ swallowed' = IF taken /\ event.type = "press" /\ ~begins
                        THEN swallowed + 1 ELSE swallowed
  /\ UNCHANGED <<clicks, animate, timelineVars>>

Click ==
  /\ Input /\ clicks /\ ~\E n \in DOMAIN inbox : inbox[n].type = "click"
  /\ inbox' = Append(inbox, [type |-> "click", key |-> "none"])
  /\ swallowed' = swallowed + 1
  /\ UNCHANGED <<down, grab, clicks, tapped, wanted, animate, timelineVars>>

-----------------------------------------------------------------------------
(* The timeline                                                            *)

\* Bug: a timeline that runs is started as it is.
RewoundNot == elapsed

\* gsd_timeline_pause, so that gsd_timeline_rewind drops the timer and
\* gsd_timeline_start makes a new one.
Rewound == 0

\* gsd_locate_pointer.  Without animations gsd_timeline_start runs the last
\* frame at once, which hides the window again.
ShowCircles ==
  /\ source' = animate /\ timer' = animate /\ circles' = animate
  /\ elapsed' = IF animate THEN Rewound ELSE 0
  /\ since' = 0

TimePasses ==
  /\ source /\ elapsed < Frames /\ elapsed' = elapsed + 1
  /\ since' = IF since < Frames THEN since + 1 ELSE since
  /\ UNCHANGED <<source, timer, circles, keyVars, animate, inputs>>

\* gsd_timeline_run_frame: at the end the source goes, and "finished" hides
\* the window; the timer stays until it is rewound.
RunFrame ==
  /\ source
  /\ IF elapsed >= Frames THEN source' = FALSE /\ circles' = FALSE
                          ELSE UNCHANGED <<source, circles>>
  /\ UNCHANGED <<timer, elapsed, since, keyVars, animate, inputs>>

AnimationsChanged ==
  /\ Input /\ animate' = ~animate /\ UNCHANGED <<keyVars, timelineVars>>

-----------------------------------------------------------------------------
(* The process                                                             *)

\* filter
Filter ==
  /\ inbox # <<>> /\ inbox' = Tail(inbox)
  /\ LET event == Head(inbox) IN
       \/ /\ event = [type |-> "press", key |-> "ctrl"] /\ clicks' = TRUE
          /\ UNCHANGED <<grab, tapped, wanted, swallowed, timelineVars>>
       \/ /\ event = [type |-> "release", key |-> "ctrl"] /\ clicks' = FALSE
          /\ wanted' = wanted - 1 /\ ShowCircles
          /\ UNCHANGED <<grab, tapped, swallowed>>
       \/ /\ event.key # "ctrl" /\ grab' = FALSE /\ clicks' = FALSE
          /\ tapped' = FALSE
          /\ swallowed' = IF IsPress(event) THEN swallowed - 1 ELSE swallowed
          /\ UNCHANGED <<wanted, timelineVars>>
  /\ UNCHANGED <<down, animate, inputs>>

LocateNext ==
  \/ \E key \in Keys : Key(key)
  \/ Click \/ TimePasses \/ RunFrame \/ AnimationsChanged \/ Filter
LocateSpec == LocateInit /\ [][LocateNext]_locateVars

-----------------------------------------------------------------------------
(* TapsOnly: once the filter has seen all, circles were shown once for     *)
(* each tap on Ctrl alone and for no shortcut or click with it (a click it *)
(* saw before Ctrl was let go), clients have got those, and nothing is     *)
(* grabbed but while Ctrl may be a tap.                                    *)
TapsOnly ==
  inbox = <<>> => /\ wanted = 0 /\ swallowed = 0
                  /\ grab = tapped /\ clicks = tapped

(* CirclesGo: the window is there just while a frame is due, and for the   *)
(* whole animation since the last tap, though that may have come while it  *)
(* ran or when animations had been switched off in between.                *)
CirclesGo ==
  /\ circles = source
  /\ source /\ elapsed >= Frames => since >= Frames
=============================================================================
