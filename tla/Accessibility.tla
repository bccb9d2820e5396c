--------------------------- MODULE Accessibility ----------------------------
(* What eases the use of keyboard and pointer: keyboard accessibility and  *)
(* its shortcuts, the toolkits' accessibility, and the pointer that hides  *)
(* from fingers.                                                           *)
EXTENDS Naturals, Sequences, FiniteSets, SequencesExt

-----------------------------------------------------------------------------
(* Keyboard accessibility: settings and the server's controls follow each    *)
(* other, and a feature that was turned on or off by its keyboard shortcut   *)
(* is told of, so that the user can take it back.                            *)
CONSTANTS
  Numbers,     \* values the user stores
  Options,     \* beeps and such
  Owner,       \* of each option: the feature it is only set with, or "none"
  SlowMax,     \* slow_keys_delay from which no key would be heard
  Unit,        \* mousekey events in a second
  MaxAccess,     \* bounds what the user does
  MaxNotes     \* bounds the notifications

VARIABLES
  accessRunning,     \* "off", "idle" or "on"
  settings,
  server,      \* its controls
  desc,        \* those at the start
  accessTold,        \* a change of the settings has not been handled
  noticed,     \* changes of the controls by the user's keys, unread
  shortcut,    \* slowkeys_shortcut_val, stickykeys_shortcut_val
  notes,       \* the notifications so far
  current,     \* manager->priv->notification, 0 for none
  accessShown,       \* on the screen
  dead,        \* notifications whose object was freed
  wire,        \* what the notification server has to say
  undone,      \* history: the last shortcut taken back, until it is used again
  accessActs

keysVars == <<accessRunning, settings, server, desc, accessTold, noticed, shortcut,
              notes, current, accessShown, dead, wire, undone, accessActs>>

Numbered == {"timeout", "bounce", "mouse", "slow"}
Told == {"slow", "sticky"}
Switches == Numbered \cup Told \cup {"enable"}
KeysNone == "none"

AtLeast(n, m) == IF n < m THEN m ELSE n
AtMost(n, m) == IF n > m THEN m ELSE n

\* A number as the server has it, and back: speed is per second and per event.
ToServer(f, n) ==
  CASE f = "mouse" -> AtLeast(AtLeast(n, 1) \div Unit, 1)
    [] f = "slow" -> AtMost(AtLeast(n, 1), SlowMax)
    [] OTHER -> AtLeast(n, 1)
FromServer(f, n) == IF f = "mouse" THEN n * Unit ELSE n

\* A bug: the numbers and options of what is off are set, too.
FromSettingsKeeping(s) == [s EXCEPT !.num = server.num]

\* set_server_from_gsettings: numbers and options only of what is on.
FromSettings(s) ==
  [on |-> s.on,
   num |-> [f \in Numbered |-> IF s.on[f] THEN ToServer(f, s.num[f]) ELSE server.num[f]],
   opt |-> {o \in Options : IF Owner[o] = KeysNone
       \/ (Owner[o] # KeysNone /\ s.on[Owner[o]])
                            THEN o \in s.opt ELSE o \in server.opt}]

\* Of settings that are gone GSettings says FALSE and 0.
Gone == [on |-> [f \in Switches |-> FALSE], num |-> [f \in Numbered |-> 0], opt |-> {}]
Settings == IF accessRunning = "on" THEN settings ELSE Gone

-----------------------------------------------------------------------------
KeysInit ==
  /\ accessRunning = "off" /\ accessTold = FALSE /\ noticed = 0 /\ notes = <<>>
  /\ current = 0
  /\ server = [on |-> [f \in Switches |-> FALSE], num |-> [f \in Numbered |-> 1],
         opt |-> {}]
  /\ \E on \in {{"enable"}, {"enable", "timeout", "slow"}} :
       settings = [on |-> [f \in Switches |-> f \in on],
                   num |-> [f \in Numbered |-> CHOOSE n \in Numbers : TRUE],
                       opt |-> Options]
  /\ desc = server /\ shortcut = [f \in Told |-> FALSE] /\ accessShown = {} /\ dead = {}
  /\ wire = <<>> /\ undone = [f |-> KeysNone, on |-> FALSE] /\ accessActs = 0

Notices == <<shortcut, notes, current, accessShown, dead, wire>>
KeysActs == accessActs < MaxAccess /\ accessActs' = accessActs + 1
Forget(f) == undone' = IF undone.f = f THEN [f |-> KeysNone, on |-> FALSE] ELSE undone

KeysStart ==
  /\ KeysActs /\ accessRunning = "off" /\ accessRunning' = "idle"
  /\ UNCHANGED <<settings, server, desc, accessTold, noticed, undone, Notices>>

\* start_a11y_keyboard_idle_cb
StartIdle ==
  /\ accessRunning = "idle" /\ accessRunning' = "on" /\ desc' = server
  /\ server' = FromSettings(settings)
  /\ UNCHANGED <<settings, accessTold, noticed, undone, accessActs, Notices>>

\* The controls are put back only if one was turned on or off.
KeysStop ==
  /\ accessRunning # "off" /\ accessRunning' = "off" /\ accessTold' = FALSE /\ noticed' = 0
  /\ server' = IF accessRunning = "on" /\ desc.on # server.on THEN desc ELSE server
  /\ shortcut' = [f \in Told |-> FALSE] /\ undone' = [f |-> KeysNone, on |-> FALSE]
  /\ UNCHANGED <<settings, desc, notes, current, accessShown, dead, wire, accessActs>>

-----------------------------------------------------------------------------
UserSets ==
  /\ KeysActs
  /\ \/ \E f \in Switches : settings' = [settings EXCEPT !.on[f] = ~@] /\ Forget(f)
     \/ /\ \E f \in Numbered, n \in Numbers : settings' = [settings EXCEPT !.num[f] = n]
        /\ UNCHANGED undone
     \/ /\ \E o \in Options :
                     settings' = [settings EXCEPT !.opt = (@ \ {o}) \cup ({o} \ @)]
        /\ UNCHANGED undone
  /\ settings' # settings /\ accessTold' = (accessRunning = "on")
  /\ UNCHANGED <<accessRunning, server, desc, noticed, Notices>>

\* Shift held or pressed five times; Shift with Num Lock for the mouse keys.
Shortcut(f) ==
  /\ KeysActs /\ (f = "mouse" \/ server.on["enable"])
  /\ server' = [server EXCEPT !.on[f] = ~@]
  /\ noticed' = IF accessRunning = "on" THEN noticed + 1 ELSE 0
  /\ Forget(f) /\ UNCHANGED <<accessRunning, settings, desc, accessTold, Notices>>

\* After a time without keys the server turns the master switch off, which is
\* no key's doing.
Expire ==
  /\ server.on["timeout"] /\ server.on["enable"]
  /\ server' = [server EXCEPT !.on["enable"] = FALSE]
  /\ UNCHANGED <<accessRunning, settings, desc, accessTold, noticed, undone,
                 accessActs, Notices>>

\* keyboard_callback
KeyboardCallback ==
  /\ accessTold /\ accessTold' = FALSE /\ server' = FromSettings(settings)
  /\ UNCHANGED <<accessRunning, settings, desc, noticed, undone, accessActs, Notices>>

\* device_added_cb
DeviceAdded ==
  /\ accessRunning = "on" /\ server' = FromSettings(settings) /\ server' # server
  /\ UNCHANGED <<accessRunning, settings, desc, accessTold, noticed, undone,
                 accessActs, Notices>>

-----------------------------------------------------------------------------
\* Closing asks the notification server, which tells when it has done so.
Closing(i) ==
  IF i \in accessShown THEN accessShown' = accessShown \ {i}
      /\ wire' = Append(wire, [say |-> "closed", i |-> i])
  ELSE UNCHANGED <<accessShown, wire>>

\* ax_slowkeys_warning_post, ax_stickykeys_warning_post
WarningPost(f) ==
  /\ shortcut' = [shortcut EXCEPT ![f] = server.on[f]]
  /\ notes' = Append(notes, [f |-> f, on |-> server.on[f]]) /\ current' = Len(notes')
  /\ IF current \in accessShown
     THEN /\ accessShown' = (accessShown \ {current}) \cup {current'}
          /\ wire' = Append(wire, [say |-> "closed", i |-> current])
     ELSE accessShown' = accessShown \cup {current'} /\ UNCHANGED wire
  /\ UNCHANGED dead

\* set_gsettings_from_server: only if but one of the two changed, it was a shortcut.
ControlsNotify ==
  LET read == [on |-> server.on, num |-> [f \in Numbered |-> FromServer(f, server.num[f])],
               opt |-> server.opt]
      changed == {f \in Told : read.on[f] # settings.on[f]}
  IN /\ noticed > 0 /\ noticed' = noticed - 1
     /\ settings' = read /\ accessTold' = (accessTold \/ read # settings)
     /\ IF read = [settings EXCEPT !.on =
            [f \in Switches |-> IF f \in Told THEN read.on[f] ELSE @[f]]]
           /\ Cardinality(changed) = 1 /\ server.on["enable"]
        THEN Len(notes) < MaxNotes /\ \E f \in changed : WarningPost(f)
        ELSE UNCHANGED Notices
     /\ UNCHANGED <<accessRunning, server, desc, undone, accessActs>>

-----------------------------------------------------------------------------
Click(i, a) ==
  /\ i \in accessShown /\ accessShown' = accessShown \ {i}
  /\ wire' = wire \o <<[say |-> a, i |-> i], [say |-> "closed", i |-> i]>>
  /\ UNCHANGED <<accessRunning, settings, server, desc, accessTold, noticed,
                 shortcut, notes, current, dead, undone, accessActs>>

\* A bug: what the notification said is set, and not its opposite.
RevertedSame(f) == [settings EXCEPT !.on[f] = shortcut[f]]

\* ax_response_callback: the opposite of what the last shortcut did.
Reverted(f) == [settings EXCEPT !.on[f] = ~shortcut[f]]

\* on_slow_keys_action, on_sticky_keys_action: whichever is there is closed.
Action(m) ==
  LET f == notes[m.i].f
  IN /\ IF m.say = "reject"
        THEN /\ settings' = IF accessRunning = "on" THEN Reverted(f) ELSE settings
             /\ server' = FromSettings(IF accessRunning = "on" THEN settings' ELSE Gone)
             /\ accessTold' = (accessTold \/ settings' # settings)
             /\ undone' = IF accessRunning = "on" /\ shortcut[f] = notes[m.i].on
                          THEN [f |-> f, on |-> ~notes[m.i].on]
                              ELSE [f |-> KeysNone, on |-> FALSE]
        ELSE UNCHANGED <<settings, server, accessTold, undone>>
     /\ IF current \in accessShown
        THEN /\ accessShown' = accessShown \ {current}
             /\ wire' = Append(Tail(wire), [say |-> "closed", i |-> current])
        ELSE UNCHANGED accessShown /\ wire' = Tail(wire)
     /\ UNCHANGED <<current, dead>>

\* on_notification_closed: the reference to whichever is there is dropped.
Closed ==
  /\ current' = 0 /\ dead' = dead \cup ({current} \ {0}) /\ wire' = Tail(wire)
  /\ UNCHANGED <<settings, server, accessTold, undone, accessShown>>

Hear ==
  /\ wire # <<>>
  /\ IF Head(wire).i \in dead
     THEN wire' = Tail(wire) /\ UNCHANGED <<settings, server, accessTold, undone,
                                            accessShown, current, dead>>
     ELSE IF Head(wire).say = "closed" THEN Closed ELSE Action(Head(wire))
  /\ UNCHANGED <<accessRunning, desc, noticed, shortcut, notes, accessActs>>

KeysNext ==
  \/ KeysStart \/ StartIdle \/ KeysStop \/ UserSets \/ Expire \/ KeyboardCallback
         \/ DeviceAdded
  \/ \E f \in Told \cup {"mouse"} : Shortcut(f)
  \/ ControlsNotify \/ Hear
  \/ \E i \in accessShown, a \in {"reject", "accept"} : Click(i, a)

KeysSpec == KeysInit /\ [][KeysNext]_keysVars

-----------------------------------------------------------------------------
KeysTypeOK ==
  /\ accessRunning \in {"off", "idle", "on"} /\ accessTold \in BOOLEAN
  /\ noticed \in 0..MaxAccess
  /\ accessShown \subseteq DOMAIN notes /\ dead \subseteq DOMAIN notes
  /\ current \in 0..Len(notes) /\ accessActs \in 0..MaxAccess

Quiet == accessRunning = "on" /\ ~accessTold /\ noticed = 0

(* Whoever changed what, and in whatever order it was heard, settings and    *)
(* controls agree once all was handled, in what is on; the server may have   *)
(* turned the master switch off (set_server_from_gsettings and               *)
(* set_gsettings_from_server, which each read all there is by then).         *)
Agree ==
  Quiet =>
    /\ \A f \in Switches \ {"enable"} : server.on[f] = settings.on[f]
    /\ settings.on["enable"] # server.on["enable"] =>
         settings.on["enable"] /\ settings.on["timeout"]
    /\ \A f \in Numbered : settings.on[f] => server.num[f] = ToServer(f, settings.num[f])
    /\ \A o \in Options :
         (IF Owner[o] = KeysNone THEN TRUE ELSE settings.on[Owner[o]])
           => (o \in server.opt) = (o \in settings.opt)

(* A shortcut that is taken back in its notification stays so, unless the    *)
(* next one came before the answer (ax_response_callback).                   *)
TakenBack == Quiet /\ undone.f # KeysNone => settings.on[undone.f] = undone.on
                                         /\ server.on[undone.f] = undone.on

-----------------------------------------------------------------------------
(* Toolkits are made accessible while a screen reader or a screen keyboard   *)
(* is on, and the user may make them so without either.                      *)
CONSTANTS Apps, MaxAppActs

VARIABLES
  appsRunning,
  appsOn,          \* the applications that are on
  toolkit,     \* toolkit-accessibility
  appsTold,        \* applications whose change has not been handled
  byUser,      \* history: the user set toolkit-accessibility last
  appsActs

appsVars == <<appsRunning, appsOn, toolkit, appsTold, byUser, appsActs>>

AppsInit ==
  /\ appsRunning = FALSE /\ appsOn \in SUBSET Apps /\ toolkit = FALSE /\ appsTold = {}
  /\ byUser = FALSE
  /\ appsActs = 0

AppsActs == appsActs < MaxAppActs /\ appsActs' = appsActs + 1

\* A bug: the application's own switch is taken.
Wanted1(app) == app \in appsOn

\* apps_settings_changed: toolkits are accessible for whichever is on.
Wanted(app) == appsOn # {}

\* Starting never takes the accessibility away.
AppsStart ==
  /\ AppsActs /\ ~appsRunning /\ appsRunning' = TRUE /\ toolkit' = (toolkit \/ appsOn # {})
  /\ byUser' = (byUser /\ appsOn = {}) /\ UNCHANGED <<appsOn, appsTold>>

AppsStop ==
  /\ AppsActs /\ appsRunning /\ appsRunning' = FALSE /\ appsTold' = {}
  /\ UNCHANGED <<appsOn, toolkit, byUser>>

UserTurns(app) ==
  /\ AppsActs /\ appsOn' = (appsOn \ {app}) \cup ({app} \ appsOn)
  /\ appsTold' = IF appsRunning THEN appsTold \cup {app} ELSE appsTold
  /\ UNCHANGED <<appsRunning, toolkit, byUser>>

UserSetsToolkit ==
  /\ AppsActs /\ toolkit' = ~toolkit /\ byUser' = TRUE
  /\ UNCHANGED <<appsRunning, appsOn, appsTold>>

Changed(app) ==
  /\ app \in appsTold /\ appsTold' = appsTold \ {app} /\ toolkit' = Wanted(app)
  /\ byUser' = FALSE
  /\ UNCHANGED <<appsRunning, appsOn, appsActs>>

AppsNext ==
  \/ AppsStart \/ AppsStop \/ UserSetsToolkit
  \/ \E app \in Apps : UserTurns(app) \/ Changed(app)

AppsSpec == AppsInit /\ [][AppsNext]_appsVars

-----------------------------------------------------------------------------
AppsTypeOK ==
  /\ {appsRunning, toolkit, byUser} \subseteq BOOLEAN /\ appsOn \subseteq Apps
  /\ appsTold \subseteq appsOn \cup Apps
  /\ appsActs \in 0..MaxAppActs

(* With an application on, toolkits are accessible once all changes were     *)
(* handled, in whatever order, unless the user took that away since.         *)
ToolkitFollows == appsRunning /\ appsTold = {} /\ ~byUser /\ appsOn # {} => toolkit

-----------------------------------------------------------------------------
(* The pointer is hidden while a touch screen is used, and shown when another *)
(* device is: each but the last one used is watched for its next use.         *)
CONSTANTS
  Devices,
  Touch,       \* those that are touch screens
  MaxUses      \* bounds what the user does

VARIABLES
  cursorRunning,
  attached,    \* slave devices of a master
  monitors,    \* devices watched for their next use
  cursorShown,       \* cursor_shown
  events,      \* of devices that came, went or were used, unread
  last,        \* history: the device whose use was handled last, since the start
  missed,      \* history: a device left while nobody listened
  cursorActs

cursorVars == <<cursorRunning, attached, monitors, cursorShown, events, last,
                missed, cursorActs>>

CursorNone == "none"

CursorInit ==
  /\ cursorRunning = FALSE /\ attached = Devices \ Touch /\ monitors = {}
  /\ cursorShown = TRUE
  /\ events = <<>> /\ last = CursorNone /\ missed = FALSE /\ cursorActs = 0

CursorActs == cursorActs < MaxUses /\ cursorActs' = cursorActs + 1

\* A bug: the others stay as they are.
AddNone(exception) == monitors \ {exception}

\* The slave devices as GDK has them, from what it has read of X.
Known ==
  {d \in Devices : LET unread == SelectSeq(events, LAMBDA e : e.d = d /\ e.is # "used")
                   IN IF unread = <<>> THEN d \in attached ELSE unread[1].is = "went"}

\* add_all_devices
AddAll(exception) == (monitors \cup Known) \ {exception}

CursorStart ==
  /\ CursorActs /\ ~cursorRunning /\ cursorRunning' = TRUE
  /\ monitors' = monitors \cup Known
  /\ cursorShown' = FALSE /\ last' = CursorNone /\ UNCHANGED <<attached, events, missed>>

\* The watches are left.
CursorStop ==
  /\ CursorActs /\ cursorRunning /\ cursorRunning' = FALSE /\ cursorShown' = TRUE
  /\ events' = SelectSeq(events, LAMBDA e : e.is = "used")
  /\ missed' = (missed \/ \E i \in DOMAIN events : events[i].is = "went")
  /\ UNCHANGED <<attached, monitors, last>>

-----------------------------------------------------------------------------
\* GDK tells of devices that come, go, or leave their master.
Attach(d) ==
  /\ CursorActs /\ d \notin attached /\ attached' = attached \cup {d}
  /\ events' = IF cursorRunning THEN Append(events, [is |-> "came", d |-> d]) ELSE events
  /\ UNCHANGED <<cursorRunning, monitors, cursorShown, last, missed>>

Detach(d) ==
  /\ CursorActs /\ d \in attached /\ attached' = attached \ {d}
  /\ events' = IF cursorRunning THEN Append(events, [is |-> "went", d |-> d]) ELSE events
  /\ missed' = (missed \/ (~cursorRunning /\ d \in monitors))
  /\ UNCHANGED <<cursorRunning, monitors, cursorShown, last>>

\* The alarm of a watch rings once.
Use(d) ==
  /\ CursorActs /\ d \in attached /\ d \in monitors
  /\ ~ \E i \in DOMAIN events : events[i] = [is |-> "used", d |-> d]
  /\ events' = Append(events, [is |-> "used", d |-> d])
  /\ UNCHANGED <<cursorRunning, attached, monitors, cursorShown, last, missed>>

\* monitor_became_active, if the watch is still there.
BecameActive(d) ==
  IF d \in monitors
  THEN cursorShown' = (d \notin Touch) /\ monitors' = AddAll(d) /\ last' = d
  ELSE UNCHANGED <<cursorShown, monitors, last>>

\* device_added_cb, device_removed_cb, device_changed_cb
Event ==
  /\ events # <<>> /\ events' = Tail(events)
  /\ LET e == Head(events) IN
     \/ e.is = "came" /\ monitors' = monitors \cup {e.d} /\ UNCHANGED <<cursorShown, last>>
     \/ e.is = "went" /\ monitors' = monitors \ {e.d} /\ UNCHANGED <<cursorShown, last>>
     \/ e.is = "used" /\ BecameActive(e.d)
  /\ UNCHANGED <<cursorRunning, attached, missed, cursorActs>>

CursorNext ==
  \/ CursorStart \/ CursorStop \/ Event
  \/ \E d \in Devices : Attach(d) \/ Detach(d) \/ Use(d)

CursorSpec == CursorInit /\ [][CursorNext]_cursorVars

-----------------------------------------------------------------------------
CursorTypeOK ==
  /\ {cursorRunning, cursorShown, missed} \subseteq BOOLEAN /\ cursorActs \in 0..MaxUses
  /\ attached \subseteq Devices /\ monitors \subseteq Devices
  /\ last \in Devices \cup {CursorNone}

(* While the plugin runs, the pointer is hidden exactly if a touch screen    *)
(* was the last device used, or none was yet; every other device is watched, *)
(* and none that is gone, unless it went while nobody listened               *)
(* (monitor_became_active, gsd_cursor_manager_stop keeps the watches).       *)
CursorKnown ==
  cursorRunning =>
    /\ cursorShown = (last # CursorNone /\ last \notin Touch)
    /\ events = <<>> => /\ attached \ {last} \subseteq monitors
                        /\ missed \/ monitors \subseteq attached
=============================================================================
