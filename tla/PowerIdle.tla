----------------------------- MODULE PowerIdle -----------------------------
(***************************************************************************)
(* The idle policy of the power plugin (plugins/power/gsd-power-manager.c):*)
(* the idle modes NORMAL, DIM, BLANK and SLEEP, the two GLib timers that   *)
(* drive them, the panel and keyboard backlights that are saved and        *)
(* restored around them, and the lid.                                      *)
(*                                                                         *)
(* Everything runs in one GLib main loop, so a handler is one action.  The *)
(* surroundings move between handlers: the X server (idle alarm and        *)
(* reset), gnome-session (inhibitors, presence), the session tracker,      *)
(* UPower, GSettings and the user.  The battery half of the plugin (charge *)
(* warnings, the sound loop, notifications) is the module PowerBattery.    *)
(***************************************************************************)
EXTENDS Integers

CONSTANTS
  PanelMax,       \* brightest panel level; levels are 0 .. PanelMax
  KbdMax,         \* brightest keyboard backlight level
  DimPanel,       \* panel level that "idle-brightness" stands for
  DimKbd,         \* keyboard level that "idle-brightness" stands for
  KbdPresent,     \* the keyboard backlight proxy was obtained
  PanelPath,      \* "xrandr", or "helper" for the pkexec helper
  Configs,        \* the settings the user may choose between
  SleepTypes,     \* values of "sleep-inactive-*-type"
  LidTypes,       \* values of "lid-close-*-action"
  LidForceSleep,  \* UPower: this machine must sleep with its lid closed
  SessionStates,  \* states the session tracker reports
  MayFail,        \* calls that may fail: "bus", "panel", "kbd", "dpms"
  UserMay         \* "adjust": move a brightness also while it is dimmed;
                  \* "toggle": switch the keyboard backlight

Sources == {"ac", "battery"}
Modes == {"NORMAL", "DIM", "BLANK", "SLEEP"}
PowerActions == {"BLANK", "SUSPEND", "SHUTDOWN", "HIBERNATE",
                 "INTERACTIVE", "NOTHING", "LOGOUT"}
PanelLevels == 0 .. PanelMax
KbdLevels == 0 .. KbdMax
Saved(allLevels) == allLevels \cup {-1}

\* kbd_brightness_now, kbd_brightness_old and kbd_brightness_pre_dim
KbdStates == [now : KbdLevels, old : Saved(KbdLevels),
              preDim : Saved(KbdLevels)]

\* A configuration says for which power sources dimming is on and for
\* which the blank and sleep timeouts are not 0.
ConfigType == [dim : SUBSET Sources, blank : SUBSET Sources,
               sleep : SUBSET Sources]

ASSUME LevelsAssumption == /\ PanelMax \in Nat /\ KbdMax \in Nat
                           /\ DimPanel \in Nat /\ DimKbd \in Nat
ASSUME EnvironmentAssumption ==
  /\ KbdPresent \in BOOLEAN /\ LidForceSleep \in BOOLEAN
  /\ UserMay \subseteq {"adjust", "toggle"}
  /\ PanelPath \in {"xrandr", "helper"}
  /\ Configs \subseteq ConfigType
  /\ SleepTypes \subseteq PowerActions /\ LidTypes \subseteq PowerActions
  /\ SessionStates \subseteq {"UNKNOWN", "ACTIVE", "INACTIVE"}
  /\ MayFail \subseteq {"bus", "panel", "kbd", "dpms"}

VARIABLES
  xIdle,          \* priv->x_idle
  mode,           \* priv->current_idle_mode
  blankId,        \* priv->timeout_blank_id # 0
  blankLive,      \* a GLib source that will run idle_blank_cb exists
  sleepId,        \* priv->timeout_sleep_id # 0
  sleepLive,      \* a GLib source that will run idle_sleep_cb exists
  panel,          \* level of the panel backlight
  preDim,         \* priv->pre_dim_brightness
  userPanel,      \* history: the panel level the user last selected
  kbd,            \* kbd_brightness_now, _old and _pre_dim
  userKbd,        \* history: the keyboard level the user last selected
  dpms,           \* the screen is powered
  onBattery,      \* up_client_get_on_battery
  lidClosed,      \* priv->lid_is_closed
  session,        \* gnome_settings_session_get_state
  presenceIdle,   \* the cached "status" of the presence proxy is IDLE
  inhibited,      \* masks gnome-session holds inhibitors for
  inhibitSignal,  \* an InhibitorAdded/Removed signal is on its way
  config,         \* GSettings
  asked           \* last request made by do_power_action_type

timers == <<blankId, blankLive, sleepId, sleepLive>>
levels == <<panel, preDim, kbd>>
user   == <<userPanel, userKbd>>
world  == <<onBattery, lidClosed, session, presenceIdle, inhibited,
            inhibitSignal, config>>
vars   == <<xIdle, mode, timers, levels, user, dpms, world, asked>>

TypeOK ==
  /\ xIdle \in BOOLEAN /\ mode \in Modes
  /\ blankId \in BOOLEAN /\ blankLive \in BOOLEAN
  /\ sleepId \in BOOLEAN /\ sleepLive \in BOOLEAN
  /\ panel \in PanelLevels /\ userPanel \in PanelLevels
  /\ preDim \in Saved(PanelLevels)
  /\ kbd \in KbdStates
  /\ userKbd \in KbdLevels
  /\ dpms \in BOOLEAN /\ onBattery \in BOOLEAN /\ lidClosed \in BOOLEAN
  /\ session \in SessionStates /\ presenceIdle \in BOOLEAN
  /\ inhibited \in SUBSET {"idle", "suspend"} /\ inhibitSignal \in BOOLEAN
  /\ config \in Configs /\ asked \in PowerActions \cup {"none"}

-----------------------------------------------------------------------------
(* Calls that may fail.  Each operator is the set of possible results.     *)

Fails(call) == IF call \in MayFail THEN {TRUE, FALSE} ELSE {FALSE}

\* idle_is_session_inhibited: a failed IsInhibited call counts as "no".
Answers(mask) == {mask \in inhibited'} \cup
                 (IF "bus" \in MayFail THEN {FALSE} ELSE {})

SetDpms(on) == \E failed \in Fails("dpms") :
                 dpms' = IF failed THEN dpms ELSE on

\* backlight_set_abs: the new level and the returned success.  The pkexec
\* helper path returns TRUE also when the helper exits with an error.
SetPanel(level) ==
  {r \in [level : {level, panel}, ok : BOOLEAN] :
     \/ r.level = level /\ r.ok
     \/ /\ "panel" \in MayFail /\ r.level = panel
        /\ r.ok => PanelPath = "helper"}

\* upower_kbd_set_brightness
SetKbd(k, level) ==
  {r \in [k : {k, [k EXCEPT !.now = level]}, ok : BOOLEAN] :
     \/ r.k.now = level /\ r.ok
     \/ k.now # level /\ "kbd" \in MayFail /\ r.k = k /\ ~r.ok}

\* Mutant of ToggleKbd: reads the level to save after it was set to 0.
ToggleKbdLate(k) ==
  IF k.old >= 0
    THEN {IF r.ok THEN [r.k EXCEPT !.old = -1] ELSE r.k :
            r \in SetKbd(k, k.old)}
    ELSE {IF r.ok THEN [r.k EXCEPT !.old = r.k.now] ELSE r.k :
            r \in SetKbd(k, 0)}

\* upower_kbd_toggle
ToggleKbd(k) ==
  IF k.old >= 0
    THEN {IF r.ok THEN [r.k EXCEPT !.old = -1] ELSE r.k :
            r \in SetKbd(k, k.old)}
    ELSE {IF r.ok THEN [r.k EXCEPT !.old = k.now] ELSE r.k :
            r \in SetKbd(k, 0)}

\* The keyboard part of BLANK and of closing the lid.
KbdOff(k) == IF KbdPresent /\ k.old = -1 THEN ToggleKbd(k) ELSE {k}

\* The keyboard part of opening the lid, and the first one of NORMAL.
KbdOn(k) == IF KbdPresent /\ k.old # -1 THEN ToggleKbd(k) ELSE {k}

\* kbd_backlight_dim
DimKbdResults(k) ==
  IF ~KbdPresent \/ DimKbd > k.now THEN {k}
  ELSE {IF r.ok THEN [r.k EXCEPT !.preDim = k.now] ELSE k :
          r \in SetKbd(k, DimKbd)}

\* The second keyboard part of NORMAL: undo kbd_backlight_dim.
UndimKbd(k) ==
  IF k.preDim >= 0
    THEN {[r.k EXCEPT !.preDim = -1] : r \in SetKbd(k, k.preDim)}
    ELSE {k}

-----------------------------------------------------------------------------
(* idle_set_mode.  The surroundings (primed) are those of this moment.     *)

source == IF onBattery' THEN "battery" ELSE "ac"

\* do_power_action_type: the request, and the panel for BLANK.
DoPowerAction(action) ==
  /\ asked' = action
  /\ IF action = "BLANK" THEN SetDpms(FALSE) ELSE UNCHANGED dpms

\* Mutant of DimDisplay: reads the level to save after dimming.
DimDisplayLate ==
  \/ DimPanel > panel /\ UNCHANGED <<panel, preDim>>
  \/ /\ DimPanel <= panel
     /\ \E r \in SetPanel(DimPanel) : panel' = r.level /\ preDim' = r.level

\* display_backlight_dim
DimDisplay ==
  \/ "panel" \in MayFail /\ UNCHANGED <<panel, preDim>>
  \/ DimPanel > panel /\ UNCHANGED <<panel, preDim>>
  \/ /\ DimPanel <= panel
     /\ \E r \in SetPanel(DimPanel) :
          /\ panel' = r.level
          /\ preDim' = IF r.ok THEN panel ELSE preDim

EnterDim ==
  /\ IF source \in config'.dim
       THEN DimDisplay /\ kbd' \in DimKbdResults(kbd)
       ELSE UNCHANGED levels
  /\ UNCHANGED <<dpms, asked>>

EnterBlank ==
  /\ SetDpms(FALSE)
  /\ kbd' \in KbdOff(kbd)
  /\ UNCHANGED <<panel, preDim, asked>>

EnterSleep ==
  /\ \E action \in SleepTypes : DoPowerAction(action)
  /\ UNCHANGED levels

\* Mutant of RestoreDisplay: does not ask whether anything was dimmed.
RestoreDisplayAlways ==
  \E r \in SetPanel(preDim) :
    panel' = r.level /\ preDim' = IF r.ok THEN -1 ELSE preDim

RestoreDisplay ==
  IF preDim >= 0
    THEN \E r \in SetPanel(preDim) :
           /\ panel' = r.level
           /\ preDim' = IF r.ok THEN -1 ELSE preDim
    ELSE UNCHANGED <<panel, preDim>>

\* Mutant of EnterNormal: undoes the dimming of the keyboard first and its
\* switching off second.
EnterNormalSwapped ==
  /\ SetDpms(TRUE)
  /\ RestoreDisplay
  /\ \E k \in UndimKbd(kbd) : kbd' \in KbdOn(k)
  /\ UNCHANGED asked

EnterNormal ==
  /\ SetDpms(TRUE)
  /\ RestoreDisplay
  /\ \E k \in KbdOn(kbd) : kbd' \in UndimKbd(k)
  /\ UNCHANGED asked

SetMode(m) ==
  IF m = mode \/ session' = "INACTIVE"
    THEN UNCHANGED <<mode, levels, dpms, asked>>
    ELSE /\ mode' = m
         /\ \/ m = "DIM"    /\ EnterDim
            \/ m = "BLANK"  /\ EnterBlank
            \/ m = "SLEEP"  /\ EnterSleep
            \/ m = "NORMAL" /\ EnterNormal

-----------------------------------------------------------------------------
(* idle_evaluate                                                           *)

\* Mutant of CancelTimers: forgets the sleep source instead of removing it.
CancelTimersForget ==
  /\ blankId' = FALSE /\ blankLive' = (blankLive /\ ~blankId)
  /\ sleepId' = FALSE /\ UNCHANGED sleepLive

\* g_source_remove on the recorded id; a source whose id was lost runs on.
CancelTimers ==
  /\ blankId' = FALSE /\ blankLive' = (blankLive /\ ~blankId)
  /\ sleepId' = FALSE /\ sleepLive' = (sleepLive /\ ~sleepId)

ArmTimers ==
  /\ IF ~blankId /\ source \in config'.blank
       THEN blankId' = TRUE /\ blankLive' = TRUE
       ELSE UNCHANGED <<blankId, blankLive>>
  /\ IF ~sleepId /\ source \in config'.sleep
       THEN sleepId' = TRUE /\ sleepLive' = TRUE
       ELSE UNCHANGED <<sleepId, sleepLive>>

BeNormal == SetMode("NORMAL") /\ CancelTimers

Evaluate ==
  \/ ~xIdle' /\ BeNormal
  \/ xIdle' /\ TRUE \in Answers("idle") /\ BeNormal
  \/ /\ xIdle' /\ FALSE \in Answers("idle")
     /\ IF mode = "NORMAL" THEN SetMode("DIM")
                           ELSE UNCHANGED <<mode, levels, dpms, asked>>
     /\ ArmTimers

-----------------------------------------------------------------------------
(* The handlers and timer callbacks                                        *)

\* idle_idletime_alarm_expired_cb
AlarmExpired ==
  /\ xIdle' = TRUE /\ UNCHANGED <<world, user>>
  /\ Evaluate

\* idle_idletime_reset_cb
IdleReset ==
  /\ xIdle' = FALSE /\ UNCHANGED <<world, user>>
  /\ Evaluate

\* idle_blank_cb returns FALSE: its source is gone, the recorded id stays.
BlankTimeout ==
  /\ blankLive
  /\ blankLive' = FALSE
  /\ UNCHANGED <<xIdle, world, user, blankId, sleepId, sleepLive>>
  /\ IF mode = "SLEEP" THEN UNCHANGED <<mode, levels, dpms, asked>>
                       ELSE SetMode("BLANK")

\* Mutant of SleepInhibited: does not reset timeout_sleep_id.
SleepInhibitedKeepsId ==
  /\ sleepLive
  /\ UNCHANGED <<xIdle, world, user, blankId, blankLive>>
  /\ TRUE \in Answers("suspend")
  /\ sleepLive' = FALSE /\ UNCHANGED sleepId
  /\ UNCHANGED <<mode, levels, dpms, asked>>

\* idle_sleep_cb finds suspending inhibited: it removes its own source.
SleepInhibited ==
  /\ sleepLive
  /\ UNCHANGED <<xIdle, world, user, blankId, blankLive>>
  /\ TRUE \in Answers("suspend")
  /\ sleepId' = FALSE /\ sleepLive' = ~sleepId
  /\ UNCHANGED <<mode, levels, dpms, asked>>

\* idle_sleep_cb with a session that is not idle: the source fires again.
SleepNotIdle ==
  /\ sleepLive /\ ~presenceIdle
  /\ UNCHANGED vars
  /\ FALSE \in Answers("suspend")

\* idle_sleep_cb returns FALSE after going to SLEEP; the id stays.
SleepNow ==
  /\ sleepLive /\ presenceIdle
  /\ UNCHANGED <<xIdle, world, user, blankId, blankLive, sleepId>>
  /\ FALSE \in Answers("suspend")
  /\ sleepLive' = FALSE
  /\ SetMode("SLEEP")

SleepTimeout == SleepInhibited \/ SleepNotIdle \/ SleepNow

\* gnome-session's inhibitors change; it will signal the change.
InhibitorsChange ==
  /\ \E masks \in SUBSET {"idle", "suspend"} :
       masks # inhibited /\ inhibited' = masks
  /\ inhibitSignal' = TRUE
  /\ UNCHANGED <<xIdle, mode, timers, levels, user, dpms, onBattery,
                 lidClosed, session, presenceIdle, config, asked>>

\* Mutants of InhibitorSignal: the signal is not acted on; only
\* InhibitorAdded is.
InhibitorSignalIgnored ==
  /\ inhibitSignal /\ inhibitSignal' = FALSE
  /\ UNCHANGED <<xIdle, mode, timers, levels, user, dpms, onBattery,
                 lidClosed, session, presenceIdle, inhibited, config, asked>>

InhibitorSignalAddedOnly ==
  /\ inhibitSignal /\ inhibitSignal' = FALSE
  /\ UNCHANGED <<xIdle, user, onBattery, lidClosed, session, presenceIdle,
                 inhibited, config>>
  /\ IF inhibited # {} THEN Evaluate
                       ELSE UNCHANGED <<mode, timers, levels, dpms, asked>>

\* idle_dbus_signal_cb: InhibitorAdded, InhibitorRemoved
InhibitorSignal ==
  /\ inhibitSignal /\ inhibitSignal' = FALSE
  /\ UNCHANGED <<xIdle, user, onBattery, lidClosed, session, presenceIdle,
                 inhibited, config>>
  /\ Evaluate

\* idle_dbus_signal_cb: StatusChanged carries the new status
StatusChanged ==
  /\ presenceIdle' = ~presenceIdle
  /\ UNCHANGED <<xIdle, user, onBattery, lidClosed, session, inhibited,
                 inhibitSignal, config>>
  /\ Evaluate

\* engine_settings_key_changed_cb: the keys "sleep-display-*" are not looked
\* at, the others lead to idle_evaluate.
SettingsChanged ==
  /\ \E c \in Configs :
       /\ config' = c
       /\ \/ c.dim # config.dim /\ c.blank = config.blank /\ c.sleep = config.sleep
          \/ c.dim = config.dim /\ c.blank # config.blank /\ c.sleep = config.sleep
          \/ c.dim = config.dim /\ c.blank = config.blank /\ c.sleep # config.sleep
  /\ UNCHANGED <<xIdle, user, onBattery, lidClosed, session, presenceIdle,
                 inhibited, inhibitSignal>>
  /\ IF config'.blank # config.blank
       THEN UNCHANGED <<mode, timers, levels, dpms, asked>>
       ELSE Evaluate

\* Mutant of SessionChanged: a session that becomes active is left alone.
SessionChangedIgnored ==
  /\ session' \in SessionStates \ {session}
  /\ UNCHANGED <<xIdle, mode, timers, levels, user, dpms, onBattery,
                 lidClosed, presenceIdle, inhibited, inhibitSignal, config,
                 asked>>

\* engine_session_active_changed_cb; the timers are not looked at.
SessionChanged ==
  /\ session' \in SessionStates \ {session}
  /\ UNCHANGED <<xIdle, timers, user, onBattery, lidClosed, presenceIdle,
                 inhibited, inhibitSignal, config>>
  /\ SetMode("NORMAL")

-----------------------------------------------------------------------------
(* The lid, suspending, and the user's own brightness changes              *)

\* do_lid_open_action
LidOpened ==
  /\ SetDpms(TRUE)
  /\ kbd' \in KbdOn(kbd)
  /\ UNCHANGED <<panel, preDim, asked>>

\* do_lid_closed_action.  Whether an external monitor is active is not
\* otherwise of interest and is chosen here.
LidShut ==
  \E action \in LidTypes :
    IF action = "NOTHING" THEN UNCHANGED <<levels, dpms, asked>>
    ELSE IF action \notin {"SUSPEND", "HIBERNATE"} /\ LidForceSleep
    THEN DoPowerAction("SUSPEND") /\ UNCHANGED levels
    ELSE /\ SetDpms(FALSE)
         /\ kbd' \in KbdOff(kbd)
         /\ asked' \in {asked, action}
         /\ UNCHANGED <<panel, preDim>>

\* up_client_changed_cb, but for the alert of a critical battery
UpClientChanged ==
  /\ onBattery' \in BOOLEAN /\ lidClosed' \in BOOLEAN
  /\ <<onBattery', lidClosed'>> # <<onBattery, lidClosed>>
  /\ UNCHANGED <<xIdle, mode, timers, user, session, presenceIdle,
                 inhibited, inhibitSignal, config>>
  /\ \/ lidClosed' = lidClosed /\ UNCHANGED <<levels, dpms, asked>>
     \/ lidClosed' /\ ~lidClosed /\ LidShut
     \/ ~lidClosed' /\ lidClosed /\ LidOpened

\* upower_notify_resume_cb: somebody suspended the machine, it is back.
Resume ==
  /\ SetDpms(TRUE)
  /\ asked' = "none"
  /\ UNCHANGED <<xIdle, mode, timers, levels, user, world>>

MayAdjust == "adjust" \in UserMay \/ (mode = "NORMAL" /\ kbd.old = -1)

\* backlight_set_percentage and the two steps, called over D-Bus
SetScreen ==
  /\ MayAdjust
  /\ \E level \in PanelLevels : \E r \in SetPanel(level) :
       panel' = r.level /\ userPanel' = r.level
  /\ UNCHANGED <<xIdle, mode, timers, preDim, kbd, userKbd, dpms, world,
                 asked>>

\* handle_method_call_keyboard: StepUp and StepDown
StepKbd ==
  /\ KbdPresent /\ MayAdjust
  /\ \E level \in KbdLevels : \E r \in SetKbd(kbd, level) :
       kbd' = r.k /\ userKbd' = r.k.now
  /\ UNCHANGED <<xIdle, mode, timers, panel, preDim, userPanel, dpms, world,
                 asked>>

\* handle_method_call_keyboard: Toggle
SwitchKbd ==
  /\ KbdPresent /\ MayAdjust /\ "toggle" \in UserMay
  /\ kbd' \in ToggleKbd(kbd) /\ userKbd' = kbd'.now
  /\ UNCHANGED <<xIdle, mode, timers, panel, preDim, userPanel, dpms, world,
                 asked>>

-----------------------------------------------------------------------------
\* The state gsd_power_manager_start leaves behind.
Init ==
  /\ xIdle = FALSE /\ mode = "NORMAL"
  /\ blankId = FALSE /\ blankLive = FALSE
  /\ sleepId = FALSE /\ sleepLive = FALSE
  /\ panel \in PanelLevels /\ userPanel = panel /\ preDim = -1
  /\ kbd \in [now : KbdLevels, old : {-1}, preDim : {-1}]
  /\ userKbd = kbd.now
  /\ dpms = TRUE /\ onBattery \in BOOLEAN /\ lidClosed = FALSE
  /\ session \in SessionStates \ {"INACTIVE"}
  /\ presenceIdle = FALSE /\ inhibited = {} /\ inhibitSignal = FALSE
  /\ config \in Configs /\ asked = "none"

Next ==
  \/ AlarmExpired \/ IdleReset
  \/ BlankTimeout \/ SleepTimeout
  \/ InhibitorsChange \/ InhibitorSignal \/ StatusChanged
  \/ SettingsChanged \/ SessionChanged
  \/ UpClientChanged \/ Resume
  \/ SetScreen \/ StepKbd \/ SwitchKbd

Spec == Init /\ [][Next]_vars

\* GLib dispatches a source whose time has come, and D-Bus delivers what
\* gnome-session has sent; nothing is assumed of the user.
FairSpec ==
  /\ Spec
  /\ WF_vars(BlankTimeout) /\ WF_vars(SleepInhibited \/ SleepNow)
  /\ WF_vars(InhibitorSignal)

-----------------------------------------------------------------------------
(* Properties                                                              *)

\* A running timer is always one that can still be cancelled (its id is
\* recorded), and none runs while the user is active: the blank and sleep
\* sources that idle_evaluate arms are gone once the idle alarm was reset.
NoStrayTimer ==
  /\ blankLive => blankId /\ xIdle
  /\ sleepLive => sleepId /\ xIdle

\* A user who is active on an active session never sees the machine dimmed,
\* blanked or put to sleep, whatever was ignored while the session was
\* inactive (idle_set_mode, engine_session_active_changed_cb).
AwakeForUser == ~xIdle /\ session # "INACTIVE" => mode = "NORMAL"

\* The machine is put to sleep by the idle policy only while X and the
\* session are idle and nothing inhibits suspending; if idleness itself is
\* inhibited, then gnome-session's signal of it has yet to arrive.
SleepOnlyWhenIdle ==
  [][mode # "SLEEP" /\ mode' = "SLEEP"
       => /\ xIdle /\ presenceIdle /\ "suspend" \notin inhibited
          /\ "idle" \in inhibited => inhibitSignal]_vars

\* The panel level the user selected is never forgotten: it is on the panel
\* or kept in pre_dim_brightness ("restore user-selected brightness level",
\* gsd-power-manager.c:3117).
UserPanelKept == panel = userPanel \/ preDim = userPanel

\* The same for the keyboard, where both the dim and the off switch save it.
UserKbdKept == userKbd \in {kbd.now, kbd.old, kbd.preDim}

\* Back in NORMAL everything is as the user left it: the panel, and with
\* the lid open the screen power and the keyboard.
NormalIsRestored ==
  mode = "NORMAL" => /\ panel = userPanel /\ preDim = -1
                     /\ kbd.preDim = -1
                     /\ ~lidClosed => dpms /\ kbd.now = userKbd

\* An idle, uninhibited session on which a blank timeout is set does get
\* blanked ("set up blank callback even when session is not idle, but only
\* if we actually want to blank", gsd-power-manager.c:3328).
BlanksWhenIdle ==
  <>[](xIdle /\ session # "INACTIVE" /\ "idle" \notin inhibited
             /\ config.blank = Sources)
    => []<>(mode \in {"BLANK", "SLEEP"})

\* An idle, uninhibited session with a sleep timeout is put to sleep, also
\* when an inhibitor made idle_sleep_cb give up before.
SleepsWhenIdle ==
  <>[](xIdle /\ presenceIdle /\ session # "INACTIVE" /\ inhibited = {}
             /\ config.sleep = Sources)
    => []<>(mode = "SLEEP")

\* "A value of 0 means never" (power.gschema.xml.in.in:61): with a sleep
\* timeout of 0 for the present power source the machine is not put to sleep.
ZeroMeansNever ==
  [][mode # "SLEEP" /\ mode' = "SLEEP"
       => (IF onBattery THEN "battery" ELSE "ac") \in config.sleep]_vars
=============================================================================
