---------------------------- MODULE PowerBattery ----------------------------
(***************************************************************************)
(* The battery half of the power plugin (gsd-power-manager.c, the engine_  *)
(* functions): what it does when UPower says that a device or the power    *)
(* source changed, which warnings it announces, the alarm sound loop, the  *)
(* notifications, and the countdown to the critical action.                *)
(*                                                                         *)
(* UPower runs elsewhere.  The plugin sees copies of its properties, and a *)
(* copy changes only when the signal for it is handled: one signal for     *)
(* every device and one for the client's on-battery.  A copy that differs  *)
(* from the original is a signal on its way.                               *)
(***************************************************************************)
EXTENDS Naturals, FiniteSetsExt

CONSTANTS
  Devices,      \* the devices there may be
  Kind,         \* [Devices -> "BATTERY", "UPS", "MOUSE" or "PDA"]
  Removable,    \* devices that may come and go
  Full,         \* energy of a full device; its unit is arbitrary
  LowPercent, CriticalPercent, ActionPercent,    \* "percentage-*"
  ClientFirst,  \* on-battery is always delivered before a device
  NotifyFails,  \* a notification may fail to show
  TimerMax      \* bound of the model: countdowns at a time

Composite == "composite"    \* priv->device_composite
Kinds == {"BATTERY", "UPS", "MOUSE", "PDA"}
States == {"CHARGING", "DISCHARGING", "FULL"}
Warnings == {"NONE", "DISCHARGING", "LOW", "CRITICAL", "ACTION"}
Announced == {"LOW", "CRITICAL", "ACTION"}
Subjects == Devices \cup {Composite}

ASSUME DevicesAssumption ==
  /\ IsFiniteSet(Devices) /\ Composite \notin Devices
  /\ Kind \in [Devices -> Kinds] /\ Removable \subseteq Devices
ASSUME LevelsAssumption ==
  /\ Full \in Nat \ {0} /\ TimerMax \in Nat
  /\ LowPercent \in Nat /\ CriticalPercent \in Nat /\ ActionPercent \in Nat
  /\ ClientFirst \in BOOLEAN /\ NotifyFails \in BOOLEAN

VARIABLES
  plugged,      \* the machine is on AC
  energy,       \* energy left in each device
  present,      \* priv->devices_array
  seen,         \* the plugin's copy of each device
  onBattery,    \* the plugin's copy of on-battery
  stateOld,     \* "engine-state-old" of each device and the composite
  warningOld,   \* "engine-warning-old"
  notice,       \* priv->notification_low, while it shows
  discharging,  \* priv->notification_discharging shows
  loop,         \* kind of device the sound loop was started for, or "none"
  timers,       \* sources that will run manager_critical_action_do
  said          \* history: last warning of each subject not ignored

world == <<plugged, energy>>
engine == <<stateOld, warningOld, notice, discharging, loop, timers, said>>
vars == <<world, present, seen, onBattery, engine>>

Notices == [level : Announced, kind : Kinds]
NoNotice == [level |-> "NONE", kind |-> "NONE"]

TypeOK ==
  /\ plugged \in BOOLEAN /\ energy \in [Devices -> 0 .. Full]
  /\ present \subseteq Devices /\ onBattery \in BOOLEAN
  /\ seen \in [Devices -> [energy : 0 .. Full, state : States]]
  /\ stateOld \in [Subjects -> States \cup {"UNKNOWN"}]
  /\ warningOld \in [Subjects -> Warnings]
  /\ notice \in Notices \cup {NoNotice}
  /\ discharging \in BOOLEAN /\ loop \in {"none", "BATTERY", "UPS"}
  /\ timers \in 0 .. TimerMax
  /\ said \in [Subjects -> Warnings]

KindOf(x) == IF x = Composite THEN "BATTERY" ELSE Kind[x]
BatteriesIn(devices) == {d \in devices : Kind[d] = "BATTERY"}

-----------------------------------------------------------------------------
(* UPower                                                                  *)

\* A peripheral runs on its own battery whatever the machine runs on.
Mains(d) == plugged /\ Kind[d] \in {"BATTERY", "UPS"}

Real(d) == [energy |-> energy[d],
            state |-> IF ~Mains(d) THEN "DISCHARGING"
                      ELSE IF energy[d] = Full THEN "FULL" ELSE "CHARGING"]

PlugOrUnplug ==
  /\ plugged' = ~plugged
  /\ UNCHANGED <<energy, present, seen, onBattery, engine>>

EnergyChanges ==
  /\ \E d \in present :
       \/ ~Mains(d) /\ energy[d] > 0
          /\ energy' = [energy EXCEPT ![d] = @ - 1]
       \/ (Mains(d) \/ Kind[d] \notin {"BATTERY", "UPS"}) /\ energy[d] < Full
          /\ energy' = [energy EXCEPT ![d] = @ + 1]
  /\ UNCHANGED <<plugged, present, seen, onBattery, engine>>

-----------------------------------------------------------------------------
(* Warnings                                                                *)

\* engine_get_warning_csr: the second test comes too late.
WarningCsr(percent) == IF percent < 26 THEN "LOW" ELSE "NONE"

\* engine_get_warning_percentage
WarningPercentage(percent) ==
  CASE percent <= ActionPercent -> "ACTION"
    [] percent > ActionPercent /\ percent <= CriticalPercent -> "CRITICAL"
    [] percent > ActionPercent /\ percent > CriticalPercent
       /\ percent <= LowPercent -> "LOW"
    [] OTHER -> "NONE"

\* Mutant of Warning: a charging device is not left alone.
WarningAlsoCharging(kind, state, percent) ==
  LET level == IF kind = "MOUSE" THEN WarningCsr(percent)
                                 ELSE WarningPercentage(percent)
  IN IF level = "NONE" /\ state = "DISCHARGING" THEN "DISCHARGING" ELSE level

\* engine_get_warning, by percentage
Warning(kind, state, percent) ==
  LET level == IF kind = "MOUSE" THEN WarningCsr(percent)
                                 ELSE WarningPercentage(percent)
  IN IF state = "CHARGING" THEN "NONE"
     ELSE IF level = "NONE" /\ state = "DISCHARGING" THEN "DISCHARGING"
     ELSE level

\* engine_update_composite_device: the device itself when it is the only
\* battery, else the composite.
Subject(d, devices) ==
  IF Kind[d] # "BATTERY" \/ Cardinality(BatteriesIn(devices)) = 1
    THEN d ELSE Composite

\* The state and the percentage of a subject, from copies s of the devices.
StateOf(x, devices, s) ==
  LET states == {s[d].state : d \in BatteriesIn(devices)}
  IN IF x # Composite THEN s[x].state
     ELSE CHOOSE state \in states :
            \/ state = "CHARGING"
            \/ state = "DISCHARGING" /\ "CHARGING" \notin states
            \/ states = {"FULL"}

\* Rounded up, which compares with a threshold as the double does.
PercentOf(x, devices, s) ==
  LET batteries == IF x = Composite THEN BatteriesIn(devices) ELSE {x}
      energyFull == Cardinality(batteries) * Full
  IN (100 * MapThenSumSet(LAMBDA d : s[d].energy, batteries) + energyFull - 1)
       \div energyFull

WarningOf(x, devices, s) ==
  Warning(KindOf(x), StateOf(x, devices, s), PercentOf(x, devices, s))

-----------------------------------------------------------------------------
(* engine_charge_low, engine_charge_critical and engine_charge_action      *)

\* "check to see if the batteries have not noticed we are on AC"
Ignored(x) == KindOf(x) = "BATTERY" /\ ~onBattery

\* Mutant of Announces: every change of the warning is announced.
AnnouncesAll(x, w) ==
  ~Ignored(x) /\ (w = "ACTION" => KindOf(x) \in {"BATTERY", "UPS"})

\* Which warnings lead to an announcement of their own.
Announces(x, w) ==
  /\ w \in Announced /\ ~Ignored(x)
  /\ w = "ACTION" => KindOf(x) \in {"BATTERY", "UPS"}

\* The notification that shows afterwards; what showed before is closed.
NoticeAfter(x, w, before) ==
  IF Announces(x, w)
    THEN {[level |-> w, kind |-> KindOf(x)]} \cup
         (IF NotifyFails THEN {NoNotice} ELSE {})
    ELSE {before}

Charge(x, w) ==
  /\ loop' = IF Announces(x, w) /\ w = "CRITICAL"
                /\ KindOf(x) \in {"BATTERY", "UPS"}
               THEN KindOf(x) ELSE loop
  /\ timers' = IF Announces(x, w) /\ w = "ACTION" THEN timers + 1 ELSE timers

-----------------------------------------------------------------------------
(* Handlers                                                                *)

\* engine_device_changed_cb
DeviceChanged(d) ==
  LET s == [seen EXCEPT ![d] = Real(d)]
      x == Subject(d, present)
      state == StateOf(x, present, s)
      w == WarningOf(x, present, s)
      fresh == w # warningOld[x]
      charged == stateOld[x] # state /\ state = "FULL"
      kept == IF charged THEN NoNotice ELSE notice
  IN /\ d \in present /\ seen[d] # Real(d)
     /\ ClientFirst => onBattery = ~plugged
     /\ fresh /\ w = "ACTION" => timers < TimerMax
     /\ seen' = s
     /\ stateOld' = [stateOld EXCEPT ![x] = state]
     /\ warningOld' = [warningOld EXCEPT ![x] = w]
     /\ IF fresh
          THEN /\ notice' \in NoticeAfter(x, w, kept) /\ Charge(x, w)
               /\ said' = [said EXCEPT ![x] = IF w \in Announced /\ Ignored(x)
                                                THEN @ ELSE w]
          ELSE notice' = kept /\ UNCHANGED <<loop, timers, said>>
     /\ \/ stateOld[x] # state /\ state = "DISCHARGING" /\ Kind[d] = "UPS"
           /\ discharging' = TRUE
        \/ charged /\ discharging' = FALSE
        \/ /\ ~charged
           /\ ~(stateOld[x] # state /\ state = "DISCHARGING" /\ Kind[d] = "UPS")
           /\ UNCHANGED discharging
     /\ UNCHANGED <<world, present, onBattery>>

\* Mutant of UpClientChanged: the sound loop plays on.
UpClientChangedPlays ==
  /\ onBattery = plugged /\ onBattery' = ~plugged
  /\ IF onBattery' THEN UNCHANGED notice ELSE notice' = NoNotice
  /\ UNCHANGED <<world, present, seen, stateOld, warningOld, discharging,
                 loop, timers, said>>

\* up_client_changed_cb, but for the lid (PowerIdle)
UpClientChanged ==
  /\ onBattery = plugged /\ onBattery' = ~plugged
  /\ IF onBattery' THEN UNCHANGED <<loop, notice>>
                   ELSE loop' = "none" /\ notice' = NoNotice
  /\ UNCHANGED <<world, present, seen, stateOld, warningOld, discharging,
                 timers, said>>

\* engine_device_added_cb: nothing is saved for the new device object, whose
\* data read as UNKNOWN and NONE.
DeviceAdded ==
  /\ \E d \in Removable \ present :
       /\ present' = present \cup {d}
       /\ seen' = [seen EXCEPT ![d] = Real(d)]
       /\ stateOld' = [stateOld EXCEPT ![d] = "UNKNOWN"]
       /\ warningOld' = [warningOld EXCEPT ![d] = "NONE"]
       /\ said' = [said EXCEPT ![d] = "NONE"]
  /\ UNCHANGED <<world, onBattery, notice, discharging, loop, timers>>

\* engine_device_removed_cb
DeviceRemoved ==
  /\ \E d \in Removable \cap present : present' = present \ {d}
  /\ UNCHANGED <<world, seen, onBattery, engine>>

\* manager_critical_action_do, 20 seconds after engine_charge_action
CriticalAction ==
  /\ timers > 0 /\ timers' = timers - 1
  /\ loop' = "none"
  /\ UNCHANGED <<world, present, seen, onBattery, stateOld, warningOld,
                 notice, discharging, said>>

\* upower_notify_resume_cb, but for the screen (PowerIdle); and the user or
\* the notification server closing what shows.
NoticesClose ==
  /\ notice' = NoNotice /\ discharging' = FALSE
  /\ UNCHANGED <<world, present, seen, onBattery, stateOld, warningOld, loop,
                 timers, said>>

-----------------------------------------------------------------------------
\* engine_coldplug: what the devices are at first counts as said already.
Init ==
  /\ plugged \in BOOLEAN /\ energy \in [Devices -> 0 .. Full]
  /\ present = Devices
  /\ seen = [d \in Devices |-> Real(d)] /\ onBattery = ~plugged
  /\ LET used(x) == x # Composite \/ Cardinality(BatteriesIn(Devices)) > 1
     IN /\ stateOld = [x \in Subjects |->
                         IF used(x) THEN StateOf(x, Devices, seen) ELSE "UNKNOWN"]
        /\ warningOld = [x \in Subjects |->
                           IF used(x) THEN WarningOf(x, Devices, seen) ELSE "NONE"]
  /\ notice = NoNotice /\ discharging = FALSE /\ loop = "none" /\ timers = 0
  /\ said = warningOld

Next ==
  \/ PlugOrUnplug \/ EnergyChanges
  \/ \E d \in Devices : DeviceChanged(d)
  \/ UpClientChanged \/ DeviceAdded \/ DeviceRemoved
  \/ CriticalAction \/ NoticesClose

Spec == Init /\ [][Next]_vars

-----------------------------------------------------------------------------
(* Properties                                                              *)

\* The sound loop for a battery plays only on battery, and so does a notice
\* about one show only on battery, whatever the order of the signals
\* (up_client_changed_cb, "stopping alert loop due to ac being present").
NoBatteryAlarmOnAc ==
  ~onBattery => loop # "BATTERY" /\ notice.kind # "BATTERY"

\* No warning about a battery gets lost: while the machine runs on battery,
\* what is saved as the battery's last warning ("check the warning state has
\* not changed", gsd-power-manager.c:1880) has been announced.
WarningIsSaid ==
  onBattery => \A x \in Subjects :
                 KindOf(x) = "BATTERY" /\ warningOld[x] \in Announced
                   => said[x] = warningOld[x]
=============================================================================
