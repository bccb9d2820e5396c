----------------------------- MODULE Removable ------------------------------
(* The automount plugin: volumes that are mounted unless the screen is     *)
(* locked, and what is run or asked when they are.                         *)
EXTENDS Naturals, Sequences, SequencesExt, FiniteSets

-----------------------------------------------------------------------------
(* The automount plugin mounts volumes as they are plugged, or when the      *)
(* screen is unlocked, and lets the mounts of new volumes be run.            *)
CONSTANTS
  Volumes, AutoVolumes,      \* all volumes, and those that should be automounted
  MaxPlugs, MaxLocks  \* bounds how often volumes are plugged and the state of the
                      \* screen saver changes

VARIABLES
  plugged, mounts,    \* the volume monitor: volumes, and those that are mounted
  pending,            \* mounts under way: who waits for them, "program" for others
  plugs, locks,
  saver, locked,      \* the screen saver runs, the screen is locked
  wire,               \* what the bus has for the plugin
  automount,          \* the setting
  started,            \* automount_idle_id was served
  session_is_active, screensaver_active, ss_proxy, volume_queue,
  asking,             \* GetActive was called
  allow,              \* volumes with gsd-allow-autorun
  timers,             \* those with a timer that removes it
  runs,               \* history: how often a mount of the volume was run
  behind,             \* history: mounted while the screen was known to be locked
  dropped             \* history: an unlocking has mounted none of the volumes that wait

world == <<plugged, mounts, pending, plugs>>
screen == <<saver, locked, locks>>
plugin == <<automount, started, session_is_active, screensaver_active, ss_proxy,
            volume_queue, asking>>
run == <<allow, timers, runs>>
seen == <<behind, dropped>>
mountVars == <<plugged, mounts, pending, plugs, saver, locked, locks, wire,
               automount, started, session_is_active, screensaver_active, ss_proxy,
               volume_queue, asking, allow, timers, runs, behind, dropped>>

MountInit ==
  /\ plugged \in {{}, AutoVolumes} /\ mounts = {} /\ pending = {} /\ plugs = 0
  /\ saver \in BOOLEAN /\ locked = FALSE /\ locks = 0
  /\ wire = <<[type |-> IF saver THEN "appeared" ELSE "vanished"]>>
  /\ automount \in BOOLEAN /\ started = FALSE /\ session_is_active = TRUE
  /\ screensaver_active = FALSE /\ ss_proxy = FALSE /\ volume_queue = <<>> /\ asking = FALSE
  /\ allow = {} /\ timers = {} /\ runs = [v \in Volumes |-> 0]
  /\ behind = FALSE /\ dropped = FALSE

-----------------------------------------------------------------------------
(* The bus and the screen saver                                            *)

SaverStarts ==
  /\ ~saver /\ locks < MaxLocks /\ locks' = locks + 1 /\ saver' = TRUE
  /\ locked' \in BOOLEAN
  /\ wire' = Append(wire, [type |-> "appeared"])
  /\ UNCHANGED world /\ UNCHANGED plugin /\ UNCHANGED run /\ UNCHANGED seen

\* A call that is under way fails.
SaverExits ==
  /\ saver /\ locks < MaxLocks /\ locks' = locks + 1 /\ saver' = FALSE /\ locked' = FALSE
  /\ wire' = wire \o (IF asking /\ \A i \in DOMAIN wire : wire[i].type # "answer"
                      THEN <<[type |-> "failed"]>> ELSE <<>>) \o <<[type |-> "vanished"]>>
  /\ UNCHANGED world /\ UNCHANGED plugin /\ UNCHANGED run /\ UNCHANGED seen

\* The signal is heard once there is a proxy.
LockOrUnlock ==
  /\ saver /\ locks < MaxLocks /\ locks' = locks + 1 /\ locked' = ~locked
  /\ wire' = Append(wire, [type |-> "changed", active |-> locked'])
  /\ UNCHANGED saver /\ UNCHANGED world /\ UNCHANGED plugin /\ UNCHANGED run
  /\ UNCHANGED seen

GetActive ==
  /\ asking /\ saver /\ \A i \in DOMAIN wire : wire[i].type \notin {"answer", "failed"}
  /\ wire' = Append(wire, [type |-> "answer", active |-> locked])
  /\ UNCHANGED world /\ UNCHANGED screen /\ UNCHANGED plugin /\ UNCHANGED run
  /\ UNCHANGED seen

-----------------------------------------------------------------------------
(* The plugin                                                              *)

\* The plugin has heard that the screen is locked.
KnownLocked == locked /\ screensaver_active /\ wire = <<>>

\* Of a volume it mounts the plugin allows the mount to be run.
MountVolumes(V) ==
  /\ allow' = allow \cup V /\ pending' = pending \cup
         {[volume |-> v, by |-> "plugin"] : v \in V}
  /\ behind' = (behind \/ (V # {} /\ KnownLocked))

\* A bug: the queue is dropped.
MountedNot(queue) == {{}}

\* The loop reads the link of a node it has freed: it may end after the first
\* volume, or go on.
Mounted(queue) == IF queue = <<>> THEN {{}} ELSE {{Head(queue)}, ToSet(queue)}

CheckVolumeQueue(active) ==
  IF active
  THEN UNCHANGED <<volume_queue, pending, allow, behind, dropped>>
  ELSE \E V \in Mounted(volume_queue) :
         /\ MountVolumes(V) /\ volume_queue' = <<>>
         /\ dropped' = (dropped \/ (V = {} /\ volume_queue # <<>>))

Quiet == UNCHANGED <<volume_queue, pending, allow, behind, dropped>>

\* A signal of a screen saver whose proxy is not there is not heard, and an answer
\* is read with the proxy there is now.
Handle(e) ==
  \/ /\ e.type = "appeared" /\ screensaver_active' = FALSE /\ Quiet
     /\ wire' = Append(Tail(wire), [type |-> "ready"]) /\ UNCHANGED <<ss_proxy, asking>>
  \/ /\ e.type = "ready" /\ ss_proxy' = TRUE /\ Quiet
     /\ IF saver THEN asking' = TRUE /\ wire' = Tail(wire)
        ELSE wire' = Tail(wire) /\ UNCHANGED asking
     /\ UNCHANGED screensaver_active
  \/ /\ e.type = "vanished" /\ screensaver_active' = FALSE /\ ss_proxy' = FALSE
     /\ volume_queue' = <<>> /\ wire' = Tail(wire)
     /\ UNCHANGED <<asking, pending, allow, behind, dropped>>
  \/ /\ e.type = "changed" /\ ss_proxy /\ screensaver_active' = e.active
     /\ CheckVolumeQueue(e.active) /\ wire' = Tail(wire) /\ UNCHANGED <<ss_proxy, asking>>
  \/ /\ e.type = "changed" /\ ~ss_proxy /\ wire' = Tail(wire) /\ Quiet
     /\ UNCHANGED <<screensaver_active, ss_proxy, asking>>
  \/ /\ e.type = "answer" /\ asking' = FALSE /\ Quiet /\ wire' = Tail(wire)
     /\ screensaver_active' = IF ss_proxy THEN e.active ELSE screensaver_active
     /\ UNCHANGED ss_proxy
  \/ /\ e.type = "failed" /\ asking' = FALSE /\ wire' = Tail(wire) /\ Quiet
     /\ UNCHANGED <<screensaver_active, ss_proxy>>

FromBus ==
  /\ wire # <<>> /\ Handle(Head(wire))
  /\ UNCHANGED <<plugged, mounts, plugs, automount, started, session_is_active,
                 timers, runs>>
  /\ UNCHANGED screen

SessionStateChanged ==
  /\ locks < MaxLocks /\ locks' = locks + 1
  /\ session_is_active' = ~session_is_active
  /\ volume_queue' = IF session_is_active' THEN volume_queue ELSE <<>>
  /\ UNCHANGED <<saver, locked, wire, automount, started, screensaver_active,
                 ss_proxy, asking>>
  /\ UNCHANGED world /\ UNCHANGED run /\ UNCHANGED seen

\* Whether or not the screen is locked, and without runs.
AutomountAllVolumes ==
  /\ ~started /\ started' = TRUE
  /\ pending' = pending \cup
       {[volume |-> v, by |-> "start"] : v \in IF automount
           THEN (plugged \cap AutoVolumes) \ mounts ELSE {}}
  /\ UNCHANGED <<plugged, mounts, plugs, wire, automount, session_is_active,
                 screensaver_active, ss_proxy, volume_queue, asking>>
  /\ UNCHANGED screen /\ UNCHANGED run /\ UNCHANGED seen

CheckScreenLockAndMount(v) ==
  IF ~session_is_active THEN UNCHANGED <<volume_queue, pending, allow, behind>>
  ELSE IF screensaver_active
  THEN volume_queue' = <<v>> \o volume_queue /\ UNCHANGED <<pending, allow, behind>>
  ELSE MountVolumes({v}) /\ UNCHANGED volume_queue

VolumeAdded(v) ==
  /\ v \notin plugged /\ plugs < MaxPlugs /\ plugs' = plugs + 1
  /\ plugged' = plugged \cup {v}
  /\ runs' = [runs EXCEPT ![v] = 0]
  /\ IF automount /\ v \in AutoVolumes
     THEN CheckScreenLockAndMount(v) /\ UNCHANGED timers
     ELSE /\ allow' = allow \cup {v} /\ timers' = timers \cup {v}
          /\ UNCHANGED <<volume_queue, pending, behind>>
  /\ UNCHANGED <<mounts, wire, automount, started, session_is_active,
                 screensaver_active, ss_proxy, asking, dropped>>
  /\ UNCHANGED screen

\* A volume object that comes again is another one.
VolumeRemoved(v) ==
  /\ v \in plugged /\ plugs < MaxPlugs /\ plugs' = plugs + 1
  /\ plugged' = plugged \ {v} /\ mounts' = mounts \ {v}
  /\ pending' = {p \in pending : p.volume # v}
  /\ volume_queue' = SelectSeq(volume_queue, LAMBDA w : w # v)
  /\ allow' = allow \ {v} /\ timers' = timers \ {v}
  /\ UNCHANGED <<wire, automount, started, session_is_active, screensaver_active,
                 ss_proxy, asking, runs, behind, dropped>>
  /\ UNCHANGED screen

\* Another program mounts a volume.
ProgramMounts(v) ==
  /\ v \in plugged \ mounts /\ plugs < MaxPlugs /\ plugs' = plugs + 1
  /\ pending' = pending \cup {[volume |-> v, by |-> "program"]}
  /\ UNCHANGED <<plugged, mounts, wire>>
  /\ UNCHANGED screen /\ UNCHANGED plugin /\ UNCHANGED run /\ UNCHANGED seen

\* gsd_autorun is for mounts of volumes that allow it, once.
MountAdded(v) ==
  /\ IF session_is_active /\ v \in allow
     THEN /\ allow' = allow \ {v}
          /\ runs' = [runs EXCEPT ![v] = @ + 1]
     ELSE UNCHANGED <<allow, runs>>

\* The mount may fail, or already be there.
MountFinished(p) ==
  /\ p \in pending /\ pending' = pending \ {p}
  /\ \/ p.volume \notin mounts /\ mounts' = mounts \cup {p.volume} /\ MountAdded(p.volume)
     \/ UNCHANGED <<mounts, allow, runs>>
  /\ timers' = IF p.by = "plugin"
         /\ p.volume \in allow' THEN timers \cup {p.volume} ELSE timers
  /\ UNCHANGED <<plugged, plugs, wire>>
  /\ UNCHANGED screen /\ UNCHANGED plugin /\ UNCHANGED seen

\* Ten seconds later.
RemoveAllowVolume(v) ==
  /\ v \in timers /\ timers' = timers \ {v} /\ allow' = allow \ {v}
  /\ UNCHANGED <<runs, wire>>
  /\ UNCHANGED world /\ UNCHANGED screen /\ UNCHANGED plugin /\ UNCHANGED seen

MountNext ==
  \/ SaverStarts \/ SaverExits \/ LockOrUnlock \/ GetActive \/ FromBus
         \/ SessionStateChanged
  \/ AutomountAllVolumes
  \/ \E v \in Volumes : VolumeAdded(v) \/ VolumeRemoved(v) \/ ProgramMounts(v)
                        \/ RemoveAllowVolume(v)
  \/ \E p \in pending : MountFinished(p)

MountSpec == MountInit /\ [][MountNext]_mountVars

MountTypeOK ==
  /\ plugged \cup mounts \cup allow \cup timers \subseteq Volumes
  /\ {p.volume : p \in pending} \subseteq plugged /\ plugs \in 0..MaxPlugs
  /\ locks \in 0..MaxLocks
  /\ {saver, locked, automount, started, session_is_active, screensaver_active, ss_proxy,
         asking,
      behind, dropped} \subseteq BOOLEAN
  /\ ToSet(volume_queue) \subseteq plugged

\* No volume is mounted because it was plugged while the plugin knows that the
\* screen is locked, and none waits when it is unlocked: each that was added last
\* is mounted then (check_volume_queue).
WaitsForUnlock ==
  /\ ~behind
  /\ volume_queue # <<>> => screensaver_active /\ session_is_active
  /\ ~dropped

\* Each volume that is plugged is run at most once.
RunOnce == \A v \in Volumes : runs[v] <= 1

\* Once nothing is on its way, the plugin knows if the screen is locked.
LockKnown == wire = <<>> /\ ~asking /\ ss_proxy => screensaver_active = locked

-----------------------------------------------------------------------------
(* What is done with a mount that is run: each kind of its contents is opened, *)
(* ignored, or asked about in a dialog, which stores what is to be done with  *)
(* this kind in future.                                                     *)
CONSTANTS
  Kinds, Software,    \* kinds of contents, those that are Windows software
  Programs,           \* what the user may start
  MaxMounts, MaxClicks \* bounds how often a mount appears, and what the user does

VARIABLES
  start, ignore, open, \* the lists in the settings
  default,            \* the program of each kind
  auto_open,          \* automount-open
  mounted,            \* the mount is there
  mountings,
  guessing,           \* its contents are being looked at, since which mounting
  dialogs,            \* the dialogs there are
  clicks,
  windows,            \* folder windows opened for this mounting, without a dialog
  outcomes,           \* history: what a dialog has shown at the end, and what was done
  orphans             \* history: dialogs whose mount was gone before they were shown

settings == <<start, ignore, open, default, auto_open>>
runVars == <<start, ignore, open, default, auto_open, mounted, mountings, guessing,
             dialogs, clicks, windows, outcomes, orphans>>

None == "none"
Customs == {"ask", "open", "ignore"}

RunInit ==
  /\ start \in SUBSET Kinds /\ ignore = {} /\ open \in SUBSET (Kinds \ start)
  /\ default \in [Kinds -> Programs \cup {None}] /\ auto_open \in BOOLEAN
  /\ mounted = FALSE /\ mountings = 0 /\ guessing = {} /\ dialogs = {} /\ clicks = 0
  /\ windows = 0 /\ outcomes = {} /\ orphans = {}

-----------------------------------------------------------------------------

\* gsd_autorun_set_preferences, of one kind.
SetPreferences(k, pref_start_app, pref_ignore, pref_open_folder) ==
  LET listed(list, p) == IF p THEN list \cup {k} ELSE list \ {k}
  IN /\ start' = listed(start, pref_start_app) /\ ignore' = listed(ignore, pref_ignore)
     /\ open' = listed(open, pref_open_folder)

Asks(k) == k \notin start \cup ignore \cup open

\* A mount of a volume that allows it appears (gsd_autorun); the contents are
\* looked at meanwhile.
Mount ==
  /\ ~mounted /\ mountings < MaxMounts /\ mountings' = mountings + 1 /\ mounted' = TRUE
  /\ guessing' = guessing \cup {mountings'} /\ windows' = 0
  /\ UNCHANGED <<dialogs, clicks, outcomes, orphans>> /\ UNCHANGED settings

\* Dialogs that are shown are closed with their mount.
Unmount ==
  /\ mounted /\ mounted' = FALSE
  /\ dialogs' = {d \in dialogs : d.mounting # mountings}
  /\ UNCHANGED <<mountings, guessing, clicks, windows, outcomes, orphans>>
  /\ UNCHANGED settings

\* Windows software is passed over, and Shift asks of all.
Dialogs(found, shift, m) ==
  {[mounting |-> m, kind |-> k, remember |-> ~Asks(k), ignore |-> k \in ignore,
      open |-> FALSE,
    app |-> default[k], clicks |-> 0, forced |-> ~Asks(k),
    shown |-> IF k \in ignore THEN "ignore" ELSE IF k \in open THEN "open"
              ELSE IF Asks(k) THEN "ask" ELSE default[k]] :
     k \in {k \in found \ Software : shift \/ Asks(k)}}

\* Only one window is opened (autorun_guessed_content_type_callback).
Opened(found, shift) ==
  IF found = {} THEN auto_open
  ELSE ~shift /\ (found \ Software) \cap open # {}

\* A bug: a window for each kind.
WindowsOfEach(found, shift) ==
  IF shift THEN 0 ELSE Cardinality((found \ Software) \cap open)
WindowsOf(found, shift) == IF Opened(found, shift) THEN 1 ELSE 0

\* The mount may be gone by now: nobody tells the dialogs.
Guessed(m) ==
  /\ m \in guessing /\ guessing' = guessing \ {m}
  /\ \E found \in SUBSET Kinds, shift \in BOOLEAN :
       LET new == Dialogs(found, shift, m)
       IN /\ dialogs' = dialogs \cup new
          /\ orphans' = IF mounted /\ m = mountings THEN orphans ELSE orphans \cup {m}
          /\ windows' = IF m = mountings THEN windows + WindowsOf(found, shift) ELSE windows
  /\ UNCHANGED <<mounted, mountings, clicks, outcomes>> /\ UNCHANGED settings

Change(d, e) == dialogs' = (dialogs \ {d}) \cup {[e EXCEPT !.clicks = 1 + @]}

\* custom_item_activated_cb: what is shown is stored at once.
ChooseCustom(d, item) ==
  /\ d.shown # item /\ clicks < MaxClicks /\ clicks' = clicks + 1
  /\ SetPreferences(d.kind, FALSE, item = "ignore", item = "open")
  /\ Change(d, [d EXCEPT !.shown = item, !.open = item = "open",
         !.ignore = item = "ignore"])
  /\ UNCHANGED <<default, auto_open, mounted, mountings, guessing, windows,
                 outcomes, orphans>>

\* combo_box_changed_cb: what was chosen before is still chosen.
ChooseApp(d, app) ==
  /\ d.shown # app /\ clicks < MaxClicks /\ clicks' = clicks + 1
  /\ Change(d, [d EXCEPT !.shown = app, !.app = app])
  /\ UNCHANGED <<mounted, mountings, guessing, windows, outcomes, orphans>>
  /\ UNCHANGED settings

ToggleAlways(d) ==
  /\ clicks < MaxClicks /\ clicks' = clicks + 1
  /\ dialogs' = (dialogs \ {d}) \cup {[d EXCEPT !.remember = ~@]}
  /\ UNCHANGED <<mounted, mountings, guessing, windows, outcomes, orphans>>
  /\ UNCHANGED settings

\* A bug: who has asked to be asked again is not.
RespondsForgetful(d) ==
  IF d.remember THEN SetPreferences(d.kind, TRUE, d.ignore, d.open)
  ELSE UNCHANGED <<start, ignore, open>>
Responds(d) ==
  IF d.remember THEN SetPreferences(d.kind, TRUE, d.ignore, d.open)
  ELSE SetPreferences(d.kind, FALSE, FALSE, FALSE)

Done(d) ==
  IF ~d.ignore /\ ~d.open /\ d.app # None THEN d.app
  ELSE IF ~d.ignore /\ d.open THEN "open" ELSE "ignore"

Ok(d) ==
  /\ Responds(d) /\ dialogs' = dialogs \ {d}
  /\ default' = IF d.remember /\ ~d.ignore /\ ~d.open /\ d.app # None
                THEN [default EXCEPT ![d.kind] = d.app] ELSE default
  /\ outcomes' = outcomes \cup {[shown |-> d.shown, did |-> Done(d), clicks |-> d.clicks,
                                 forced |-> d.forced, remember |-> d.remember,
                                 asks |-> d.kind \notin start' \cup ignore' \cup open']}
  /\ UNCHANGED <<auto_open, mounted, mountings, guessing, clicks, windows, orphans>>

\* The mount is ejected when its dialogs are gone.
Close(d, eject) ==
  /\ mounted' = IF eject /\ d.mounting = mountings THEN FALSE ELSE mounted
  /\ dialogs' = IF mounted' = mounted THEN dialogs \ {d}
                ELSE {e \in dialogs : e.mounting # mountings}
  /\ UNCHANGED <<mountings, guessing, clicks, windows, outcomes, orphans>>
  /\ UNCHANGED settings

RunNext ==
  \/ Mount \/ Unmount \/ \E m \in guessing : Guessed(m)
  \/ \E d \in dialogs :
       \/ \E item \in Customs : ChooseCustom(d, item)
       \/ \E app \in Programs : ChooseApp(d, app)
       \/ ToggleAlways(d) \/ Ok(d)
       \/ \E eject \in BOOLEAN : Close(d, eject)

RunSpec == RunInit /\ [][RunNext]_runVars

RunTypeOK ==
  /\ start \cup ignore \cup open \subseteq Kinds /\ auto_open \in BOOLEAN
  /\ mounted \in BOOLEAN
  /\ default \in [Kinds -> Programs \cup {None}]
  /\ guessing \cup orphans \subseteq 1..MaxMounts
  /\ windows \in Nat /\ clicks \in 0..MaxClicks /\ mountings \in 0..MaxMounts

\* A dialog is about a mount that is there, or that had gone before its contents
\* were known (autorun_guessed_content_type_callback).
DialogsOfMounts ==
  \A d \in dialogs : (mounted /\ d.mounting = mountings) \/ d.mounting \in orphans

\* However many kinds of contents are to be opened, one folder is.
OneWindow == windows <= 1

\* What a dialog shows is done when the user confirms it, if it was chosen once and
\* not after another thing, nor the dialog forced by Shift; and who does not want it
\* to be done always is asked again.
ShownIsDone ==
  \A o \in outcomes :
    /\ ~o.forced /\ o.clicks = 1 /\ o.shown # "ask" => o.did = o.shown
    /\ ~o.remember => o.asks
=============================================================================
