----------------------------- MODULE Xsettings ------------------------------
(* The xsettings plugin: what toolkits read of the settings, as one        *)
(* property, and the modules they load.                                    *)
EXTENDS Naturals, Sequences, FiniteSets, SequencesExt

-----------------------------------------------------------------------------
(* The XSETTINGS manager: what the user sets, the plugin's own settings and  *)
(* overrides are collected, and published as one property when idle.         *)
CONSTANTS
  Keys,             \* translated one to one, the list of modules among them
  Overridable,      \* what overrides name
  MaxChanges        \* bounds what others change

VARIABLES
  running,          \* whether there are managers
  wish,             \* what is set: keys, antialiasing and order of pixels
  override,         \* what is to override: a value, one of another type, nothing
  pending,          \* signals on their way
  settings, serial, overrides,     \* the manager's
  notify_idle,
  property,         \* published: its serial, and value and serial of each setting
  client,           \* history: a property of the same window, once read
  shell, have_shell, shell_told,   \* on the bus, as known, and on its way
  start_idle, handles, timeouts,   \* of the fontconfig monitor
  stale,            \* fontconfig's files are newer than what is loaded
  loaded,           \* history: loaded again since the start
  restarted,        \* history
  crashed,
  changes

xsVars == <<running, wish, override, pending, settings, serial, overrides,
            notify_idle, property, client, shell, have_shell, shell_told,
            start_idle, handles, timeouts, stale, loaded, restarted, crashed,
            changes>>

Null == "null"
Values == {"0", "1"}
Fonts == {"antialias", "order"}
SettingNames == Keys \cup Overridable \cup
    {"Xft/Antialias", "Xft/RGBA", "Fontconfig/Timestamp",
                                     "Gtk/ShellShowsAppMenu", "Net/FallbackIconTheme"}

-----------------------------------------------------------------------------
(* Settings: an own value and one that overrides it                        *)

Absent == [own |-> Null, over |-> Null, serial |-> 0]

\* xsettings_setting_get
Get(s) == IF s.over # Null THEN s.over ELSE s.own

\* A bug: only the first value of a setting has a serial.
SettingSetOnce(s, tier, value) ==
  LET new == [s EXCEPT ![tier] = value] IN
    IF Get(new) = Null THEN Absent
    ELSE IF s = Absent THEN [new EXCEPT !.serial = serial] ELSE new

\* A serial belongs to the property that tells of the change.
SettingSet(s, tier, value) ==
  LET new == [s EXCEPT ![tier] = value] IN
    IF Get(new) = Null THEN Absent
    ELSE IF Get(new) # Get(s) THEN [new EXCEPT !.serial = serial] ELSE new

SetAll(of, tier, values) ==
  [n \in SettingNames |-> IF n \in DOMAIN values THEN SettingSet(of[n], tier, values[n])
      ELSE of[n]]

One(n, v) == [x \in {n} |-> v]

\* xft_settings_get: the order is for antialiasing by subpixels.
XftSettings ==
  [n \in {"Xft/Antialias", "Xft/RGBA"} |->
     IF n = "Xft/RGBA" THEN IF wish.antialias = "rgba" THEN wish.order ELSE "none"
     ELSE IF wish.antialias = "none" THEN "0" ELSE "1"]

\* A bug: old overrides stay.
SetOverridesMore(of, old, new) ==
  SetAll(of, "over", [n \in {m \in Overridable : new[m] \in Values} |-> new[n]])

\* Those of another type are left as they were.
SetOverrides(of, old, new) ==
  SetAll(of, "over",
         [n \in {m \in Overridable : new[m] \in Values
             \/ (old[m] # Null /\ new[m] = Null)} |->
            new[n]])

-----------------------------------------------------------------------------
(* The plugin                                                              *)

Fontconfig == <<start_idle, handles, timeouts, stale, loaded, crashed>>
Shell == <<shell, have_shell, shell_told>>
Others == <<wish, override, client, restarted, changes>>

XsInit ==
  /\ running = FALSE /\ pending = {} /\ serial = 0 /\ notify_idle = FALSE /\ property = <<>>
  /\ wish = [k \in Keys \cup Fonts |->
               CASE k = "antialias" -> "rgba" [] k = "order" -> "rgb" [] OTHER -> "0"]
  /\ override = [n \in Overridable |-> Null] /\ overrides = override
  /\ settings = [n \in SettingNames |-> Absent] /\ client = <<>>
  /\ shell = FALSE /\ have_shell = FALSE /\ shell_told = <<>>
  /\ start_idle = 0 /\ handles = 0 /\ timeouts = 0 /\ stale = FALSE /\ loaded = FALSE
  /\ restarted = FALSE /\ crashed = FALSE /\ changes = 0

Flag(b) == IF b THEN "1" ELSE "0"

\* The shell is taken for there at first.
Start ==
  LET own == SetAll([n \in SettingNames |-> Absent], "own",
                    [n \in Keys \cup DOMAIN XftSettings \cup {"Net/FallbackIconTheme"} |->
                       IF n \in Keys THEN wish[n]
                       ELSE IF n \in DOMAIN XftSettings THEN XftSettings[n] ELSE "gnome"])
      all == IF have_shell THEN own
             ELSE SetAll(own, "own", One("Gtk/ShellShowsAppMenu", "1"))
  IN /\ ~running /\ ~crashed /\ running' = TRUE /\ have_shell' = TRUE
     /\ settings' = SetOverrides(all, [n \in Overridable |-> Null], override)
     /\ overrides' = override /\ notify_idle' = TRUE /\ start_idle' = start_idle + 1
     /\ shell_told' = <<shell>> /\ loaded' = FALSE
     /\ UNCHANGED <<pending, serial, property, shell, handles, timeouts, stale,
                    crashed, Others>>

\* The monitor is started even if the plugin was stopped.
StartFontconfigMonitor ==
  /\ start_idle > 0 /\ ~crashed /\ start_idle' = start_idle - 1 /\ handles' = handles + 1
  /\ UNCHANGED <<running, pending, settings, serial, overrides, notify_idle,
                 property, timeouts, stale, loaded, crashed, Shell, Others>>

Stop ==
  /\ changes < MaxChanges /\ changes' = changes + 1 /\ running /\ ~crashed
  /\ running' = FALSE
  /\ settings' = [n \in SettingNames |-> Absent] /\ serial' = 0 /\ pending' = {}
  /\ property' = <<>> /\ client' = <<>> /\ shell_told' = <<>> /\ restarted' = TRUE
  /\ handles' = IF handles > 0 THEN handles - 1 ELSE 0
  /\ timeouts' = IF timeouts > handles' THEN handles' ELSE timeouts
  /\ UNCHANGED <<wish, override, overrides, notify_idle, shell, have_shell,
                 start_idle, stale, loaded, crashed>>

\* A bug: signals that come one by one are published one by one, but the last.
QueueNotifyLate(values) ==
  /\ settings' = SetAll(settings, "own", values)
  /\ UNCHANGED notify_idle

QueueNotify(values) ==
  /\ settings' = SetAll(settings, "own", values)
  /\ notify_idle' = TRUE

\* xsettings_callback, plugin_callback: the value is read when its signal comes.
Signal(k) ==
  /\ k \in pending /\ running /\ ~crashed /\ pending' = pending \ {k}
  /\ \/ k \in Keys /\ QueueNotify([n \in {k, "Net/FallbackIconTheme"} |->
                                     IF n = k THEN wish[k] ELSE "gnome"])
        /\ UNCHANGED overrides
     \/ k \in Fonts /\ QueueNotify(XftSettings) /\ UNCHANGED overrides
     \/ /\ k = "override" /\ settings' = SetOverrides(settings, overrides, override)
        /\ overrides' = override /\ notify_idle' = TRUE
  /\ UNCHANGED <<running, serial, property, Fontconfig, Shell, Others>>

\* xsettings_manager_notify
NotifyIdle ==
  /\ notify_idle /\ ~crashed /\ notify_idle' = FALSE
  /\ IF ~running THEN UNCHANGED <<property, serial>>
     ELSE /\ property' = [n \in {m \in SettingNames : settings[m] # Absent} |->
                            [value |-> Get(settings[n]), serial |-> settings[n].serial]]
          /\ serial' = serial + 1
  /\ UNCHANGED <<running, pending, settings, overrides, Fontconfig, Shell, Others>>

\* notify_have_shell
ShellTold ==
  /\ shell_told # <<>> /\ ~crashed /\ shell_told' = Tail(shell_told)
  /\ have_shell' = Head(shell_told)
  /\ IF have_shell' = have_shell THEN UNCHANGED <<settings, notify_idle>>
     ELSE QueueNotify(One("Gtk/ShellShowsAppMenu", Flag(have_shell')))
  /\ UNCHANGED <<running, pending, serial, overrides, property, shell, Fontconfig,
                 Others>>

\* Two seconds without changes; without managers the callback crashes.
FontconfigUpdate ==
  LET now == IF settings["Fontconfig/Timestamp"].own = "1" THEN "2" ELSE "1" IN
    /\ timeouts > 0 /\ ~crashed /\ timeouts' = timeouts - 1 /\ stale' = FALSE
    /\ IF ~stale THEN UNCHANGED <<settings, notify_idle, crashed, loaded>>
       ELSE IF running
       THEN QueueNotify(One("Fontconfig/Timestamp", now)) /\ loaded' = TRUE
           /\ UNCHANGED crashed
       ELSE crashed' = TRUE /\ UNCHANGED <<settings, notify_idle, loaded>>
    /\ UNCHANGED <<running, pending, serial, overrides, property, start_idle,
                   handles, Shell, Others>>

-----------------------------------------------------------------------------
Changes == changes < MaxChanges /\ ~crashed /\ changes' = changes + 1

UserSets(k, v) ==
  /\ Changes /\ wish[k] # v /\ wish' = [wish EXCEPT ![k] = v]
  /\ pending' = IF running THEN pending \cup {k} ELSE pending
  /\ UNCHANGED <<running, override, settings, serial, overrides, notify_idle,
                 property, client, restarted, Fontconfig, Shell>>

UserOverrides(n, v) ==
  /\ Changes /\ override[n] # v /\ override' = [override EXCEPT ![n] = v]
  /\ pending' = IF running THEN pending \cup {"override"} ELSE pending
  /\ UNCHANGED <<running, wish, settings, serial, overrides, notify_idle, property,
                 client, restarted, Fontconfig, Shell>>

ShellChanges ==
  /\ Changes /\ shell' = ~shell
  /\ shell_told' = IF running THEN Append(shell_told, shell') ELSE <<>>
  /\ UNCHANGED <<running, wish, override, pending, settings, serial, overrides,
                 notify_idle, property, client, have_shell, restarted, Fontconfig>>

FontFilesChange ==
  /\ Changes /\ stale' = TRUE /\ timeouts' = handles
  /\ UNCHANGED <<running, wish, override, pending, settings, serial, overrides,
                 notify_idle, property, client, start_idle, handles, loaded,
                 crashed, restarted, Shell>>

ClientReads ==
  /\ property # <<>> /\ client = <<>> /\ client' = property
  /\ UNCHANGED <<running, wish, override, pending, settings, serial, overrides,
                 notify_idle, property, restarted, changes, Fontconfig, Shell>>

XsNext ==
  \/ Start \/ StartFontconfigMonitor \/ Stop \/ NotifyIdle \/ ShellTold \/ FontconfigUpdate
  \/ \E k \in pending : Signal(k)
  \/ \E k \in Keys, v \in Values : UserSets(k, v)
  \/ \E v \in {"none", "grayscale", "rgba"} : UserSets("antialias", v)
  \/ \E v \in {"rgb", "bgr"} : UserSets("order", v)
  \/ \E n \in Overridable, v \in Values \cup {Null, "other type"} : UserOverrides(n, v)
  \/ ShellChanges \/ FontFilesChange \/ ClientReads

XsSpec == XsInit /\ [][XsNext]_xsVars

-----------------------------------------------------------------------------
XsTypeOK ==
  /\ pending \subseteq Keys \cup Fonts \cup {"override"} /\ changes \in 0..MaxChanges
  /\ serial \in Nat /\ handles \in Nat /\ timeouts \in 0..handles /\ start_idle \in Nat
  /\ \A n \in SettingNames : settings[n].serial <= serial

(* Once all is told, the property has what is wished, overridden by what is  *)
(* to override it, but for overrides of a type that is none (notify_idle).   *)
Published ==
  running /\ ~crashed /\ pending = {} /\ ~notify_idle =>
    \A n \in SettingNames :
      LET own == IF n \in Keys THEN wish[n]
                 ELSE IF n \in DOMAIN XftSettings THEN XftSettings[n] ELSE settings[n].own
          over == IF n \in Overridable THEN override[n] ELSE Null
          value == IF over \in Values THEN over ELSE own
      IN over # "other type" =>
           IF value = Null THEN n \notin DOMAIN property
           ELSE n \in DOMAIN property /\ property[n].value = value

(* What a client has read differs from what is published later only in       *)
(* settings of another serial (xsettings_setting_set).                       *)
ChangesSeen ==
  \A n \in DOMAIN client \cap DOMAIN property :
    client[n].value # property[n].value => client[n].serial # property[n].serial

(* Applications know whether there is a shell, except that a plugin that was *)
(* stopped and started does not tell of one that stayed (notify_have_shell), *)
(* and learn of fonts that were loaded (fontconfig_callback).                *)
ShellAndFontsKnown ==
  running /\ ~crashed /\ ~notify_idle =>
    /\ shell_told = <<>> =>
         IF "Gtk/ShellShowsAppMenu" \in DOMAIN property
         THEN property["Gtk/ShellShowsAppMenu"].value = Flag(shell)
         ELSE restarted /\ shell
    /\ loaded => "Fontconfig/Timestamp" \in DOMAIN property

-----------------------------------------------------------------------------
(* The modules GTK+ applications load: those of the files in a directory,    *)
(* some of which a setting turns on or off, and those the user adds or takes *)
(* away.                                                                     *)
CONSTANTS
  Modules,          \* with a file each
  Switched,         \* those with a setting
  MaxTime           \* bounds the clock, which goes by seconds

VARIABLES
  time,
  dir,              \* the directory: its files and time, or none
  enabled, disabled, \* the plugin's settings
  switch,           \* the settings of Switched
  signals,          \* on their way: "dir", or a module whose setting has changed
  dir_modules, cond_settings, dir_mtime,  \* as read, and what settings are listened to
  modules,          \* told to the manager
  unseen,           \* history: a change in the second that was read, or in a
                    \* directory that was made anew with an older time
  lagging           \* history: the plugin's settings, not told of by themselves

gtkVars == <<time, dir, enabled, disabled, switch, signals, dir_modules,
             cond_settings, dir_mtime, modules, unseen, lagging>>

NoDir == [files |-> {}, mtime |-> 0]

-----------------------------------------------------------------------------
\* process_desktop_file, for all of them
ModulesOf(files) == {m \in files : m \in Switched => switch[m]}

\* A bug: settings of files that are no longer there go on.
GetGtkModulesFromDirOn ==
  IF dir.mtime > dir_mtime
  THEN /\ dir_mtime' = dir.mtime /\ dir_modules' = ModulesOf(dir.files)
       /\ cond_settings' = cond_settings \cup (dir.files \cap Switched)
  ELSE UNCHANGED <<dir_modules, cond_settings, dir_mtime>>

\* get_gtk_modules_from_dir: unless nothing is newer.  Of a directory that is gone
\* the modules stay.
GetGtkModulesFromDir ==
  IF dir = NoDir THEN cond_settings' = {} /\ UNCHANGED <<dir_modules, dir_mtime>>
  ELSE IF dir_mtime = 0 \/ dir.mtime > dir_mtime
  THEN /\ dir_mtime' = dir.mtime /\ dir_modules' = ModulesOf(dir.files)
       /\ cond_settings' = dir.files \cap Switched
  ELSE UNCHANGED <<dir_modules, cond_settings, dir_mtime>>

\* update_gtk_modules
UpdateGtkModules ==
  modules' = (dir_modules' \cup enabled) \ disabled /\ lagging' = FALSE

GtkInit ==
  /\ time = 1 /\ dir \in {NoDir} \cup [files : SUBSET Modules, mtime : {1}]
  /\ enabled = {} /\ disabled \in {{}, Modules} /\ switch = [m \in Switched |-> TRUE]
  /\ signals = <<>> /\ dir_mtime = dir.mtime /\ dir_modules = ModulesOf(dir.files)
  /\ cond_settings = dir.files \cap Switched
  /\ modules = dir_modules \ disabled /\ unseen = FALSE /\ lagging = FALSE

Tick ==
  /\ time < MaxTime /\ time' = time + 1
  /\ UNCHANGED <<dir, enabled, disabled, switch, signals, dir_modules,
                 cond_settings, dir_mtime, modules, unseen, lagging>>

\* A file is added or removed, or the directory.
DirChanges(files, there) ==
  /\ Len(signals) < 2
  /\ IF there THEN dir' = [files |-> files, mtime |-> time] ELSE files = {} /\ dir' = NoDir
  /\ dir' # dir /\ signals' = Append(signals, "dir")
  /\ unseen' = (dir' = NoDir \/ dir_mtime = time)
  /\ UNCHANGED <<time, enabled, disabled, switch, dir_modules, cond_settings,
                 dir_mtime, modules, lagging>>

SwitchChanges(m) ==
  /\ Len(signals) < 2 /\ switch' = [switch EXCEPT ![m] = ~@]
  /\ signals' = IF m \in cond_settings THEN Append(signals, m) ELSE signals
  /\ UNCHANGED <<time, dir, enabled, disabled, dir_modules, cond_settings,
                 dir_mtime, modules, unseen, lagging>>

\* Nobody listens to these, until something else is read.
UserChanges(e, d) ==
  /\ <<e, d>> # <<enabled, disabled>> /\ enabled' = e /\ disabled' = d /\ lagging' = TRUE
  /\ UNCHANGED <<time, dir, switch, signals, dir_modules, cond_settings, dir_mtime,
                 modules, unseen>>

\* gtk_modules_dir_changed_cb
DirChanged ==
  /\ signals # <<>> /\ Head(signals) = "dir" /\ signals' = Tail(signals)
  /\ GetGtkModulesFromDir /\ UpdateGtkModules
  /\ UNCHANGED <<time, dir, enabled, disabled, switch, unseen>>

\* cond_setting_changed; a signal for a setting that was dropped is not delivered.
CondSettingChanged ==
  LET m == Head(signals) IN
    /\ signals # <<>> /\ m # "dir" /\ signals' = Tail(signals)
    /\ IF m \notin cond_settings THEN UNCHANGED <<dir_modules, modules, lagging>>
       ELSE /\ dir_modules' = IF switch[m] THEN dir_modules \cup {m} ELSE dir_modules \ {m}
            /\ UpdateGtkModules
    /\ UNCHANGED <<time, dir, enabled, disabled, switch, cond_settings, dir_mtime,
                   unseen>>

GtkNext ==
  \/ Tick \/ DirChanged \/ CondSettingChanged
  \/ \E files \in SUBSET Modules, there \in BOOLEAN : DirChanges(files, there)
  \/ \E m \in Switched : SwitchChanges(m)
  \/ \E e, d \in {{}, Modules} : UserChanges(e, d)

GtkSpec == GtkInit /\ [][GtkNext]_gtkVars

-----------------------------------------------------------------------------
GtkTypeOK ==
  /\ time \in 1..MaxTime /\ dir.mtime <= time /\ dir_mtime <= time
  /\ dir_modules \subseteq Modules /\ cond_settings \subseteq Switched

(* Once all is told, the modules are those of the files that are there, of   *)
(* the switches and of the user's lists, unless a change fell in the second  *)
(* that was read already, or the directory was removed (dir_mtime).          *)
ModulesKnown ==
  signals = <<>> /\ ~unseen =>
    /\ cond_settings = dir.files \cap Switched /\ dir_modules = ModulesOf(dir.files)
    /\ ~lagging => modules = (dir_modules \cup enabled) \ disabled
=============================================================================
