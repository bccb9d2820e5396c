# A formal model of the settings daemon

TLA+ modules, model-checking configurations and machine-checked proofs for the
daemon in this repository, deepin's branch of gnome-settings-daemon 3.8.1. The
daemon is one process per session. It owns a bus name, loads plugins, and the
plugins keep the machine in step with the user's settings: power, displays,
input devices, printers and so on.

All paths below are relative to `src/`. `P` stands for
`plugins/power/gsd-power-manager.c`.

## 1. Inventory

### 1.1 Components that are modelled

| Component | State it keeps | Operations | Should hold |
|---|---|---|---|
| daemon process, `gnome-settings-daemon/main.c` | whether it owns `org.gnome.SettingsDaemon`, whether plugins run, the registration with gnome-session | take, lose and give up the name, register, answer or obey gnome-session, signals, exit | whoever owns the name serves, and nobody else does in the end |
| plugin manager, `gnome-settings-manager.c`, `-plugin-info.c` | list of plugins with their flags; bus connection | read the directory, sort, activate, follow a key, emit signals, stop | plugins follow their keys, in order |
| session tracker, `gnome-settings-session.c` | state of the session, chain of calls to ConsoleKit or monitor of logind | ask, ask again, hear of changes | the state known is the session's |
| power: idle policy, first half of `P` | idle mode, two timers, saved panel and keyboard levels, lid, cached session and presence state | evaluate, time out, dim, blank, sleep, restore, lid, resume, D-Bus brightness calls | the user's levels come back, sleep is allowed when entered |
| power: idle watcher, `gpm-idletime.c` | XSync alarms, the reset alarm, the unread X events | set and remove an alarm, react to an event, arm and disarm the reset alarm | idleness and activity are told of |
| power: battery warnings, second half of `P`, `gpm-phone.c` | last state and last warning of each device, the composite battery, notifications, the sound loop, countdowns, the phone | react to UPower's signals, announce, start and stop the loop, run the critical action | each warning is told, none lasts on AC |
| power: plans, `gsd-power-movie.c`, `deepin_power.c` | the window in front, two flags, the user's plan, the limits | windows become active or change state, plans change | films get their plan and the user's comes back |
| smartcard | the thread's table of tracked cards, the pipe, the manager's table of inserted cards | wait for a slot, look at it, write and read events, act on a removal, start and stop | removals are paired with insertions |
| a11y-keyboard | settings, the server's controls, the notification that is shown | read and write either, warn, take back a shortcut | settings and controls agree |
| a11y-settings | the toolkits' switch | follow the applications that need it | on while needed |
| automount | queue of volumes, state of the screen saver, the dialogs of what is run | mount, queue, run contents, ask, remember an answer | volumes wait for the screen to be unlocked, contents are run once |
| background | Deepin's picture, GNOME's, the account's, blurred copies | change either, start a helper | the greeter shows the current picture |
| clipboard | saved contents, running conversions, watches of windows | save, serve, at once or in increments, lose the clipboard | what is saved and pasted is whole |
| color | colord's devices and profiles, the profile directory, ramps | devices come and go, profiles are assigned, files appear | each monitor has the ramp of its profile |
| cursor | the watched devices, visibility of the pointer | a device is used, comes, goes | hidden just when fingers are used |
| datetime | `/etc/localtime` and six configuration files, the call under way, the kill timer | set and find the zone, set clocks and NTP | what was said to be set is found; each call is answered |
| gconf | watchers by schema | read conversion files, store what changes | GConf has what the settings have |
| housekeeping | noted mounts and times, dialogs, purges, timers | check the disks, warn, purge trash, temporary files and thumbnails | nobody is nagged; nothing young is deleted |
| idle-delay | presence, brightness that was sent | dim, restore | an active user has the brightness asked for |
| key-bindings | table of settings, list of bindings, grabs, counter of presses | change a setting, the layout, press keys | a key runs the command of its setting |
| keyboard | sources, IBus proxy and engines, grabs and input of the switcher, NumLock, switcher process | choose a source, fetch engines, switch, save the lock state | the engine is that of the current source |
| media-keys | keys with their bindings and grabs, sinks and volume, players | change bindings, press keys, PulseAudio's answers, players come and go | grabs follow the settings; each press counts |
| mouse | devices that were switched off, settings; state of the located pointer | devices come and go, switch touchpads, show circles | whoever has only a touchpad can point |
| orientation | last orientation, lock | turn, lock, rotate by key | the panel is turned as the device is held |
| print-notifications | printers' reasons, delayed notifications, the CUPS subscription; names and set-up of new printers | read lists, notify, close, renew, make a queue | a problem that ended is not shown |
| remote-display | proxy of Vino | name comes and goes, clients connect | animations are off while somebody looks on |
| screensaver-proxy | cookies and watches by caller | Inhibit, UnInhibit, a caller leaves | a caller that left inhibits nothing |
| sound | timer and operation of a flush | a theme changes, samples are flushed | no old sample stays |
| wacom | mapping, area, pen, modes, held keys, the window of labels | devices, screens, settings and pens change, pad buttons | a tablet is where its screen is |
| xrandr | stored setups, Fn-F7 list, backup, countdown; Deepin's monitors | hotplug, lid, keys, apply, confirm, restore | nothing black; what is not confirmed is undone |
| xsettings | values and overrides with serials, the fontconfig monitor, GTK+ modules | change, override, publish, watch | clients can see each change |

### 1.2 How they interact

* gnome-session, UPower, the session tracker, GSettings and the X server run in
  other processes. Everything they tell arrives as a D-Bus message or an X
  event and is handled later, one handler at a time, by the GLib main loop. So
  a handler is atomic and the hard part is what happens between the change and
  its handler.
* The daemon process starts the plugin manager when the name is acquired and
  stops it when the name is lost, when the session ends or when it exits.
* The plugin manager calls `activate` and `deactivate` of a plugin; those start
  and stop, for instance, the power manager.
* The power manager sets alarms in the idle watcher and receives
  `alarm-expired` and `reset` from it. Its idle half and its battery half share
  the handler `up_client_changed_cb` and the one for resume, and little else.
* Plugins talk to each other over D-Bus only, like strangers: orientation asks
  xrandr to rotate, idle-delay sends it the brightness, media-keys sends the
  power manager its steps. Each of these is modelled with both ends.
* Few things have threads: smartcard (one for each module with removable
  slots, which waits in NSS and tells the main loop through a pipe), the
  conversions of automount's contents, and the thread of key-bindings that
  counts presses of Super. Helpers are processes: the blur of the background,
  xrandr commands, the switcher of keyboard, gsd-printer and the datetime
  mechanism.

### 1.3 Which behaviours are hard

* A timer callback that returns FALSE loses its source, but the id that guards
  re-arming is cleared elsewhere, or not at all (`P`:3183, 3261, 3357).
* Handlers that return early while the session is inactive, for which somebody
  has to make up later (`P`:3777).
* Two and three levels of saving: a level that is dimmed, switched off by the
  lid, and moved by the user, with calls in between that may fail.
* An X event that is old by the time it is read: the user may have come back,
  and have gone again (`gpm-idletime.c`:214-240).
* Signals that describe one change and arrive in either order (`P`:1385, 1838).
* A settings key that changes again before its notification is handled, and a
  change made while a call with the old value is under way.
* State read before a call and used when it is answered: IBus that left, a sink
  that is gone, a list of printers that is newer than the signal
  (`gsd-keyboard-manager.c`:206, `gsd-print-notifications-manager.c`:597).
* Nested main loops: the confirmation of a screen configuration and the dialog
  about a full disk run inside a handler, and everything else goes on
  (`gsd-xrandr-manager.c`:606, `gsd-disk-space.c`:651).
* Steps of which one fails or after which the machine stops: the files of the
  time zone (`system-timezone.c`:822), the backup of monitors.xml.
* Someone who leaves in the middle: a caller with cookies, the requestor of an
  incremental transfer, a player, a printer, a device.
* A bus name that is taken away while plugins run, or before they do, and a
  process that dies in between; a client that is asked before it listens.

`PROJECT.json` lists these as hazards, each at its line and with the properties
that would catch it going wrong, or a note that says why none does: mostly because
the code does go wrong there, as section 5 tells.

### 1.4 Not modelled

* power: backlight helper (`gsd-backlight-helper.c`) reads or writes one file
  and exits, and `gpm-common.c` makes texts and icons. What the helper's failure
  does is in `PowerIdle`.
* dummy is an example without state. Tests, data and translations are read as
  documentation.
* Of components that are partly modelled: the battery policy by remaining time
  (`use-time-for-policy`), icons and texts; smartcard's second activation,
  several modules and errors of the pipe; the blur and the desktop's window in
  background; the notice of an old calibration in color; the queries of X
  devices in common; the layout of housekeeping's dialog; bell, repeat and XKB
  descriptions in keyboard; windows and application launches in media-keys;
  motion, scrolling, syndaemon and mousetweaks in mouse; drawing and the
  helpers for lamps in wacom; positions other than side by side, the server's
  timestamps and the log in xrandr. These either keep no state or write values
  to the server that nobody reads again.

## 2. Modules

| Module | Models |
|---|---|
| `PowerIdle` | the idle policy of the power plugin |
| `PowerIdleProofs` | theorems about it |
| `IdleTime` | the idle watcher, its client's alarm set-up, the X counter |
| `PowerBattery` | the battery warnings of the power plugin |
| `PowerBatteryProofs` | theorems about it |
| `PowerParts` | films and plans, the panel's brightness as keys step it, a phone's battery |
| `SettingsManager` | the plugin manager |
| `SettingsManagerProofs` | theorems about it |
| `SettingsDaemon` | the processes, the bus name, gnome-session |
| `SettingsDaemonProofs` | theorems about it |
| `SessionTracker` | the session's state with either backend |
| `CardWatch` | what the smartcard plugin promises: an abstract specification |
| `Smartcard` | the smartcard plugin, shown to implement `CardWatch` |
| `SmartcardProofs` | theorems about it |
| `Accessibility` | keyboard accessibility, the toolkits' switch, the hidden pointer |
| `Clipboard` | saving and serving of the clipboard |
| `Color` | colord's devices and profiles, the profile directory, EDIDs |
| `DateTime` | the time zone's files, the calls of the mechanism |
| `Desktop` | sound cache, remote display, GConf, background |
| `Housekeeping` | full disks, purges, thumbnails |
| `IdleDelay` | dimming of an idle session |
| `Keyboard` | input sources and IBus, the switcher, NumLock and the switcher's process |
| `MediaKeys` | grabs, volume keys, the mixer's sinks, players |
| `Mouse` | pointing devices, the located pointer |
| `NewPrinters` | names and set-up of gsd-printer |
| `Orientation` | the accelerometer and the rotated panel |
| `PrintNotifications` | printers' problems, the CUPS subscription |
| `Removable` | volumes that are mounted and run |
| `ScreensaverProxy` | cookies and inhibitors |
| `Screens` | what is done with screens: puts `IdleTime`, `XrandrSetups`, `Orientation`, `IdleDelay` and `PowerParts` together |
| `Shortcuts` | shortcuts of the settings, Super pressed alone |
| `Upkeep` | what runs in the background: puts `Housekeeping`, the CUPS part of `PrintNotifications` and `NewPrinters` together |
| `Wacom` | tablets, pens, pads |
| `XrandrSetups` | stored setups, Fn-F7, lid and hotplug |
| `XrandrCommands` | the confirmation, Deepin's commands for monitors |
| `Xsettings` | published settings, GTK+ modules |
| `MC_*` | instances for TLC |
| `SessionProofs` | theorems about the parts that `MC_Session` puts together |
| `DisplayProofs` | theorems about the idle watcher and about the parts of `Screens` |
| `UpkeepProofs` | theorems about the parts of `Upkeep` |

Definitions keep the source's names where they can: an action is named for its
handler, and the comment over it names the C function when the names differ.
Definitions called "A bug: ..." or "Mutant of X" are X with a plausible mistake.
They are not part of any specification; `PROJECT.json` tells for which property
each is there, and TLC finds that property violated when the mutant takes the
place of X. They show that the properties do depend on the code.

A module that models several parts of a plugin that share no state has one
specification for each. The names that would clash start with the part's:
`ZoneInit`, `ZoneNext` and `ZoneTypeOK` are of the time zone, `ClockInit` and so
on of the mechanism's calls, both in `DateTime`.

`MC_Session`, `MC_Display` and `MC_Devices` are groups: they instantiate many
such parts. The parts of a group share no state, so a behaviour in which several
move shows nothing that the behaviours of each do not, and there would be
astronomically many. `focus` is chosen in the first state, tells which one
moves, and never changes; each conjunct of a property of a group starts with
`focus = "..." =>`. So these properties are read as lists: `ScreensFollow`, say,
stands for `Upright` and `TouchTurned` of `Orientation`, `Brightened` of
`IdleDelay`, and so on, and each of these is stated over its own definition in
its module.

Two of the groups put together what another module has put together already:
`MC_Display` extends `Screens` and `MC_Devices` extends `Upkeep`, which have the
same `focus`. A step of a group's `PartsSpec` is a `ScreensNext` (`UpkeepNext`)
step or leaves all of `screenVars` (`upkeepVars`) alone, and its first state is
one of `ScreensInit` (`UpkeepInit`), so what is proved of `ScreensSpec` and
`UpkeepSpec` holds in the groups.

### Conventions of the models

* A copy of another process's state and the messages on their way to it are
  variables of their own; an action of the environment changes the truth and
  sends, an action named for the handler reads. Delivery is in order on one
  connection unless the module says otherwise.
* "At rest" properties are invariants of the form "when nothing is on its way
  and no call is under way, then ...". They catch a lost update whatever the
  order was, without any fairness.
* Where the code has an exception to what it seems to promise, a property
  excuses exactly that case by a history variable, and section 5 has it. It is
  never excused by leaving the case out of the model.
* Constants whose name starts with `Max` bound what the surroundings do, never
  what the code does.

### 2.1 PowerIdle

One action for each handler. `Evaluate` is `idle_evaluate`, `SetMode` is
`idle_set_mode`, `EnterDim`, `EnterBlank`, `EnterSleep` and `EnterNormal` are
the branches of the latter. Each timer has two variables: `blankId` says that
`priv->timeout_blank_id` is not 0, `blankLive` that a GLib source exists that
will call `idle_blank_cb`. The code lets these two differ, which is what
`NoStrayTimer` is about.

`userPanel` and `userKbd` are history variables: the level the user last chose
with the brightness keys or over D-Bus. A call that may fail is an operator
that yields the set of its results (`SetPanel`, `SetKbd`, `Answers`); `MayFail`
says which of them do. Of the panel's two paths, `xrandr` reports failure and
`helper`, the pkexec helper, does not, because its exit status is dropped.

Inhibitors are a set of masks. `InhibitorsChange` changes it in gnome-session
and `InhibitorSignal` is the signal that tells. The presence status is the
cached property of the proxy, which changes when its signal is handled.

Left out: the arithmetic between levels and percentages (levels are small
numbers and a step leads to any level), logging, the OSD, and the set-up of
the proxies. `UserMay` restricts the user: without `"adjust"` the brightness is
only moved while nothing is dimmed or off. See 5 for what happens otherwise.

### 2.2 IdleTime

`counter` is the server's IDLETIME, in units of which a timeout is a few.
`CounterBecomes` sends an event for each alarm whose transition the counter
makes; several at once come in any order. `AlarmEvent` and `ResetEvent` are
`gpm_idletime_event_filter_cb`. `Adjusted` is `idle_adjust_timeout_dim`, the
loop that doubles a timeout until it is behind the counter: `Doubled` is the
value after so many turns, `MostTurns` bounds their number, and the loop stops
at the first value that will do.

`Prompt` is an assumption about the surroundings: an event is read before the
user can have become idle for as long as the shortest timeout again. The
timeouts are minutes and the events are read in milliseconds. Section 5 tells
what happens without it.

### 2.3 PowerBattery

`plugged` and `energy` are the truth; `seen` and `onBattery` are the plugin's
copies. A copy that differs from the truth is a signal on its way, so a device
that changes twice before its handler runs is seen once. `Subject` is what
`engine_update_composite_device` returns: the device, or the composite when
there is more than one battery. `said` is a history variable: the last warning
of each device that was announced rather than ignored. `Ignored` is the early
return of `engine_charge_low` and its siblings on AC.

`ClientFirst` says that on-battery is delivered before the device signals.
Left out: the policy by time remaining (the setting `use-time-for-policy`), the
phone devices of `gpm-phone.c`, and the tray icon.

### 2.4 SettingsManager

`key` is GSettings and `changed` the keys whose notification is on its way.
`Listings` are the lists that `_load_dir` can produce for any order of the
directory, and `SortedByPriority` is the stable sort after it. `info` keeps the
four flags of a `GnomeSettingsPluginInfo`; `Activated` and `Deactivated` are
its functions. A module of `Unreadable` may or may not load each time it is
tried, and a plugin whose module did not load is unavailable for good.
`heard` is the last signal on the bus about each plugin.

### 2.5 SettingsDaemon

Several processes, each with an inbox that it handles in order. `queue` is the
bus's queue for the name, whose first element owns it; `BusRegister` is
`g_bus_own_name` with or without replacing. `client` follows the registration
with gnome-session: the call, its answer, the proxy and its signal handler.

After `gtk_main_quit` a process handles no more messages. A process that is
started again is another element of `Daemons`. The debug option
`--timed-exit` does what a signal does and is part of `Term`. Locale and
environment set-up are left out.

### 2.6 Smartcard and CardWatch

The thread's loop is cut where the world can change under it: `Wait` is the
call into NSS that returns a slot, `ReadSeries` the call for its series, and
`Look` everything from the question whether a card is present to the end of
the iteration. `Insert` and `Pull` may come between any two of them. `Look` has
four outcomes, one for each path of the code: a card is there (and perhaps a
removal of the one before), a removal of nothing that is tracked, a removal,
and a removal of cards that came and went unseen. The last path crashes in
`RemoveNoKey`.

NSS is external. A slot's series grows with each insertion, and a wait returns
a slot whose series or presence differs from what was returned of it last.
`name` is what `PK11_GetTokenName` says, which outlives the card. Messages name
a card and nothing else; their slot is a history variable, as are `told` and
`flip`. A write to a full pipe waits, and the several writes of one look are
taken together, for which `PipeSize` is 3 in the runs.

A thread that ends frees the structure that the main thread keeps in its list.
What follows is undefined: `HandleFreed` is the crash, `HandleInserted`,
`HandleRemoved` and `Deactivate` are the other outcomes.

`CardWatch` has the truth and what was told. A removal is only told of a slot
that was told inserted, and a slot that is left alone is told right in the
end. `Smartcard` implements it with `watching` refined to an active plugin
whose thread runs.

Left out: several modules (their threads share only the table), a second
activation after `Deactivate`, which would use the destroyed modules, errors of
the pipe, and certificates and PINs.

### 2.7 The session group

* `SessionTracker`: `backend` is the one that was built. For ConsoleKit each call
  of the chain is a step, and the session may change between any two of them.
  For logind `missed` is the one change that the monitor's flush swallows.
* `ScreensaverProxy`: `cookies` and `watches` are the plugin's two tables,
  `inhibitors` what gnome-session holds. `Vanished` is the loop over the cookies
  when the end of a caller is handled, which may be long after it left.
* `DateTime`: a call goes through its files step by step (`Localtime`,
  `Symlink`, `Copy`, `Update`), any of which may fail, and after any of which the
  machine may stop (`Crash`); what is written stays. `Found` is the order in
  which the code looks for the zone. In the second part `work` is the call
  that is handled and its step, which polkit, hwclock, ntpdate and ntpd answer.
* `XrandrCommands`: the confirmation keeps a stack of main loops (`frames`),
  since a second configuration may be tried in the dialog of the first; only
  the one on top goes on. `Crash` ends the process with the backup in place.
  `before` and `trial` are history variables: what was stored before the trial
  that is open, and whether a save or another trial came between. A trial that
  was disturbed stays so when a dialog inside it is accepted. In the second
  part `flying` are the xrandr commands that were started and not waited for,
  which end in any order.
* `Shortcuts`: `Unbind` removes the first binding of a key's name, whosever it
  is, and a key is grabbed by its code in the layout of that time. The start and the stop
  go over all slots in their order (`All`, a recursive function). `shared`
  marks keys that two settings had at once. In the second part `events` are
  what the server records; a command of Super that has not ended (`busy`) keeps
  the thread from reading them.

### 2.8 The display group

* `XrandrSetups`: a configuration gives each output a mode, a place and whether it is
  on; `stored` is monitors.xml. The setups of `make_other_setup`,
  `make_clone_setup` and so on are operators, and what the server refuses is
  decided by `FrameBuffer`. A setup is a function of the outputs, so that sums
  and orders over the outputs are taken over sets: `Left` has the monitors to
  the left of one, `Nth` the entries that `sanitize` leaves, in their order.
  Which outputs `Trimmed` turns off first is undefined in the code and any here,
  so a setup may be trimmed to nothing, which is the one exception of `NeverBlack`.
* `Orientation` and `IdleDelay` are modelled with the xrandr plugin's end and the
  calls between, which other calls, keys and settings overtake.
* `Color`: colord's calls are asynchronous, in the sequence find, then create
  or delete, and a monitor may be swapped between any two. The part of the
  profile store lists directories one by one while files come and go. The EDID
  part keeps what an object has read and compares it with what was sent.
* `Wacom`: mapping, rotation, area and aspect in the order of the code at start,
  at a change of setting and at a change of screens. A pen is near the tablet,
  and its button mapping may be refused. Pads have keys that are held, modes of
  rings and strips, and the window's labels that are turned off later.
* `PowerParts`: a window comes to the front and changes state, and the library
  sees both later (`seen`); the two flags are those of `gsd-power-movie.c`. A
  panel (`panel`) says how it is set and how many levels it has, which decides
  the formulas, and each press of media-keys is a call whose answer may come
  after the next press. A phone's name, its number and its state are told by
  three signals.
* `Removable`: the queue, the question to the screen saver that is asked
  asynchronously, and the volumes; then dialogs of kinds of contents, with what
  the user chose and what was stored.
* `Clipboard`: an incremental transfer is a number of pieces, and the owner, the
  requestor or the clipboard may be gone between any two. `refs` counts
  references to the saved data as the code does, since they may be replaced
  while they are still being sent.
* `Xsettings`: a client reads the property at any time and compares serials, as
  the specification of XSETTINGS has it. Directories have a time in whole
  seconds.
* `Accessibility`: the server and the settings both change under the plugin,
  and each handler reads all there is by then. `Desktop` has four small
  watchers of settings.

### 2.9 The devices group

* `Keyboard`: IBus connects, answers and fails in its own time; the list of
  sources changes meanwhile. A call for the list of engines that its bus does not
  outlive is answered all the same, at any later moment (`overtaken`), and its
  callback works with the bus there is by then (43 below). A dropped bus is
  taken to send no more signals, and a plugin that is started again to find no
  request of its last run still waiting in IBus. The switcher grabs modifiers and replays events;
  `queue` is the user's input on its way, `missing` what no client got. NumLock
  and the switcher's process are a third part, in which `signals` to processes
  are on their way.
* `MediaKeys`: `grabbed` and `taken` are the server's grabs of the daemon and of
  others. The mixer's part has PulseAudio's requests and answers in order,
  sinks that come and go, and indices that are used again. The volume part
  compares the volume with what the presses asked for. Players have connections
  that end while calls of theirs are on their way.
* `Mouse`: a device that is switched off is not among the `known`, and is found
  again through the server. The located pointer replays events as the switcher
  does.
* `Housekeeping`: a dialog runs a main loop, in which the timer, changes of
  mounts and settings and a stop are handled while the rest of the check
  (`rest`) waits. Purges are trees whose children are listed and deleted by
  calls under way at once. The look at an entry's age and its deletion
  (`gsd-disk-space.c`:381-384), two synchronous calls in a row, are one step: what
  another program does to the entry between them is not seen.
* `PrintNotifications`: CUPS's list is read when a signal is handled, and is as
  new as that; a missing connection is told of after a delay. `NewPrinters` has
  the bus's queue for names of several sessions, and the set-up as a sequence
  of calls.

## 3. What is checked

Run from this directory: `tlc -config <name>.cfg MC_<module>`. Every run is
exhaustive within its bounds.

| Run | Asks | Bounds |
|---|---|---|
| `power_idle_levels` | is the user's brightness kept and restored, do timers and modes stay consistent, is sleep allowed when entered? `TypeOK`, `NoStrayTimer`, `AwakeForUser`, `UserPanelKept`, `UserKbdKept`, `NormalIsRestored`, `SleepOnlyWhenIdle` | three levels each with the dim level in the middle, so that a level is above, at and below it; three lid actions; session switches; two configurations, of which one dims by power source |
| `power_idle_live` | does idleness lead to blank and sleep? `BlanksWhenIdle`, `SleepsWhenIdle` | one panel level and two keyboard levels, failing bus and panel calls, the Toggle call, session always active, sleep by power source or always |
| `power_battery_signals` | is every warning announced? `TypeOK`, `WarningIsSaid` | a battery and a UPS, both removable, energy 0..3, one value in each of the four bands, two countdowns |
| `power_battery_composite` | is the alarm off on AC? `NoBatteryAlarmOnAc` | two batteries and a removable mouse, energy 0 or 1: the composite passes through ACTION, CRITICAL and none; signals in any order; notifications may fail |
| `settings_manager_keys` | do plugins follow their keys, and in order? `TypeOK`, `FollowsKey`, `InOrder`, `KeyIsObeyed` | four files, two of them for one module, one without schema, two whose module may fail to load |
| `smartcard_events` | are removals paired, and is a slot told right whatever happens between the thread's calls? `TypeOK`, `RemovalsArePaired`, `Watched`, `SettlesInTheEnd` | one slot, two cards, five insertions, so that two cards can come and go within one look; a pipe of three messages |
| `session` | who runs plugins, and is what was asked for, told or started brought to its end? `PartsTypeOK`, `NoSquatter`, `OwnerServes`, `OneInTheEnd`, `QueryIsAnswered`, `Settled`, `Released`, `KeysAndZones`, `Reverts`, `IdlenessKnown`, `ReactionsEnd` | see 3.1 |
| `display` | do screens and applications get what settings and devices say? `PartsTypeOK`, `ActivityIsReported`, `ScreensFollow`, `ColorsAndTablets`, `OthersServed` | see 3.2 |
| `devices` | do devices follow, do keys act once, is nothing lost? `PartsTypeOK`, `DevicesFollow`, `KeysDone`, `NothingLost` | see 3.3 |
| `power_idle_never` | `ZeroMeansNever` is violated | smallest levels, sleep on or off |
| `smartcard_removal` | `RemovalIsActedOn` is violated | two slots, one card, three insertions |
| `settings_manager_heard` | `HeardRight` is violated | as `settings_manager_keys` |

Why the bounds are enough. Levels are only compared with each other, with the
dim level and with "not saved", so three of them tell all cases apart. Timers
are there or not. A configuration matters through three comparisons with the
one before. The percentages matter through three thresholds. A series is
compared with the one tracked and with the one after it, so three insertions
reach every path of a look and two more follow it.

Deadlock is checked in every run but the three of groups, where a part ends
when its bounded surroundings have nothing left to do, or when all processes
have exited.

### 3.1 `session`

| Part (`focus`) | Properties of the part | Bounds |
|---|---|---|
| daemon | `NoSquatter`, `OwnerServes`, `OneInTheEnd`, `QueryIsAnswered` | two processes, the second with `--replace`, both may crash, registration and proxy may fail; a third would wait behind them in the queue |
| tracker | `Settled` | both backends, two unread changes, so that one overtakes a call and one follows it |
| proxy | `Released`, `Watched` | two callers, three cookies: one caller has two; a stop |
| zone | `ZoneTold`, `ZoneKept` | three zones, of which two have the same data and one a name that is not accepted; two calls |
| calls | `Answered`, `NtpTold` | a queue of calls, a kill timer of one tick, hwclock there |
| idletime | `IdlenessIsReported`, `ActiveAgain` | as in `display` |
| slots | `KeysRun`, `NoneTaken` | two settings, three keys of which two clash in code between two layouts; three changes, starts and stops |
| super | `AloneRuns` | one other key and the button, eight presses, releases or grabs: the shortest case that the property excuses has eight |
| confirm | `Reverts`, `ConfirmationEnds` | two nested dialogs of two seconds, three saves, so that one may come before the trial, one in it and one after; a crash and a start |
| monitors | `Obeyed`, `NotDangling`, `ComesToRest` | three changes of settings, four commands under way |

### 3.2 `display`

| Part | Properties of the part | Bounds |
|---|---|---|
| idletime | `ActivityIsReported` | two alarms, timeouts 3 and 4, counter to 6 so that an adjusted timeout (6) still fires, four unread events |
| setups | `NeverBlack`, `LidFollowed` | a panel and a projector with a mode in common, four default settings, a framebuffer that holds both; the theorem is for any number of monitors and any size |
| orientation | `Upright`, `TouchTurned` | a panel that can be turned all ways and one that only can be upside down, two unread turns, four moves |
| delay | `Brightened` | two levels, two unread messages, four actions |
| colors | `ColorsFollow` | two outputs, two monitors, a profile with and one without a table, two changes in the middle of calls |
| store | `ProfilesKnown` | a directory in another, three files, two changes |
| edid | `OwnData` | blocks with and without each kind of field, read one after another |
| tablet, pens, pads | `TabletFollows`, `TurnsAddUp`, `PenKnown`, `KeysGoUp`, `ModesShown`, `LabelsGoOff` | a screen tablet and a plain one with three screens; three pens; two pads, one with a ring and one with two strips, of two modes each; one to three changes |
| plan, panel, phone | `PlanApplies`, `FilmsArePlayed`, `ShownIsThere`, `NeverBlack`, `PhoneListed` | a film's window and another, three plans of which one is the user's own, six actions; panels of both kinds and two numbers of levels; two phones |
| automount, autorun | `WaitsForUnlock`, `RunOnce`, `LockKnown`, `DialogsOfMounts`, `OneWindow`, `ShownIsDone` | two volumes plugged twice, two locks; two kinds of contents, two clicks in a dialog |
| saving, serving | `SavedWhole`, `RequestsServed`, `ServedWhole`, `FreedLast` | two applications, a target that is whole and one of two pieces; one more that was not saved; two savings |
| xsettings, modules | `Published`, `ChangesSeen`, `ShellAndFontsKnown`, `ModulesKnown` | one translated and one further setting, two changes; two modules, one by a switch, three seconds |
| access, apps, cursor | `Agree`, `TakenBack`, `ToolkitFollows`, `CursorKnown` | a number in range and one out of it, four changes on either side, two notices; three devices of which one is a touch screen |
| sound, remote, gconf, background | `NoOldSamples`, `AnimationsFit`, `GconfFollows`, `AccountShows`, `BlurTrue` | three to six actions each; three conversion files with four keys; three pictures |

### 3.3 `devices`

| Part | Properties of the part | Bounds |
|---|---|---|
| sources | `SourceFollows` | four lists, among them an engine IBus does not have; six changes, so that IBus leaves during a call and once more, or the plugin stops and starts; three calls |
| switcher, locate | `SwitchedOnce`, `TapsOnly`, `CirclesGo` | six key or button events |
| keys | `NumlockKept`, `OneSwitcher` | four changes, two unread key events, three processes |
| pointers | `PointersFollow`, `PointerLeft` | a touchpad, a mouse, a tablet kept by a custom command; five changes |
| grabs | `GrabsFollow` | a hard-coded key, a setting, two custom directories, two bindings; four changes |
| mixer, volume | `KeyActsOnSink`, `StepsCount` | two sinks, three indices; five levels, steps of two, four presses, so that both ends are met off the step |
| players | `KeysToLast` | two players on two connections, three calls under way |
| disks | `NotNagged`, `LowIsTold`, `StopsForGood` | two volumes, one period in three ticks, four events in dialogs |
| purge, thumbs | `YoungKept`, `LimitsKept` | a directory with two entries that changes once; two files, two limits |
| printers, cups | `ProblemsEnd`, `OneSubscription` | one printer, two reasons of which one is delayed, five events; two starts, two timers |
| newprinters, setup | `OwnerAnswers`, `QueueOrTold` | two sessions; two printers of which one does not tell its model, numbers to three, two drivers' programs |

Each bound was raised until the excused cases of the properties and all actions
came up: a run in which an action never fires, or in which a mutant stays
unnoticed, was too small.

### Fairness

* `PowerIdle!FairSpec`: weak fairness of the timer callbacks and of the
  inhibitor signal. GLib dispatches a source whose time has come, and D-Bus
  delivers what was sent. The callback for sleep has three outcomes and the
  one that changes nothing needs no fairness. Nothing is assumed of the user,
  of gnome-session's decisions, or of settings.
* `SettingsManager!FairSpec`: each key's notification is delivered.
* `Smartcard!FairSpec`: the thread goes on when it can (NSS returns a slot that
  changed, and a write goes on when there is room), `impl_activate` returns,
  and the main loop reads the pipe. Nothing is assumed of the user, and a
  thread may fail at any wait.
* `MC_Session!PartsSpec` has the fairness of its parts: each daemon process
  handles its inbox, and the bus and gnome-session answer what they were asked
  (crashes, signals and starting a process are not fair); the counter of
  IDLETIME grows while nobody uses the input, and the main loop reads its X
  events; the countdown of the dialog on top ticks or somebody answers it;
  xrandr commands end and changes of the screen are told of.
* `display` and `devices` have safety properties only and assume no fairness.

## 4. What is proved

TLAPS checks these for every value of the constants, under the `ASSUME`s of the
module (which TLC evaluates in each run).

| Theorem | Says |
|---|---|
| `SettingsDaemonProofs!TypeCorrect` | `Spec => []TypeOK` |
| `SettingsDaemonProofs!NobodySquats` | `Spec => []NoSquatter`, for any number of processes, whatever fails or crashes |
| `SettingsDaemonProofs!OwnersServe` | `Spec => []OwnerServes`, likewise |
| `PowerIdleProofs!TypeCorrect` | `Spec => []TypeOK` |
| `PowerIdleProofs!NoTimerIsStray` | `Spec => []NoStrayTimer`, whatever fails |
| `PowerIdleProofs!UserIsAwake` | `Spec => []AwakeForUser`, whatever fails |
| `PowerIdleProofs!SleepIsAllowed` | `Spec => SleepOnlyWhenIdle`, if IsInhibited calls do not fail |
| `PowerIdleProofs!PanelNotForgotten` | `Spec => []UserPanelKept`, if the panel can be set and the user moves it only while it is not dimmed |
| `PowerIdleProofs!KbdNotForgotten` | `Spec => []UserKbdKept`, if the keyboard can be set, is dimmed to more than 0, and the user leaves its keys alone |
| `PowerIdleProofs!EverythingRestored` | `Spec => []NormalIsRestored`, if only calls to gnome-session fail and the same of the user |
| `DisplayProofs!TypeCorrect` | `Spec => []TypeOK` |
| `DisplayProofs!ActivityHeard` | `Spec => []ActivityIsReported` for any alarms and timeouts, under `Prompt` |
| `PowerBatteryProofs!TypeCorrect` | `Spec => []TypeOK` |
| `PowerBatteryProofs!AcIsQuiet` | `Spec => []NoBatteryAlarmOnAc`, for any devices and order of signals |
| `PowerBatteryProofs!WarningsSaid` | `Spec => []WarningIsSaid`, with at most one battery, on-battery delivered first and thresholds below 100 |
| `SettingsManagerProofs!TypeCorrect` | `Spec => []TypeOK` |
| `SettingsManagerProofs!KeyIsFollowed` | `Spec => []FollowsKey`, for any files and keys |
| `SettingsManagerProofs!PluginsInOrder` | `Spec => []InOrder`, for any files, read in any order |
| `SmartcardProofs!TypeCorrect` | `Spec => []TypeOK` |
| `SmartcardProofs!RemovalsPaired` | `Spec => []RemovalsArePaired`, for any slots, cards and size of the pipe |
| `SmartcardProofs!ImplementsWatch` | `Spec => Watched`, that is `CardWatch`'s `Spec` |
| `SessionProofs!AllSettles` | `PartsSpec => []Settled` of `MC_Session`, for any lengths of queues and either backend |
| `SessionProofs!NobodyIsLeft` | `PartsSpec => []Released`, for any callers, clients and number of cookies |
| `SessionProofs!TrialsLeaveNoTrace` | `PartsSpec => []Reverts`, for any monitors, seconds, and numbers of dialogs and of saves |
| `SessionProofs!KeysAndZonesKept` | `PartsSpec => []KeysAndZones`: the zone's files, the grabbed shortcuts, Super alone, for any zones, settings, keys and layouts |
| `DisplayProofs!ScreensFollowed` | `ScreensSpec => []ScreensFollow`: monitors, rotation, idle dimming, plans for films, the panel's brightness and phones, for any monitors, modes, framebuffer, panels and plans |
| `UpkeepProofs!NothingIsLost` | `UpkeepSpec => []NothingLost`: full disks, purges, thumbnails, the CUPS subscription, gsd-printer's names and set-up, for any volumes, files and sessions |

The hypotheses are the ones under which the runs check the properties. A
keyboard that is dimmed to 0 cannot be told from one that is off. A user who
sets a dimmed panel has the level taken for the one dimmed from. With two
batteries the warnings are the composite's.

Of the constants the theorems use what the `ASSUME`s say, each with a reason in
the code. `ScreensAssumption`: default-monitors-setup has one of its four
values, a panel's levels go from 0 (from 0 or 1 with XRandR) to a larger natural
number, percentages go to 100, the plan for films is a plan, and what stands for
"no plan" and "no window" is none. `UpkeepAssumption`: volumes, files and
thumbnails are finite, files lie in a tree, times and sizes are natural
numbers, and the largest of the thumbnails' ages and sizes are above 0.
`PartsAssumption` of `MC_Session`: lengths and counts are natural numbers, what
stands for a missing or odd setting of the zone is no zone's name, `Unbound` is
no value of a shortcut's setting, and two keys that can be grabbed have
different codes in one layout.

* **SettingsDaemon.** The invariant is about the order in an inbox, since
  NameAcquired and NameLost are handled long after they were sent. `LostAfter`
  says that each NameAcquired that waits at a process without the name is
  followed by a NameLost (`Told`). The other parts say of each process that one
  that has not started or is gone waits for nothing (`Absent`), and the two
  properties themselves, which follow from `Told` when a message is taken. The
  queue for the name has nobody twice, so that leaving it is final.
* **PowerIdle.** Lemmas say what the sets of results contain (`SetPanel` yields
  levels, `ToggleKbd` yields keyboard states, and so on), what `SetMode`
  preserves, and what `Evaluate` does to the timers. `NoStrayTimer` is
  inductive together with `TypeOK`: `CancelTimers` removes the source whose id
  is known, so it removes every source only because no live source has lost
  its id. `AwakeForUser` is inductive because a session that stops being
  inactive sets NORMAL, and it does not depend on any call succeeding.
  `SleepIsAllowed` needs more than the guard of the callback. That idleness was
  not inhibited when the timer was armed says nothing about now: the
  invariant used is that while idleness is inhibited, either a signal is on its
  way or no sleep timer runs. With failing IsInhibited calls it does not hold,
  since a failure counts as "not inhibited". The levels have an invariant each:
  `PanelKept` and `KbdKept` tell for each mode where the user's level is, on the
  device or in one of the variables that save it. The keyboard has two of
  these, one for dimming and one for switching off, and the hard steps are the
  ones that go from one to the other. `Powered` adds the power of the screen
  for `EverythingRestored`.
* **IdleTime.** The loop that doubles a timeout is a recursive function, of which
  the proofs use that it grows until the loop's bound. `Armed` says that the
  server has a reset alarm exactly while the client believes so; `AllFresh` that
  no alarm's event is so old that the user could be idle again for as long,
  which is where `Prompt` is used; `Hearing` that a reset alarm still waits
  for input or has its event on the way.
* **PowerBattery.** `NoBatteryAlarmOnAc` is inductive by itself: a battery's
  announcement is ignored while the copy of on-battery is false, and the
  handler that makes it false stops the loop and closes the notice. `AllSaid`
  is `WarningIsSaid` on AC as well. With on-battery delivered first, a handler
  that would ignore a warning finds the battery charging or full, for which
  there is no warning.
* **SettingsManager.** `FollowsKey` is strengthened by a key invariant, which
  says of every listed plugin that its module belongs to a schema, that an
  active plugin has an object and is available, and that its activity is that
  of the key unless a notification is under way. `InOrder` rests on a fold
  over the files and on the stable sort after it. The library has no fact about
  what a fold yields that the provers can use. The proofs take a least
  counterexample instead, so they need no induction over a predicate.
* **Smartcard.** Lemmas about queues of messages say that a message at the end
  changes nothing before it, when a slot is in after a message more, and that
  handling the first message keeps what is so before each other one.
  `RemovalsArePaired` is about messages that are written, so the invariant adds
  `TrackedIsTold`: a card that the thread tracks has been told inserted, or
  will have been when the pipe is empty. That ends where the thread is about to
  crash, and `OffIsIdle` says that no thread is there before the start. The
  step theorem of `ImplementsWatch` rests on it: the removal at the head of the
  pipe is of a slot that was told inserted.
* **Session.** `PartMoves` lets one part of the group move, so each part has an
  invariant of its own. `ProxyInv` adds that only cookies that were handed out
  are held. `TrackerInv` says that the last message on its way is about the
  session as it is now, except for the change that logind's flush swallows.
  `ConfirmInv` says that while a trial is open exactly one thing will decide it
  (the call, the idle callback or one undecided dialog), that the other dialogs
  can do no harm, and that the backup is what the trial replaced. `MonitorsInv`
  says that the layout that is wanted is shown, or that its command is under
  way, or a notice of the screen. `ClockInv` says that a client that waits is
  queued or served, that nobody is queued twice, and that the time's script is
  where the call wants it before ntpd is told. `ConfirmInv` showed that `trial`
  had been wrong: accepting a dialog inside a disturbed trial made it count as
  undisturbed, which two saves are too few to reach; hence three.
  `ZoneInv` says which of the zone's files are written at each step (`Done`) and
  that what those name is the old zone or the new one (`Backed`), so that the
  search finds one of the two wherever the machine stops. `SlotsInv` says of each
  key that a slot has (`Good`) that no other slot has it, that it is bound once and
  that its code is grabbed, and that no further code is (`Covered`); keys that two
  settings had at once (`shared`) are left out, since the code loses those. What
  the start and the stop do for all slots is the value of a recursive function,
  of which a least slot where it were otherwise is refuted. `SuperInv` says that
  the events that are not read yet lead from the keys that were down to those
  that are (`Leads`) and what count and flag tell then (`Counts`). That proof
  showed that `AloneRuns` had been too strong. Super, L, release Super, press
  Super, grab, release L, end of the grab, release Super: that runs Super's
  command, since the release of L was swallowed (number 49 below). It takes
  eight events, and the run had had five.
* **Screens.** One part moves at a time, and each has an invariant. For the
  monitors, `SetupsInv` says that outputs without a monitor
  show nothing (`OnMonitors`), that a stored configuration lights a monitor of
  those it is stored for (`Filed`), and of each entry of the Fn-F7 list that it
  lights a monitor of those the list was made for, and not the panel besides
  others if the lid was closed then (`Cycled`); `Lit` and `Follows` are the two
  properties. A step is
  hard where it uses what was computed for another situation: the list after the
  lid moved, the file after it closed. What `sanitize` returns (`SanitizedIs`)
  rests on the n-th number of a finite set (`NthIs`), proved with a least number
  instead of an induction over a predicate. The proof showed that `NeverBlack`
  had been too strong: a setup that is
  trimmed to nothing may leave the screens black, which takes three monitors
  (number 34 below). `OrientationInv` and `DelayInv` are about the last message
  or call on its way: that one will bring what the sensor or the session says
  now, unless the history variable has the case that section 5 names. For plans,
  the two ways of replacing the user's plan exclude each other, and while either
  is in use the plan that was replaced is kept. `PanelInv` says that levels are in
  range (`InRange`), that each call and answer under way is about a step
  (`Shows`), and that one key is served at a time (`OneKey`). `PhoneInv` says which
  of a phone's three signals are still to come.
* **Upkeep.** `DisksInv` says through every nested main loop that what the user was
  told of a volume is noted, no earlier than it was told and with no more space
  (`Agree`). `PurgeInv` says that whatever is in the trash is below something that
  is there (`Closed`), and that what a purge has gone into was trashed long
  enough ago (`OldEnough`) or is empty but for its top (`Emptied`), and nothing
  comes into what is in the trash. How deep an entry is and which top it is below
  (`Depth`, `Top`) are recursive functions over the tree. `ThumbsInv` rests on
  lemmas about the sum of the sizes over a finite set, and on what is left when
  the oldest goes, one by one, until the rest fits (`FittedIs`, by a least
  counterexample). `CupsInv` says that CUPS has no subscription and the machine
  no handler but those the plugin knows of, and that a plugin that was stopped
  has neither, nor a timer that would subscribe anew. `NamesInv` says that
  whoever waits in the bus's queue for a name was robbed of it (`Orderly`).
  `QueuesInv` says that calls are served in the order they came (`InTurn`), and
  for each step of a set-up what was done before it (`Stages`).

Only model-checked:

* every liveness property (`OneInTheEnd`, `QueryIsAnswered`, `IdlenessKnown`,
  `ReactionsEnd`, `BlanksWhenIdle`, `SleepsWhenIdle`, `KeyIsObeyed`,
  `SettlesInTheEnd`): the prover has neither fairness nor ENABLED;
* the type invariants of the three groups (`PartsTypeOK`) as wholes: for the parts
  that a theorem is about, the proofs have what they need of it;
* of `MC_Display`, `ColorsAndTablets` and `OthersServed`;
* of `MC_Devices`, `DevicesFollow` and `KeysDone`.

`ActivityIsReported` is proved of `IdleTime`'s own `Spec`, which is the part
`idletime` of `display` and of `session`.

## 5. Disagreements between the code and what it says

Found while modelling. Numbers 1, 4 and 20 have a run whose counterexample
shows them; the others are told by the code's text, or appear when a constant of a
run is given another value, which is named, or are the cases that a property
excuses. They concern correctness, and are in the order of the components.

### 5.1 Daemon, power and smartcard

1. `P`:3357. `idle_evaluate` only arms timers. One that runs when the sleep
   timeout becomes 0, or when the power source changes to one whose timeout is
   0, still goes off. The schema says "A value of 0 means never."
   (`power_idle_never`)
2. `P`:3183. `idle_blank_cb` that fires while the session is inactive is
   ignored by `idle_set_mode`, and `timeout_blank_id` stays set, so the session
   is not blanked after it becomes active again. (`BlanksWhenIdle` of
   `power_idle_live` fails with `SessionStates = {ACTIVE, INACTIVE}`.)
3. `P`:1763. Plugging in during the 20 seconds before the critical action does
   not prevent it, although the notice promises that.
4. `gnome-settings-manager.c`:152. `emit_signal` ignores its argument and always
   sends PluginActivated. (`settings_manager_heard`)
5. `P`:3261. The comment says "try again in the same timeout", but
   `idle_sleep_cb` removes its own source. A later inhibitor signal arms it
   again, which is why `SleepsWhenIdle` holds all the same.
6. `P`:2654. The helper's exit status is dropped: a failed restore counts as
   success and the saved level is lost. (`UserPanelKept` fails with
   `PanelPath = "helper"`, `MayFail = {"panel"}`.)
7. `P`:2986. After a restore that failed and was noticed, the next dimming saves
   the dimmed level over the user's. (The same with `"xrandr"`.)
8. `P`:4144. A level set over D-Bus while the panel is dimmed is overwritten by
   the return to NORMAL. (`UserPanelKept` fails with `UserMay = {"adjust"}`.)
9. `P`:3146. A keyboard backlight that the user switched off is switched on by
   NORMAL, since user and policy share `kbd_brightness_old`. (`UserKbdKept`
   fails with `UserMay = {"toggle"}`.)
10. `P`:3019. If the dim level is 0, dimming a keyboard backlight that the lid
    switched off saves 0, and NORMAL restores that. (`UserKbdKept` fails with
    `DimKbd = 0`.)
11. `P`:2399. With the lid action "nothing" `do_lid_closed_action` returns before
    it asks whether the machine must sleep with its lid closed.
12. `gpm-idletime.c`:231. The missed alarm is looked for by comparing the counter
    with the threshold, which does not notice a user who came back and is idle
    again for as long. (`ActivityIsReported` fails with `Prompt = FALSE`.)
13. `gpm-idletime.c`:443. The reset alarm holds a reference to the object that
    only the object's finalizer drops, so the watcher survives its last user
    and goes on to emit signals. (`IdleTime!Stop` models that.)
14. `P`:1895. The warning is saved whether or not it was ignored. If on-battery
    arrives after the device signal the warning is never announced.
    (`WarningIsSaid` fails with `ClientFirst = FALSE`. With two batteries it
    also fails when the machine is plugged in while the composite's warning
    changes level and is unplugged again.)
15. `P`:1763. Each announcement of the critical action starts a countdown of its
    own, so the second may be cut short by the first.
16. `P`:446. The test for 13 percent comes after the one for 26 percent: a
    wireless mouse never becomes CRITICAL.
17. `gnome-settings-manager.c`:328. `_unload_plugin` deactivates only plugins that
    were enabled when they were loaded, not those enabled at run time.
18. `main.c`:418. During a replacement both processes run plugins until the old
    one has handled NameLost. `OneInTheEnd` is what does hold.
19. `main.c`:177. A query by gnome-session between the registration and the
    connection of the client proxy is not answered. (`QueryIsAnswered` fails
    with `EarlyQueries = TRUE`.)
20. `gsd-smartcard-plugin.c`:195. The setting is compared with "lock_screen" and
    "force_logout", but the enumeration spells its nicks with hyphens
    (`data/gsd-enums.h`:50), so no removal is ever acted on
    (`smartcard_removal`). With the spelling of the schema in
    `ConfiguredAction` the property holds.
21. `gsd-smartcard-manager.c`:1350. When cards came and went unseen, `key` is set
    to NULL and then removed from the table, which crashes in `slot_id_hash`.
    (`RemoveNoKey`)
22. `gsd-smartcard-manager.c`:843. The table gets the name of every slot, whether
    a card is in it or not. A login card that is pulled before the thread's
    first look counts as inserted, and its removal is never told.
23. `gsd-smartcard-manager.c`:1063. The thread frees its structure and closes
    neither end of the pipe: the main loop is not told, and deactivation uses
    the freed structure.
24. `P`:3757. `engine_settings_key_changed_cb` does not look at the keys
    "sleep-display-*": a timeout that is set while the machine is idle is not
    armed. (`BlanksWhenIdle` fails when `Configs` has one without blanking.)

### 5.2 Power: keys, plans, phone

25. `P`:2886-2889. The step down on XRandR adds 1, so with fewer than 40 levels,
    where a step is 1, the key never lowers the brightness, and raises it from
    0, while the window says "less than none". (`NeverBlack`, `ShownIsThere`)
26. `P`:4159-4162. A percentage of -1 is returned as an error with a NULL GError.
    `SetPercentage` of the percentage just read may lower the level, since both
    conversions round down. A call that waits when the plugin is stopped is not
    answered (4289).
27. `gsd-media-keys-manager.c`:1903. Keys pressed faster than their two calls are
    answered, or a slider between them, show "more than full" of a panel that is
    not full.
28. `P`:1216. The icon is made before the coldplug ends (1222): a client that
    reads it then is not told if the next icon equals the stale one. The
    composite's percentage is stale when a second battery is plugged.
29. `gpm-phone.c`. Coldplug does not work since the proxy is NULL then. A state
    heard before the number sets `present`, so the phone is never listed
    (`early`). A refresh reads into locals only (`P`:2014-2046).
30. `gsd-power-movie.c`. Its two flags are independent: leaving a window
    that was put in full screen while in front, or leaving full screen of one
    that came to the front so, takes the plan for films for the user's, and it
    stays (`mixed`). The flags survive a stop that frees `user_plan`. A change of
    full screen together with another is ignored (`changed_mask ==`), which
    inverts each later one. When one film's window follows another, the plan
    for films is saved as the user's. `i` is uninitialised in `power_setting_is_change`.
    A plan chosen while the plugin did not run is not applied at its start.

### 5.3 Screens

31. `gsd-orientation-manager.c`:319. The comment says that the panel is turned
    when the lock is opened, but `client_uevent_cb` returns before it stores the
    orientation while locked (`lost`).
32. `deepin_xrandr.c` deletes monitors.xml at each start, so what the comment at
    `gsd-xrandr-manager.c`:1988 says of a stored configuration never happens.
33. `gsd-xrandr-manager.c`:606. The countdown of a dialog stands still while a
    second one is shown in it. (`Nested` in `ConfirmationEnds`)
34. `gsd-xrandr-manager.c`:1076. The comparison for qsort takes pointers to pointers
    for the outputs, so which of them are turned off when they do not fit is
    undefined, and all may be. The comment at 1087 says "right-to-left until we
    find a size that fits", which would keep the panel at the left. (`NeverBlack`
    without its exception fails with a laptop and two monitors, each of width 2,
    and `FrameBuffer = 3`: Fn-F7 turns the laptop's panel off, the monitor that
    is on is exchanged for the other, and the setup for that one is trimmed to
    nothing, so that neither it nor the panel is turned on.)
    1256 leaves duplicates in the Fn-F7 list, and the list is stale after the
    lid moved (1394; `excused`). `only-monitor-shown` is not applied again.
35. `gsd-idle-delay-watcher.c` takes `StatusTextChanged` for a status (`garbled`). A
    `SetBrightness` call is overtaken by a change of the setting (`late`).
36. `gsd-color-manager.c`:1739. `threshold > since` is the reverse of the comment
    at 1711. Between the search for what is to be deleted and the deletion, it
    may be back and is lost (1342, 2007). A swapped monitor keeps the cached EDID
    (103). The profile of an unplugged primary output stays where the others have
    none (1115). Two monitors with one EDID share a device. The ramp divides by
    its size less one.
37. `gcm-edid.c`:344. The red y loses its two lowest bits; 395 uses byte 9 where
    the second gamma is in 14.
38. `gcm-profile-store.c`:182. The loop skips the neighbour of what it removes, and
    the prefix (184) also fits directories whose name starts the same. A file
    read while it is written is never read again.
39. `gsd-wacom-manager.c`. A key pressed before the window of labels opens is never
    released (1304, 1315). Stop gives `GdkDevice`s to
    `gsd_wacom_device_get_device_type` (1495), so pads stay grabbed. Without
    keep-aspect the user's area is reset at each start and screen change (396).
    `sizeof (map)` is of a pointer, so 8 buttons are reset (670). A rotation set
    by setting forgets the output's (785). `switch_monitor` does not get past a
    monitor without EDID (714).
40. `gsd-wacom-device.c`:241. `get_relative_rotation` adds rotations unless they are
    equal. Buttons 4-7 map to D, A, B, C though the comment at 1978 says
    otherwise (1979). A tablet with more modes than switches never reaches the
    rest. `device == NULL` is tested for xdevice (1884). A mapping that was refused
    because a button was down (451) is never tried again.
41. `gsd-wacom-osd-window.c`:1316. The weak reference of a closed window stays, so
    pulling the tablet uses a freed widget. The label's timer id is not cleared
    when it fires (342). Its rotation turns the other way than the manager's.
42. `background_helper.c`:269. A helper exits at once if another is at work, so the
    second of two quick pictures is never blurred. GNOME's URI is stored where a
    path is expected (`background_util.c`:319); the helper's exit status is
    failure also when it went well (238, 333); a picture that is in the list
    already is ignored when set in GNOME (315).

### 5.4 Input devices

43. `gsd-keyboard-manager.c`:199-226. If IBus leaves, or the plugin stops, while
    the list of engines is asked for, `fetch_ibus_engines_result` finishes the
    call on another bus object or on NULL (203). That gives neither a list nor an
    error, as far as the code looks at it (a libibus that asserts would end the
    daemon there, which is not modelled), so an empty table is installed (216). The
    next connection is refused its call ("engines shouldn't be there yet", 235),
    and no engine is set any more until IBus leaves once more.
    (`Keyboard!OvertakenListed`; without `~spoilt` `SourceFollows` fails.)
    `apply_xkb_settings` is
    never called. `KEY_NUMLOCK_STATE` written by another is ignored (1219). The
    switcher's process id may be of another process by the time of the kill
    (1188).
44. `common/gsd-input-helper.c`:489. An exit value of 1 keeps the device, says the
    comment; the wait status is compared with 1 (537), and is uninitialised if
    the command was not started.
45. `gsd-mouse-manager.c`:603. The end of an old syndaemon clears the flag of
    its successor. 1241 reads the enumeration of handedness as a boolean for
    tap-to-click. A mouse plugged and pulled before GDK reads leaves the touchpad
    off.
46. `gsd-media-keys-manager.c`. Ungrabbing a changed binding also drops the grab of
    another key that has it (527). Stop removes neither the idle callback (`late`)
    nor the watches of players (2609). One of two players on a connection is left
    behind (1441). Times of 32 bits wrap (1476), after which the comment at 1456
    fails. A device pressed before its sink exists counts as having none for good
    (1242; `blind`). Mute and Volume-Up in quick order leave the sink muted (1273).
    `do_toggle_contrast_action` passes theme names for formats (1811). The icon
    theme is not cleared at a start with HighContrast (2381).
47. `keybinder.c`:223. `keybinder_unbind` removes the newest binding of the key,
    whichever setting made it: of two settings with one key both lose it, and
    the other's command is freed memory (`shared`). The table said to be for
    detecting conflicts is not used.
48. `gsd-key-bindings-manager.c`. Changes are handled after a stop, and at the next
    start the new binding is unbound through the table's old entry.
    `keymap_changed` ungrabs the new codes, so the old ones stay grabbed
    (`moved`). A key that is not modified counts as grabbed although
    `grab_key_internal` refuses it.
49. `parse-super.c`. The right Super is recorded but never counted. The early
    return while the keyboard is grabbed leaves count and flag, so the next Super
    is lost (`swallowed`), and a release that falls into a grab lets a Super from
    which a key was released run its command. Super with L, then H with Super released first, runs
    its command. `key_table` is used by two threads without a lock.
50. `gsd-a11y-keyboard-manager.c`:356. The end of a replaced notification drops the
    new one, whose buttons do nothing then; a click on an old one undoes the newer
    shortcut (371). What is changed while its feature is off is never sent, and is
    overwritten at the next shortcut, as are values the server rounds (283, 546).
    Notices with event type 0 are ignored although the comment at 242 counts on
    them (660). Stop leaves the notification, whose answer then reads NULL
    settings (342). Options alone are not restored (754). One mask is put into the
    wrong field (251-313).
51. `gsd-cursor-manager.c`:321. Stop leaves the watches in the table; a start that
    failed leaves its handlers (306).

### 5.5 Session, disks, printers and the rest

52. `system-timezone.c`. The comment at 201 says that Gentoo has ZONE in
    `conf.d/clock`, the code writes TIMEZONE (463, 471). A zone with another
    character, as `Etc/GMT+5`, is set and never found (719). `/etc/localtime` is
    gone if the machine stops between unlink and symlink (822). The search for
    hard links compares inodes without the device (604).
53. `gsd-datetime-mechanism.c`. A relative name (510) and every successful
    `SetDate` (386) get no answer; the latter does not ask polkit.
    `adjust_time` reads the clock before polkit's dialog and sets it after (432).
    Calls about NTP and the hardware clock do not reset the kill timer, and exit
    statuses of commands are dropped (`silent`).
54. `gsd-disk-space.c`:404. `delete_subdir` does nothing for plain files, so only
    empty directories are ever purged, whatever the texts at 580 and 591 say.
    The dialog's Empty Trash is a dry run (490, 666). Privacy settings are not
    watched (1008). A volume that gets low while another notice is shown is noted
    and not told of (558, 772; `muted`). A stop in a dialog about changed mounts
    leaves a timer, with which the plugin refuses to start (936; `stray`).
    `ignore_paths` is freed twice (1064). A late "closed" drops the new notice
    (538). `gsd-ldsm-dialog.c`:164 reads one ignored path only.
55. `gsd-housekeeping-manager.c`:241. Without an age limit the total stays 0, and the
    size limit never applies; the products at 237 overflow for large limits.
56. `gsd-print-notifications-manager.c`. The closing loop skips the neighbour of what
    it closes (572; `together`). A problem can be closed by an older signal and
    never be told again. `tmp_printer_state_reasons` is read after it is freed
    (597). Stop leaves timers, subscriptions and the start's idle (1125), and with
    no printers each test adds a renewal timer (1009). A refused renewal is
    ignored.
57. `gsd-printer.c`:1124. A name that comes back from the bus's queue has no object
    (`robbed`). The error is not reset in `find_packages_for_executables` (211). A
    queue of the name counts as success though `PrinterAdd` failed (505).
58. `gsd-clipboard-manager.c`. Contents stay after a refused MULTIPLE (785), or when
    another took the clipboard first (763), and all later requests are refused
    (417; `kept`). The saver is not answered when the clipboard is taken during an
    incremental transfer (724). Data of two applications get mixed (334; `mixed`).
    A target that is not supported is answered as if it were (530). Watches stay
    (341).
59. `gsd-automount-manager.c`:194. `check_volume_queue` goes on from a freed node, so
    only the volume queued last is sure to be mounted. Volumes that appear between
    the saver and its answer are mounted while locked. The answer is read through
    whatever proxy there is (347). The start ignores lock and session.
60. `gsd-autorun.c`:275. Preferences are stored at once, so Cancel keeps them; a program
    chosen after "Open Folder" keeps the earlier flags (302); the flag is not set
    from what was preferred (754). With several kinds, the dialog of a mount that
    went during the guess stays (`orphans`). The greeting for Blu-Ray is out of
    reach (715).
61. `gsd-xsettings-manager.c`:637 says that the GTK+ part handles changes of the
    lists of modules; it connects nothing (`gsd-xsettings-gtk.c`:281). Directory
    times are whole seconds, modules of a removed directory stay (202). After a
    stop and a start with the shell there, applications are not told (727). Stop
    leaves the start's idle, whose callback then uses NULL (678, 972). An override
    of a type that is none keeps the old value (376). A selection lost later is
    not noticed (837), `terminated` being on the stack.
62. `gsd-sound-manager.c`:183. A flush that failed or was stopped is not tried again.
63. `gsd-remote-display-manager.c`. The cancellable is never made (132), stop does not
    unwatch the name (194), a restart adds a second watch and drops a proxy.
64. `gsd-gconf-manager.c`. Values are stored when they change, not at the start. A
    start that failed on a later file leaves its watchers (97). Of two files for
    a schema the last one's keys count (130). Integers of other widths are read as
    32 bits (95).

## 6. Plan

What is left, in this order; no RECURSIVE operator in a module with theorems.

1. Proofs: `DevicesFollow`, `KeysDone`, `OthersServed` and `ColorsAndTablets`,
   with an invariant for each part, and the `PartsTypeOK` of the groups.
2. `PowerManager`: composition of `PowerIdle`, `IdleTime` and `PowerBattery`
   with the lifecycle of the plugin (start, stop, proxies that arrive late).
   `PowerIdle` with its nondeterministic idle alarms is the abstract
   specification that the composition implements.
3. `DaemonWithPlugins`: `SettingsDaemon` with one `SettingsManager` for each
   process; `managing` is refined to a phase of the manager.
4. The policy by remaining time, several modules in `Smartcard`, and scrolling
   and syndaemon in `Mouse`.
