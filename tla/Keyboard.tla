------------------------------ MODULE Keyboard ------------------------------
(* The keyboard plugin and the processes next to it: input sources, the    *)
(* switcher that changes them with modifiers alone, and the state of       *)
(* NumLock.                                                                *)
EXTENDS Naturals, Sequences, SequencesExt, Integers, Functions

-----------------------------------------------------------------------------
(***************************************************************************)
(* The input source the user types with (gsd-keyboard-manager.c, with      *)
(* IBus): the settings name the sources and the current one, IBus is       *)
(* started when it is first needed, asked for its engines, and told which  *)
(* one to use.  All of that is asynchronous, and IBus may go away.         *)
(*                                                                         *)
(* A cancelled call for the list is still answered, at any later moment,   *)
(* and its callback works with the bus there is by then.  A bus that was   *)
(* dropped sends no signals.                                               *)
(* Layouts of the server are set from other settings, without delay.       *)
(***************************************************************************)
CONSTANTS
  Engines,    \* the engines IBus has
  SourceLists,\* lists of sources the user may set: "xkb" or engines
  OldLists,   \* what libgnomekbd and IBus have stored, as such lists
  SystemLists,\* what localed and the locale make of it
  MaxCalls,   \* bound on the engines IBus is still to set
  SourceChanges  \* bound on the changes made by others

VARIABLES
  sources, current,  \* the settings
  module,    \* gtk-im-module
  localed,   \* "asked", "ready" or "stopped"
  bus,       \* priv->ibus: "none", "new" or "connected"
  engines,   \* ibus_engines: "none" (NULL), "empty" or "known"
  listing,   \* the bus has been asked for the list of engines
  overtaken, \* calls for the list that buses dropped meanwhile still answer
  spoilt,    \* the table is made of such an answer (history)
  wire,      \* the engines IBus is asked to set, in this order
  global,    \* its global engine
  failed,    \* the last request to set an engine failed (history)
  changes

sourceVars == <<sources, current, module, localed, bus, engines, listing, overtaken,
                spoilt, wire, global, failed, changes>>

Known == {"xkb"} \cup Engines
Listed == UNION {ToSet(list) : list \in SourceLists \cup OldLists \cup SystemLists}

SourceTypeOK ==
  /\ sources \in Seq(Listed) /\ current \in Nat /\ module \in {"ibus", "simple"}
  /\ localed \in {"asked", "ready", "stopped"}
  /\ {listing, spoilt, failed} \subseteq BOOLEAN /\ engines \in {"none", "empty", "known"}
  /\ bus \in {"none", "new", "connected"} /\ wire \in Seq(Known)
  /\ global \in Known \cup {"none"} /\ changes \in 0..SourceChanges
  /\ overtaken \in 0..SourceChanges
  /\ engines = "known" \/ listing => bus = "connected"
  /\ ~(engines = "known" /\ listing)

SourceInit ==
  /\ sources \in SourceLists /\ current = 0 /\ module \in {"ibus", "simple"}
  /\ localed = "asked" /\ bus = "none" /\ engines = "none" /\ listing = FALSE
  /\ overtaken = 0 /\ spoilt = FALSE
  /\ wire = <<>> /\ global = "none" /\ failed = FALSE /\ changes = 0

SourceChange == changes < SourceChanges /\ changes' = changes + 1
Running == localed # "stopped"

NeedIbus(list) == \E n \in DOMAIN list : list[n] # "xkb"    \* need_ibus
Source(list, at) == list[at + 1]

\* Bug: the engines are not forgotten with the connection.
ClearIbusPartly == bus' = "none" /\ listing' = FALSE /\ UNCHANGED engines

\* clear_ibus; what was asked for is cancelled, but IBus may have it already.
ClearIbus == bus' = "none" /\ engines' = "none" /\ listing' = FALSE

\* A call for the list that is under way outlives its bus.
Overtake ==
  /\ overtaken' = IF listing THEN overtaken + 1 ELSE overtaken
  /\ spoilt' = FALSE

\* Bug: the current source is left where it was.
ClampedNot(list, at) == at

\* The current source, moved into the list as the second call does that
\* setting it leads to.
Clamped(list, at) == IF at >= Len(list) THEN Len(list) - 1 ELSE at

\* apply_input_sources_settings: maybe_start_ibus, set_gtk_im_module, and
\* set_ibus_engine or set_ibus_xkb_engine if the engine is known by now.
Apply(list, at, known) ==
  IF list = <<>> THEN current' = at /\ UNCHANGED <<module, bus, wire>>
  ELSE LET now == Clamped(list, at)
           source == IF now < Len(list) THEN Source(list, now) ELSE "none"
           sets == known /\ source \in Known
       IN /\ current' = now
          /\ bus' = IF bus = "none" THEN "new" ELSE bus
          /\ module' = IF source = "xkb"
                         THEN IF NeedIbus(list) THEN "ibus" ELSE "simple"
                       ELSE IF sets THEN "ibus" ELSE module
          /\ Len(wire) < MaxCalls
          /\ wire' = IF sets THEN Append(wire, source) ELSE wire

-----------------------------------------------------------------------------
(* Settings                                                                *)

\* The user changes the list ("change-event").
ListChanged ==
  /\ SourceChange /\ sources' \in SourceLists \ {sources}
  /\ IF Running THEN Apply(sources', current, engines = "known")
                ELSE UNCHANGED <<current, module, bus, wire>>
  /\ UNCHANGED <<localed, engines, listing, overtaken, spoilt, global, failed>>

\* do_switch of gsd-input-sources-switcher, another process, or the keys
\* of the media-keys plugin.
Switch ==
  /\ SourceChange /\ Len(sources) > 1
  /\ LET next == IF current + 1 >= Len(sources) THEN 0 ELSE current + 1
     IN IF Running THEN Apply(sources, next, engines = "known")
                   ELSE current' = next /\ UNCHANGED <<module, bus, wire>>
  /\ UNCHANGED <<sources, localed, engines, listing, overtaken, spoilt, global, failed>>

\* device_added_cb: a keyboard is plugged in.
KeyboardAdded ==
  /\ SourceChange /\ Running /\ Apply(sources, current, engines = "known")
  /\ UNCHANGED <<sources, localed, engines, listing, overtaken, spoilt, global, failed>>

\* The layouts of a list.  They are stored, and applied, before its engines are
\* added (get_sources_from_xkb_config, convert_libgnomekbd_layouts).
Layouts(list) == SelectSeq(list, LAMBDA source : source = "xkb")

\* maybe_create_initial_settings: old settings are converted, and if that
\* makes no list either, the system's is taken.  Under GDM the list is always
\* made anew, of the system's layouts.
InitialLists ==
  {Layouts(system) : system \in SystemLists} \cup
  IF sources # <<>> THEN {sources}
  ELSE {IF old # <<>> THEN old ELSE system : old \in OldLists, system \in SystemLists}

\* localed_proxy_ready.  Without localed nothing is converted.
LocaledReady ==
  /\ localed = "asked" /\ localed' = "ready"
  /\ \E list \in InitialLists \cup {sources} :
       LET first == IF list = sources THEN <<>> ELSE Layouts(list)
           at == IF first = <<>> THEN current ELSE Clamped(first, current)
       IN sources' = list /\ Apply(list, at, engines = "known")
  /\ UNCHANGED <<engines, listing, overtaken, spoilt, global, failed, changes>>

\* gsd_keyboard_manager_stop
SourceStop ==
  /\ SourceChange /\ Running /\ localed' = "stopped" /\ ClearIbus /\ Overtake
  /\ UNCHANGED <<sources, current, module, wire, global, failed>>

\* gsd_keyboard_manager_start and its idle callback, not before IBus has
\* handled what the plugin asked for when it ran last.
SourceStart ==
  /\ SourceChange /\ localed = "stopped" /\ wire = <<>> /\ localed' = "asked"
  /\ UNCHANGED <<sources, current, module, bus, engines, listing, overtaken, spoilt,
                 wire, global, failed>>

-----------------------------------------------------------------------------
(* IBus                                                                    *)

\* "connected": fetch_ibus_engines, which refuses if there is a table.
Connected ==
  /\ bus = "new" /\ bus' = "connected" /\ listing' = (engines = "none")
  /\ UNCHANGED <<sources, current, module, localed, engines, overtaken, spoilt, wire,
                 global, failed, changes>>

\* Bug: the current source is not looked at again.
EnginesListedOnly ==
  /\ listing /\ listing' = FALSE
  /\ engines' = IF engines = "none" THEN "known" ELSE engines
  /\ UNCHANGED <<sources, localed, overtaken, spoilt, global, failed, changes, current,
                 module, bus, wire>>

\* fetch_ibus_engines_result: "we'll be called again when ibus is up and
\* running".  It refuses if there is a table.
EnginesListed ==
  /\ listing /\ listing' = FALSE
  /\ IF engines = "none" THEN engines' = "known" /\ Apply(sources, current, TRUE)
     ELSE UNCHANGED <<engines, current, module, bus, wire>>
  /\ UNCHANGED <<sources, localed, overtaken, spoilt, global, failed, changes>>

\* fetch_ibus_engines_result for a bus that was dropped: finished on the bus
\* there is now, or on none, the call gives neither a list nor an error, and
\* the table that is made of it is empty.  After a stop there are no settings
\* to apply.
OvertakenListed ==
  /\ overtaken > 0 /\ overtaken' = overtaken - 1
  /\ IF engines = "none" THEN engines' = "empty" /\ spoilt' = TRUE
     ELSE UNCHANGED <<engines, spoilt>>
  /\ IF engines = "none" /\ Running THEN Apply(sources, current, FALSE)
     ELSE UNCHANGED <<current, module, bus, wire>>
  /\ UNCHANGED <<sources, localed, listing, global, failed, changes>>

\* fetch_ibus_engines_result: the list cannot be had.
ListFails ==
  /\ listing /\ SourceChange
  /\ IF engines = "none" THEN ClearIbus
     ELSE listing' = FALSE /\ UNCHANGED <<bus, engines>>
  /\ UNCHANGED <<sources, current, module, localed, overtaken, spoilt, wire, global,
                 failed>>

\* IBus goes away ("disconnected"): clear_ibus.
IbusFails ==
  /\ bus = "connected" /\ SourceChange /\ ClearIbus /\ Overtake /\ wire' = <<>>
  /\ global' \in {global, "none"}
  /\ UNCHANGED <<sources, current, module, localed, failed>>

\* IBus handles a request, cancelled or not: set_ibus_engine_finish.
EngineSet ==
  /\ wire # <<>> /\ wire' = Tail(wire)
  /\ \/ global' = Head(wire) /\ failed' = FALSE
     \/ failed' = TRUE /\ UNCHANGED global
  /\ UNCHANGED <<sources, current, module, localed, bus, engines, listing, overtaken,
                 spoilt, changes>>

SourceNext ==
  \/ ListChanged \/ Switch \/ KeyboardAdded \/ LocaledReady
  \/ SourceStop \/ SourceStart \/ Connected \/ EnginesListed \/ OvertakenListed
  \/ ListFails \/ IbusFails \/ EngineSet

SourceSpec == SourceInit /\ [][SourceNext]_sourceVars

-----------------------------------------------------------------------------
(* SourceFollows: once IBus is connected and nothing is under way, its     *)
(* engines are known, and its engine and GTK's input module are those of   *)
(* the current source, whatever was changed while IBus was started or      *)
(* asked, and however often it left or the plugin was stopped before.      *)
(* Engines that it does not have and calls that fail are excepted.  So is  *)
(* a table made of the late answer of a call that a departure or a stop    *)
(* has overtaken: the code sets no engine with it, until IBus leaves once  *)
(* more and all is well again.                                             *)
SourceFollows ==
  /\ Running /\ bus = "connected" /\ ~listing /\ wire = <<>> /\ ~failed
  /\ sources # <<>> /\ ~spoilt
  => /\ engines = "known" /\ current < Len(sources)
     /\ LET source == Source(sources, current) IN
          source \in Known => /\ global = source
                              /\ (module = "ibus") = NeedIbus(sources)

-----------------------------------------------------------------------------
(***************************************************************************)
(* Switching the input source with modifiers alone, as Alt+Shift           *)
(* (gsd-input-sources-switcher.c, gsd-keygrab.c).  The process grabs the   *)
(* keys synchronously: when they complete a combination the keyboard is    *)
(* frozen until its filter has seen the event, and goes on key by key.     *)
(* Only if the next event releases one of the keys, the source is          *)
(* switched; any other event is replayed to the clients.                   *)
(*                                                                         *)
(* The X server is modelled as far as grabs go.  A key stands for all      *)
(* keys of its keysym; Lock and NumLock are ignored by grabs and matches.  *)
(* Clicks are frozen only by the grab of the buttons, keys by both.        *)
(***************************************************************************)
CONSTANTS
  Options,  \* values of input-sources-switcher
  Others,   \* keys that no option uses
  MaxWait,  \* bound on what the user does ahead of the server
  MaxInput  \* bound on all the user does

VARIABLES
  option,   \* the_keys have been made for this value
  held,     \* keys that are down, for the server
  queue,    \* the user's input that the server has not processed
  grabbed,  \* the keyboard is grabbed by the process
  frozen,   \* until the filter has seen the event
  buttons,  \* all buttons are grabbed as well
  seen,     \* what the filter is to see
  lock,     \* Caps Lock
  complete, \* the last event completed the combination (for the property)
  owed,     \* switches asked for and not done
  missing,  \* presses and clicks that no client has got
  input

switcherVars == <<option, held, queue, grabbed, frozen, buttons, seen, lock,
                  complete, owed, missing, input>>

Modifiers == {"shift", "alt", "ctrl"}
Keys == Modifiers \cup {"caps"} \cup Others

Pressed(key) == [type |-> "press", key |-> key]
Released(key) == [type |-> "release", key |-> key]
Click == [type |-> "click", key |-> "none"]
Inputs == {Pressed(k) : k \in Keys} \cup {Released(k) : k \in Keys}

SwitcherTypeOK ==
  /\ option \in Options /\ held \in SUBSET Keys /\ queue \in Seq(Inputs)
  /\ {grabbed, frozen, buttons, lock, complete} \subseteq BOOLEAN
  /\ Len(seen) <= 2 /\ frozen = (seen # <<>>)
  /\ \A n \in DOMAIN seen : seen[n].event \in Inputs \cup {Click}
         /\ seen[n].state \subseteq Modifiers
  /\ owed \in Int /\ missing \in Int /\ input \in 0..MaxInput
  /\ buttons => grabbed

\* init_keys: keysym and state of the keys of an option.
TheKeys(value) ==
  CASE value = "shift" -> {[keysym |-> "shift", state |-> {}]}
    [] value = "alt-shift" -> {[keysym |-> "shift", state |-> {"alt"}],
                               [keysym |-> "alt", state |-> {"shift"}]}
    [] value = "caps" -> {[keysym |-> "caps", state |-> {}]}
IncludesCaps(value) == value = "caps"

SwitcherInit ==
  /\ option \in Options /\ held = {} /\ queue = <<>>
  /\ grabbed = FALSE /\ frozen = FALSE /\ buttons = FALSE
  /\ seen = <<>> /\ lock = FALSE /\ complete = FALSE
  /\ owed = 0 /\ missing = 0 /\ input = 0

\* grab_key: the server looks for a grab of this key with these modifiers.
Grabs(key, state) == [keysym |-> key, state |-> state] \in TheKeys(option)

\* Bug: the state is compared as it is for presses.
MatchModifierPlain(key, event, state) ==
  key.keysym = event.key /\ state = key.state

\* match_modifier: at its release, a modifier is part of the state.
MatchModifier(key, event, state) ==
  /\ key.keysym = event.key
  /\ state = IF event.type = "release" THEN key.state \cup ({event.key} \cap Modifiers)
             ELSE key.state

MatchesKey(event, state) ==
  \E key \in TheKeys(option) : MatchModifier(key, event, state)

-----------------------------------------------------------------------------
(* The user and the server                                                 *)

\* Keys as the user has them, with all that is still in the queue.
After(down, events) ==
  {k \in Keys : LET own == SelectSeq(events, LAMBDA e : e.key = k) IN
                  IF own = <<>> THEN k \in down ELSE Last(own).type = "press"}

Input ==
  /\ input < MaxInput /\ input' = input + 1 /\ Len(queue) < MaxWait
  /\ \E event \in Inputs :
       /\ (event.type = "press") = (event.key \notin After(held, queue))
       /\ queue' = Append(queue, event)
  /\ UNCHANGED <<option, held, grabbed, frozen, buttons, seen, lock, complete, owed,
                 missing>>

\* A click goes to the process if that has grabbed the buttons.
ClickButton ==
  /\ input < MaxInput /\ input' = input + 1 /\ ~\E n \in DOMAIN seen : seen[n].event = Click
  /\ buttons
  /\ seen' = Append(seen, [event |-> Click, state |-> {}]) /\ frozen' = TRUE
  /\ missing' = missing + 1 /\ complete' = FALSE
  /\ UNCHANGED <<option, held, queue, grabbed, buttons, lock, owed>>

IsPress(event) == event.type \in {"press", "click"}

\* What the user asks for: the keys of the option together, then one of them
\* let go.  Caps switches at once.
Completes(event, state) == event.type = "press" /\ Grabs(event.key, state)
Asked(event, state) ==
  \/ IncludesCaps(option) /\ Completes(event, state)
  \/ complete /\ event.type = "release" /\ event.key \in {k.keysym : k \in TheKeys(option)}

\* The server processes the next event, which is frozen for the process or
\* goes to the clients.
ServerHandles ==
  /\ ~frozen /\ queue # <<>> /\ queue' = Tail(queue)
  /\ LET event == Head(queue)
         state == held \cap Modifiers
         taken == grabbed \/ Completes(event, state)
     IN /\ held' = IF event.type = "press" THEN held \cup {event.key}
                   ELSE held \ {event.key}
        /\ lock' = IF event = Pressed("caps") THEN ~lock ELSE lock
        /\ frozen' = taken
        /\ seen' = IF taken THEN <<[event |-> event, state |-> state]>> ELSE <<>>
        /\ grabbed' = (grabbed \/ Completes(event, state))
        /\ missing' = IF IsPress(event) /\ taken THEN missing + 1 ELSE missing
        /\ owed' = IF Asked(event, state) THEN owed + 1 ELSE owed
        /\ complete' = (Completes(event, state) /\ ~IncludesCaps(option))
  /\ UNCHANGED <<option, buttons, input>>

-----------------------------------------------------------------------------
(* The process                                                             *)

DoSwitch == owed' = owed - 1
UngrabDevice == grabbed' = FALSE

\* Bug: the event is dropped with the grab.
ReplayedNot(event) == 0

\* XIReplayDevice gives the event to the clients.
Replayed(event) == IF IsPress(event) THEN 1 ELSE 0

\* filter.  A press that completes a combination is not replayed; it is a
\* modifier, which a client has no use for.
Filter ==
  /\ seen # <<>> /\ seen' = Tail(seen) /\ frozen' = (seen' # <<>>)
  /\ LET event == seen[1].event
         matches == event.type # "click" /\ MatchesKey(event, seen[1].state)
     IN \/ /\ matches /\ event.type = "press" /\ IncludesCaps(option)
           /\ DoSwitch /\ UngrabDevice /\ lock' = FALSE
           /\ missing' = missing - 1 /\ UNCHANGED buttons
        \/ /\ matches /\ event.type = "press" /\ ~IncludesCaps(option)
           /\ buttons' = TRUE
           /\ missing' = missing - 1 /\ UNCHANGED <<grabbed, lock, owed>>
        \/ /\ matches /\ event.type = "release"
           /\ DoSwitch /\ UngrabDevice /\ buttons' = FALSE
           /\ UNCHANGED <<lock, missing>>
        \/ /\ ~matches /\ UngrabDevice /\ buttons' = FALSE
           /\ missing' = missing - Replayed(event)
           /\ UNCHANGED <<lock, owed>>
  /\ UNCHANGED <<option, held, queue, complete, input>>

SwitcherNext == Input \/ ClickButton \/ ServerHandles \/ Filter
SwitcherSpec == SwitcherInit /\ [][SwitcherNext]_switcherVars

-----------------------------------------------------------------------------
(* SwitchedOnce: once all input has been seen, there was one switch for    *)
(* each time the keys were pressed together and let go with nothing in     *)
(* between, and none for a shortcut or a click that uses them (a click     *)
(* once the buttons are grabbed); the clients have got all other keys, and *)
(* nothing stays frozen or grabbed unless the combination is still held.   *)
SwitchedOnce ==
  queue = <<>> /\ seen = <<>> =>
    /\ owed = 0 /\ missing = 0
    /\ grabbed = complete /\ buttons = complete

-----------------------------------------------------------------------------
(***************************************************************************)
(* What the keyboard plugin keeps beside the input sources                 *)
(* (gsd-keyboard-manager.c): NumLock, which it remembers from the server's *)
(* events and restores, and the process that switches sources with         *)
(* modifiers, started and stopped as its setting changes.  Events of the   *)
(* server, signals and the starts of processes take their time.            *)
(***************************************************************************)
CONSTANTS
  Switchers,  \* values of input-sources-switcher, "off" among them
  MaxEvents,  \* bound on events that have not been read
  MaxPids,    \* bound on processes started
  KeyChanges  \* bound on the changes made by others

VARIABLES
  phase,     \* "stopped", "idle" (the idle callback is due) or "started"
  remember, saved,  \* settings: remember-numlock-state, numlock-state
  lockOld,       \* priv->old_state
  keysLock,      \* NumLock in the server
  xkb,       \* its events that have not been read
  reported,  \* an event was read or the state restored since the start
  switcher,  \* setting: input-sources-switcher
  spawned,   \* input_sources_switcher_pid, 0 if not spawned
  procs,     \* the processes: what each grabs, "new" until it has looked
  signals,   \* SIGHUPs on their way
  last,      \* the last pid
  keysChanges

lockVars == <<phase, remember, saved, lockOld, keysLock, xkb, reported, switcher,
              spawned, procs, signals, last, keysChanges>>

Locks == {"on", "off"}

LockTypeOK ==
  /\ phase \in {"stopped", "idle", "started"} /\ {remember, reported} \subseteq BOOLEAN
  /\ {saved, lockOld} \subseteq Locks \cup {"unknown"} /\ keysLock \in Locks
  /\ xkb \in Seq(Locks) /\ switcher \in Switchers
  /\ DOMAIN procs \subseteq 1..MaxPids
  /\ \A pid \in DOMAIN procs : procs[pid] \in (Switchers \ {"off"}) \cup {"new"}
  /\ spawned \in 0..MaxPids /\ signals \subseteq 1..MaxPids
  /\ last \in 0..MaxPids /\ keysChanges \in 0..KeyChanges
  /\ phase # "started" => spawned = 0

LockInit ==
  /\ phase = "stopped" /\ remember \in BOOLEAN /\ saved \in Locks \cup {"unknown"}
  /\ lockOld = "unknown" /\ keysLock \in Locks /\ xkb = <<>> /\ reported = FALSE
  /\ switcher \in Switchers /\ spawned = 0 /\ procs = <<>> /\ signals = {}
  /\ last = 0 /\ keysChanges = 0

LockChange == keysChanges < KeyChanges /\ keysChanges' = keysChanges + 1

-----------------------------------------------------------------------------
(* NumLock                                                                 *)

\* The server sets NumLock, and says so if that changes it.
Lock(state) ==
  /\ keysLock' = state /\ Len(xkb) < MaxEvents
  /\ xkb' = IF state = keysLock THEN xkb ELSE Append(xkb, state)

\* numlock_set_xkb_state: an unknown state is not set.
SetXkbState(state) ==
  IF state \in Locks THEN Lock(state) ELSE UNCHANGED <<keysLock, xkb>>

\* apply_numlock
ApplyNumlock(keep) ==
  /\ lockOld' = saved
  /\ IF keep THEN SetXkbState(saved) ELSE UNCHANGED <<keysLock, xkb>>
  /\ reported' = (keep /\ saved \in Locks)

PressNumlock ==
  /\ LockChange /\ Lock(IF keysLock = "on" THEN "off" ELSE "on")
  /\ UNCHANGED <<phase, remember, saved, lockOld, reported, switcher, spawned,
                 procs, signals, last>>

\* "remember-numlock-state" changes.
RememberChanged ==
  /\ LockChange /\ remember' = ~remember
  /\ IF phase = "started" THEN ApplyNumlock(remember')
                          ELSE UNCHANGED <<lockOld, keysLock, xkb, reported>>
  /\ UNCHANGED <<phase, saved, switcher, spawned, procs, signals, last>>

\* Bug: the old state is the one that was saved at the start.
OldAfterStart(state) == lockOld

OldAfter(state) == state

\* xkb_events_filter, where it is installed.
XkbEvent ==
  /\ xkb # <<>> /\ xkb' = Tail(xkb)
  /\ IF phase = "started"
       THEN LET state == Head(xkb) IN
              /\ saved' = IF state # lockOld THEN state ELSE saved
              /\ lockOld' = OldAfter(state) /\ reported' = TRUE
       ELSE UNCHANGED <<saved, lockOld, reported>>
  /\ UNCHANGED <<phase, remember, keysLock, switcher, spawned, procs, signals, last,
                 keysChanges>>

-----------------------------------------------------------------------------
(* The switcher's process                                                  *)

\* Bug: a process that runs already is forgotten.
ForgottenFirst == {}

\* set_input_sources_switcher calls itself to end the process before.
Forgotten == IF spawned # 0 THEN {spawned} ELSE {}

\* set_input_sources_switcher (TRUE); it may fail to spawn.
SpawnSwitcher ==
  /\ signals' = (signals \cup Forgotten) \cap DOMAIN procs
  /\ \/ /\ last < MaxPids /\ last' = last + 1 /\ spawned' = last'
        /\ procs' = [pid \in DOMAIN procs \cup {last'} |->
                       IF pid = last' THEN "new" ELSE procs[pid]]
     \/ spawned' = 0 /\ UNCHANGED <<procs, last>>

\* set_input_sources_switcher (FALSE)
KillSwitcher ==
  /\ signals' = (signals \cup Forgotten) \cap DOMAIN procs
  /\ spawned' = 0 /\ UNCHANGED <<procs, last>>

SetSwitcher(value) == IF value = "off" THEN KillSwitcher ELSE SpawnSwitcher

SwitcherChanged ==
  /\ LockChange /\ switcher' \in Switchers \ {switcher}
  /\ IF phase = "started" THEN SetSwitcher(switcher')
                          ELSE UNCHANGED <<spawned, procs, signals, last>>
  /\ UNCHANGED <<phase, remember, saved, lockOld, keysLock, xkb, reported>>

Without(pid) == Restrict(procs, DOMAIN procs \ {pid})

\* init_keys of the process: it takes the setting as it is by now, and exits
\* if there is no shortcut.
InitKeys(pid) ==
  /\ pid \in DOMAIN procs /\ procs[pid] = "new"
  /\ IF switcher = "off" THEN procs' = Without(pid) /\ signals' = signals \ {pid}
     ELSE procs' = [procs EXCEPT ![pid] = switcher] /\ UNCHANGED signals
  /\ UNCHANGED <<phase, remember, saved, lockOld, keysLock, xkb, reported, switcher,
                 spawned, last, keysChanges>>

HangUp(pid) ==
  /\ pid \in signals /\ procs' = Without(pid) /\ signals' = signals \ {pid}
  /\ UNCHANGED <<phase, remember, saved, lockOld, keysLock, xkb, reported, switcher,
                 spawned, last, keysChanges>>

-----------------------------------------------------------------------------
(* The manager                                                             *)

\* gsd_keyboard_manager_start
Start ==
  /\ phase = "stopped" /\ LockChange /\ phase' = "idle"
  /\ UNCHANGED <<remember, saved, lockOld, keysLock, xkb, reported, switcher,
                 spawned, procs, signals, last>>

\* start_keyboard_idle_cb
StartIdle ==
  /\ phase = "idle" /\ phase' = "started"
  /\ ApplyNumlock(remember) /\ SetSwitcher(switcher)
  /\ UNCHANGED <<remember, saved, switcher, keysChanges>>

\* gsd_keyboard_manager_stop; a manager is not stopped before its idle
\* callback here.
LockStop ==
  /\ phase = "started" /\ LockChange /\ phase' = "stopped" /\ KillSwitcher
  /\ UNCHANGED <<remember, saved, lockOld, keysLock, xkb, reported, switcher>>

LockNext ==
  \/ PressNumlock \/ RememberChanged \/ XkbEvent
  \/ SwitcherChanged \/ \E pid \in 1..MaxPids : InitKeys(pid) \/ HangUp(pid)
  \/ Start \/ StartIdle \/ LockStop
LockSpec == LockInit /\ [][LockNext]_lockVars

-----------------------------------------------------------------------------
(* NumlockKept: once all events are read, the state that is saved for the  *)
(* next session is the server's, if a change was reported since the start  *)
(* or the saved state was restored then.                                   *)
NumlockKept == phase = "started" /\ xkb = <<>> /\ reported => saved = keysLock

(* OneSwitcher: once signals have arrived and processes have looked, at    *)
(* most one process listens for the keys, the ones the setting names, and  *)
(* none does when the setting is off or the plugin stopped.                *)
OneSwitcher ==
  signals = {} /\ (\A pid \in DOMAIN procs : procs[pid] # "new") =>
    \A pid \in DOMAIN procs : pid = spawned /\ procs[pid] = switcher
=============================================================================
