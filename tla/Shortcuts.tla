----------------------------- MODULE Shortcuts ------------------------------
(* Commands of keys: the shortcuts of the settings, and the key Super when *)
(* it is pressed alone.                                                    *)
EXTENDS Integers, Sequences, FiniteSetsExt, SequencesExt

-----------------------------------------------------------------------------
(* The shortcuts of the settings key1, key2, ...: a table of what each        *)
(* setting binds, the list of bindings, and the grabs of key codes.  The key  *)
(* Super alone is not grabbed; another thread looks it up in a record.        *)
CONSTANTS
  Slots,            \* number of settings
  Shortcuts, Super, \* what can be bound
  Usable,           \* those that grab_key_internal does not refuse
  Commands,
  Layouts, Code,    \* Code[l][k] is the code of k's key in layout l
  Nothing,          \* a setting that names no key and command
  MaxActs           \* bounds the user's changes, starts and stops

VARIABLES
  running,
  setting,   \* [Slot -> Value \cup {Nothing}]
  signals,   \* slots of which a change was not handled yet
  table,     \* gsettings_ht
  bindings,  \* [key, slot, cmd, live], the newest first; live: cmd is not freed
  grabs,     \* codes
  record,    \* key_table, of the key Super
  layout,
  shared,    \* history: keys of two settings at once, or bound without the plugin
  moved,     \* history: the layout changed
  acts

slotsVars == <<running, setting, signals, table, bindings, grabs, record, layout,
               shared, moved, acts>>

Slot == 1..Slots
Value == [key : Shortcuts, cmd : Commands]
HasKey(v, k) == v # Nothing /\ v.key = k

SlotsInit ==
  /\ running = FALSE /\ setting \in [Slot -> Value \cup {Nothing}] /\ signals = <<>>
  /\ table = [s \in Slot |-> Nothing] /\ bindings = <<>> /\ grabs = {} /\ record = Nothing
  /\ layout \in Layouts /\ shared = {} /\ moved = FALSE /\ acts = 0

Acts == acts < MaxActs /\ acts' = acts + 1

-----------------------------------------------------------------------------
\* Bindings, grabs and the record together.
Held == [bindings |-> bindings, grabs |-> grabs, record |-> record]
HeldIs(h) == bindings' = h.bindings /\ grabs' = h.grabs /\ record' = h.record

\* do_grab_key in layout l: what is refused counts as grabbed.
Grab(l, h, b) ==
  IF b.key = Super THEN [h EXCEPT !.record = b.cmd]
  ELSE [h EXCEPT !.grabs = @ \cup {Code[l][k] : k \in {b.key} \cap Usable}]

\* do_ungrab_key
Ungrab(l, h, b) ==
  IF b.key = Super THEN [h EXCEPT !.record = Nothing]
  ELSE [h EXCEPT !.grabs = @ \ {Code[l][k] : k \in {b.key} \cap Usable}]

\* keybinder_bind_full
Bind(h, slot, v) ==
  LET b == [key |-> v.key, slot |-> slot, cmd |-> v.cmd, live |-> TRUE]
  IN [Grab(layout, h, b) EXCEPT !.bindings = <<b>> \o @]

\* A bug: what is unbound stays grabbed.
UnbindKept(h, key) ==
  LET found == {i \in DOMAIN h.bindings : h.bindings[i].key = key}
  IN IF found = {} THEN h ELSE [h EXCEPT !.bindings = RemoveAt(@, Min(found))]

\* keybinder_unbind: the newest with the key, whosever it is.
Unbind(h, key) ==
  LET found == {i \in DOMAIN h.bindings : h.bindings[i].key = key}
  IN IF found = {} THEN h
     ELSE [Ungrab(layout, h, h.bindings[Min(found)]) EXCEPT !.bindings =
         RemoveAt(@, Min(found))]

\* gsd_kb_util_value_free_func: what was bound is unbound, and its strings are freed.
Free(h, v) == IF v = Nothing THEN h ELSE Unbind(h, v.key)
Freed(h, slot) ==
  LET b == h.bindings
  IN [h EXCEPT !.bindings = [i \in DOMAIN b |->
         [b[i] EXCEPT !.live = b[i].live /\ b[i].slot # slot]]]

\* A bug: the new binding is made before the old one is removed.
ReplacedLate(h, slot, v) ==
  IF v = Nothing THEN Freed(Free(h, table[slot]), slot)
  ELSE Free(Bind(Freed(h, slot), slot, v), table[slot])

\* key_bindings_settings_changed
Replaced(h, slot, v) ==
  LET gone == Freed(Free(h, table[slot]), slot)
  IN IF v = Nothing THEN gone ELSE Bind(gone, slot, v)

\* gsd_kb_util_read_gsettings: what a place had is unbound after the new binding.
Read(h, slot) ==
  IF setting[slot] = Nothing THEN h
  ELSE Free(Bind(Freed(h, slot), slot, setting[slot]), table[slot])

\* One slot after the other: all are read at a start, all given up at a stop.
Handled(h, slot, starts) ==
  IF starts THEN Read(h, slot) ELSE Freed(Free(h, table[slot]), slot)
All(starts) ==
  LET after[s \in 0..Slots] ==
        IF s = 0 THEN Held ELSE Handled(after[s - 1], s, starts)
  IN after[Slots]

Start ==
  /\ Acts /\ ~running /\ running' = TRUE /\ HeldIs(All(TRUE))
  /\ table' = [s \in Slot |-> IF setting[s] = Nothing THEN table[s] ELSE setting[s]]
  /\ shared' = shared \cup
       {k \in Shortcuts : \E s, t \in Slot : s # t /\ HasKey(table'[s], k)
           /\ HasKey(table'[t], k)}
  /\ UNCHANGED <<setting, signals, layout, moved>>

\* gsd_key_bindings_manager_stop: changes are heard all the same.
Stop ==
  /\ Acts /\ running /\ running' = FALSE
  /\ HeldIs([All(FALSE) EXCEPT !.record = Nothing])
  /\ table' = [s \in Slot |-> Nothing]
  /\ UNCHANGED <<setting, signals, layout, shared, moved>>

UserSets(slot, v) ==
  /\ Acts /\ v # setting[slot] /\ setting' = [setting EXCEPT ![slot] = v]
  /\ signals' = Append(signals, slot)
  /\ UNCHANGED <<running, table, bindings, grabs, record, layout, shared, moved>>

SettingsChanged ==
  /\ signals # <<>> /\ signals' = Tail(signals)
  /\ LET slot == Head(signals)
         v == setting[slot]
     IN /\ HeldIs(Replaced(Held, slot, v)) /\ table' = [table EXCEPT ![slot] = v]
        /\ shared' = shared \cup {k \in Shortcuts : HasKey(v, k) /\
             (~running \/ \E s \in Slot \ {slot} : HasKey(table[s], k))}
  /\ UNCHANGED <<running, setting, layout, moved, acts>>

\* The codes of all bindings in layout l, and those of Super.
Codes(l) == {Code[l][bindings[i].key] : i \in {j \in DOMAIN bindings :
                 bindings[j].key \in Usable \ {Super}}}
Supers == {i \in DOMAIN bindings : bindings[i].key = Super}

\* A bug: each is ungrabbed after it was grabbed.
RegrabbedLast(l, h) ==
  [h EXCEPT !.grabs = @ \ Codes(l), !.record = IF Supers = {} THEN @ ELSE Nothing]

\* keymap_changed: all are ungrabbed, by the codes they have now, and then grabbed,
\* the oldest last.
Regrabbed(l, h) ==
  [h EXCEPT !.grabs = @ \cup Codes(l),
            !.record = IF Supers = {} THEN @ ELSE bindings[Max(Supers)].cmd]

KeymapChanged(l) ==
  /\ Acts /\ l # layout /\ layout' = l /\ moved' = TRUE /\ HeldIs(Regrabbed(l, Held))
  /\ UNCHANGED <<running, setting, signals, table, shared>>

SlotsNext ==
  \/ Start \/ Stop \/ SettingsChanged
  \/ \E s \in Slot, v \in Value \cup {Nothing} : UserSets(s, v)
  \/ \E l \in Layouts : KeymapChanged(l)

SlotsSpec == SlotsInit /\ [][SlotsNext]_slotsVars

-----------------------------------------------------------------------------
SlotsTypeOK ==
  /\ setting \in [Slot -> Value \cup {Nothing}] /\ table \in [Slot -> Value \cup {Nothing}]
  /\ \A i \in DOMAIN signals : signals[i] \in Slot
  /\ \A i \in DOMAIN bindings : bindings[i] \in
         [key : Shortcuts, cmd : Commands, slot : Slot, live : BOOLEAN]
  /\ record \in Commands \cup {Nothing} /\ layout \in Layouts /\ shared \subseteq Shortcuts
  /\ {running, moved} \subseteq BOOLEAN /\ acts \in 0..MaxActs

\* filter_key_events: the newest binding of the key that was pressed is run.
Run(k) ==
  LET found == {i \in DOMAIN bindings : bindings[i].key = k}
  IN IF k = Super THEN record
     ELSE IF found = {} \/ k \notin Usable \/ Code[layout][k] \notin grabs THEN Nothing
     ELSE bindings[Min(found)].cmd

Wanted(k) ==
  LET s == {t \in Slot : HasKey(setting[t], k)}
  IN IF s = {} \/ ~running \/ (k \notin Usable /\ k # Super) THEN Nothing
     ELSE setting[CHOOSE t \in s : TRUE].cmd

(* When changes were handled a key runs the command its setting names, and   *)
(* none while the plugin is stopped, through new settings, layouts, starts   *)
(* and stops; and what is run was not freed.  A key that two settings had at *)
(* once, or that was bound while the plugin was stopped, is lost to both:    *)
(* the wrong one of its bindings is removed (keybinder_unbind).              *)
KeysRun ==
  \A k \in Shortcuts \ shared :
    /\ signals = <<>> => Run(k) = Wanted(k)
    /\ \A i \in DOMAIN bindings : bindings[i].key = k => bindings[i].live

(* No key is taken from applications for nothing, unless the layout changed: *)
(* then it stays grabbed by its old code (keymap_changed, do_ungrab_key).    *)
NoneTaken == ~moved => grabs \subseteq Codes(layout)

-----------------------------------------------------------------------------
(* The thread that sees all keys and buttons, and runs a command when Super   *)
(* is pressed alone.  It waits for the command to end, and events wait too.   *)
CONSTANTS
  Keyboard,  \* keys beside Super
  MaxMoves   \* bounds what the user and other clients do

VARIABLES
  down,      \* keys and the button "button" that are down
  grabbed,   \* a client, as a menu or a lock, has the keyboard
  events,    \* not seen yet: [key, press, how]
  key_press_cnt, super_press,
  busy,      \* the command was not seen to end
  how,       \* history: "alone", or what was pressed beside Super since it went down
  swallowed, \* history: the last release was left out because of a grab
  last,      \* history: of the last release of Super: [how, swallowed, grabbed, ran]
  moves

superVars == <<down, grabbed, events, key_press_cnt, super_press, busy, how,
               swallowed, last, moves>>

Button == "button"

SuperInit ==
  /\ down = {} /\ grabbed = FALSE /\ events = <<>> /\ key_press_cnt = 0
  /\ super_press = FALSE
  /\ busy = FALSE /\ how = "up" /\ swallowed = FALSE /\ moves = 0
  /\ last = [how |-> "up", swallowed |-> FALSE, grabbed |-> FALSE, ran |-> FALSE]

Moves == moves < MaxMoves /\ moves' = moves + 1

\* What is pressed while Super is down makes it a chord; after a key was
\* released, one that is pressed is rolled, and buttons are of no account.
After(key, press) ==
  IF key = "super" THEN IF press THEN IF down = {} THEN "alone" ELSE "held" ELSE "up"
  ELSE IF how = "up" THEN how
  ELSE IF key = Button THEN IF how \in {"clean", "rolled"} THEN how ELSE "chord"
  ELSE IF ~press THEN "clean" ELSE IF how = "clean" THEN "rolled" ELSE "chord"

Move(key) ==
  /\ Moves
  /\ LET press == key \notin down
     IN /\ down' = IF press THEN down \cup {key} ELSE down \ {key}
        /\ events' = Append(events, [key |-> key, press |-> press, how |-> how])
        /\ how' = After(key, press)
  /\ UNCHANGED <<grabbed, key_press_cnt, super_press, busy, swallowed, last>>

OtherGrabs ==
  /\ Moves /\ grabbed' = ~grabbed
  /\ UNCHANGED <<down, events, key_press_cnt, super_press, busy, how, swallowed, last>>

-----------------------------------------------------------------------------
\* handle_key: the command of the key that was released, if it has one.
Release(e, pressed) ==
  LET once == key_press_cnt = 1 /\ pressed
      runs == once /\ ~grabbed /\ e.key = "super"
  IN /\ IF once /\ grabbed THEN key_press_cnt' = key_press_cnt /\ super_press' = pressed
        ELSE key_press_cnt' = 0 /\ super_press' = FALSE
     /\ busy' = runs /\ swallowed' = (once /\ grabbed)
     /\ last' = IF e.key = "super"
                THEN [how |-> e.how, swallowed |-> swallowed, grabbed |-> grabbed,
                    ran |-> runs] ELSE last

\* A bug: buttons do not count.
PressedKey(e, pressed) ==
  /\ key_press_cnt' = IF e.key # Button THEN key_press_cnt + 1 ELSE key_press_cnt
  /\ super_press' = pressed /\ UNCHANGED <<busy, swallowed, last>>

\* handle_key; buttons count while Super is down, their releases too.
Pressed(e, pressed) ==
  /\ key_press_cnt' = IF e.key # Button \/ pressed THEN key_press_cnt + 1 ELSE key_press_cnt
  /\ super_press' = pressed /\ UNCHANGED <<busy, swallowed, last>>

\* intercept
Intercept ==
  /\ ~busy /\ events # <<>> /\ events' = Tail(events)
  /\ LET e == Head(events)
         pressed == super_press \/ e.key = "super"
     IN IF e.press \/ e.key = Button THEN Pressed(e, pressed) ELSE Release(e, pressed)
  /\ UNCHANGED <<down, grabbed, how, moves>>

CommandEnds ==
  /\ busy /\ busy' = FALSE
  /\ UNCHANGED <<down, grabbed, events, key_press_cnt, super_press, how, swallowed,
                 last, moves>>

SuperNext == (\E key \in Keyboard \cup {"super", Button} : Move(key)) \/ OtherGrabs
    \/ Intercept \/ CommandEnds

SuperSpec == SuperInit /\ [][SuperNext]_superVars

-----------------------------------------------------------------------------
Hows == {"up", "alone", "held", "clean", "rolled", "chord"}

SuperTypeOK ==
  /\ down \subseteq Keyboard \cup {"super", Button} /\ key_press_cnt \in 0..MaxMoves
  /\ {grabbed, super_press, busy, swallowed} \subseteq BOOLEAN
  /\ how \in Hows /\ last.how \in Hows /\ moves \in 0..MaxMoves

(* The command of Super is run when it is pressed and released alone, unless *)
(* the keyboard is grabbed, or was at the last time: its press is counted    *)
(* still (handle_key, the early return).  It is not run when something was   *)
(* pressed with it, unless a key was released between: of Super, L down and  *)
(* up, H down, only H is counted, and if a key came up while the keyboard    *)
(* was grabbed, Super may be counted alone; and however long the last        *)
(* command takes (system, for which the thread waits).                       *)
AloneRuns ==
  /\ last.ran => /\ ~last.grabbed
                 /\ \/ last.how \in {"alone", "held", "rolled"}
                    \/ last.how = "clean" /\ last.swallowed
  /\ last.how = "alone" /\ ~last.grabbed /\ ~last.swallowed => last.ran
=============================================================================
