---------------------------- MODULE XrandrSetups ----------------------------
(***************************************************************************)
(* Which monitors the xrandr plugin turns on (gsd-xrandr-manager.c): the   *)
(* setups it makes up, the cycle of the Fn-F7 key, the laptop's lid,       *)
(* monitors that come and go, and the configurations stored for them.      *)
(*                                                                         *)
(* Monitors stand side by side and only widths matter.  Handlers run to    *)
(* their end; XrandrCommands has the files and the nested dialogs.         *)
(***************************************************************************)
EXTENDS Naturals, SequencesExt, FiniteSetsExt

CONSTANTS
  Screen,      \* the outputs of the graphics card, in its order
  Laptop,      \* the one of the panel, which is always connected
  Modes,       \* the widths each can show
  FrameBuffer, \* the widest screen there can be
  Boots        \* default-monitors-setup: "nothing", "lid", "clone", "dock"

VARIABLES
  boot,       \* the setting
  connected,  \* outputs with a monitor
  lid,        \* "open" or "closed", as priv->laptop_lid_is_closed has it
  shown,      \* what the outputs show
  stored,     \* monitors.xml: a configuration for some sets of monitors
  fn,         \* fn_f7_configs
  current,    \* current_fn_f7_config, counted from 1
  madeFor,    \* the monitors the list was made for, and (history) the lid
  excused     \* the panel may be on below a closed lid (history), see LidFollowed

vars == <<boot, connected, lid, shown, stored, fn, current, madeFor, excused>>

Outputs == ToSet(Screen)
Widths == UNION {Modes[o] : o \in Outputs}
Off == [on |-> FALSE, x |-> 0, w |-> 0]
OutputInfo == {Off} \cup [on : {TRUE}, x : 0..FrameBuffer, w : Widths]
Configs == [Outputs -> OutputInfo]
AllOff == [o \in Outputs |-> Off]

TypeOK ==
  /\ boot \in Boots /\ connected \subseteq Outputs /\ Laptop \in connected
  /\ lid \in {"open", "closed"} /\ shown \in Configs /\ excused \in BOOLEAN
  /\ \A o \in Outputs \ connected : ~shown[o].on
  /\ DOMAIN stored \subseteq SUBSET Outputs
  /\ \A c \in DOMAIN stored : stored[c] \in Configs /\ stored[c] # AllOff
  /\ \A n \in DOMAIN fn : fn[n] \in Configs \ {AllOff}
  /\ madeFor \in [connected : SUBSET Outputs, lid : {"open", "closed"},
                 excused : BOOLEAN]
  /\ current \in 0..Len(fn) /\ (current = 0) = (fn = <<>>)

IsOn(config) == {o \in Outputs : config[o].on}
Closed == lid = "closed"
FollowLid == boot \in {"lid", "clone"}                  \* follow_laptop_lid
Best(o) == Max(Modes[o])                                \* find_best_mode
TurnOn(o, x) == [on |-> TRUE, x |-> x, w |-> Best(o)]
Extent(config) == Max({0} \cup {config[o].x + config[o].w : o \in IsOn(config)})
Applicable(config) == Extent(config) <= FrameBuffer

-----------------------------------------------------------------------------
(* The setups.  AllOff stands for NULL: there is no such setup.            *)

\* make_clone_setup: the widest mode that all monitors have.
CloneSetup ==
  LET common == {w \in Widths : \A o \in connected : w \in Modes[o]} IN
  IF common = {} THEN AllOff
  ELSE [o \in Outputs |->
          IF o \in connected /\ ~(o = Laptop /\ Closed)
            THEN [on |-> TRUE, x |-> 0, w |-> Max(common)] ELSE Off]

\* trim_rightmost_outputs_that_dont_fit_in_framebuffer.  Its comparison is
\* given pointers to the pointers it takes, so that the order in which
\* outputs are turned off is undefined.
Trimmed(config) ==
  LET kept == {s \in SUBSET IsOn(config) :
                 Applicable([o \in Outputs |-> IF o \in s THEN config[o] ELSE Off])}
      some == {s \in kept : s = IsOn(config)
                 \/ \E o \in IsOn(config) \ s : s \cup {o} \notin kept}
  IN {[o \in Outputs |-> IF o \in s THEN config[o] ELSE Off] : s \in some}

Before(p, o) == \E m, n \in DOMAIN Screen : m < n /\ Screen[m] = p /\ Screen[n] = o

\* make_xinerama_setup: the panel first, the others to its right.
XineramaSetups ==
  LET on == IF Closed /\ FollowLid THEN connected \ {Laptop} ELSE connected
      Left(o) == {p \in on \ {o} : p = Laptop \/ (o # Laptop /\ Before(p, o))}
  IN Trimmed([o \in Outputs |->
                IF o \in on THEN TurnOn(o, MapThenSumSet(Best, Left(o))) ELSE Off])

\* make_other_setup: the panel off, the others on top of each other.
OtherSetups ==
  Trimmed([o \in Outputs |->
             IF o \in connected \ {Laptop} THEN TurnOn(o, 0) ELSE Off])

\* make_laptop_setup
LaptopSetup ==
  [o \in Outputs |-> IF o = Laptop /\ ~Closed THEN TurnOn(o, 0) ELSE Off]

\* make_default_setup
DefaultSetups ==
  CASE boot = "nothing" -> XineramaSetups
    [] boot = "lid" -> IF Closed THEN OtherSetups ELSE XineramaSetups
    [] boot = "clone" -> {CloneSetup}
    [] boot = "dock" -> OtherSetups

\* Bug: the other monitors are not looked at.
WithoutLaptopAlways(config) == [config EXCEPT ![Laptop] = Off]

\* turn_off_laptop_display_in_configuration, "to avoid an all-black-screens
\* scenario".
WithoutLaptop(config) ==
  IF IsOn(config) \ {Laptop} = {} THEN config ELSE [config EXCEPT ![Laptop] = Off]

-----------------------------------------------------------------------------
(* Applying a configuration                                                *)

\* auto_configure_outputs: a setup that there is not changes nothing.
AutoConfigure(now) ==
  \E config \in DefaultSetups' : shown' = IF config = AllOff THEN now ELSE config

\* Bug: a stored configuration is applied as it was stored.
FromFileAsStored(config) == config

\* apply_configuration_from_filename, for the monitors there are.
FromFile(config) == IF lid' = "closed" THEN WithoutLaptop(config) ELSE config

\* gsd_xrandr_manager_start with no file: the server shows every monitor in
\* a mode of its own, and apply_default_boot_configuration goes on from it.
Init ==
  /\ boot \in Boots /\ connected \in {c \in SUBSET Outputs : Laptop \in c}
  /\ lid \in {"open", "closed"} /\ stored = [c \in {} |-> AllOff]
  /\ fn = <<>> /\ current = 0
  /\ madeFor = [connected |-> {}, lid |-> lid, excused |-> FALSE]
  /\ LET server == [o \in Outputs |-> IF o \in connected THEN TurnOn(o, 0) ELSE Off]
     IN /\ excused = (Closed /\ AllOff \in DefaultSetups)
        /\ IF boot = "nothing" THEN shown = server
           ELSE \E config \in DefaultSetups :
                  shown = IF config = AllOff THEN server ELSE config

-----------------------------------------------------------------------------
(* Fn-F7                                                                   *)

Nth(S, n) == CHOOSE i \in S : Cardinality({j \in S : j <= i}) = n

\* sanitize: of the duplicates of a configuration the first one is removed,
\* and configurations that are all off or do not fit.
Sanitized(list) ==
  LET Dup(i, gone) == {j \in (i + 1)..Len(list) : j \notin gone /\ list[j] = list[i]
                                                  /\ list[i] # AllOff}
      gone == FoldLeft(LAMBDA acc, i : IF i \in acc \/ Dup(i, acc) = {} THEN acc
                                       ELSE acc \cup {Min(Dup(i, acc))},
                       {}, [i \in DOMAIN list |-> i])
      kept == {i \in DOMAIN list : /\ i \notin gone /\ list[i] # AllOff
                                   /\ Applicable(list[i])}
  IN [n \in 1..Cardinality(kept) |-> list[Nth(kept, n)]]

\* generate_fn_f7_configs: the lists it may make.
Generated ==
  {Sanitized(<<shown, CloneSetup, x, o, LaptopSetup>>) :
     x \in XineramaSetups, o \in OtherSetups}

\* The list is for these monitors, and its current entry is what they show.
\* That the lid may have moved since is not looked at.
UpToDate == fn # <<>> /\ madeFor.connected = connected /\ fn[current] = shown

Cycle(list, at) ==
  IF list = <<>>
    THEN /\ fn' = <<>> /\ current' = 0 /\ UNCHANGED <<shown, stored>>
    ELSE /\ fn' = list /\ current' = (at % Len(list)) + 1
         /\ shown' = list[current']
         /\ stored' = [c \in DOMAIN stored \cup {connected} |->
                         IF c = connected THEN shown' ELSE stored[c]]

\* handle_fn_f7, which saves what it has applied.
FnF7 ==
  /\ IF UpToDate
       THEN Cycle(fn, current) /\ UNCHANGED madeFor
       ELSE /\ \E list \in Generated : Cycle(list, 1)
            /\ madeFor' = [connected |-> connected, lid |-> lid, excused |-> excused]
  /\ excused' = (excused \/ madeFor'.excused \/ madeFor'.lid # lid)
  /\ UNCHANGED <<boot, connected, lid>>

-----------------------------------------------------------------------------
(* Events                                                                  *)

\* use_stored_configuration_or_auto_configure_outputs; now is what the
\* outputs show before, and an event that is repeated configures nothing.
UseStoredOrAuto(now, repeated) ==
  IF connected' \in DOMAIN stored THEN shown' = FromFile(stored[connected'])
  ELSE IF repeated THEN shown' = now
  ELSE AutoConfigure(now)

\* on_randr_event: monitors come and go.  What has gone shows nothing.
Hotplug(others) ==
  /\ connected' = others \cup {Laptop}
  /\ UNCHANGED <<boot, lid, stored, fn, current, madeFor, excused>>
  /\ UseStoredOrAuto([o \in Outputs |-> IF o \in connected' THEN shown[o] ELSE Off],
                     connected' = connected)

\* Another client, as the settings panel, turns one of several monitors off.
OtherClient(o) ==
  /\ o \in IsOn(shown) /\ IsOn(shown) # {o} /\ shown' = [shown EXCEPT ![o] = Off]
  /\ UNCHANGED <<boot, connected, lid, stored, fn, current, madeFor, excused>>

\* power_client_changed_cb and turn_off_laptop_display
LidMoves ==
  /\ lid' = IF Closed THEN "open" ELSE "closed"
  /\ excused' = (excused /\ lid' = "closed")
  /\ UNCHANGED <<boot, connected, stored, fn, current, madeFor>>
  /\ IF ~FollowLid THEN UNCHANGED shown
     ELSE IF lid' = "closed" THEN shown' = WithoutLaptop(shown)
     ELSE UseStoredOrAuto(shown, FALSE)

Next ==
  \/ FnF7 \/ LidMoves
  \/ \E others \in SUBSET (Outputs \ {Laptop}) : Hotplug(others)
  \/ \E o \in Outputs : OtherClient(o)

Spec == Init /\ [][Next]_vars

-----------------------------------------------------------------------------
(* NeverBlack: whatever monitors come and go and whatever was stored with  *)
(* the lid in another position, with the lid open something is shown ("to  *)
(* avoid an all-black-screens scenario"), unless the monitors do not fit   *)
(* side by side and may all be trimmed: that is not "right-to-left until   *)
(* we find a size that fits" (gsd-xrandr-manager.c:1087), which would keep *)
(* the panel.  One that is off then stays off when the other monitor is    *)
(* exchanged for a third.                                                  *)
(* "dock" and "clone" promise nothing: there may be no setup of their kind.*)
NeverBlack ==
  ~Closed /\ boot \in {"nothing", "lid"} /\ AllOff \notin DefaultSetups
    => IsOn(shown) # {}

(* LidFollowed: with a setting that follows the lid, the panel of a closed *)
(* laptop is off while another monitor is on - except that Fn-F7 may turn  *)
(* it on from a list that was made with the lid open, and that it may be   *)
(* on from the start if there was no setup to begin with (excused).        *)
LidFollowed ==
  Closed /\ FollowLid /\ ~excused /\ IsOn(shown) \ {Laptop} # {}
    => Laptop \notin IsOn(shown)
=============================================================================
