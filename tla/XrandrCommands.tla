--------------------------- MODULE XrandrCommands ---------------------------
(* The xrandr plugin: the confirmation of a new configuration, and         *)
(* Deepin's own commands for monitors.                                     *)
EXTENDS Integers, Sequences, Naturals

-----------------------------------------------------------------------------
(***************************************************************************)
(* The xrandr plugin's way of trying a monitor configuration out           *)
(* (gsd-xrandr-manager.c): the settings panel saves it and asks for it to  *)
(* be applied, a dialog gives the user some seconds to keep it, and what   *)
(* was saved before is restored otherwise - also after a crash, at the     *)
(* next start.                                                             *)
(*                                                                         *)
(* Dialogs run nested main loops, within which everything else goes on, a  *)
(* second dialog included.  gtk_main_quit ends the innermost gtk_main.     *)
(* A configuration is for one set of monitors; monitors.xml is taken to    *)
(* hold a single one.                                                      *)
(***************************************************************************)
CONSTANTS
  Hardware,   \* sets of monitors that may be connected
  Looks,      \* ways to configure one
  Seconds,    \* CONFIRMATION_DIALOG_SECONDS
  MaxDialogs, \* bound on the dialogs open or queued
  MaxSaves    \* bound on the configurations saved

VARIABLES
  up,        \* the plugin runs
  hw,        \* the monitors connected
  screen,    \* the configuration they show
  intended,  \* monitors.xml
  backup,    \* monitors.xml.backup
  called,    \* ApplyConfiguration is on its way
  queued,    \* confirm_with_user_idle_cb is, so often
  frames,    \* the nested main loops, innermost last
  saves,     \* the configurations saved so far
  before,    \* what the panel's save replaced (history)
  trial      \* "none", "open", "restored" or "disturbed": of it (history)

confirmVars == <<up, hw, screen, intended, backup, called, queued, frames, saves,
                 before, trial>>

Configs == [hw : Hardware, look : Looks \cup {"auto"}]
Absent == [hw |-> "none", look |-> "none"]  \* the file is not there
Files == Configs \cup {Absent}
Frames == [kind : {"confirm", "error"}, left : 0..Seconds,
           response : {"unset", "accept", "cancel"}, quit : BOOLEAN,
           undo : BOOLEAN]

ConfirmTypeOK ==
  /\ up \in BOOLEAN /\ hw \in Hardware /\ screen \in Configs
  /\ intended \in Files /\ backup \in Files /\ before \in Files
  /\ called \in BOOLEAN /\ queued \in 0..MaxDialogs /\ saves \in 0..MaxSaves
  /\ frames \in Seq(Frames) /\ trial \in {"none", "open", "restored", "disturbed"}
  /\ ~up => frames = <<>> /\ queued = 0
  /\ \A n \in DOMAIN frames : frames[n].quit => frames[n].kind = "confirm"

\* A first start: deepin_xrandr_init has saved what the server shows.
ConfirmInit ==
  /\ up = TRUE /\ hw \in Hardware
  /\ screen \in {c \in Configs : c.hw = hw} /\ intended = screen
  /\ backup = Absent /\ called = FALSE /\ queued = 0 /\ frames = <<>>
  /\ saves = 0 /\ before = Absent /\ trial = "none"

Matches(file) == file.hw = hw

\* gnome_rr_config_save: the file there is becomes the backup.
Save(config) ==
  /\ backup' = IF intended = Absent THEN backup ELSE intended
  /\ intended' = config

Confirm == [kind |-> "confirm", left |-> Seconds, response |-> "unset",
            quit |-> FALSE, undo |-> FALSE]
Error(undo) == [kind |-> "error", left |-> 0, response |-> "unset",
                quit |-> FALSE, undo |-> undo]
Top == frames[Len(frames)]
Popped == SubSeq(frames, 1, Len(frames) - 1)
Room == Len(frames) + queued < MaxDialogs

-----------------------------------------------------------------------------
(* The settings panel and the keys                                         *)

\* The panel saves a configuration and calls ApplyConfiguration.
PanelSaves(look) ==
  /\ up /\ ~called /\ saves < MaxSaves /\ saves' = saves + 1
  /\ Save([hw |-> hw, look |-> look]) /\ called' = TRUE
  /\ IF trial = "none" THEN trial' = "open" /\ before' = intended
                       ELSE trial' = "disturbed" /\ UNCHANGED before
  /\ UNCHANGED <<up, hw, screen, queued, frames>>

\* try_to_apply_intended_configuration.  A configuration for other monitors
\* counts as applied; an error is shown before the backup is put back.
ApplyConfiguration ==
  /\ up /\ called /\ called' = FALSE /\ Room
  /\ \/ /\ screen' = IF Matches(intended) THEN intended ELSE screen
        /\ queued' = queued + 1 /\ UNCHANGED frames
     \/ /\ frames' = Append(frames, Error(TRUE)) /\ UNCHANGED <<screen, queued>>
  /\ UNCHANGED <<up, hw, intended, backup, saves, before, trial>>

\* Fn-F7 and the rotation key apply and save what they have chosen, without
\* a confirmation (apply_configuration).
KeyPressed(look) ==
  /\ up /\ Room /\ saves < MaxSaves /\ saves' = saves + 1
  /\ \/ /\ screen' = [hw |-> hw, look |-> look] /\ Save(screen')
        /\ trial' = IF trial = "none" THEN "none" ELSE "disturbed"
        /\ UNCHANGED frames
     \/ /\ frames' = Append(frames, Error(FALSE))
        /\ UNCHANGED <<screen, intended, backup, trial>>
  /\ UNCHANGED <<up, hw, called, queued, before>>

\* on_randr_event when the monitors have changed: the stored configuration
\* if it is for them, else an automatic one, which is not saved.
HardwareChanged ==
  /\ up /\ hw' \in Hardware \ {hw}
  /\ screen' = IF intended.hw = hw' THEN intended
               ELSE [hw |-> hw', look |-> "auto"]
  /\ UNCHANGED <<up, intended, backup, called, queued, frames, saves, before,
                 trial>>

-----------------------------------------------------------------------------
(* The dialog                                                              *)

\* confirm_with_user_idle_cb enters user_says_things_are_ok.
ConfirmIdle ==
  /\ queued > 0 /\ queued' = queued - 1 /\ frames' = Append(frames, Confirm)
  /\ UNCHANGED <<up, hw, screen, intended, backup, called, saves, before, trial>>

\* gtk_main_quit: whoever calls it, the innermost gtk_main ends.
Quit(loops) ==
  LET confirms == {n \in DOMAIN loops : loops[n].kind = "confirm"}
      last == CHOOSE n \in confirms : \A m \in confirms : m <= n
  IN [loops EXCEPT ![last].quit = TRUE]

\* Bug: the countdown only tells how long is left.
TickSilent(n) ==
  /\ n \in DOMAIN frames /\ frames[n].kind = "confirm" /\ frames[n].left > 1
  /\ frames' = [frames EXCEPT ![n].left = @ - 1]
  /\ UNCHANGED <<up, hw, screen, intended, backup, called, queued, saves, before,
                 trial>>

\* timeout_cb of one of the dialogs.  Below 0 the countdown goes on in vain.
Tick(n) ==
  /\ n \in DOMAIN frames /\ frames[n].kind = "confirm" /\ frames[n].left > 0
  /\ LET ticked == [frames EXCEPT ![n].left = @ - 1] IN
       frames' = IF frames[n].left > 1 THEN ticked
                 ELSE Quit([ticked EXCEPT ![n].response = "cancel"])
  /\ UNCHANGED <<up, hw, screen, intended, backup, called, queued, saves, before,
                 trial>>

\* timeout_response_cb: the user can only answer the dialog that is on top.
Answer(response) ==
  /\ frames # <<>> /\ Top.kind = "confirm" /\ ~Top.quit
  /\ frames' = Quit([frames EXCEPT ![Len(frames)].response = response])
  /\ UNCHANGED <<up, hw, screen, intended, backup, called, queued, saves, before,
                 trial>>

Ended == frames # <<>> /\ Top.kind = "confirm" /\ Top.quit

\* The configuration is kept.  A dialog whose loop was ended by another one
\* has no response yet: its value is undefined.  A disturbed trial stays so,
\* for there may be dialogs left below this one.
Kept ==
  /\ Ended /\ Top.response \in {"accept", "unset"}
  /\ frames' = Popped /\ backup' = Absent
  /\ trial' = IF Top.response = "accept" /\ trial # "disturbed" THEN "none" ELSE trial
  /\ UNCHANGED <<up, hw, screen, intended, called, queued, saves, before>>

\* Bug: the backup is applied but not renamed.
RestoreApplying ==
  IF backup # Absent
    THEN /\ backup' = Absent /\ UNCHANGED intended
         /\ \/ /\ screen' = IF Matches(backup) THEN backup ELSE screen
               /\ frames' = Popped
            \/ frames' = Append(Popped, Error(FALSE)) /\ UNCHANGED screen
    ELSE /\ intended' = Absent /\ UNCHANGED <<backup, screen>>
         /\ frames' = Popped

\* restore_backup_configuration.  Without a backup there was no monitors.xml.
Restore ==
  IF backup # Absent
    THEN /\ intended' = backup /\ backup' = Absent
         /\ \/ /\ screen' = IF Matches(backup) THEN backup ELSE screen
               /\ frames' = Popped
            \/ frames' = Append(Popped, Error(FALSE)) /\ UNCHANGED screen
    ELSE /\ intended' = Absent /\ UNCHANGED <<backup, screen>>
         /\ frames' = Popped

Restored == trial' = IF trial = "open" THEN "restored" ELSE trial
Reverted ==
  /\ Ended /\ Top.response # "accept" /\ Restore /\ Restored
  /\ UNCHANGED <<up, hw, called, queued, saves, before>>

\* The user closes the dialog of error_message, and what called it goes on:
\* try_to_apply_intended_configuration renames the backup if there is one.
ErrorClosed ==
  /\ frames # <<>> /\ Top.kind = "error" /\ frames' = Popped
  /\ IF Top.undo /\ backup # Absent
       THEN intended' = backup /\ backup' = Absent /\ Restored
       ELSE UNCHANGED <<intended, backup, trial>>
  /\ UNCHANGED <<up, hw, screen, called, queued, saves, before>>

-----------------------------------------------------------------------------
(* The file monitor of deepin_xrandr.c, a crash, and the next start        *)

\* Someone writes monitors.xml in place: m_config_file_changed saves what is
\* on the screen, which makes a backup of what was written.
FileChanged(look) ==
  /\ up /\ intended # Absent /\ saves < MaxSaves /\ saves' = saves + 1
  /\ backup' = [hw |-> hw, look |-> look] /\ intended' = screen
  /\ trial' = IF trial = "none" THEN "none" ELSE "disturbed"
  /\ UNCHANGED <<up, hw, screen, called, queued, frames, before>>

\* A trial that is over and was not kept makes room for the next one.
Over ==
  up /\ ~called /\ queued = 0 /\ frames = <<>> /\ trial # "none"
NextTrial ==
  /\ Over /\ trial' = "none"
  /\ UNCHANGED <<up, hw, screen, intended, backup, called, queued, frames, saves,
                 before>>

\* The daemon crashes, alone or with the server.
Crash ==
  /\ up /\ up' = FALSE /\ frames' = <<>> /\ queued' = 0 /\ called' = FALSE
  /\ screen' \in {screen, [hw |-> hw, look |-> "auto"]}
  /\ trial' = IF Over \/ trial = "restored" THEN "none" ELSE trial
  /\ UNCHANGED <<hw, intended, backup, saves, before>>

\* gsd_xrandr_manager_start: deepin_xrandr_init removes monitors.xml and
\* saves what the server shows in its place.  Then, with a backup,
\* apply_stored_configuration_at_startup applies it, unless it is for other
\* monitors, and makes it the intended one.
StartWithBackup ==
  /\ ~up /\ up' = TRUE /\ backup # Absent
  /\ intended' = backup /\ backup' = Absent
  /\ screen' = IF Matches(backup) THEN backup ELSE screen
  /\ Restored
  /\ UNCHANGED <<hw, called, queued, frames, saves, before>>

\* The backup cannot be applied: it is deleted.
StartGivesUp ==
  /\ ~up /\ up' = TRUE /\ Matches(backup) /\ backup' = Absent
  /\ screen' \in {screen, [hw |-> hw, look |-> "auto"]} /\ intended' = screen
  /\ trial' = IF trial = "none" THEN "none" ELSE "disturbed"
  /\ UNCHANGED <<hw, called, queued, frames, saves, before>>

\* Without a backup the file that was saved just now is applied.
StartPlain ==
  /\ ~up /\ up' = TRUE /\ backup = Absent /\ intended' = screen
  /\ UNCHANGED <<hw, screen, backup, called, queued, frames, saves, before, trial>>

-----------------------------------------------------------------------------
ConfirmNext ==
  \/ \E look \in Looks : PanelSaves(look) \/ KeyPressed(look) \/ FileChanged(look)
  \/ ApplyConfiguration \/ HardwareChanged \/ ConfirmIdle
  \/ \E n \in 1..MaxDialogs : Tick(n)
  \/ \E r \in {"accept", "cancel"} : Answer(r)
  \/ Kept \/ Reverted \/ ErrorClosed
  \/ Crash \/ StartWithBackup \/ StartGivesUp \/ StartPlain \/ NextTrial

\* The clock goes on, an idle callback and a loop that is quit get to run,
\* and an error is closed.
Deciding ==
  \/ \E n \in 1..MaxDialogs : Tick(n)
  \/ ConfirmIdle \/ Kept \/ Reverted \/ ErrorClosed

ConfirmSpec == ConfirmInit /\ [][ConfirmNext]_confirmVars
ConfirmFairSpec == ConfirmSpec /\ WF_confirmVars(Deciding)

-----------------------------------------------------------------------------
(* Reverts: a configuration that was tried and not kept leaves no trace,   *)
(* whether the dialog was answered, timed out or died with the daemon, or  *)
(* the configuration could not be applied: monitors.xml is what it was.    *)
(* It takes that there was one, that nothing else was saved meanwhile, and *)
(* that a start could apply the backup.                                    *)
Reverts ==
  Over /\ trial # "disturbed" /\ before # Absent => intended = before

(* ConfirmationEnds: "The display will be reset to its previous            *)
(* configuration in %d seconds": a dialog that is left alone ends, as long *)
(* as there is never another one within it.                                *)
Nested == Len(frames) + queued > 1
ConfirmationEnds ==
  [](~Nested) => (frames # <<>> ~> frames = <<>>)

-----------------------------------------------------------------------------
(***************************************************************************)
(* Two monitors as the settings want them (deepin_xrandr.c).  Every change *)
(* of the settings or of the screen starts an xrandr command that nobody   *)
(* waits for, so that commands may end in any order.  The two monitors are *)
(* taken to have a mode in common.                                         *)
(***************************************************************************)
CONSTANTS
  MaxChanges, \* bound on the changes made by users and hardware
  MaxFlying   \* bound on the commands under way

VARIABLES
  two,      \* a second monitor is connected
  copy, extend, only, \* the settings: *-multi-monitors, only-monitor-shown
  layout,   \* what the monitors show
  flying,   \* the commands under way
  notice,   \* GnomeRRScreen is about to tell of a change
  shownOne, \* m_only1_shown and m_only2_shown as one number
  isCopy,   \* m_is_copy_monitor
  names,    \* what m_*_output_name point to: "none", "kept" or "freed"
  written,  \* m_is_config_file_changed
  changes   \* changes so far

deepinVars == <<two, copy, extend, only, layout, flying, notice, shownOne, isCopy,
                names, written, changes>>
settings == <<copy, extend, only>>

Layouts == {"single", "mirror", "extend", "only1", "only2", "other"}
Commands == {"mirror", "extend", "only1", "only2"}

DeepinTypeOK ==
  /\ {two, copy, extend, notice, isCopy, written} \subseteq BOOLEAN
  /\ only \in 0..2 /\ shownOne \in 0..2 /\ changes \in 0..MaxChanges
  /\ layout \in Layouts /\ flying \in Seq(Commands)
  /\ names \in {"none", "kept", "freed"} /\ (layout = "single") = ~two

\* Bug: the flag is never taken back.
CopyFlagSticky == isCopy \/ copy'
CopyFlag == copy'

One(n) == IF n = 1 THEN "only1" ELSE "only2"   \* m_only_one_shown

\* m_set_multi_monitors, with the settings as they are now.  The path to its
\* end drops the configuration that owns the names, the others leak it.
SetMultiMonitors ==
  IF ~two' THEN UNCHANGED <<flying, shownOne, isCopy, names>>
  ELSE /\ isCopy' = CopyFlag
       /\ names' = IF copy' \/ extend' THEN "kept" ELSE "freed"
       /\ LET once == ~copy' /\ ~extend' /\ only' \notin {0, shownOne}
              start == CASE copy'   -> IF written' THEN <<>> ELSE <<"mirror">>
                         [] extend' /\ ~copy' -> <<"extend">>
                         [] OTHER -> IF once THEN <<One(only')>> ELSE <<>>
          IN /\ Len(flying) + Len(start) <= MaxFlying
             /\ flying' = flying \o start
             /\ shownOne' = IF once THEN only' ELSE shownOne

\* deepin_xrandr_init, called by gsd_xrandr_manager_start.
DeepinInit ==
  /\ two \in BOOLEAN /\ copy \in BOOLEAN /\ extend \in BOOLEAN /\ only = 0
  /\ layout = IF two THEN "other" ELSE "single"
  /\ flying = IF ~two THEN <<>> ELSE IF copy THEN <<"mirror">>
              ELSE IF extend THEN <<"extend">> ELSE <<>>
  /\ notice = FALSE /\ shownOne = 0 /\ isCopy = copy /\ written = FALSE
  /\ names = IF ~two THEN "none" ELSE IF copy \/ extend THEN "kept" ELSE "freed"
  /\ changes = 0

Change == changes < MaxChanges /\ changes' = changes + 1

-----------------------------------------------------------------------------
\* m_settings_changed: the user changes one of the three keys.
SettingChanged ==
  /\ Change /\ UNCHANGED <<two, layout, notice, written>>
  /\ \/ copy' = ~copy /\ UNCHANGED <<extend, only>>
     \/ extend' = ~extend /\ UNCHANGED <<copy, only>>
     \/ only' \in 0..2 \ {only} /\ UNCHANGED <<copy, extend>>
  /\ SetMultiMonitors

\* Bug: a change of the screen only renews the names.
ScreenChangedNames ==
  /\ notice /\ notice' = FALSE
  /\ UNCHANGED <<two, settings, layout, written, changes, flying, shownOne, isCopy,
                 names>>

\* Bug: the screen is refreshed, which tells of a change again.
ScreenChangedRefresh ==
  /\ notice /\ notice' = TRUE
  /\ UNCHANGED <<two, settings, layout, written, changes>>
  /\ SetMultiMonitors

\* m_screen_changed
ScreenChanged ==
  /\ notice /\ notice' = FALSE
  /\ UNCHANGED <<two, settings, layout, written, changes>>
  /\ SetMultiMonitors

\* A command ends.  It fails if the monitors it names are gone, and the
\* server tells of a change only if there is one.
CommandEnds(n) ==
  /\ n \in DOMAIN flying
  /\ flying' = SubSeq(flying, 1, n - 1) \o SubSeq(flying, n + 1, Len(flying))
  /\ layout' = IF two THEN flying[n] ELSE layout
  /\ notice' = (notice \/ layout' # layout)
  /\ UNCHANGED <<two, settings, shownOne, isCopy, names, written, changes>>

\* A monitor comes or goes; the rest of the plugin configures what is left.
Hotplug ==
  /\ Change /\ two' = ~two /\ notice' = TRUE
  /\ layout' \in IF two' THEN Layouts \ {"single"} ELSE {"single"}
  /\ UNCHANGED <<settings, flying, shownOne, isCopy, names, written>>

\* Another client of the server configures the two monitors.
OtherClient ==
  /\ Change /\ two /\ notice' = TRUE
  /\ layout' \in Layouts \ {"single", layout}
  /\ UNCHANGED <<two, settings, flying, shownOne, isCopy, names, written>>

\* m_config_file_changed: monitors.xml is written by someone, and from now
\* on only what it says makes a mirror (m_parse_output).
UsesNames(clone) == clone /\ isCopy /\ names # "none"
FileWritten(clone) ==
  /\ Change /\ written' = TRUE
  /\ flying' = flying \o (IF UsesNames(clone) THEN <<"mirror">> ELSE <<>>)
  /\ Len(flying') <= MaxFlying
  /\ UNCHANGED <<two, settings, layout, notice, shownOne, isCopy, names>>

DeepinNext ==
  \/ SettingChanged \/ ScreenChanged \/ Hotplug \/ OtherClient
  \/ \E n \in 1..MaxFlying : CommandEnds(n)
  \/ \E clone \in BOOLEAN : FileWritten(clone)

\* Commands end, and the main loop delivers what the server says.
Commanded == \E n \in 1..MaxFlying : CommandEnds(n)
DeepinSpec == DeepinInit /\ [][DeepinNext]_deepinVars
DeepinFairSpec == DeepinSpec /\ WF_deepinVars(Commanded) /\ WF_deepinVars(ScreenChanged)

-----------------------------------------------------------------------------
(* Obeyed: once commands and events have ended, two monitors show what the *)
(* settings want, although a command that was started earlier may have     *)
(* ended later, and other clients and the rest of the plugin configure     *)
(* them too.  A mirror is not made any more once monitors.xml was written, *)
(* and showing only one monitor is not enforced.                           *)
AtRest == flying = <<>> /\ ~notice
Obeyed ==
  AtRest /\ two => /\ copy /\ ~written => layout = "mirror"
                   /\ extend /\ ~copy  => layout = "extend"

(* NotDangling: the names of the outputs, which m_config_file_changed uses *)
(* long after they were read, still belong to a configuration that lives.  *)
NotDangling == isCopy => names # "freed"

(* ComesToRest: reacting to its own effects does not go on for ever.       *)
ComesToRest == <>[]AtRest
=============================================================================
