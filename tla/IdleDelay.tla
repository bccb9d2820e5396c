----------------------------- MODULE IdleDelay -----------------------------
(***************************************************************************)
(* Dimming the screen of an idle session: the idle-delay plugin listens to *)
(* the session's presence (gsd-idle-delay-watcher.c, -manager.c) and sends *)
(* the brightness to the xrandr plugin (deepin-xrandr-helper.c), which     *)
(* applies the user's setting itself (deepin_xrandr.c).                    *)
(***************************************************************************)
EXTENDS Naturals, Sequences

CONSTANTS
  Levels,   \* levels of brightness
  MaxWire,  \* bound on the messages of each kind under way
  MaxActs  \* bound on what happens to the user and the machine

VARIABLES
  idle,     \* the session's presence is "idle" (status 3)
  wire,     \* the signals of the presence
  idleNotice, \* idle_notice of the watcher
  dim,      \* the setting idle-brightness, settings_brightness
  setting,  \* the setting brightness of xrandr
  calls,    \* SetBrightness calls under way
  lit,      \* the brightness of the screen
  late,     \* a call was sent before the setting last changed (history)
  garbled,  \* the last signal was no status (history)
  left,     \* the plugin was restarted while idle (history)
  acts

vars == <<idle, wire, idleNotice, dim, setting, calls, lit, late, garbled,
          left, acts>>

Signals == {"idle", "busy", "text"}

TypeOK ==
  /\ {idle, idleNotice, late, garbled, left} \subseteq BOOLEAN
  /\ wire \in Seq(Signals) /\ calls \in Seq(Levels) /\ acts \in 0..MaxActs
  /\ Len(wire) <= MaxWire /\ Len(calls) <= MaxWire
  /\ {dim, setting, lit} \subseteq Levels

\* gsd_idle_delay_watcher_init asks for the status before the watcher is
\* active, so that nothing follows from the answer.
Init ==
  /\ idle \in BOOLEAN /\ wire = <<>> /\ idleNotice = FALSE
  /\ dim \in Levels /\ setting \in Levels /\ lit = setting
  /\ calls = <<>> /\ late = FALSE /\ garbled = FALSE /\ left = FALSE /\ acts = 0

Move == acts < MaxActs /\ acts' = acts + 1

-----------------------------------------------------------------------------
(* The session and the user                                                *)

PresenceChanged ==
  /\ Move /\ idle' = ~idle /\ Len(wire) < MaxWire
  /\ wire' = Append(wire, IF idle' THEN "idle" ELSE "busy")
  /\ UNCHANGED <<idleNotice, dim, setting, calls, lit, late, garbled, left>>

\* The presence has another signal, about its text.
TextChanged ==
  /\ Move /\ Len(wire) < MaxWire /\ wire' = Append(wire, "text")
  /\ UNCHANGED <<idle, idleNotice, dim, setting, calls, lit, late, garbled, left>>

\* brightness_changed_cb of the plugin: it counts from the next time on.
DimChanged ==
  /\ Move /\ dim' \in Levels \ {dim}
  /\ UNCHANGED <<idle, wire, idleNotice, setting, calls, lit, late, garbled, left>>

\* The user acts the slider or presses a key (deepin_xrandr_set_brightness
\* with effect_gsetting): m_settings_changed of the xrandr plugin applies it.
SettingChanged ==
  /\ Move /\ setting' \in Levels \ {setting} /\ lit' = setting'
  /\ late' = (calls # <<>>)
  /\ UNCHANGED <<idle, wire, idleNotice, dim, calls, garbled, left>>

-----------------------------------------------------------------------------
(* The plugins                                                             *)

\* deepin_xrandr_set_brightness without effect_gsetting: a call to the
\* daemon itself, with the value of this moment.
SetBrightness(value) ==
  /\ Len(calls) < MaxWire /\ calls' = Append(calls, value)
  /\ late' = (late /\ value # setting)

\* Bug: idle-changed is waited for, which nobody ever emits with TRUE.
SetStatusIdle(isIdle) ==
  IF isIdle = idleNotice \/ ~isIdle THEN UNCHANGED <<idleNotice, calls, late>>
  ELSE idleNotice' = isIdle /\ SetBrightness(dim)

\* set_status and watcher_idle_notice_cb: only a change of the notice counts,
\* and the setting is read when the call is sent.
SetStatus(isIdle) ==
  IF isIdle = idleNotice THEN UNCHANGED <<idleNotice, calls, late>>
  ELSE idleNotice' = isIdle /\ SetBrightness(IF isIdle THEN dim ELSE setting)

\* on_presence_status_changed takes every signal for a status.  The text is
\* no number, and what is read instead of one is undefined.
PresenceSignal ==
  /\ wire # <<>> /\ wire' = Tail(wire) /\ garbled' = (Head(wire) = "text")
  /\ \E isIdle \in IF garbled' THEN BOOLEAN ELSE {Head(wire) = "idle"} :
       SetStatus(isIdle)
  /\ UNCHANGED <<idle, dim, setting, lit, left, acts>>

\* The call arrives: deepin_xrandr_set_brightness_without_gsetting.
CallArrives ==
  /\ calls # <<>> /\ lit' = Head(calls) /\ calls' = Tail(calls)
  /\ UNCHANGED <<idle, wire, idleNotice, dim, setting, late, garbled, left, acts>>

\* upower_notify_resume_cb of the power plugin
Resume ==
  /\ Move /\ SetBrightness(setting)
  /\ UNCHANGED <<idle, wire, idleNotice, dim, setting, lit, garbled, left>>

\* The plugin is removed and made again: the new watcher knows nothing of
\* the old one's notice, and signals to the old one are lost.
Restart ==
  /\ Move /\ idleNotice' = FALSE /\ wire' = <<>>
  /\ left' = (left \/ idle \/ idleNotice \/ wire # <<>>)
  /\ UNCHANGED <<idle, dim, setting, calls, lit, late, garbled>>

Next ==
  \/ PresenceChanged \/ TextChanged \/ DimChanged \/ SettingChanged
  \/ PresenceSignal \/ CallArrives \/ Resume \/ Restart

Spec == Init /\ [][Next]_vars

-----------------------------------------------------------------------------
(* Brightened: once all signals and calls have been handled, the screen of *)
(* a session that is not idle is as bright as the user wants it, however   *)
(* often it was dimmed, whatever was changed while it was dim and if it    *)
(* slept meanwhile - unless the setting was changed while a call with the  *)
(* old value was under way, the last signal was no status, or the plugin   *)
(* was restarted while the screen was dim.                                 *)
Brightened ==
  ~idle /\ wire = <<>> /\ calls = <<>> /\ ~late /\ ~garbled /\ ~left
    => lit = setting
=============================================================================
