--------------------------- MODULE SessionTracker ---------------------------
(***************************************************************************)
(* Whether the user's session is the active one                            *)
(* (gnome-settings-session.c), as PowerIdle reads it.  The build decides   *)
(* between logind, whose monitor only says that something changed, and     *)
(* ConsoleKit, which is asked through a chain of four asynchronous calls   *)
(* before its signals are listened to.                                     *)
(***************************************************************************)
EXTENDS Naturals, Sequences

CONSTANTS
  Backends,  \* "systemd", "consolekit": how the daemon may be built
  WireMax    \* bound on the messages of ConsoleKit under way

VARIABLES
  backend,  \* the one it is built with
  real,     \* "active", "inactive" or, for logind, "gone"
  state,    \* priv->state
  step,     \* how far the set-up is; "flushing" is within a dispatch
  wire,     \* ConsoleKit's answer and signals, or logind's events, unread
  missed    \* the last change was announced to nobody (history)

vars == <<backend, real, state, step, wire, missed>>

Steps == {"manager", "path", "proxy", "asking", "watching", "flushing",
          "failed"}
Messages == [kind : {"answer", "signal", "event"}, active : BOOLEAN]

TypeOK ==
  /\ backend \in Backends /\ real \in {"active", "inactive", "gone"}
  /\ state \in {"unknown", "active", "inactive"} /\ step \in Steps
  /\ wire \in Seq(Messages) /\ Len(wire) <= WireMax /\ missed \in BOOLEAN
  /\ (state = "unknown" /\ backend = "consolekit") =
       (step \in {"manager", "path", "proxy", "asking", "failed"})

\* gnome_settings_session_set_state
SetState(active) == state' = IF active THEN "active" ELSE "inactive"

\* sd_session_is_active as a gboolean: an error is a negative number, true.
IsActive == real # "inactive"

\* gnome_settings_session_init: logind is asked at once, after the monitor
\* has been opened; ConsoleKit's manager is only on its way.
Init ==
  /\ backend \in Backends /\ real \in {"active", "inactive"}
  /\ wire = <<>> /\ missed = FALSE
  /\ IF backend = "systemd"
       THEN step = "watching" /\ state = real
       ELSE step = "manager" /\ state = "unknown"

Send(kind) == wire' = Append(wire, [kind |-> kind, active |-> real' # "inactive"])

-----------------------------------------------------------------------------
(* logind                                                                  *)

\* The seat is switched, or the session is closed behind our back.  Events
\* before the flush of a dispatch are flushed with the one it was about.
LoginChanged ==
  /\ backend = "systemd" /\ Len(wire) < WireMax
  /\ real' \in {"active", "inactive", "gone"} \ {real} /\ real # "gone"
  /\ Send("event") /\ missed' = (step = "flushing")
  /\ UNCHANGED <<backend, state, step>>

\* sd_source_dispatch calls sessions_changed ...
Dispatch ==
  /\ backend = "systemd" /\ step = "watching" /\ wire # <<>>
  /\ SetState(IsActive) /\ step' = "flushing"
  /\ UNCHANGED <<backend, real, wire, missed>>

\* ... and flushes the monitor when it is back.
Flush ==
  /\ step = "flushing" /\ step' = "watching" /\ wire' = <<>>
  /\ UNCHANGED <<backend, real, state, missed>>

-----------------------------------------------------------------------------
(* ConsoleKit                                                              *)

\* got_manager_proxy_cb, got_session_path_cb and got_session_proxy_cb: each
\* makes the next call or gives up for good.
Chain(from, to) ==
  /\ step = from /\ step' \in {to, "failed"}
  /\ UNCHANGED <<backend, real, state, wire, missed>>

GotManagerProxy == Chain("manager", "path")
GotSessionPath  == Chain("path", "proxy")

\* From here on signals reach the proxy, which has no handler yet.
GotSessionProxy == Chain("proxy", "asking")

Answered == \E n \in DOMAIN wire : wire[n].kind = "answer"

\* ConsoleKit handles IsActive: its answer is the state of this moment.
Answer ==
  /\ backend = "consolekit" /\ step = "asking" /\ ~Answered
  /\ Len(wire) < WireMax /\ UNCHANGED real /\ Send("answer")
  /\ missed' = FALSE /\ UNCHANGED <<backend, state, step>>

\* The seat is switched: ActiveChanged.
SeatChanged ==
  /\ backend = "consolekit" /\ real' \in {"active", "inactive"} \ {real}
  /\ IF step \in {"asking", "watching"}
       THEN Len(wire) < WireMax /\ Send("signal")
       ELSE UNCHANGED wire
  /\ UNCHANGED <<backend, state, step, missed>>

\* Bug: an error counts as the answer that the session is not active.
IsActiveDoneAnyway ==
  /\ backend = "consolekit" /\ step = "asking" /\ wire # <<>>
  /\ Head(wire).kind = "answer" /\ wire' = Tail(wire)
  /\ \/ SetState(Head(wire).active) /\ step' = "watching"
     \/ SetState(FALSE) /\ step' = "failed"
  /\ UNCHANGED <<backend, real, missed>>

\* is_active_cb: the handler is connected only now.  On an error, as when
\* the session is unknown, the state stays unknown.
IsActiveDone ==
  /\ backend = "consolekit" /\ step = "asking" /\ wire # <<>>
  /\ Head(wire).kind = "answer" /\ wire' = Tail(wire)
  /\ \/ SetState(Head(wire).active) /\ step' = "watching"
     \/ UNCHANGED state /\ step' = "failed"
  /\ UNCHANGED <<backend, real, missed>>

\* A signal without a handler.
Unheard ==
  /\ step = "asking" /\ wire # <<>> /\ Head(wire).kind = "signal"
  /\ wire' = Tail(wire) /\ UNCHANGED <<backend, real, state, step, missed>>

\* Bug: one signal stands for all that have arrived.
ActiveChangedCoalesced ==
  /\ backend = "consolekit" /\ step = "watching" /\ wire # <<>>
  /\ SetState(Head(wire).active) /\ wire' = <<>>
  /\ UNCHANGED <<backend, real, step, missed>>

\* gnome_settings_session_proxy_signal_cb
ActiveChanged ==
  /\ backend = "consolekit" /\ step = "watching" /\ wire # <<>>
  /\ SetState(Head(wire).active) /\ wire' = Tail(wire)
  /\ UNCHANGED <<backend, real, step, missed>>

-----------------------------------------------------------------------------
Handler ==
  \/ Dispatch \/ Flush \/ GotManagerProxy \/ GotSessionPath
  \/ GotSessionProxy \/ IsActiveDone \/ Unheard \/ ActiveChanged

Next == Handler \/ LoginChanged \/ Answer \/ SeatChanged

Spec == Init /\ [][Next]_vars

-----------------------------------------------------------------------------
(* Settled: once the tracker watches and has read everything, its state is *)
(* the session's, although changes may fall anywhere in the chain of calls *)
(* - the only exception is a change between logind's being asked and the   *)
(* flush that ends the same dispatch (missed).                             *)
Settled ==
  step = "watching" /\ wire = <<>> /\ ~missed
    => (state = "active") = (real # "inactive")
=============================================================================
