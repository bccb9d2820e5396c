---------------------------- MODULE Orientation ----------------------------
(***************************************************************************)
(* Turning the panel with the device: the orientation plugin reads the     *)
(* accelerometer (gsd-orientation-manager.c) and asks the xrandr plugin    *)
(* over D-Bus to rotate the panel and the touchscreens on it               *)
(* (gsd-xrandr-manager.c), which a key can do as well.  Rotations are      *)
(* counted in quarters; 4 is the sensor's "undefined".                     *)
(***************************************************************************)
EXTENDS Naturals, Sequences, FiniteSets

CONSTANTS
  Allowed,    \* sets of rotations the panel may be capable of
  MaxEvents,  \* bound on the events under way
  MaxMoves    \* bound on what the user does

VARIABLES
  allowed,  \* the rotations that can be applied
  sensor,   \* how the device is held
  events,   \* what the kernel has reported and nobody has read
  lock,     \* orientation-lock
  prev,     \* prev_orientation
  ready,    \* xrandr_proxy is there
  call,     \* the rotation asked for with RotateTo, or 4
  panel, touch, \* how the panel and the touchscreens are rotated
  dropped,  \* the last change was not passed on (history)
  lost,     \* the last change was reported while locked (history)
  refused,  \* the last rotation could not be applied, or a key came (history)
  moves

vars == <<allowed, sensor, events, lock, prev, ready, call, panel, touch,
          dropped, lost, refused, moves>>

Rotations == 0..3
Undefined == 4
Orientations == 0..4

TypeOK ==
  /\ allowed \in Allowed /\ {sensor, prev, call} \subseteq Orientations
  /\ {panel, touch} \subseteq allowed /\ Len(events) <= MaxEvents
  /\ events \in Seq(Orientations) /\ moves \in 0..MaxMoves
  /\ {lock, ready, dropped, lost, refused} \subseteq BOOLEAN
  /\ call # Undefined => ready

\* gsd_orientation_manager_idle_cb: how the device is held is remembered, but
\* the panel is not turned.
Init ==
  /\ allowed \in Allowed /\ sensor \in Orientations /\ prev = sensor
  /\ events = <<>> /\ lock \in BOOLEAN /\ ready = FALSE /\ call = Undefined
  /\ panel = 0 /\ touch = 0 /\ dropped = TRUE /\ lost = FALSE
  /\ refused = FALSE /\ moves = 0

Move == moves < MaxMoves /\ moves' = moves + 1

-----------------------------------------------------------------------------
(* The orientation plugin                                                  *)

\* xrandr_ready_cb, at the end of on_bus_gotten's work
XrandrReady ==
  /\ ~ready /\ ready' = TRUE
  /\ UNCHANGED <<allowed, sensor, events, lock, prev, call, panel, touch,
                 dropped, lost, refused, moves>>

\* The device is turned, and udev reports it.
DeviceTurned ==
  /\ Move /\ Len(events) < MaxEvents /\ sensor' \in Orientations \ {sensor}
  /\ events' = Append(events, sensor')
  /\ UNCHANGED <<allowed, lock, prev, ready, call, panel, touch, dropped,
                 lost, refused>>

\* do_rotation and do_xrandr_action.  A call under way is neither cancelled
\* nor followed by another one.
DoRotation(orientation, locked) ==
  IF ~locked /\ orientation # Undefined /\ ready /\ call = Undefined
    THEN call' = orientation /\ dropped' = FALSE /\ refused' = FALSE
    ELSE dropped' = TRUE /\ UNCHANGED <<call, refused>>

\* Bug: the orientation counts as known before it is looked at.
UeventForgets ==
  /\ events # <<>> /\ events' = Tail(events) /\ lost' = lock
  /\ IF lock THEN UNCHANGED <<prev, call, refused, dropped>>
     ELSE IF Head(events) = panel THEN UNCHANGED <<prev, call, refused, dropped>>
     ELSE prev' = Head(events) /\ DoRotation(prev', lock)
  /\ UNCHANGED <<allowed, sensor, lock, ready, panel, touch, moves>>

\* client_uevent_cb.  While locked the event is lost.
Uevent ==
  /\ events # <<>> /\ events' = Tail(events) /\ lost' = lock
  /\ IF lock THEN UNCHANGED <<prev, call, refused, dropped>>
     ELSE IF Head(events) = prev THEN UNCHANGED <<prev, call, refused, dropped>>
     ELSE prev' = Head(events) /\ DoRotation(prev', lock)
  /\ UNCHANGED <<allowed, sensor, lock, ready, panel, touch, moves>>

\* orientation_lock_changed_cb.  The orientation that is passed on when the
\* lock is opened may be an old one.
LockChanged ==
  /\ Move /\ lock' = ~lock
  /\ IF lock' THEN UNCHANGED <<call, dropped, refused>>
     ELSE /\ DoRotation(prev, lock')
  /\ UNCHANGED <<allowed, sensor, events, prev, ready, panel, touch, lost>>

-----------------------------------------------------------------------------
(* The xrandr plugin                                                       *)

\* Bug: the touchscreens are turned although the panel could not be.
RotateAnyway(rotation) ==
  /\ touch' = rotation
  /\ IF rotation \in allowed THEN panel' = rotation /\ UNCHANGED refused
                             ELSE refused' = TRUE /\ UNCHANGED panel

\* handle_rotate_windows from a choice on: apply_configuration, and if that
\* succeeds rotate_touchscreens.
Rotate(rotation) ==
  IF rotation \in allowed THEN panel' = rotation /\ touch' = rotation /\ UNCHANGED refused
                          ELSE refused' = TRUE /\ UNCHANGED <<panel, touch>>

\* RotateTo is handled, and on_xrandr_action_call_finished has its answer.
\* Answered at once or late is the same to the plugin, which waits.
RotateTo ==
  /\ call # Undefined /\ call' = Undefined /\ Rotate(call)
  /\ UNCHANGED <<allowed, sensor, events, lock, prev, ready, dropped, lost,
                 moves>>

\* The call fails: xrandr's plugin is not there.
CallFails ==
  /\ call # Undefined /\ call' = Undefined /\ refused' = TRUE
  /\ UNCHANGED <<allowed, sensor, events, lock, prev, ready, panel, touch,
                 dropped, lost, moves>>

\* get_next_rotation: the first allowed one after the current one.
NextRotation ==
  LET steps == {k \in 1..4 : (panel + k) % 4 \in allowed}
  IN (panel + (CHOOSE k \in steps : \A j \in steps : k <= j)) % 4

\* The rotation key: get_allowed_rotations_for_output, get_next_rotation.
RotateKey ==
  /\ Move /\ NextRotation # panel
  /\ panel' = NextRotation /\ touch' = panel' /\ refused' = TRUE
  /\ UNCHANGED <<allowed, sensor, events, lock, prev, ready, call, dropped, lost>>

Next ==
  \/ XrandrReady \/ DeviceTurned \/ Uevent \/ LockChanged
  \/ RotateTo \/ CallFails \/ RotateKey

Spec == Init /\ [][Next]_vars

-----------------------------------------------------------------------------
(* Upright: when all is quiet the panel is turned as the device is held,   *)
(* although turns are reported late or undone in between, and keys and     *)
(* locks come between them - unless a call under way, a missing proxy or   *)
(* the lock has swallowed the last change, or the panel cannot be turned.  *)
Quiet == events = <<>> /\ call = Undefined /\ ~lock /\ ~dropped /\ ~refused
Upright == Quiet /\ ~lost => panel = prev /\ prev = sensor

(* TouchTurned: the touchscreens are turned with the panel they are on.    *)
TouchTurned == touch = panel
=============================================================================
