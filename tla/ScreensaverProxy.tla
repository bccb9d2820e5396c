-------------------------- MODULE ScreensaverProxy --------------------------
(***************************************************************************)
(* The screensaver-proxy plugin (gsd-screensaver-proxy-manager.c): calls   *)
(* of org.freedesktop.ScreenSaver become inhibitors of gnome-session, and  *)
(* a caller that leaves the bus must not leave its inhibitors behind.      *)
(*                                                                         *)
(* gnome-session takes the proxy for the client of all of them, so it      *)
(* drops them by itself only when the daemon leaves.                       *)
(***************************************************************************)
EXTENDS Naturals, FiniteSets

CONSTANTS
  Callers,   \* unique names on the session bus
  CookieMax, \* bound on the inhibitors made
  MayStop    \* the plugin may be stopped and started again

VARIABLES
  running,     \* "started", "stopped" or "crashed"
  alive,       \* callers still on the bus
  inhibitors,  \* cookies gnome-session holds, and for whom they were made
  cookies,     \* cookie_ht: cookie -> sender
  watches,     \* watch_ht: watched senders
  made,        \* number of cookies handed out
  departed,    \* the callers whose end was handled, first one first (history)
  forgotten    \* cookies the last stop forgot about (history)

vars == <<running, alive, inhibitors, cookies, watches, made, departed, forgotten>>

Cookies == 1..CookieMax
OfCookies(f) == DOMAIN f \subseteq Cookies /\ \A c \in DOMAIN f : f[c] \in Callers

TypeOK ==
  /\ running \in {"started", "stopped", "crashed"} /\ alive \subseteq Callers
  /\ OfCookies(inhibitors) /\ OfCookies(cookies) /\ made \in 0..CookieMax
  /\ watches \subseteq Callers /\ departed \subseteq Callers
  /\ forgotten \subseteq Cookies
  /\ \A c \in DOMAIN cookies : c \in DOMAIN inhibitors => cookies[c] = inhibitors[c]
  /\ DOMAIN inhibitors \ forgotten = DOMAIN cookies

None == [c \in {} |-> c]
Without(f, gone) == [c \in DOMAIN f \ gone |-> f[c]]

Init ==
  /\ running = "started" /\ alive = Callers /\ inhibitors = None
  /\ cookies = None /\ watches = {} /\ made = 0
  /\ departed = {} /\ forgotten = {}

-----------------------------------------------------------------------------
(* handle_method_call                                                      *)

\* Bug: one watch is made for each cookie, and only for the first caller.
InhibitUnwatched(caller) ==
  /\ running = "started" /\ caller \notin departed /\ made < CookieMax
  /\ made' = made + 1
  /\ inhibitors' = [c \in DOMAIN inhibitors \cup {made'} |->
                      IF c = made' THEN caller ELSE inhibitors[c]]
  /\ cookies' = [c \in DOMAIN cookies \cup {made'} |->
                   IF c = made' THEN caller ELSE cookies[c]]
  /\ watches' = IF watches = {} THEN {caller} ELSE watches
  /\ UNCHANGED <<running, alive, departed, forgotten>>

\* Inhibit, answered with gnome-session's cookie.  The caller may have left
\* since it called.
Inhibit(caller) ==
  /\ running = "started" /\ caller \notin departed /\ made < CookieMax
  /\ made' = made + 1
  /\ inhibitors' = [c \in DOMAIN inhibitors \cup {made'} |->
                      IF c = made' THEN caller ELSE inhibitors[c]]
  /\ cookies' = [c \in DOMAIN cookies \cup {made'} |->
                   IF c = made' THEN caller ELSE cookies[c]]
  /\ watches' = watches \cup {caller}
  /\ UNCHANGED <<running, alive, departed, forgotten>>

\* The answer of a gnome-session that fails is read although it is NULL.
InhibitFails ==
  /\ running = "started" /\ alive # {} /\ made < CookieMax
  /\ running' = "crashed" /\ inhibitors' = None
  /\ cookies' = None /\ watches' = {} /\ forgotten' = {}
  /\ UNCHANGED <<alive, made, departed>>

\* UnInhibit: anyone's cookie, and known to gnome-session or not.  The
\* watch of its caller stays.
UnInhibit(cookie) ==
  /\ running = "started" /\ alive # {} /\ cookie \in 1..made
  /\ inhibitors' = Without(inhibitors, {cookie})
  /\ cookies' = Without(cookies, {cookie})
  /\ forgotten' = forgotten \ {cookie}
  /\ UNCHANGED <<running, alive, watches, made, departed>>

-----------------------------------------------------------------------------
(* Callers that leave                                                      *)

Leave(caller) ==
  /\ caller \in alive /\ alive' = alive \ {caller}
  /\ UNCHANGED <<running, inhibitors, cookies, watches, made, departed, forgotten>>

\* Which watches the end of name_vanished_cb may remove: it passes on the
\* sender its loop saw last.  If that was an entry of another caller, it is
\* that caller's; if it was one of this name, its string has been freed by
\* then, which the table finds or does not find.
Dropped(name) ==
  {{cookies[c]} : c \in {d \in DOMAIN cookies : cookies[d] # name}}
    \cup (IF \E c \in DOMAIN cookies : cookies[c] = name
            THEN {{}, {name}} ELSE {})

\* Bug: only one of the cookies of the name is looked for.
VanishedFirst(name) ==
  /\ running = "started" /\ name \in watches \ alive /\ name \notin departed
  /\ cookies # None /\ departed' = departed \cup {name}
  /\ LET owned == {c \in DOMAIN cookies : cookies[c] = name}
         first == {c \in owned : \A d \in owned : c <= d} IN
       /\ inhibitors' = Without(inhibitors, first)
       /\ cookies' = Without(cookies, first)
  /\ \E gone \in Dropped(name) : watches' = watches \ gone
  /\ UNCHANGED <<running, alive, made, forgotten>>

\* name_vanished_cb, which a watch calls once.
Vanished(name) ==
  /\ running = "started" /\ name \in watches \ alive /\ name \notin departed
  /\ cookies # None /\ departed' = departed \cup {name}
  /\ LET owned == {c \in DOMAIN cookies : cookies[c] = name} IN
       /\ inhibitors' = Without(inhibitors, owned)
       /\ cookies' = Without(cookies, owned)
  /\ \E gone \in Dropped(name) : watches' = watches \ gone
  /\ UNCHANGED <<running, alive, made, forgotten>>

\* Without a cookie in the table nothing gives sender a value: the removal
\* crashes, or hits some watch or none.
VanishedAtLast(name) ==
  /\ running = "started" /\ name \in watches \ alive /\ name \notin departed
  /\ cookies = None /\ departed' = departed \cup {name}
  /\ \/ /\ running' = "crashed" /\ watches' = {}
        /\ inhibitors' = None /\ forgotten' = {}
     \/ /\ \E gone \in {{}} \cup {{w} : w \in watches} : watches' = watches \ gone
        /\ UNCHANGED <<running, inhibitors, forgotten>>
  /\ UNCHANGED <<alive, cookies, made>>

-----------------------------------------------------------------------------
\* gsd_screensaver_proxy_manager_stop: calls are not answered from now on.
Stop ==
  /\ MayStop /\ running = "started" /\ running' = "stopped"
  /\ watches' = {} /\ cookies' = None
  /\ forgotten' = forgotten \cup DOMAIN cookies
  /\ UNCHANGED <<alive, inhibitors, made, departed>>

\* gsd_screensaver_proxy_manager_start
Start ==
  /\ running = "stopped" /\ running' = "started"
  /\ UNCHANGED <<alive, inhibitors, cookies, watches, made, departed, forgotten>>

Next ==
  \/ \E c \in Callers : Inhibit(c) \/ Leave(c) \/ Vanished(c) \/ VanishedAtLast(c)
  \/ \E k \in Cookies : UnInhibit(k)
  \/ InhibitFails \/ Stop \/ Start

Spec == Init /\ [][Next]_vars

-----------------------------------------------------------------------------
(* Released: once the end of a caller has been handled it inhibits nothing *)
(* any more, however its calls, its end and the calls of others are        *)
(* ordered - unless the plugin was stopped in between, which forgets.      *)
Released ==
  \A c \in DOMAIN inhibitors \ forgotten : inhibitors[c] \notin departed

(* Watched: as long as no caller's end has been handled, each caller with  *)
(* a cookie is watched, so that its end will be.  Afterwards this may fail:*)
(* the first end that is handled may drop the watch of another caller.     *)
Watched ==
  departed = {} => \A c \in DOMAIN cookies : cookies[c] \in watches
=============================================================================
