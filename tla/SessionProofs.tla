---------------------------- MODULE SessionProofs ----------------------------
(* What holds of the parts of MC_Session for every value of the constants: *)
(* what is shown and promised settles, nobody is left waiting, trials of a *)
(* configuration leave no trace, and keys and the time zone are what the   *)
(* user set.  Each part has an inductive invariant of its own, the         *)
(* conjunction of what its types, its queues and its property need; the    *)
(* last section lets one of the parts move.                                *)
EXTENDS MC_Session, SequenceTheorems, WellFoundedInduction, TLAPS

\* Numbers below a number are well-founded, so that a set of them has a least
\* one.
Less == {p \in Nat \X Nat : p[1] < p[2]}

LEMMA LeastNumber ==
  ASSUME NEW T \in SUBSET Nat, T # {}
  PROVE  \E n \in T : \A m \in T : n <= m
<1>1. Less = OpToRel(<, Nat)
  BY Zenon DEF OpToRel, Less
<1>2. IsWellFoundedOn(Less, Nat)
  BY <1>1, NatLessThanWellFounded, Zenon
<1>3. PICK x \in T : \A y \in T : <<y, x>> \notin Less
  BY <1>2, WFMin
<1>4. \A y \in T : <<y, x>> \in Nat \X Nat /\ <<y, x>>[1] = y /\ <<y, x>>[2] = x
  OBVIOUS
<1>5. \A y \in T : ~(y < x)
  BY <1>3, <1>4 DEF Less
<1> QED
  BY <1>5

LEMMA GreatestNumber ==
  ASSUME NEW bound \in Nat, NEW T \in SUBSET (0..bound), T # {}
  PROVE  \E n \in T : \A m \in T : m <= n
<1> DEFINE U == {k \in 0..bound : bound - k \in T}
<1>1. U \in SUBSET Nat /\ U # {}
  <2>1. PICK t \in T : TRUE
    OBVIOUS
  <2>2. bound - t \in 0..bound /\ bound - (bound - t) = t
    OBVIOUS
  <2> QED
    BY <2>2
<1>2. PICK k \in U : \A j \in U : k <= j
  <2> HIDE DEF U
  <2> QED
    BY <1>1, LeastNumber
<1>3. \A m \in T : bound - m \in U /\ m \in 0..bound
  OBVIOUS
<1>4. \A m \in T : m <= bound - k
  BY <1>2, <1>3
<1> QED
  BY <1>2, <1>4

(***************************************************************************)
(* screensaver-proxy                                                       *)
(***************************************************************************)

\* Only cookies that were handed out are held or forgotten.
Numbered == DOMAIN inhibitors \subseteq 1..made /\ forgotten \subseteq 1..made

ProxyInv == SP!TypeOK /\ Numbered /\ SP!Released /\ SP!Watched

\* What Without leaves of a table.
LEMMA WithoutIs ==
  ASSUME NEW f, NEW gone
  PROVE  /\ DOMAIN SP!Without(f, gone) = DOMAIN f \ gone
         /\ \A c \in DOMAIN f \ gone : SP!Without(f, gone)[c] = f[c]
BY DEF SP!Without

LEMMA NoneIsEmpty == DOMAIN SP!None = {}
BY DEF SP!None

LEMMA ProxyInhibits ==
  ASSUME CookieMax \in Nat, ProxyInv, NEW caller \in Callers, SP!Inhibit(caller)
  PROVE  ProxyInv'
<1>1. /\ made \in 0..CookieMax /\ made' = made + 1 /\ made' \in SP!Cookies
      /\ made' \in 0..CookieMax /\ made' \notin 1..made
      /\ 1..made' = (1..made) \cup {made'}
  BY DEF ProxyInv, SP!TypeOK, SP!Inhibit, SP!Cookies
<1>2. /\ DOMAIN inhibitors' = DOMAIN inhibitors \cup {made'}
      /\ DOMAIN cookies' = DOMAIN cookies \cup {made'}
      /\ inhibitors'[made'] = caller /\ cookies'[made'] = caller
      /\ \A c \in DOMAIN inhibitors \ {made'} : inhibitors'[c] = inhibitors[c]
      /\ \A c \in DOMAIN cookies \ {made'} : cookies'[c] = cookies[c]
  BY DEF SP!Inhibit
<1>3. /\ watches' = watches \cup {caller} /\ caller \notin departed
      /\ UNCHANGED <<running, alive, departed, forgotten>>
  BY DEF SP!Inhibit
<1>4. made' \notin DOMAIN inhibitors /\ made' \notin forgotten
      /\ made' \notin DOMAIN cookies
  BY <1>1 DEF ProxyInv, Numbered, SP!TypeOK
<1>5. SP!TypeOK'
  BY <1>1, <1>2, <1>3, <1>4 DEF ProxyInv, SP!TypeOK, SP!OfCookies
<1>6. Numbered'
  BY <1>1, <1>2, <1>3 DEF ProxyInv, Numbered
<1>7. SP!Released'
  BY <1>2, <1>3, <1>4 DEF ProxyInv, SP!Released
<1>8. SP!Watched'
  BY <1>2, <1>3, <1>4 DEF ProxyInv, SP!Watched
<1> QED
  BY <1>5, <1>6, <1>7, <1>8 DEF ProxyInv

\* name_vanished_cb removes all that the name has in cookie_ht, and so all
\* of it that gnome-session holds and nobody forgot.
LEMMA ProxyVanished ==
  ASSUME ProxyInv, NEW name \in Callers, SP!Vanished(name)
  PROVE  ProxyInv'
<1> DEFINE owned == {c \in DOMAIN cookies : cookies[c] = name}
<1>0. /\ inhibitors' = SP!Without(inhibitors, owned)
      /\ cookies' = SP!Without(cookies, owned)
  BY DEF SP!Vanished
<1>1. /\ DOMAIN inhibitors' = DOMAIN inhibitors \ owned
      /\ DOMAIN cookies' = DOMAIN cookies \ owned
      /\ \A c \in DOMAIN inhibitors \ owned : inhibitors'[c] = inhibitors[c]
      /\ \A c \in DOMAIN cookies \ owned : cookies'[c] = cookies[c]
  <2> HIDE DEF owned
  <2> QED
    BY <1>0, WithoutIs
<1>2. /\ departed' = departed \cup {name} /\ watches' \subseteq watches
      /\ UNCHANGED <<running, alive, made, forgotten>>
  BY DEF SP!Vanished
<1>3. SP!TypeOK'
  BY <1>1, <1>2 DEF ProxyInv, SP!TypeOK, SP!OfCookies
<1>4. Numbered' /\ SP!Watched'
  BY <1>1, <1>2 DEF ProxyInv, Numbered, SP!Watched
<1>5. SP!Released'
  BY <1>1, <1>2 DEF ProxyInv, SP!TypeOK, SP!Released
<1> QED
  BY <1>3, <1>4, <1>5 DEF ProxyInv

\* Steps that take cookies away and end no caller.
LEMMA ProxyOthers ==
  ASSUME ProxyInv,
         \/ \E c \in Callers : SP!Leave(c) \/ SP!VanishedAtLast(c)
         \/ \E k \in SP!Cookies : SP!UnInhibit(k)
         \/ SP!InhibitFails \/ SP!Stop \/ SP!Start
  PROVE  ProxyInv'
<1>1. ASSUME NEW c \in Callers, SP!Leave(c) PROVE ProxyInv'
  BY <1>1 DEF SP!Leave, ProxyInv, SP!TypeOK, Numbered, SP!Released, SP!Watched, SP!OfCookies
<1>2. ASSUME NEW c \in Callers, SP!VanishedAtLast(c) PROVE ProxyInv'
  <2>1. DOMAIN cookies = {} /\ DOMAIN cookies' = {}
        /\ departed' = departed \cup {c} /\ watches' \subseteq watches
        /\ UNCHANGED <<alive, cookies, made>>
    BY <1>2, NoneIsEmpty DEF SP!VanishedAtLast
  <2>2. \/ UNCHANGED <<running, inhibitors, forgotten>>
        \/ /\ running' = "crashed" /\ DOMAIN inhibitors' = {}
           /\ forgotten' = {}
    BY <1>2, NoneIsEmpty DEF SP!VanishedAtLast
  <2> QED
    BY <2>1, <2>2 DEF ProxyInv, SP!TypeOK, Numbered, SP!Released, SP!Watched, SP!OfCookies
<1>3. ASSUME NEW k \in SP!Cookies, SP!UnInhibit(k) PROVE ProxyInv'
  <2>1. /\ DOMAIN inhibitors' = DOMAIN inhibitors \ {k}
        /\ DOMAIN cookies' = DOMAIN cookies \ {k}
        /\ \A c \in DOMAIN inhibitors \ {k} : inhibitors'[c] = inhibitors[c]
        /\ \A c \in DOMAIN cookies \ {k} : cookies'[c] = cookies[c]
        /\ forgotten' = forgotten \ {k}
        /\ UNCHANGED <<running, alive, watches, made, departed>>
    BY <1>3, WithoutIs DEF SP!UnInhibit
  <2> QED
    BY <2>1 DEF ProxyInv, SP!TypeOK, Numbered, SP!Released, SP!Watched, SP!OfCookies
<1>4. CASE SP!InhibitFails
  <2>1. /\ DOMAIN inhibitors' = {} /\ DOMAIN cookies' = {} /\ forgotten' = {}
        /\ running' = "crashed" /\ watches' = {}
        /\ UNCHANGED <<alive, made, departed>>
    BY <1>4, NoneIsEmpty DEF SP!InhibitFails
  <2> QED
    BY <2>1 DEF ProxyInv, SP!TypeOK, Numbered, SP!Released, SP!Watched, SP!OfCookies
<1>5. CASE SP!Stop
  <2>1. /\ DOMAIN cookies' = {} /\ forgotten' = forgotten \cup DOMAIN cookies
        /\ running' = "stopped" /\ watches' = {}
        /\ UNCHANGED <<alive, inhibitors, made, departed>>
    BY <1>5, NoneIsEmpty DEF SP!Stop
  <2> QED
    BY <2>1 DEF ProxyInv, SP!TypeOK, Numbered, SP!Released, SP!Watched, SP!OfCookies
<1>6. CASE SP!Start
  BY <1>6 DEF SP!Start, ProxyInv, SP!TypeOK, Numbered, SP!Released, SP!Watched, SP!OfCookies
<1> QED
  BY <1>1, <1>2, <1>3, <1>4, <1>5, <1>6

LEMMA ProxyInit == ASSUME CookieMax \in Nat PROVE SP!Init => ProxyInv
BY NoneIsEmpty
   DEF SP!Init, ProxyInv, SP!TypeOK, Numbered, SP!Released, SP!Watched,
       SP!OfCookies

LEMMA ProxyNext ==
  ASSUME CookieMax \in Nat, ProxyInv, SP!Next \/ UNCHANGED proxyVars
  PROVE  ProxyInv'
<1>1. CASE UNCHANGED proxyVars
  BY <1>1 DEF proxyVars, ProxyInv, SP!TypeOK, Numbered, SP!Released, SP!Watched,
              SP!OfCookies
<1> QED
  BY <1>1, ProxyInhibits, ProxyVanished, ProxyOthers DEF SP!Next

(***************************************************************************)
(* The session tracker                                                     *)
(***************************************************************************)

Right == (state = "active") = (real # "inactive")

\* The last message under way is about the session as it is now.
LastIsNew == wire # <<>> => wire[Len(wire)].active = (real # "inactive")

TrackerInv ==
  /\ ST!TypeOK
  /\ backend = "systemd" =>
       /\ step \in {"watching", "flushing"}
       /\ (step = "flushing" \/ wire = <<>>) /\ ~missed => Right
  /\ backend # "systemd" =>
       /\ step # "flushing"
       /\ step \in {"manager", "path", "proxy"} => wire = <<>>
       /\ step \in {"asking", "watching"} => LastIsNew
       /\ step = "watching" /\ wire = <<>> => Right

\* What Append and Tail do to the last message.
LEMMA LastAppended ==
  ASSUME NEW S, NEW s \in Seq(S), NEW e \in S
  PROVE  /\ Append(s, e) \in Seq(S) /\ Append(s, e) # <<>>
         /\ Len(Append(s, e)) = Len(s) + 1
         /\ Append(s, e)[Len(Append(s, e))] = e
OBVIOUS

LEMMA LastOfTail ==
  ASSUME NEW S, NEW s \in Seq(S), s # <<>>
  PROVE  /\ Tail(s) \in Seq(S) /\ Len(Tail(s)) = Len(s) - 1
         /\ Tail(s) # <<>> => Tail(s)[Len(Tail(s))] = s[Len(s)]
         /\ Tail(s) = <<>> => Head(s) = s[Len(s)]
         /\ Head(s) \in S
<1>1. /\ Len(s) \in Nat \ {0} /\ Head(s) \in S /\ Head(s) = s[1]
      /\ Tail(s) \in Seq(S) /\ Len(Tail(s)) = Len(s) - 1
      /\ \A i \in 1..Len(Tail(s)) : Tail(s)[i] = s[i + 1]
  BY HeadTailProperties, LenProperties, EmptySeq
<1>2. Tail(s) = <<>> <=> Len(Tail(s)) = 0
  BY <1>1, EmptySeq
<1> QED
  BY <1>1, <1>2

LEMMA TrackerInit ==
  ASSUME WireMax \in Nat, Backends \subseteq {"systemd", "consolekit"}, ST!Init
  PROVE  TrackerInv
<1>1. wire \in Seq(ST!Messages) /\ Len(wire) <= WireMax
  BY EmptySeq DEF ST!Init
<1>2. CASE backend = "systemd"
  <2>1. state = real /\ step = "watching" /\ missed = FALSE
    BY <1>2 DEF ST!Init
  <2>2. state \in {"active", "inactive"} /\ Right
    BY <2>1 DEF ST!Init, Right
  <2>3. ~(state = "unknown" /\ backend = "consolekit")
    BY <1>2
  <2>4. step \notin {"manager", "path", "proxy", "asking", "failed"}
    BY <2>1
  <2>5. (state = "unknown" /\ backend = "consolekit")
           = (step \in {"manager", "path", "proxy", "asking", "failed"})
    BY <2>3, <2>4
  <2>6. ST!TypeOK
    BY <1>1, <2>1, <2>2, <2>5 DEF ST!Init, ST!TypeOK, ST!Steps
  <2> QED
    BY <1>2, <2>1, <2>2, <2>6 DEF TrackerInv
<1>3. CASE backend = "consolekit"
  BY <1>1, <1>3 DEF ST!Init, TrackerInv, ST!TypeOK, ST!Steps, LastIsNew
<1> QED
  BY <1>2, <1>3 DEF ST!Init

LEMMA TrackerSent ==
  ASSUME TrackerInv, WireMax \in Nat, NEW kind \in {"answer", "signal", "event"},
         Len(wire) < WireMax, ST!Send(kind)
  PROVE  /\ wire' \in Seq(ST!Messages) /\ Len(wire') <= WireMax /\ wire' # <<>>
         /\ LastIsNew'
<1> DEFINE e == [kind |-> kind, active |-> real' # "inactive"]
<1>1. e \in ST!Messages
  BY DEF ST!Messages
<1>2. wire \in Seq(ST!Messages) /\ wire' = Append(wire, e)
  BY DEF TrackerInv, ST!TypeOK, ST!Send
<1>3. e.active = (real' # "inactive")
  OBVIOUS
<1> HIDE DEF e
<1>4. /\ wire' \in Seq(ST!Messages) /\ wire' # <<>> /\ Len(wire') = Len(wire) + 1
      /\ wire'[Len(wire')] = e
  BY <1>1, <1>2, LastAppended
<1> QED
  BY <1>2, <1>3, <1>4 DEF LastIsNew

LEMMA TrackerRead ==
  ASSUME TrackerInv, WireMax \in Nat, wire # <<>>, wire' = Tail(wire),
         UNCHANGED real, LastIsNew
  PROVE  /\ wire' \in Seq(ST!Messages) /\ Len(wire') <= WireMax /\ LastIsNew'
         /\ Head(wire) \in ST!Messages
         /\ wire' = <<>> => Head(wire).active = (real # "inactive")
<1>1. wire \in Seq(ST!Messages) /\ Len(wire) <= WireMax
  BY DEF TrackerInv, ST!TypeOK
<1>2. /\ wire' \in Seq(ST!Messages) /\ Len(wire') = Len(wire) - 1
      /\ wire' # <<>> => wire'[Len(wire')] = wire[Len(wire)]
      /\ wire' = <<>> => Head(wire) = wire[Len(wire)]
      /\ Head(wire) \in ST!Messages
  BY <1>1, LastOfTail
<1>3. Len(wire') <= WireMax
  BY <1>1, <1>2
<1> QED
  BY <1>2, <1>3 DEF LastIsNew

LEMMA TrackerNext ==
  ASSUME WireMax \in Nat, TrackerInv, ST!Next \/ UNCHANGED trackerVars
  PROVE  TrackerInv'
<1> USE DEF TrackerInv, ST!TypeOK, ST!Steps
<1>1. CASE ST!LoginChanged
  BY <1>1, TrackerSent DEF ST!LoginChanged
<1>2. CASE ST!Dispatch
  BY <1>2 DEF ST!Dispatch, ST!SetState, ST!IsActive, Right
<1>3. CASE ST!Flush
  BY <1>3 DEF ST!Flush, Right
<1>4. CASE ST!GotManagerProxy \/ ST!GotSessionPath \/ ST!GotSessionProxy
  BY <1>4 DEF ST!GotManagerProxy, ST!GotSessionPath, ST!GotSessionProxy,
              ST!Chain, LastIsNew, Right
<1>5. CASE ST!Answer
  BY <1>5, TrackerSent DEF ST!Answer, Right
<1>6. CASE ST!SeatChanged
  <2>1. CASE step \in {"asking", "watching"}
    BY <1>6, <2>1, TrackerSent DEF ST!SeatChanged
  <2>2. CASE step \notin {"asking", "watching"}
    BY <1>6, <2>2 DEF ST!SeatChanged
  <2> QED
    BY <2>1, <2>2
<1>7. CASE ST!IsActiveDone
  <2>1. /\ wire' \in Seq(ST!Messages) /\ Len(wire') <= WireMax /\ LastIsNew'
        /\ wire' = <<>> => Head(wire).active = (real # "inactive")
    BY <1>7, TrackerRead DEF ST!IsActiveDone
  <2>2. /\ \/ state' \in {"active", "inactive"} /\ step' = "watching"
           \/ state' = state /\ step' = "failed"
        /\ step' = "watching" => (state' = "active") = Head(wire).active
    BY <1>7, TrackerRead DEF ST!IsActiveDone, ST!SetState, ST!Messages
  <2> QED
    BY <1>7, <2>1, <2>2 DEF ST!IsActiveDone, Right
<1>8. CASE ST!Unheard
  BY <1>8, TrackerRead DEF ST!Unheard
<1>9. CASE ST!ActiveChanged
  BY <1>9, TrackerRead DEF ST!ActiveChanged, ST!SetState, Right
<1>10. CASE UNCHANGED trackerVars
  BY <1>10 DEF trackerVars, LastIsNew, Right
<1> QED
  BY <1>1, <1>2, <1>3, <1>4, <1>5, <1>6, <1>7, <1>8, <1>9, <1>10
     DEF ST!Next, ST!Handler

(***************************************************************************)
(* Trying a monitor configuration out                                      *)
(***************************************************************************)

\* What is left of an error that nothing depends on.
Harmless(f) == f.kind = "error" /\ ~f.undo
AllHarmless(s) == \A n \in DOMAIN s : Harmless(s[n])

\* The one dialog that is still to decide on the trial.
Undecided(f) ==
  ~Harmless(f) /\ (f.kind = "confirm" /\ f.quit => f.response # "unset")
OneUndecided(s) ==
  \E n \in DOMAIN s :
    Undecided(s[n]) /\ \A m \in DOMAIN s \ {n} : Harmless(s[m])

\* Nothing is on its way to a decision, or exactly one thing is: the call,
\* the idle callback or a dialog.
NothingPending == ~called /\ queued = 0 /\ AllHarmless(frames)
OnePending ==
  \/ called /\ queued = 0 /\ AllHarmless(frames)
  \/ ~called /\ queued = 1 /\ AllHarmless(frames)
  \/ ~called /\ queued = 0 /\ OneUndecided(frames)

\* While a trial is open the backup is what the panel's save replaced, and
\* nobody but its own dialog will take it away.
TrialInv ==
  /\ ~up => ~called
  /\ trial \in {"none", "restored"} => NothingPending
  /\ trial = "open" => NothingPending \/ OnePending
  /\ trial = "open" /\ confirmBefore # XR!Absent =>
       backup = confirmBefore /\ (up => OnePending)
  /\ trial = "restored" /\ confirmBefore # XR!Absent => intended = confirmBefore
  /\ trial = "restored" => up

QuitsConfirm(s) == \A n \in DOMAIN s : s[n].quit => s[n].kind = "confirm"

ConfirmTypes ==
  /\ up \in BOOLEAN /\ hw \in Hardware /\ screen \in XR!Configs
  /\ intended \in XR!Files /\ backup \in XR!Files /\ confirmBefore \in XR!Files
  /\ called \in BOOLEAN /\ queued \in 0..MaxDialogs /\ saves \in 0..MaxSaves
  /\ frames \in Seq(XR!Frames) /\ QuitsConfirm(frames)
  /\ trial \in {"none", "open", "restored", "disturbed"}
  /\ ~up => frames = <<>> /\ queued = 0

ConfirmInv == ConfirmTypes /\ TrialInv

LEMMA ConfirmTypesAre == ConfirmTypes <=> XR!ConfirmTypeOK
BY DEF ConfirmTypes, XR!ConfirmTypeOK, QuitsConfirm

LEMMA FrameAppended ==
  ASSUME NEW s \in Seq(XR!Frames), NEW e \in XR!Frames, NEW t, t = Append(s, e)
  PROVE  /\ t \in Seq(XR!Frames)
         /\ AllHarmless(s) /\ Harmless(e) => AllHarmless(t)
         /\ OneUndecided(s) /\ Harmless(e) => OneUndecided(t)
         /\ AllHarmless(s) /\ Undecided(e) => OneUndecided(t)
         /\ QuitsConfirm(s) /\ ~e.quit => QuitsConfirm(t)
<1>1. /\ t \in Seq(XR!Frames) /\ Len(s) \in Nat /\ DOMAIN s = 1..Len(s)
      /\ DOMAIN t = 1..(Len(s) + 1) /\ t[Len(s) + 1] = e
      /\ \A i \in 1..Len(s) : t[i] = s[i]
  BY AppendProperties, LenProperties
<1>2. DOMAIN t = DOMAIN s \cup {Len(s) + 1} /\ Len(s) + 1 \notin DOMAIN s
  BY <1>1
<1>3. ASSUME OneUndecided(s), Harmless(e) PROVE OneUndecided(t)
  <2>1. PICK n \in DOMAIN s :
          Undecided(s[n]) /\ \A m \in DOMAIN s \ {n} : Harmless(s[m])
    BY <1>3 DEF OneUndecided
  <2>2. n \in DOMAIN t /\ t[n] = s[n]
    BY <1>1, <1>2
  <2>3. \A m \in DOMAIN t \ {n} : Harmless(t[m])
    BY <1>1, <1>2, <1>3, <2>1
  <2> QED
    BY <2>1, <2>2, <2>3 DEF OneUndecided
<1>4. ASSUME AllHarmless(s), Undecided(e) PROVE OneUndecided(t)
  <2>1. \A m \in DOMAIN t \ {Len(s) + 1} : Harmless(t[m])
    BY <1>1, <1>2, <1>4 DEF AllHarmless
  <2> QED
    BY <1>1, <1>2, <1>4, <2>1 DEF OneUndecided
<1> QED
  BY <1>1, <1>2, <1>3, <1>4 DEF AllHarmless, QuitsConfirm

LEMMA FramePopped ==
  ASSUME NEW s \in Seq(XR!Frames), s # <<>>,
         NEW t, t = SubSeq(s, 1, Len(s) - 1)
  PROVE  /\ t \in Seq(XR!Frames)
         /\ s[Len(s)] \in XR!Frames /\ Len(s) \in DOMAIN s
         /\ AllHarmless(s) => AllHarmless(t) /\ Harmless(s[Len(s)])
         /\ OneUndecided(s) /\ ~Harmless(s[Len(s)]) =>
              AllHarmless(t) /\ Undecided(s[Len(s)])
         /\ OneUndecided(s) /\ Harmless(s[Len(s)]) => OneUndecided(t)
         /\ QuitsConfirm(s) => QuitsConfirm(t)
<1>1. /\ Len(s) \in Nat \ {0} /\ DOMAIN s = 1..Len(s)
      /\ \A i \in 1..Len(s) : s[i] \in XR!Frames
  BY LenProperties, EmptySeq, ElementOfSeq
<1>2. /\ t \in Seq(XR!Frames) /\ DOMAIN t = 1..(Len(s) - 1)
      /\ \A i \in 1..(Len(s) - 1) : t[i] = s[i]
  BY <1>1, SubSeqProperties
<1>3. DOMAIN s = DOMAIN t \cup {Len(s)} /\ Len(s) \notin DOMAIN t
  BY <1>1, <1>2
<1>4. \A i \in DOMAIN t : t[i] = s[i]
  BY <1>2
<1>5. ASSUME OneUndecided(s)
      PROVE  \/ AllHarmless(t) /\ Undecided(s[Len(s)])
             \/ OneUndecided(t) /\ Harmless(s[Len(s)])
  <2>1. PICK n \in DOMAIN s :
          Undecided(s[n]) /\ \A m \in DOMAIN s \ {n} : Harmless(s[m])
    BY <1>5 DEF OneUndecided
  <2>2. CASE n = Len(s)
    BY <1>3, <1>4, <2>1, <2>2 DEF AllHarmless
  <2>3. CASE n # Len(s)
    <3>1. n \in DOMAIN t /\ t[n] = s[n] /\ Harmless(s[Len(s)])
      BY <1>3, <1>4, <2>1, <2>3
    <3>2. \A m \in DOMAIN t \ {n} : Harmless(t[m])
      BY <1>3, <1>4, <2>1
    <3> QED
      BY <2>1, <3>1, <3>2 DEF OneUndecided
  <2> QED
    BY <2>2, <2>3
<1>6. Undecided(s[Len(s)]) => ~Harmless(s[Len(s)])
  BY DEF Undecided
<1> QED
  BY <1>1, <1>2, <1>3, <1>4, <1>5, <1>6 DEF AllHarmless, QuitsConfirm

\* gtk_main_quit ends one loop, and it is one of a confirmation.
LEMMA QuitIs ==
  ASSUME NEW s \in Seq(XR!Frames), NEW n \in DOMAIN s, s[n].kind = "confirm"
  PROVE  \E l \in DOMAIN s :
           s[l].kind = "confirm" /\ XR!Quit(s) = [s EXCEPT ![l].quit = TRUE]
<1> DEFINE confirms == {m \in DOMAIN s : s[m].kind = "confirm"}
<1>1. DOMAIN s = 1..Len(s) /\ Len(s) \in Nat
  BY LenProperties
<1>2. confirms \in SUBSET (0..Len(s)) /\ confirms # {}
  BY <1>1
<1>3. \E l \in confirms : \A m \in confirms : m <= l
  <2> HIDE DEF confirms
  <2> QED
    BY <1>1, <1>2, GreatestNumber
<1> DEFINE l == CHOOSE x \in confirms : \A m \in confirms : m <= x
<1>4. l \in confirms
  <2> HIDE DEF confirms
  <2> QED
    BY <1>3
<1>5. XR!Quit(s) = [s EXCEPT ![l].quit = TRUE]
  BY DEF XR!Quit
<1> HIDE DEF l
<1> QED
  BY <1>4, <1>5

\* Whatever else becomes of a confirmation, the trial is as undecided as it
\* was, if the dialog has a response when it quits.
Changed(s, n, e, t) ==
  /\ t \in Seq(XR!Frames) /\ DOMAIN t = DOMAIN s /\ t[n] = e
  /\ QuitsConfirm(s) => QuitsConfirm(t)
  /\ ~AllHarmless(s)
  /\ OneUndecided(s) =>
       Undecided(s[n]) /\ \A m \in DOMAIN s \ {n} : Harmless(s[m])
  /\ OneUndecided(s) /\ (e.quit => e.response # "unset") => OneUndecided(t)

LEMMA FrameChanged ==
  ASSUME NEW s \in Seq(XR!Frames), NEW n \in DOMAIN s, s[n].kind = "confirm",
         NEW e \in XR!Frames, e.kind = "confirm", NEW t, t = [s EXCEPT ![n] = e]
  PROVE  Changed(s, n, e, t)
<1>1. DOMAIN s = 1..Len(s) /\ Len(s) \in Nat
  BY LenProperties
<1>2. /\ t \in Seq(XR!Frames) /\ Len(t) = Len(s)
      /\ \A j \in 1..Len(s) : t[j] = IF j = n THEN e ELSE s[j]
  BY <1>1, ExceptSeq
<1>3. DOMAIN t = DOMAIN s
  BY <1>1, <1>2, LenProperties
<1>4. t[n] = e /\ \A j \in DOMAIN s \ {n} : t[j] = s[j]
  BY <1>1, <1>2
<1>5. ~Harmless(s[n]) /\ ~Harmless(e)
  BY DEF Harmless
<1>6. OneUndecided(s) =>
        Undecided(s[n]) /\ \A m \in DOMAIN s \ {n} : Harmless(s[m])
  BY <1>5 DEF OneUndecided
<1>7. ASSUME OneUndecided(s), e.quit => e.response # "unset"
      PROVE  OneUndecided(t)
  <2>1. Undecided(t[n])
    BY <1>4, <1>5, <1>7 DEF Undecided
  <2>2. \A m \in DOMAIN t \ {n} : Harmless(t[m])
    BY <1>3, <1>4, <1>6, <1>7
  <2> QED
    BY <1>3, <2>1, <2>2 DEF OneUndecided
<1>8. QuitsConfirm(s) => QuitsConfirm(t)
  BY <1>3, <1>4 DEF QuitsConfirm
<1>9. ~AllHarmless(s)
  BY <1>5 DEF AllHarmless
<1> QED
  BY <1>2, <1>3, <1>4, <1>6, <1>7, <1>8, <1>9 DEF Changed

LEMMA QuitDecides ==
  ASSUME NEW s \in Seq(XR!Frames), NEW n \in DOMAIN s, s[n].kind = "confirm",
         s[n].response # "unset"
  PROVE  /\ XR!Quit(s) \in Seq(XR!Frames)
         /\ QuitsConfirm(s) => QuitsConfirm(XR!Quit(s))
         /\ OneUndecided(s) => OneUndecided(XR!Quit(s))
<1>1. PICK l \in DOMAIN s :
        s[l].kind = "confirm" /\ XR!Quit(s) = [s EXCEPT ![l].quit = TRUE]
  BY QuitIs
<1> DEFINE e == [s[l] EXCEPT !.quit = TRUE]
           t == XR!Quit(s)
<1>2. s[l] \in XR!Frames
  BY LenProperties, ElementOfSeq
<1>3. e \in XR!Frames /\ e.kind = "confirm" /\ e.response = s[l].response
  BY <1>1, <1>2 DEF XR!Frames
<1>4. t = [s EXCEPT ![l] = e]
  BY <1>1
<1> HIDE DEF e, t
<1>5. Changed(s, l, e, t)
  BY <1>1, <1>3, <1>4, FrameChanged
<1>6. OneUndecided(s) => n = l
  BY <1>5 DEF Changed, Harmless
<1> QED
  BY <1>3, <1>5, <1>6 DEF Changed, t

LEMMA EmptyFrames ==
  <<>> \in Seq(XR!Frames) /\ AllHarmless(<<>>) /\ QuitsConfirm(<<>>)
<1>1. <<>> \in Seq(XR!Frames) /\ DOMAIN <<>> = {}
  OBVIOUS
<1> QED
  BY <1>1 DEF AllHarmless, QuitsConfirm

LEMMA TypesPrimed ==
  ASSUME up' \in BOOLEAN, hw' \in Hardware, screen' \in XR!Configs,
         intended' \in XR!Files, backup' \in XR!Files,
         confirmBefore' \in XR!Files, called' \in BOOLEAN,
         queued' \in 0..MaxDialogs, saves' \in 0..MaxSaves,
         frames' \in Seq(XR!Frames), QuitsConfirm(frames'),
         trial' \in {"none", "open", "restored", "disturbed"},
         ~up' => frames' = <<>> /\ queued' = 0
  PROVE  ConfirmTypes'
BY DEF ConfirmTypes

LEMMA FileForMonitors ==
  ASSUME ConfirmConstants, NEW file \in XR!Files, file.hw \in Hardware
  PROVE  file \in XR!Configs
<1>1. XR!Absent.hw = "none"
  BY DEF XR!Absent
<1> QED
  BY <1>1 DEF ConfirmConstants, XR!Files

LEMMA ConfirmInit ==
  ASSUME ConfirmConstants, XR!ConfirmInit
  PROVE  ConfirmInv
<1>1. <<>> \in Seq(XR!Frames) /\ DOMAIN <<>> = {}
  OBVIOUS
<1>2. AllHarmless(<<>>) /\ QuitsConfirm(<<>>)
  BY <1>1 DEF AllHarmless, QuitsConfirm
<1>3. hw \in Hardware /\ screen \in XR!Configs /\ intended = screen
  BY DEF XR!ConfirmInit
<1>4. ConfirmTypes
  <2>1. intended \in XR!Files /\ backup \in XR!Files /\ confirmBefore \in XR!Files
    BY <1>3 DEF XR!ConfirmInit, XR!Files
  <2>2. queued \in 0..MaxDialogs /\ saves \in 0..MaxSaves
    BY DEF ConfirmConstants, XR!ConfirmInit
  <2>3. frames \in Seq(XR!Frames) /\ QuitsConfirm(frames)
    BY <1>1, <1>2 DEF XR!ConfirmInit
  <2> QED
    BY <1>3, <2>1, <2>2, <2>3 DEF XR!ConfirmInit, ConfirmTypes
<1>5. TrialInv
  BY <1>2 DEF XR!ConfirmInit, TrialInv, NothingPending
<1> QED
  BY <1>4, <1>5 DEF ConfirmInv

LEMMA ConfirmPanelSaves ==
  ASSUME ConfirmConstants, ConfirmInv, NEW look \in Looks, XR!PanelSaves(look)
  PROVE  ConfirmInv'
<1>1. ConfirmTypes'
  BY DEF ConfirmConstants, ConfirmInv, ConfirmTypes, XR!PanelSaves, XR!Save,
         XR!Files, XR!Configs
<1>2. TrialInv'
  BY DEF ConfirmInv, XR!PanelSaves, XR!Save, TrialInv, NothingPending, OnePending
<1> QED
  BY <1>1, <1>2 DEF ConfirmInv

LEMMA ConfirmApply ==
  ASSUME ConfirmConstants, ConfirmInv, XR!ApplyConfiguration
  PROVE  ConfirmInv'
<1> DEFINE e == XR!Error(TRUE)
<1>1. e \in XR!Frames /\ ~e.quit /\ Undecided(e)
  BY DEF XR!Error, XR!Frames, ConfirmConstants, Undecided, Harmless
<1>2. /\ \/ frames' = frames /\ queued' = queued + 1 /\ screen' \in {intended, screen}
            /\ (XR!Matches(intended) \/ screen' = screen)
         \/ frames' = Append(frames, e) /\ UNCHANGED <<screen, queued>>
      /\ called /\ called' = FALSE /\ up /\ Len(frames) + queued < MaxDialogs
      /\ UNCHANGED <<up, hw, intended, backup, saves, confirmBefore, trial>>
  BY DEF XR!ApplyConfiguration, XR!Room
<1> HIDE DEF e
<1>3. CASE frames' = Append(frames, e) /\ UNCHANGED <<screen, queued>>
  <2>1. /\ frames' \in Seq(XR!Frames) /\ QuitsConfirm(frames')
        /\ AllHarmless(frames) => OneUndecided(frames')
    BY <1>1, <1>3, FrameAppended DEF ConfirmInv, ConfirmTypes
  <2>2. ConfirmTypes'
    BY <1>2, <1>3, <2>1, TypesPrimed DEF ConfirmInv, ConfirmTypes
  <2>3. TrialInv'
    BY <1>2, <1>3, <2>1 DEF ConfirmInv, TrialInv, NothingPending, OnePending
  <2> QED
    BY <2>2, <2>3 DEF ConfirmInv
<1>4. CASE frames' = frames /\ queued' = queued + 1
  <2>1. screen' \in XR!Configs
    <3>1. intended.hw = hw => intended \in XR!Configs
      BY FileForMonitors DEF ConfirmInv, ConfirmTypes
    <3> QED
      BY <1>2, <3>1 DEF XR!Matches, ConfirmInv, ConfirmTypes
  <2>2. Len(frames) \in Nat
    BY LenProperties DEF ConfirmInv, ConfirmTypes
  <2>3. ConfirmTypes'
    <3>1. queued' \in 0..MaxDialogs
      BY <1>2, <1>4, <2>2 DEF ConfirmInv, ConfirmTypes, ConfirmConstants
    <3> QED
      BY <1>2, <1>4, <2>1, <3>1, TypesPrimed DEF ConfirmInv, ConfirmTypes
  <2>4. TrialInv'
    BY <1>2, <1>4 DEF ConfirmInv, TrialInv, NothingPending, OnePending
  <2> QED
    BY <2>3, <2>4 DEF ConfirmInv
<1> QED
  BY <1>2, <1>3, <1>4

LEMMA ConfirmKeyPressed ==
  ASSUME ConfirmConstants, ConfirmInv, NEW look \in Looks, XR!KeyPressed(look)
  PROVE  ConfirmInv'
<1> DEFINE e == XR!Error(FALSE)
<1>1. e \in XR!Frames /\ ~e.quit /\ Harmless(e)
  BY DEF XR!Error, XR!Frames, ConfirmConstants, Harmless
<1>2. /\ \/ /\ screen' = [hw |-> hw, look |-> look] /\ intended' = screen'
            /\ backup' \in {backup, intended}
            /\ trial' = IF trial = "none" THEN "none" ELSE "disturbed"
            /\ UNCHANGED frames
         \/ /\ frames' = Append(frames, e)
            /\ UNCHANGED <<screen, intended, backup, trial>>
      /\ up /\ saves < MaxSaves /\ saves' = saves + 1
      /\ UNCHANGED <<up, hw, called, queued, confirmBefore>>
  BY DEF XR!KeyPressed, XR!Save
<1> HIDE DEF e
<1>3. saves' \in 0..MaxSaves
  BY <1>2 DEF ConfirmInv, ConfirmTypes, ConfirmConstants
<1>4. CASE frames' = Append(frames, e) /\ UNCHANGED <<screen, intended, backup, trial>>
  <2>1. /\ frames' \in Seq(XR!Frames) /\ QuitsConfirm(frames')
        /\ AllHarmless(frames) => AllHarmless(frames')
        /\ OneUndecided(frames) => OneUndecided(frames')
    BY <1>1, <1>4, FrameAppended DEF ConfirmInv, ConfirmTypes
  <2>2. ConfirmTypes'
    BY <1>2, <1>3, <1>4, <2>1, TypesPrimed DEF ConfirmInv, ConfirmTypes
  <2>3. TrialInv'
    BY <1>2, <1>4, <2>1 DEF ConfirmInv, TrialInv, NothingPending, OnePending
  <2> QED
    BY <2>2, <2>3 DEF ConfirmInv
<1>5. CASE ~(frames' = Append(frames, e) /\ UNCHANGED <<screen, intended, backup, trial>>)
  <2>1. hw \in Hardware /\ screen' \in XR!Configs
    BY <1>2, <1>5 DEF ConfirmInv, ConfirmTypes, XR!Configs
  <2>2. intended' \in XR!Files /\ backup' \in XR!Files
    BY <1>2, <1>5, <2>1 DEF ConfirmInv, ConfirmTypes, XR!Files
  <2>3. ConfirmTypes'
    BY <1>2, <1>3, <1>5, <2>1, <2>2, TypesPrimed DEF ConfirmInv, ConfirmTypes
  <2>4. TrialInv'
    BY <1>2, <1>5 DEF ConfirmInv, TrialInv, NothingPending, OnePending
  <2> QED
    BY <2>3, <2>4 DEF ConfirmInv
<1> QED
  BY <1>4, <1>5

LEMMA ConfirmHardwareChanged ==
  ASSUME ConfirmConstants, ConfirmInv, XR!HardwareChanged
  PROVE  ConfirmInv'
<1>1. /\ hw' \in Hardware
      /\ \/ screen' = intended /\ intended.hw = hw'
         \/ screen' = [hw |-> hw', look |-> "auto"]
      /\ UNCHANGED <<up, intended, backup, called, queued, frames, saves,
                     confirmBefore, trial>>
  BY DEF XR!HardwareChanged
<1>2. CASE screen' = intended /\ intended.hw = hw'
  <2>1. intended \in XR!Files /\ intended.hw \in Hardware
    BY <1>1, <1>2 DEF ConfirmInv, ConfirmTypes
  <2>2. screen' \in XR!Configs
    BY <1>2, <2>1, FileForMonitors
  <2> QED
    BY <1>1, <2>2, TypesPrimed
       DEF ConfirmInv, ConfirmTypes, TrialInv, NothingPending, OnePending
<1>3. CASE screen' = [hw |-> hw', look |-> "auto"]
  <2>1. screen' \in XR!Configs
    BY <1>1, <1>3 DEF XR!Configs
  <2> QED
    BY <1>1, <2>1, TypesPrimed
       DEF ConfirmInv, ConfirmTypes, TrialInv, NothingPending, OnePending
<1> QED
  BY <1>1, <1>2, <1>3

LEMMA ConfirmConfirmIdle ==
  ASSUME ConfirmConstants, ConfirmInv, XR!ConfirmIdle
  PROVE  ConfirmInv'
<1> DEFINE e == XR!Confirm
<1>1. e \in XR!Frames /\ ~e.quit /\ Undecided(e)
  BY DEF XR!Confirm, XR!Frames, ConfirmConstants, Undecided, Harmless
<1>2. /\ queued > 0 /\ queued' = queued - 1 /\ frames' = Append(frames, e)
      /\ UNCHANGED <<up, hw, screen, intended, backup, called, saves,
                     confirmBefore, trial>>
  BY DEF XR!ConfirmIdle
<1> HIDE DEF e
<1>3. /\ frames' \in Seq(XR!Frames) /\ QuitsConfirm(frames')
      /\ AllHarmless(frames) => OneUndecided(frames')
  BY <1>1, <1>2, FrameAppended DEF ConfirmInv, ConfirmTypes
<1>4. queued' \in 0..MaxDialogs /\ up
  BY <1>2 DEF ConfirmConstants, ConfirmInv, ConfirmTypes
<1>5. ConfirmTypes'
  BY <1>2, <1>3, <1>4, TypesPrimed DEF ConfirmInv, ConfirmTypes
<1>6. TrialInv'
  BY <1>2, <1>3, <1>4 DEF ConfirmInv, TrialInv, NothingPending, OnePending
<1> QED
  BY <1>5, <1>6 DEF ConfirmInv

\* A dialog is counted down or answered: it is the one the trial waits for.
LEMMA ConfirmDecides ==
  ASSUME ConfirmInv, frames # <<>>, frames' \in Seq(XR!Frames),
         QuitsConfirm(frames'), ~AllHarmless(frames),
         OneUndecided(frames) => OneUndecided(frames'),
         UNCHANGED <<up, hw, screen, intended, backup, called, queued, saves,
                     confirmBefore, trial>>
  PROVE  ConfirmInv'
<1>1. ConfirmTypes'
  BY TypesPrimed DEF ConfirmInv, ConfirmTypes
<1>2. TrialInv'
  BY DEF ConfirmInv, TrialInv, NothingPending, OnePending
<1> QED
  BY <1>1, <1>2 DEF ConfirmInv

LEMMA ConfirmTick ==
  ASSUME ConfirmConstants, ConfirmInv, NEW n, XR!Tick(n)
  PROVE  ConfirmInv'
<1>1. /\ n \in DOMAIN frames /\ frames[n].kind = "confirm" /\ frames[n].left > 0
      /\ UNCHANGED <<up, hw, screen, intended, backup, called, queued, saves,
                     confirmBefore, trial>>
  BY DEF XR!Tick
<1>2. frames \in Seq(XR!Frames) /\ QuitsConfirm(frames) /\ frames # <<>>
  BY <1>1 DEF ConfirmInv, ConfirmTypes
<1>3. frames[n] \in XR!Frames
  BY <1>1, <1>2, LenProperties, ElementOfSeq
<1> DEFINE e == [frames[n] EXCEPT !.left = @ - 1]
           c == [e EXCEPT !.response = "cancel"]
           ticked == [frames EXCEPT ![n] = e]
           over == [frames EXCEPT ![n] = c]
<1>4. /\ e \in XR!Frames /\ e.kind = "confirm"
      /\ e.quit = frames[n].quit /\ e.response = frames[n].response
  BY <1>1, <1>3 DEF XR!Frames, ConfirmConstants
<1>5. c \in XR!Frames /\ c.kind = "confirm" /\ c.response = "cancel"
  BY <1>4 DEF XR!Frames
<1>6. frames' = IF frames[n].left > 1 THEN ticked ELSE XR!Quit(over)
  <2>1. over = [[frames EXCEPT ![n].left = @ - 1] EXCEPT ![n].response = "cancel"]
    BY <1>1, <1>2, LenProperties
  <2> HIDE DEF over
  <2> QED
    BY <2>1 DEF XR!Tick
<1> HIDE DEF e, c
<1>7. Changed(frames, n, e, ticked) /\ Changed(frames, n, c, over)
  BY <1>1, <1>2, <1>4, <1>5, FrameChanged
<1> HIDE DEF ticked, over
<1>8. OneUndecided(frames) => (e.quit => e.response # "unset")
  BY <1>1, <1>4, <1>7 DEF Changed, Undecided
<1>9. CASE frames' = ticked
  BY <1>1, <1>2, <1>7, <1>8, <1>9, ConfirmDecides DEF Changed
<1>10. CASE frames' = XR!Quit(over)
  <2>1. over \in Seq(XR!Frames) /\ n \in DOMAIN over /\ over[n] = c
    BY <1>1, <1>7 DEF Changed
  <2>2. /\ frames' \in Seq(XR!Frames)
        /\ QuitsConfirm(over) => QuitsConfirm(frames')
        /\ OneUndecided(over) => OneUndecided(frames')
    BY <1>5, <1>10, <2>1, QuitDecides
  <2>3. QuitsConfirm(over) /\ (OneUndecided(frames) => OneUndecided(over))
    BY <1>2, <1>5, <1>7 DEF Changed
  <2> QED
    BY <1>1, <1>2, <1>7, <2>2, <2>3, ConfirmDecides DEF Changed
<1> QED
  BY <1>6, <1>9, <1>10

LEMMA ConfirmAnswer ==
  ASSUME ConfirmConstants, ConfirmInv, NEW response \in {"accept", "cancel"},
         XR!Answer(response)
  PROVE  ConfirmInv'
<1> DEFINE n == Len(frames)
           c == [frames[n] EXCEPT !.response = response]
           over == [frames EXCEPT ![n] = c]
<1>1. /\ frames # <<>> /\ frames[n].kind = "confirm"
      /\ frames' = XR!Quit([frames EXCEPT ![n].response = response])
      /\ UNCHANGED <<up, hw, screen, intended, backup, called, queued, saves,
                     confirmBefore, trial>>
  BY DEF XR!Answer, XR!Top
<1>2. frames \in Seq(XR!Frames) /\ QuitsConfirm(frames)
  BY DEF ConfirmInv, ConfirmTypes
<1>3. n \in DOMAIN frames /\ frames[n] \in XR!Frames
  BY <1>1, <1>2, LenProperties, EmptySeq, ElementOfSeq
<1>4. c \in XR!Frames /\ c.kind = "confirm" /\ c.response = response
  BY <1>1, <1>3 DEF XR!Frames
<1>5. frames' = XR!Quit(over)
  BY <1>1
<1> HIDE DEF c, n
<1>6. Changed(frames, n, c, over)
  BY <1>1, <1>2, <1>3, <1>4, FrameChanged
<1> HIDE DEF over
<1>7. over \in Seq(XR!Frames) /\ n \in DOMAIN over /\ over[n] = c
  BY <1>3, <1>6 DEF Changed
<1>8. /\ frames' \in Seq(XR!Frames)
      /\ QuitsConfirm(over) => QuitsConfirm(frames')
      /\ OneUndecided(over) => OneUndecided(frames')
  BY <1>4, <1>5, <1>7, QuitDecides
<1>9. QuitsConfirm(over) /\ (OneUndecided(frames) => OneUndecided(over))
  BY <1>2, <1>4, <1>6 DEF Changed
<1> QED
  BY <1>1, <1>6, <1>8, <1>9, ConfirmDecides DEF Changed

\* What the end of the innermost loop leaves of the trial.
LEMMA TopEnds ==
  ASSUME ConfirmInv, frames # <<>>
  PROVE  /\ XR!Popped \in Seq(XR!Frames) /\ QuitsConfirm(XR!Popped)
         /\ XR!Top \in XR!Frames /\ up
         /\ XR!Top.quit => XR!Top.kind = "confirm"
         /\ AllHarmless(frames) => AllHarmless(XR!Popped) /\ Harmless(XR!Top)
         /\ OneUndecided(frames) /\ ~Harmless(XR!Top) =>
              AllHarmless(XR!Popped) /\ Undecided(XR!Top)
         /\ OneUndecided(frames) /\ Harmless(XR!Top) => OneUndecided(XR!Popped)
<1> DEFINE t == SubSeq(frames, 1, Len(frames) - 1)
<1>1. frames \in Seq(XR!Frames) /\ QuitsConfirm(frames) /\ up
  BY DEF ConfirmInv, ConfirmTypes
<1>2. XR!Popped = t /\ XR!Top = frames[Len(frames)]
  BY DEF XR!Popped, XR!Top
<1> HIDE DEF t
<1>3. t = SubSeq(frames, 1, Len(frames) - 1)
  BY DEF t
<1>4. /\ t \in Seq(XR!Frames)
      /\ frames[Len(frames)] \in XR!Frames /\ Len(frames) \in DOMAIN frames
      /\ AllHarmless(frames) => AllHarmless(t) /\ Harmless(frames[Len(frames)])
      /\ OneUndecided(frames) /\ ~Harmless(frames[Len(frames)]) =>
           AllHarmless(t) /\ Undecided(frames[Len(frames)])
      /\ OneUndecided(frames) /\ Harmless(frames[Len(frames)]) => OneUndecided(t)
      /\ QuitsConfirm(frames) => QuitsConfirm(t)
  BY <1>1, <1>3, FramePopped
<1>5. frames[Len(frames)].quit => frames[Len(frames)].kind = "confirm"
  BY <1>1, <1>4 DEF QuitsConfirm
<1> QED
  BY <1>1, <1>2, <1>4, <1>5

LEMMA ConfirmKept ==
  ASSUME ConfirmConstants, ConfirmInv, XR!Kept
  PROVE  ConfirmInv'
<1> DEFINE top == XR!Top
           rest == XR!Popped
<1>1. /\ frames # <<>> /\ top.kind = "confirm" /\ top.quit
      /\ top.response \in {"accept", "unset"}
      /\ frames' = rest /\ backup' = XR!Absent
      /\ trial' = IF top.response = "accept" /\ trial # "disturbed"
                    THEN "none" ELSE trial
      /\ UNCHANGED <<up, hw, screen, intended, called, queued, saves,
                     confirmBefore>>
  BY DEF XR!Kept, XR!Ended
<1>2. /\ rest \in Seq(XR!Frames) /\ QuitsConfirm(rest) /\ up
      /\ AllHarmless(frames) => AllHarmless(rest) /\ Harmless(top)
      /\ OneUndecided(frames) /\ ~Harmless(top) =>
           AllHarmless(rest) /\ Undecided(top)
  BY <1>1, TopEnds
<1> HIDE DEF top, rest
<1>3. ~Harmless(top) /\ (Undecided(top) => top.response = "accept")
  BY <1>1 DEF Harmless, Undecided
<1>4. backup' \in XR!Files /\ trial' \in {"none", "open", "restored", "disturbed"}
  BY <1>1 DEF ConfirmInv, ConfirmTypes, XR!Files
<1>5. ConfirmTypes'
  BY <1>1, <1>2, <1>4, TypesPrimed DEF ConfirmInv, ConfirmTypes
<1>6. trial \in {"open", "disturbed"}
  BY <1>2, <1>3 DEF ConfirmInv, ConfirmTypes, TrialInv, NothingPending
<1>7. CASE trial = "open"
  <2>1. ~called /\ queued = 0 /\ OneUndecided(frames)
    BY <1>2, <1>3, <1>7 DEF ConfirmInv, TrialInv, NothingPending, OnePending
  <2>2. trial' = "none" /\ AllHarmless(frames')
    BY <1>1, <1>2, <1>3, <1>7, <2>1
  <2>3. TrialInv'
    BY <1>1, <1>2, <2>1, <2>2 DEF TrialInv, NothingPending
  <2> QED
    BY <1>5, <2>3 DEF ConfirmInv
<1>8. CASE trial = "disturbed"
  <2>1. TrialInv'
    BY <1>1, <1>2, <1>8 DEF TrialInv
  <2> QED
    BY <1>5, <2>1 DEF ConfirmInv
<1> QED
  BY <1>6, <1>7, <1>8

\* The backup is put in place again, with or without an error.
LEMMA ConfirmReverted ==
  ASSUME ConfirmConstants, ConfirmInv, XR!Reverted
  PROVE  ConfirmInv'
<1> DEFINE top == XR!Top
           rest == XR!Popped
           e == XR!Error(FALSE)
<1>1. /\ frames # <<>> /\ top.kind = "confirm" /\ top.quit
      /\ top.response # "accept"
      /\ trial' = IF trial = "open" THEN "restored" ELSE trial
      /\ UNCHANGED <<up, hw, called, queued, saves, confirmBefore>>
  BY DEF XR!Reverted, XR!Ended, XR!Restored
<1>2. /\ backup # XR!Absent => intended' = backup /\ backup' = XR!Absent
      /\ backup = XR!Absent => intended' = XR!Absent /\ backup' = backup
      /\ \/ screen' = backup /\ backup.hw = hw
         \/ screen' = screen
      /\ frames' = rest \/ frames' = Append(rest, e)
  BY DEF XR!Reverted, XR!Restore, XR!Matches
<1>3. /\ rest \in Seq(XR!Frames) /\ QuitsConfirm(rest) /\ up
      /\ AllHarmless(frames) => AllHarmless(rest) /\ Harmless(top)
      /\ OneUndecided(frames) /\ ~Harmless(top) =>
           AllHarmless(rest) /\ Undecided(top)
  BY <1>1, TopEnds
<1>4. e \in XR!Frames /\ ~e.quit /\ Harmless(e)
  BY DEF XR!Error, XR!Frames, ConfirmConstants, Harmless
<1> HIDE DEF top, rest, e
<1>5. ~Harmless(top)
  BY <1>1 DEF Harmless
<1>6. /\ frames' \in Seq(XR!Frames) /\ QuitsConfirm(frames')
      /\ AllHarmless(rest) => AllHarmless(frames')
  <2>1. CASE frames' = rest
    BY <1>3, <2>1
  <2>2. CASE frames' = Append(rest, e)
    BY <1>3, <1>4, <2>2, FrameAppended
  <2> QED
    BY <1>2, <2>1, <2>2
<1>7. screen' \in XR!Configs
  <2>1. backup.hw = hw => backup \in XR!Configs
    BY FileForMonitors DEF ConfirmInv, ConfirmTypes
  <2> QED
    BY <1>2, <2>1 DEF ConfirmInv, ConfirmTypes
<1>8. intended' \in XR!Files /\ backup' \in XR!Files
  BY <1>2 DEF ConfirmInv, ConfirmTypes, XR!Files
<1>9. trial' \in {"none", "open", "restored", "disturbed"}
  BY <1>1 DEF ConfirmInv, ConfirmTypes
<1>10. ConfirmTypes'
  BY <1>1, <1>3, <1>6, <1>7, <1>8, <1>9, TypesPrimed DEF ConfirmInv, ConfirmTypes
<1>11. trial \in {"open", "disturbed"}
  BY <1>3, <1>5 DEF ConfirmInv, ConfirmTypes, TrialInv, NothingPending
<1>12. CASE trial = "open"
  <2>1. ~called /\ queued = 0 /\ OneUndecided(frames)
    BY <1>3, <1>5, <1>12 DEF ConfirmInv, TrialInv, NothingPending, OnePending
  <2>2. trial' = "restored" /\ AllHarmless(frames')
    BY <1>1, <1>3, <1>5, <1>6, <1>12, <2>1
  <2>3. confirmBefore # XR!Absent => intended' = confirmBefore
    BY <1>2, <1>12 DEF ConfirmInv, TrialInv
  <2>4. TrialInv'
    BY <1>1, <1>3, <2>1, <2>2, <2>3 DEF TrialInv, NothingPending
  <2> QED
    BY <1>10, <2>4 DEF ConfirmInv
<1>13. CASE trial = "disturbed"
  <2>1. TrialInv'
    BY <1>1, <1>3, <1>13 DEF TrialInv
  <2> QED
    BY <1>10, <2>1 DEF ConfirmInv
<1> QED
  BY <1>11, <1>12, <1>13

LEMMA ConfirmErrorClosed ==
  ASSUME ConfirmConstants, ConfirmInv, XR!ErrorClosed
  PROVE  ConfirmInv'
<1> DEFINE top == XR!Top
           rest == XR!Popped
<1>1. /\ frames # <<>> /\ top.kind = "error" /\ frames' = rest
      /\ UNCHANGED <<up, hw, screen, called, queued, saves, confirmBefore>>
      /\ top.undo /\ backup # XR!Absent =>
           /\ intended' = backup /\ backup' = XR!Absent
           /\ trial' = IF trial = "open" THEN "restored" ELSE trial
      /\ ~(top.undo /\ backup # XR!Absent) => UNCHANGED <<intended, backup, trial>>
  BY DEF XR!ErrorClosed, XR!Restored
<1>2. /\ rest \in Seq(XR!Frames) /\ QuitsConfirm(rest) /\ up
      /\ AllHarmless(frames) => AllHarmless(rest) /\ Harmless(top)
      /\ OneUndecided(frames) /\ ~Harmless(top) =>
           AllHarmless(rest) /\ Undecided(top)
      /\ OneUndecided(frames) /\ Harmless(top) => OneUndecided(rest)
  BY <1>1, TopEnds
<1>3. top.undo \in BOOLEAN /\ (Harmless(top) <=> ~top.undo)
  <2>1. top \in XR!Frames
    BY <1>1, TopEnds
  <2> QED
    BY <1>1, <2>1 DEF Harmless, XR!Frames
<1> HIDE DEF top, rest
<1>4. intended' \in XR!Files /\ backup' \in XR!Files
  BY <1>1 DEF ConfirmInv, ConfirmTypes, XR!Files
<1>5. trial' \in {"none", "open", "restored", "disturbed"}
  BY <1>1 DEF ConfirmInv, ConfirmTypes
<1>6. ConfirmTypes'
  BY <1>1, <1>2, <1>4, <1>5, TypesPrimed DEF ConfirmInv, ConfirmTypes
<1>7. TrialInv'
  <2>1. CASE top.undo
    <3>1. trial \in {"open", "disturbed"}
      BY <1>2, <1>3, <2>1 DEF ConfirmInv, ConfirmTypes, TrialInv, NothingPending
    <3>2. trial = "open" =>
            ~called /\ queued = 0 /\ AllHarmless(frames')
      BY <1>1, <1>2, <1>3, <2>1
         DEF ConfirmInv, TrialInv, NothingPending, OnePending
    <3>3. trial = "open" /\ confirmBefore # XR!Absent => backup = confirmBefore
      BY DEF ConfirmInv, TrialInv
    <3>4. CASE backup # XR!Absent
      BY <1>1, <1>2, <2>1, <3>1, <3>2, <3>3, <3>4 DEF TrialInv, NothingPending
    <3>5. CASE backup = XR!Absent
      BY <1>1, <1>2, <2>1, <3>1, <3>2, <3>3, <3>5 DEF TrialInv, NothingPending
    <3> QED
      BY <3>4, <3>5
  <2>2. CASE ~top.undo
    <3>1. /\ AllHarmless(frames) => AllHarmless(frames')
          /\ OneUndecided(frames) => OneUndecided(frames')
      BY <1>1, <1>2, <1>3, <2>2
    <3> QED
      BY <1>1, <2>2, <3>1 DEF ConfirmInv, TrialInv, NothingPending, OnePending
  <2> QED
    BY <2>1, <2>2
<1> QED
  BY <1>6, <1>7 DEF ConfirmInv

\* The next four leave the dialogs alone, or there are none left.
LEMMA ConfirmFileChanged ==
  ASSUME ConfirmConstants, ConfirmInv, NEW look \in Looks, XR!FileChanged(look)
  PROVE  ConfirmInv'
<1>1. /\ up /\ saves < MaxSaves /\ saves' = saves + 1
      /\ backup' = [hw |-> hw, look |-> look] /\ intended' = screen
      /\ trial' = IF trial = "none" THEN "none" ELSE "disturbed"
      /\ UNCHANGED <<up, hw, screen, called, queued, frames, confirmBefore>>
  BY DEF XR!FileChanged
<1>2. saves' \in 0..MaxSaves
  BY <1>1 DEF ConfirmConstants, ConfirmInv, ConfirmTypes
<1>3. intended' \in XR!Files /\ backup' \in XR!Files
  BY <1>1 DEF ConfirmInv, ConfirmTypes, XR!Files, XR!Configs
<1>4. trial' \in {"none", "disturbed"} /\ (trial' = "none" => trial = "none")
  BY <1>1
<1>5. ConfirmTypes'
  BY <1>1, <1>2, <1>3, <1>4, TypesPrimed DEF ConfirmInv, ConfirmTypes
<1>6. TrialInv'
  BY <1>1, <1>4 DEF ConfirmInv, TrialInv, NothingPending
<1> QED
  BY <1>5, <1>6 DEF ConfirmInv

LEMMA ConfirmNextTrial ==
  ASSUME ConfirmConstants, ConfirmInv, XR!NextTrial
  PROVE  ConfirmInv'
<1>1. /\ up /\ ~called /\ queued = 0 /\ frames = <<>> /\ trial' = "none"
      /\ UNCHANGED <<up, hw, screen, intended, backup, called, queued, frames,
                     saves, confirmBefore>>
  BY DEF XR!NextTrial, XR!Over
<1>2. ConfirmTypes'
  BY <1>1, TypesPrimed DEF ConfirmInv, ConfirmTypes
<1>3. AllHarmless(frames')
  BY <1>1, EmptyFrames
<1>4. TrialInv'
  BY <1>1, <1>3 DEF TrialInv, NothingPending
<1> QED
  BY <1>2, <1>4 DEF ConfirmInv

\* The backup of a trial outlives the daemon.
LEMMA ConfirmCrash ==
  ASSUME ConfirmConstants, ConfirmInv, XR!Crash
  PROVE  ConfirmInv'
<1>1. /\ up /\ up' = FALSE /\ frames' = <<>> /\ queued' = 0 /\ called' = FALSE
      /\ screen' \in {screen, [hw |-> hw, look |-> "auto"]}
      /\ trial' = "none" \/ trial' = trial
      /\ trial = "restored" => trial' = "none"
      /\ UNCHANGED <<hw, intended, backup, saves, confirmBefore>>
  BY DEF XR!Crash
<1>2. screen' \in XR!Configs
  BY <1>1 DEF ConfirmInv, ConfirmTypes, XR!Configs
<1>3. /\ frames' \in Seq(XR!Frames) /\ QuitsConfirm(frames')
      /\ AllHarmless(frames')
  BY <1>1, EmptyFrames
<1>4. queued' \in 0..MaxDialogs
  BY <1>1 DEF ConfirmConstants
<1>5. trial' \in {"none", "open", "disturbed"}
  BY <1>1 DEF ConfirmInv, ConfirmTypes
<1>6. ConfirmTypes'
  BY <1>1, <1>2, <1>3, <1>4, <1>5, TypesPrimed DEF ConfirmInv, ConfirmTypes
<1>7. TrialInv'
  BY <1>1, <1>3, <1>5 DEF ConfirmInv, TrialInv, NothingPending
<1> QED
  BY <1>6, <1>7 DEF ConfirmInv

LEMMA ConfirmStarts ==
  ASSUME ConfirmConstants, ConfirmInv,
         XR!StartWithBackup \/ XR!StartGivesUp \/ XR!StartPlain
  PROVE  ConfirmInv'
<1>1. /\ ~up /\ ~called /\ queued = 0 /\ frames = <<>> /\ AllHarmless(frames)
      /\ trial # "restored"
  BY EmptyFrames, Zenon DEF ConfirmInv, ConfirmTypes, TrialInv, XR!StartWithBackup,
     XR!StartGivesUp, XR!StartPlain
<1>2. CASE XR!StartWithBackup
  <2>1. /\ up' = TRUE /\ backup # XR!Absent
        /\ intended' = backup /\ backup' = XR!Absent
        /\ \/ screen' = backup /\ backup.hw = hw
           \/ screen' = screen
        /\ trial' = IF trial = "open" THEN "restored" ELSE trial
        /\ UNCHANGED <<hw, called, queued, frames, saves, confirmBefore>>
    BY <1>2 DEF XR!StartWithBackup, XR!Restored, XR!Matches
  <2>2. screen' \in XR!Configs
    <3>1. backup.hw = hw => backup \in XR!Configs
      BY FileForMonitors DEF ConfirmInv, ConfirmTypes
    <3> QED
      BY <2>1, <3>1 DEF ConfirmInv, ConfirmTypes
  <2>3. intended' \in XR!Files /\ backup' \in XR!Files
    BY <2>1 DEF ConfirmInv, ConfirmTypes, XR!Files
  <2>4. trial' \in {"none", "restored", "disturbed"}
    BY <2>1 DEF ConfirmInv, ConfirmTypes
  <2>5. ConfirmTypes'
    BY <2>1, <2>2, <2>3, <2>4, TypesPrimed DEF ConfirmInv, ConfirmTypes
  <2>6. TrialInv'
    BY <1>1, <2>1, <2>4 DEF ConfirmInv, TrialInv, NothingPending
  <2> QED
    BY <2>5, <2>6 DEF ConfirmInv
<1>3. CASE XR!StartGivesUp
  <2>1. /\ up' = TRUE /\ backup' = XR!Absent /\ intended' = screen
        /\ screen' \in {screen, [hw |-> hw, look |-> "auto"]}
        /\ trial' = IF trial = "none" THEN "none" ELSE "disturbed"
        /\ UNCHANGED <<hw, called, queued, frames, saves, confirmBefore>>
    BY <1>3 DEF XR!StartGivesUp
  <2>2. screen' \in XR!Configs
    BY <2>1 DEF ConfirmInv, ConfirmTypes, XR!Configs
  <2>3. intended' \in XR!Files /\ backup' \in XR!Files
    BY <2>1 DEF ConfirmInv, ConfirmTypes, XR!Files
  <2>4. trial' \in {"none", "disturbed"}
    BY <2>1
  <2>5. ConfirmTypes'
    BY <2>1, <2>2, <2>3, <2>4, TypesPrimed DEF ConfirmInv, ConfirmTypes
  <2>6. TrialInv'
    BY <1>1, <2>1, <2>4 DEF ConfirmInv, TrialInv, NothingPending
  <2> QED
    BY <2>5, <2>6 DEF ConfirmInv
<1>4. CASE XR!StartPlain
  <2>1. /\ up' = TRUE /\ backup = XR!Absent /\ intended' = screen
        /\ UNCHANGED <<hw, screen, backup, called, queued, frames, saves,
                       confirmBefore, trial>>
    BY <1>4 DEF XR!StartPlain
  <2>2. intended' \in XR!Files
    BY <2>1 DEF ConfirmInv, ConfirmTypes, XR!Files
  <2>3. ConfirmTypes'
    BY <2>1, <2>2, TypesPrimed DEF ConfirmInv, ConfirmTypes
  <2>4. TrialInv'
    BY <1>1, <2>1 DEF ConfirmInv, TrialInv, NothingPending, OnePending
  <2> QED
    BY <2>3, <2>4 DEF ConfirmInv
<1> QED
  BY <1>2, <1>3, <1>4

LEMMA ConfirmNext ==
  ASSUME ConfirmConstants, ConfirmInv,
         XR!ConfirmNext \/ UNCHANGED confirmVars
  PROVE  ConfirmInv'
<1>1. CASE UNCHANGED confirmVars
  BY <1>1 DEF confirmVars, ConfirmInv, ConfirmTypes, TrialInv, NothingPending,
     OnePending, AllHarmless, OneUndecided, QuitsConfirm
<1>2. CASE XR!ConfirmNext
  BY <1>2, ConfirmPanelSaves, ConfirmKeyPressed, ConfirmFileChanged, ConfirmApply,
     ConfirmHardwareChanged, ConfirmConfirmIdle, ConfirmTick, ConfirmAnswer,
     ConfirmKept, ConfirmReverted, ConfirmErrorClosed, ConfirmCrash,
     ConfirmStarts, ConfirmNextTrial
     DEF XR!ConfirmNext
<1> QED
  BY <1>1, <1>2

\* What a trial that was not kept leaves behind follows.
LEMMA ConfirmLeavesNoTrace ==
  ASSUME ConfirmInv PROVE XR!ConfirmTypeOK /\ XR!Reverts
<1>1. XR!ConfirmTypeOK
  BY ConfirmTypesAre DEF ConfirmInv
<1>2. XR!Reverts
  <2>1. ASSUME XR!Over, trial = "open", confirmBefore # XR!Absent
        PROVE  FALSE
    <3>1. ~called /\ queued = 0 /\ OneUndecided(<<>>)
      BY <2>1, EmptyFrames DEF XR!Over, ConfirmInv, TrialInv, OnePending
    <3>2. DOMAIN <<>> = {}
      OBVIOUS
    <3> QED
      BY <3>1, <3>2 DEF OneUndecided
  <2> QED
    BY <2>1 DEF XR!Over, XR!Reverts, ConfirmInv, ConfirmTypes, TrialInv
<1> QED
  BY <1>1, <1>2

(***************************************************************************)
(* Two monitors as the settings want them                                  *)
(***************************************************************************)

\* A command that makes them so is under way, or the screen's notice is.
Flies(s, command) == \E n \in DOMAIN s : s[n] = command
Comes(command) == layout = command \/ notice \/ Flies(flying, command)

MonitorsInv ==
  /\ flying \in Seq(XR!Commands)
  /\ two /\ copy /\ ~written => Comes("mirror")
  /\ two /\ extend /\ ~copy => Comes("extend")
  /\ XR!NotDangling

LEMMA FliesOn ==
  ASSUME NEW s \in Seq(XR!Commands), NEW t \in Seq(XR!Commands)
  PROVE  /\ s \o t \in Seq(XR!Commands)
         /\ \A c : Flies(s, c) => Flies(s \o t, c)
         /\ \A c : Flies(t, c) => Flies(s \o t, c)
<1>1. /\ s \o t \in Seq(XR!Commands) /\ Len(s \o t) = Len(s) + Len(t)
      /\ \A i \in 1..(Len(s) + Len(t)) :
           (s \o t)[i] = IF i <= Len(s) THEN s[i] ELSE t[i - Len(s)]
  BY ConcatProperties
<1>2. /\ Len(s) \in Nat /\ Len(t) \in Nat /\ DOMAIN s = 1..Len(s)
      /\ DOMAIN t = 1..Len(t) /\ DOMAIN (s \o t) = 1..(Len(s) + Len(t))
  BY <1>1, LenProperties
<1>3. \A i \in DOMAIN s : i \in DOMAIN (s \o t) /\ (s \o t)[i] = s[i]
  BY <1>1, <1>2
<1>4. \A i \in DOMAIN t :
        i + Len(s) \in DOMAIN (s \o t) /\ (s \o t)[i + Len(s)] = t[i]
  BY <1>1, <1>2
<1> HIDE DEF Flies
<1>5. \A c : Flies(s, c) => Flies(s \o t, c)
  BY <1>3 DEF Flies
<1>6. \A c : Flies(t, c) => Flies(s \o t, c)
  BY <1>4 DEF Flies
<1> QED
  BY <1>1, <1>5, <1>6

LEMMA OneCommand ==
  ASSUME NEW c \in XR!Commands
  PROVE  <<c>> \in Seq(XR!Commands) /\ Flies(<<c>>, c)
<1>1. <<c>> \in Seq(XR!Commands) /\ DOMAIN <<c>> = {1} /\ <<c>>[1] = c
  OBVIOUS
<1> QED
  BY <1>1 DEF Flies

\* One that ends flies no more, the others do.
LEMMA FliesOff ==
  ASSUME NEW s \in Seq(XR!Commands), NEW n \in DOMAIN s, NEW t,
         t = SubSeq(s, 1, n - 1) \o SubSeq(s, n + 1, Len(s))
  PROVE  /\ t \in Seq(XR!Commands) /\ s[n] \in XR!Commands
         /\ \A c : Flies(s, c) => c = s[n] \/ Flies(t, c)
<1> DEFINE a == SubSeq(s, 1, n - 1)
           b == SubSeq(s, n + 1, Len(s))
<1>1. Len(s) \in Nat /\ DOMAIN s = 1..Len(s) /\ n \in 1..Len(s)
  BY LenProperties
<1>2. /\ a \in Seq(XR!Commands) /\ Len(a) = n - 1
      /\ \A i \in 1..(n - 1) : a[i] = s[i]
  BY <1>1, SubSeqProperties
<1>3. /\ b \in Seq(XR!Commands) /\ Len(b) = Len(s) - n
      /\ \A i \in 1..(Len(s) - n) : b[i] = s[n + i]
  <2> DEFINE l == Len(s)
  <2>0. l \in Nat /\ n \in Nat /\ 1 <= n /\ n <= l
    BY <1>1
  <2>1. \A i \in 1..l : s[i] \in XR!Commands
    BY ElementOfSeq
  <2> HIDE DEF l
  <2>2. n + 1 \in Int /\ l \in Int /\ \A i \in (n + 1)..l : s[i] \in XR!Commands
    BY <2>0, <2>1
  <2>3. /\ SubSeq(s, n + 1, l) \in Seq(XR!Commands)
        /\ Len(SubSeq(s, n + 1, l)) = IF n + 1 <= l THEN l - (n + 1) + 1 ELSE 0
        /\ \A i \in 1..(l - (n + 1) + 1) : SubSeq(s, n + 1, l)[i] = s[(n + 1) + i - 1]
    BY <2>2, SubSeqProperties, SMTT(20)
  <2>4. Len(SubSeq(s, n + 1, l)) = l - n /\ l - (n + 1) + 1 = l - n
    BY <2>0, <2>3
  <2>5. ASSUME NEW i \in 1..(l - n) PROVE SubSeq(s, n + 1, l)[i] = s[n + i]
    <3>1. (n + 1) + i - 1 = n + i
      BY <2>0
    <3> QED
      BY <2>3, <2>4, <3>1
  <2> QED
    BY <2>3, <2>4, <2>5 DEF l
<1>4. s[n] \in XR!Commands
  BY <1>1, ElementOfSeq
<1>5. DOMAIN a = 1..(n - 1) /\ DOMAIN b = 1..(Len(s) - n) /\ t = a \o b
  BY <1>2, <1>3, LenProperties
<1> HIDE DEF a, b
<1>6. \A i \in DOMAIN s : i = n \/ (i \in DOMAIN a /\ a[i] = s[i])
        \/ (i - n \in DOMAIN b /\ b[i - n] = s[i])
  <2>1. SUFFICES ASSUME NEW i \in DOMAIN s, i # n
        PROVE  \/ i \in DOMAIN a /\ a[i] = s[i]
               \/ i - n \in DOMAIN b /\ b[i - n] = s[i]
    BY Zenon
  <2>2. i \in 1..Len(s)
    BY <1>1
  <2>3. CASE i < n
    <3>1. i \in 1..(n - 1)
      BY <1>1, <2>2, <2>3
    <3> QED
      BY <1>2, <1>5, <3>1, Zenon
  <2>4. CASE i > n
    <3>1. i - n \in 1..(Len(s) - n) /\ n + (i - n) = i
      BY <1>1, <2>2, <2>4
    <3>2. b[i - n] = s[n + (i - n)]
      BY <1>3, <3>1, Zenon
    <3> QED
      BY <1>5, <3>1, <3>2
  <2> QED
    BY <1>1, <2>1, <2>2, <2>3, <2>4
<1>7. \A c : Flies(s, c) => c = s[n] \/ Flies(a, c) \/ Flies(b, c)
  BY <1>6 DEF Flies
<1>8. /\ t \in Seq(XR!Commands)
      /\ \A c : Flies(a, c) => Flies(t, c)
      /\ \A c : Flies(b, c) => Flies(t, c)
  BY <1>2, <1>3, <1>5, FliesOn
<1> QED
  BY <1>4, <1>7, <1>8

LEMMA MonitorsInit ==
  ASSUME XR!DeepinInit
  PROVE  MonitorsInv
<1>1. <<>> \in Seq(XR!Commands) /\ "mirror" \in XR!Commands /\ "extend" \in XR!Commands
  BY DEF XR!Commands
<1>2. /\ <<"mirror">> \in Seq(XR!Commands) /\ Flies(<<"mirror">>, "mirror")
      /\ <<"extend">> \in Seq(XR!Commands) /\ Flies(<<"extend">>, "extend")
  BY <1>1, OneCommand
<1> QED
  BY <1>1, <1>2 DEF XR!DeepinInit, MonitorsInv, Comes, XR!NotDangling

\* What m_set_multi_monitors starts is what the settings ask for.
LEMMA MonitorsSet ==
  ASSUME flying \in Seq(XR!Commands), two', XR!SetMultiMonitors
  PROVE  /\ flying' \in Seq(XR!Commands)
         /\ copy' /\ ~written' => Flies(flying', "mirror")
         /\ extend' /\ ~copy' => Flies(flying', "extend")
         /\ XR!NotDangling'
<1> DEFINE once == ~copy' /\ ~extend' /\ only' \notin {0, shownOne}
           start == CASE copy'   -> IF written' THEN <<>> ELSE <<"mirror">>
                      [] extend' /\ ~copy' -> <<"extend">>
                      [] OTHER -> IF once THEN <<XR!One(only')>> ELSE <<>>
<1>1. /\ isCopy' = copy' /\ names' = IF copy' \/ extend' THEN "kept" ELSE "freed"
      /\ flying' = flying \o start
  BY DEF XR!SetMultiMonitors, XR!CopyFlag
<1>2. /\ "mirror" \in XR!Commands /\ "extend" \in XR!Commands
      /\ XR!One(only') \in XR!Commands
  BY DEF XR!Commands, XR!One
<1>3. /\ <<"mirror">> \in Seq(XR!Commands) /\ Flies(<<"mirror">>, "mirror")
      /\ <<"extend">> \in Seq(XR!Commands) /\ Flies(<<"extend">>, "extend")
      /\ <<XR!One(only')>> \in Seq(XR!Commands) /\ <<>> \in Seq(XR!Commands)
  BY <1>2, OneCommand
<1>4. /\ start \in Seq(XR!Commands)
      /\ copy' /\ ~written' => Flies(start, "mirror")
      /\ extend' /\ ~copy' => Flies(start, "extend")
  <2>1. CASE copy'
    BY <1>3, <2>1
  <2>2. CASE ~copy' /\ extend'
    BY <1>3, <2>2
  <2>3. CASE ~copy' /\ ~extend'
    BY <1>3, <2>3
  <2> QED
    BY <2>1, <2>2, <2>3
<1> HIDE DEF start
<1>5. /\ flying' \in Seq(XR!Commands)
      /\ \A c : Flies(start, c) => Flies(flying', c)
  BY <1>1, <1>4, FliesOn
<1>6. XR!NotDangling'
  BY <1>1 DEF XR!NotDangling
<1> QED
  BY <1>4, <1>5, <1>6

LEMMA MonitorsNext ==
  ASSUME MonitorsInv, XR!DeepinNext \/ UNCHANGED monitorsVars
  PROVE  MonitorsInv'
<1>1. flying \in Seq(XR!Commands)
  BY DEF MonitorsInv
<1>2. CASE XR!SettingChanged \/ XR!ScreenChanged
  <2>1. UNCHANGED two /\ XR!SetMultiMonitors
    BY <1>1, <1>2 DEF XR!SettingChanged, XR!ScreenChanged, XR!settings
  <2>2. CASE two'
    BY <1>1, <2>1, <2>2, MonitorsSet DEF MonitorsInv, Comes
  <2>3. CASE ~two'
    BY <2>1, <2>3 DEF XR!SetMultiMonitors, MonitorsInv, XR!NotDangling
  <2> QED
    BY <2>2, <2>3
<1>3. CASE XR!Hotplug \/ XR!OtherClient
  BY <1>3 DEF XR!Hotplug, XR!OtherClient, MonitorsInv, Comes, XR!NotDangling
<1>4. ASSUME NEW n, XR!CommandEnds(n) PROVE MonitorsInv'
  <2> DEFINE t == SubSeq(flying, 1, n - 1) \o SubSeq(flying, n + 1, Len(flying))
             c == flying[n]
  <2>1. /\ n \in DOMAIN flying /\ flying' = t
        /\ layout' = IF two THEN c ELSE layout
        /\ layout' # layout => notice'
        /\ notice => notice'
        /\ UNCHANGED <<two, copy, extend, isCopy, names, written>>
    <3>1. /\ n \in DOMAIN flying /\ flying' = t
          /\ layout' = IF two THEN c ELSE layout
          /\ notice' = (notice \/ layout' # layout)
      BY <1>4 DEF XR!CommandEnds
    <3>2. UNCHANGED <<two, copy, extend, isCopy, names, written>>
      BY <1>4 DEF XR!CommandEnds, XR!settings
    <3> HIDE DEF t, c
    <3> QED
      BY <3>1, <3>2
  <2> HIDE DEF c
  <2>2. /\ t \in Seq(XR!Commands)
        /\ \A d : Flies(flying, d) => d = c \/ Flies(t, d)
    <3>1. n \in DOMAIN flying
      BY <2>1
    <3>2. \A u : u = SubSeq(flying, 1, n - 1) \o SubSeq(flying, n + 1, Len(flying)) =>
            /\ u \in Seq(XR!Commands)
            /\ \A d : Flies(flying, d) => d = flying[n] \/ Flies(u, d)
      BY <1>1, <3>1, FliesOff, ZenonT(30)
    <3>3. /\ t \in Seq(XR!Commands)
          /\ \A d : Flies(flying, d) => d = flying[n] \/ Flies(t, d)
      BY <3>2
    <3> HIDE DEF t
    <3> QED
      BY <3>3 DEF c
  <2> HIDE DEF t
  <2>3. \A d : two /\ Comes(d) => layout' = d \/ notice' \/ Flies(t, d)
    BY <2>1, <2>2 DEF Comes
  <2>4. /\ two /\ copy /\ ~written => Comes("mirror")'
        /\ two /\ extend /\ ~copy => Comes("extend")'
    BY <2>1, <2>3 DEF MonitorsInv, Comes
  <2> QED
    BY <2>1, <2>2, <2>4 DEF MonitorsInv, XR!NotDangling
<1>5. ASSUME NEW clone, XR!FileWritten(clone) PROVE MonitorsInv'
  <2> DEFINE start == IF XR!UsesNames(clone) THEN <<"mirror">> ELSE <<>>
  <2>1. /\ written' = TRUE /\ flying' = flying \o start
        /\ UNCHANGED <<two, copy, extend, layout, notice, isCopy, names>>
    BY <1>5 DEF XR!FileWritten, XR!settings
  <2>2. start \in Seq(XR!Commands)
    <3>1. "mirror" \in XR!Commands /\ <<>> \in Seq(XR!Commands)
      BY DEF XR!Commands
    <3> QED
      BY <3>1, OneCommand
  <2> HIDE DEF start
  <2>3. /\ flying' \in Seq(XR!Commands)
        /\ \A d : Flies(flying, d) => Flies(flying', d)
    BY <1>1, <2>1, <2>2, FliesOn
  <2> QED
    BY <2>1, <2>3 DEF MonitorsInv, Comes, XR!NotDangling
<1>6. CASE UNCHANGED monitorsVars
  BY <1>6 DEF monitorsVars, MonitorsInv, Comes, XR!NotDangling
<1> QED
  BY <1>2, <1>3, <1>4, <1>5, <1>6 DEF XR!DeepinNext

(***************************************************************************)
(* The calls that set clocks and NTP                                       *)
(***************************************************************************)

\* A queue in which nobody stands twice.
In(c, s) == \E i \in DOMAIN s : s[i] = c
Distinct(s) == \A i, j \in DOMAIN s : s[i] = s[j] => i = j

\* Clients that are in the queue wait, and the one that is served is none of
\* them; it waits for what it has asked.
ClockTypes ==
  /\ callsAlive \in BOOLEAN /\ callsQueue \in Seq(Callers)
  /\ callsAsked \in [Callers -> DT!Ops \cup {"none"}]
  /\ answer \in [Callers -> {"none", "wait", "ok", "error", "gone"}]
  /\ script \in SUBSET {"enabled", "disabled"}
  /\ ntpd \in {"none", "stopped", "running"} /\ silent \in BOOLEAN
  /\ promised \in {"none", "ntp on", "ntp off"}
Lined ==
  /\ Distinct(callsQueue)
  /\ \A c \in Callers : In(c, callsQueue) =>
       /\ answer[c] = "wait" /\ callsAsked[c] \in DT!Ops
       /\ work.step # "none" => c # work.client
NtpSteps == {"ntpdate", "ntpd", "ntpd failed"}
Serving ==
  /\ work = DT!NoWork \/ work.step \in {"polkit", "set", "hwclock"} \cup NtpSteps
  /\ work # DT!NoWork =>
       /\ work.client \in Callers /\ work = [client |-> work.client, step |-> work.step]
       /\ answer[work.client] = "wait" /\ callsAsked[work.client] \in DT!Ops \ {"ask"}
       /\ work.step \in NtpSteps => callsAsked[work.client] \in {"ntp on", "ntp off"}

\* Every client that waits is in the queue or served, and the script is
\* where the call wants it before ntpd is looked at, unless mv has failed.
Waiting ==
  /\ twice = FALSE
  /\ \A c \in Callers : answer[c] = "wait" =>
       /\ callsAlive
       /\ \/ In(c, callsQueue) \/ callsAsked[c] = "date"
          \/ work # DT!NoWork /\ work.client = c
Scripted ==
  work.step = "ntpd" /\ ~silent =>
    script \subseteq IF DT!On THEN {"enabled"} ELSE {"disabled"}
ClockInv == ClockTypes /\ Lined /\ Serving /\ Waiting /\ Scripted /\ DT!NtpTold

LEMMA QueueAppended ==
  ASSUME NEW s \in Seq(Callers), NEW e \in Callers, NEW t, t = Append(s, e)
  PROVE  /\ t \in Seq(Callers)
         /\ \A c : In(c, t) <=> In(c, s) \/ c = e
         /\ Distinct(s) /\ ~In(e, s) => Distinct(t)
<1>1. /\ t \in Seq(Callers) /\ Len(s) \in Nat /\ DOMAIN s = 1..Len(s)
      /\ DOMAIN t = 1..(Len(s) + 1) /\ t[Len(s) + 1] = e
      /\ \A i \in 1..Len(s) : t[i] = s[i]
  BY AppendProperties, LenProperties
<1>2. DOMAIN t = DOMAIN s \cup {Len(s) + 1} /\ Len(s) + 1 \notin DOMAIN s
  BY <1>1
<1> QED
  BY <1>1, <1>2 DEF In, Distinct

LEMMA QueueRead ==
  ASSUME NEW s \in Seq(Callers), s # <<>>, NEW t, t = Tail(s), NEW h, h = Head(s)
  PROVE  /\ t \in Seq(Callers) /\ h \in Callers /\ In(h, s)
         /\ \A c : In(c, s) => In(c, t) \/ c = h
         /\ \A c : In(c, t) => In(c, s)
         /\ Distinct(s) => Distinct(t) /\ ~In(h, t)
<1>1. /\ Len(s) \in Nat \ {0} /\ Head(s) \in Callers /\ Head(s) = s[1]
      /\ Tail(s) \in Seq(Callers) /\ Len(Tail(s)) = Len(s) - 1
      /\ \A i \in 1..Len(Tail(s)) : Tail(s)[i] = s[i + 1]
  BY HeadTailProperties, LenProperties, EmptySeq
<1>2. /\ DOMAIN s = 1..Len(s) /\ DOMAIN t = 1..(Len(s) - 1)
      /\ \A i \in DOMAIN t : t[i] = s[i + 1] /\ i + 1 \in DOMAIN s
      /\ 1 \in DOMAIN s /\ h = s[1]
  BY <1>1, LenProperties
<1>3. \A i \in DOMAIN s : i = 1 \/ (i - 1 \in DOMAIN t /\ t[i - 1] = s[i])
  <2>1. \A i \in DOMAIN s : i = 1 \/ (i - 1 \in 1..(Len(s) - 1) /\ (i - 1) + 1 = i)
    BY <1>1, <1>2
  <2> QED
    BY <1>2, <2>1
<1>4. ASSUME NEW c, In(c, s) PROVE In(c, t) \/ c = h
  <2>1. PICK i \in DOMAIN s : s[i] = c
    BY <1>4 DEF In
  <2>2. CASE i = 1
    BY <1>2, <2>1, <2>2
  <2>3. CASE i # 1
    <3>1. i - 1 \in DOMAIN t /\ t[i - 1] = c
      BY <1>3, <2>1, <2>3
    <3> QED
      BY <3>1 DEF In
  <2> QED
    BY <2>2, <2>3
<1>5. \A c : In(c, t) => In(c, s)
  BY <1>2 DEF In
<1>6. ASSUME Distinct(s) PROVE Distinct(t) /\ ~In(h, t)
  <2>1. \A i, j \in DOMAIN t : t[i] = t[j] => i + 1 = j + 1
    BY <1>2, <1>6 DEF Distinct
  <2>2. \A i \in DOMAIN t : t[i] # h
    <3>1. \A i \in DOMAIN t : i + 1 # 1
      BY <1>1, <1>2
    <3> QED
      BY <1>2, <1>6, <3>1 DEF Distinct
  <2>3. \A i, j \in DOMAIN t : i + 1 = j + 1 => i = j
    BY <1>1, <1>2
  <2> QED
    BY <2>1, <2>2, <2>3 DEF Distinct, In
<1> QED
  BY <1>1, <1>2, <1>4, <1>5, <1>6 DEF In

LEMMA ClockInit == DT!ClockInit => ClockInv
<1>1. <<>> \in Seq(Callers) /\ DOMAIN <<>> = {}
  OBVIOUS
<1> SUFFICES ASSUME DT!ClockInit PROVE ClockInv
  OBVIOUS
<1>2. /\ callsQueue = <<>> /\ work = DT!NoWork /\ work.step = "none"
      /\ twice = FALSE /\ promised = "none" /\ callsAlive = FALSE
      /\ silent = FALSE
      /\ callsAsked = [c \in Callers |-> "none"]
      /\ answer = [c \in Callers |-> "none"]
  BY DEF DT!ClockInit, DT!NoWork
<1>3. ClockTypes
  BY <1>1, <1>2 DEF DT!ClockInit, ClockTypes
<1>4. Lined /\ Waiting
  BY <1>1, <1>2 DEF Lined, Waiting, In, Distinct
<1>5. Serving /\ Scripted /\ DT!NtpTold
  BY <1>2 DEF Serving, Scripted, DT!NtpTold
<1> QED
  BY <1>3, <1>4, <1>5 DEF ClockInv

\* Nobody is left behind, by what follows.
LEMMA ClockAnswers == ClockInv => DT!Answered /\ DT!NtpTold
BY DEF ClockInv, Waiting, DT!Answered, In, DT!ToSet

LEMMA ClockCall ==
  ASSUME ClockInv, NEW c \in Callers, NEW op \in DT!Ops, DT!Call(c, op)
  PROVE  ClockInv'
<1>1. /\ answer[c] # "wait"
      /\ callsAsked' = [callsAsked EXCEPT ![c] = op]
      /\ answer' = [answer EXCEPT ![c] = "wait"]
      /\ callsQueue' = Append(callsQueue, c) /\ callsAlive' = TRUE
      /\ UNCHANGED <<twice, work, script, ntpd, silent, promised>>
  BY DEF DT!Call, DT!ntp
<1>2. ClockTypes'
  BY <1>1, QueueAppended DEF ClockInv, ClockTypes
<1>3. /\ \A d : In(d, callsQueue') <=> In(d, callsQueue) \/ d = c
      /\ Distinct(callsQueue) /\ ~In(c, callsQueue) => Distinct(callsQueue')
  <2>1. callsQueue \in Seq(Callers) /\ callsQueue' = Append(callsQueue, c)
    BY <1>1 DEF ClockInv, ClockTypes
  <2> QED
    BY <2>1, QueueAppended
<1>4. ~In(c, callsQueue)
  BY <1>1 DEF ClockInv, Lined
<1>5. work # DT!NoWork => work.client # c
  BY <1>1 DEF ClockInv, Serving
<1>6. /\ c \in Callers /\ answer'[c] = "wait" /\ callsAsked'[c] = op
      /\ \A d \in Callers \ {c} :
           answer'[d] = answer[d] /\ callsAsked'[d] = callsAsked[d]
  BY <1>1 DEF ClockInv, ClockTypes
<1>7. Lined'
  <2>1. work.step # "none" => work.client # c
    BY <1>5 DEF DT!NoWork
  <2> QED
    BY <1>1, <1>3, <1>4, <1>6, <2>1 DEF ClockInv, Lined
<1>8. Serving'
  BY <1>1, <1>5, <1>6 DEF ClockInv, Serving
<1>9. Waiting'
  BY <1>1, <1>3, <1>6 DEF ClockInv, Waiting
<1>10. Scripted'
  <2>1. work.step = "ntpd" => work.client \in Callers \ {c}
    <3>1. DT!NoWork.step = "none"
      BY DEF DT!NoWork
    <3> QED
      BY <1>5, <3>1 DEF ClockInv, Serving
  <2>2. work.step = "ntpd" => DT!Op' = DT!Op
    BY <1>1, <1>6, <2>1 DEF DT!Op
  <2> QED
    BY <1>1, <2>2 DEF ClockInv, Scripted, DT!On
<1>11. DT!NtpTold'
  BY <1>1 DEF ClockInv, DT!NtpTold, DT!Using, DT!CanUse
<1> QED
  BY <1>2, <1>7, <1>8, <1>9, <1>10, <1>11 DEF ClockInv

LEMMA ClockTimePasses == ASSUME ClockInv, DT!TimePasses PROVE ClockInv'
BY DEF DT!TimePasses, DT!ntp, ClockInv, ClockTypes, Lined, Serving, Waiting,
       Scripted, DT!On, DT!Op, DT!NtpTold, DT!Using, DT!CanUse

\* The bus answers those that the process leaves.
LEMMA ClockExit ==
  ASSUME ClockInv, DT!Exit
  PROVE  ClockInv'
<1>1. /\ work = DT!NoWork /\ callsAlive' = FALSE /\ callsQueue' = <<>>
      /\ answer' = [c \in Callers |-> IF answer[c] = "wait" THEN "gone" ELSE answer[c]]
      /\ UNCHANGED <<callsAsked, twice, work, script, ntpd, silent, promised>>
  BY DEF DT!Exit, DT!ntp
<1>2. <<>> \in Seq(Callers) /\ DOMAIN <<>> = {}
  OBVIOUS
<1>3. ClockTypes'
  BY <1>1, <1>2 DEF ClockInv, ClockTypes
<1>4. Lined'
  BY <1>1, <1>2 DEF Lined, In, Distinct
<1>5. Waiting'
  <2>1. \A c \in Callers : answer'[c] # "wait"
    BY <1>1
  <2> QED
    BY <1>1, <2>1 DEF ClockInv, Waiting
<1>6. Serving' /\ Scripted' /\ DT!NtpTold'
  <2>1. work.step = "none"
    BY <1>1 DEF DT!NoWork
  <2> QED
    BY <1>1, <2>1 DEF ClockInv, Serving, Scripted, DT!NtpTold, DT!Using, DT!CanUse
<1> QED
  BY <1>3, <1>4, <1>5, <1>6 DEF ClockInv

LEMMA ClockHandle ==
  ASSUME ClockInv, DT!Handle
  PROVE  ClockInv'
<1> DEFINE c == Head(callsQueue)
           op == callsAsked[c]
<1>1. /\ callsAlive /\ work = DT!NoWork /\ callsQueue # <<>>
      /\ callsQueue' = Tail(callsQueue)
      /\ UNCHANGED <<callsAlive, callsAsked, script, ntpd, silent, promised>>
      /\ \/ /\ op = "ask" /\ UNCHANGED work
            /\ \E what \in {"ok", "error"} : DT!Answers(c, <<what>>)
         \/ /\ op # "ask" /\ UNCHANGED <<answer, twice>>
            /\ work' = [client |-> c, step |-> IF op = "date" THEN "set" ELSE "polkit"]
  BY DEF DT!Handle, DT!ntp
<1> HIDE DEF c
<1>2. /\ callsQueue' \in Seq(Callers) /\ c \in Callers /\ In(c, callsQueue)
      /\ \A d : In(d, callsQueue) => In(d, callsQueue') \/ d = c
      /\ \A d : In(d, callsQueue') => In(d, callsQueue)
      /\ Distinct(callsQueue) => Distinct(callsQueue') /\ ~In(c, callsQueue')
  BY <1>1, QueueRead DEF c, ClockInv, ClockTypes
<1>3. /\ answer[c] = "wait" /\ op \in DT!Ops /\ ~In(c, callsQueue')
      /\ Distinct(callsQueue')
  BY <1>2 DEF ClockInv, Lined
<1>4. work.step = "none" /\ work.client = "none"
  BY <1>1 DEF DT!NoWork
<1>5. DT!NtpTold'
  BY <1>1, <1>4 DEF ClockInv, DT!NtpTold, DT!Using, DT!CanUse
<1>6. CASE op = "ask"
  <2>1. PICK what \in {"ok", "error"} : DT!Answers(c, <<what>>)
    BY <1>1, <1>6
  <2>2. <<what>> # <<>> /\ Head(<<what>>) = what /\ ~(Len(<<what>>) > 1)
    OBVIOUS
  <2>3. /\ answer' = [answer EXCEPT ![c] = what]
        /\ twice' = (twice \/ Len(<<what>>) > 1
                      \/ (<<what>> # <<>> /\ answer[c] # "wait"))
    BY <2>1, <2>2 DEF DT!Answers
  <2>4. twice' = FALSE /\ work' = work
    BY <1>1, <1>3, <1>6, <2>2, <2>3 DEF ClockInv, Waiting
  <2>5. ClockTypes'
    BY <1>1, <1>2, <2>3 DEF ClockInv, ClockTypes
  <2>6. /\ answer'[c] # "wait"
        /\ \A d \in Callers \ {c} : answer'[d] = answer[d]
    BY <1>2, <2>3 DEF ClockInv, ClockTypes
  <2>7. Lined'
    BY <1>1, <1>2, <1>3, <2>4, <2>6 DEF ClockInv, Lined
  <2>8. Waiting'
    BY <1>1, <1>2, <2>4, <2>6 DEF ClockInv, Waiting
  <2>9. Serving' /\ Scripted'
    BY <1>1, <1>4, <2>4 DEF Serving, Scripted
  <2> QED
    BY <1>5, <2>5, <2>7, <2>8, <2>9 DEF ClockInv
<1>7. CASE op # "ask"
  <2>1. /\ answer' = answer /\ twice' = twice
        /\ work' = [client |-> c, step |-> work'.step]
        /\ work'.client = c /\ work'.step \in {"set", "polkit"}
    BY <1>1, <1>7
  <2>2. ClockTypes'
    BY <1>1, <1>2, <2>1 DEF ClockInv, ClockTypes
  <2>3. Lined'
    BY <1>1, <1>2, <1>3, <2>1 DEF ClockInv, Lined
  <2>4. Waiting'
    <3>1. work' # DT!NoWork
      BY <2>1 DEF DT!NoWork
    <3> QED
      BY <1>1, <1>2, <2>1, <3>1 DEF ClockInv, Waiting
  <2>5. Serving'
    BY <1>1, <1>2, <1>3, <1>7, <2>1 DEF Serving, NtpSteps
  <2>6. Scripted'
    BY <2>1 DEF Scripted
  <2> QED
    BY <1>5, <2>2, <2>3, <2>4, <2>5, <2>6 DEF ClockInv
<1> QED
  BY <1>6, <1>7

\* A call that is served goes on to its next step.
LEMMA ClockGoesOn ==
  ASSUME ClockInv, work # DT!NoWork, NEW next \in {"set", "hwclock"} \cup NtpSteps,
         DT!ClockGoes(next),
         next \in NtpSteps => callsAsked[work.client] \in {"ntp on", "ntp off"},
         next = "ntpd" /\ ~silent' =>
           script' \subseteq IF DT!On THEN {"enabled"} ELSE {"disabled"},
         promised # "none" => work.step \in NtpSteps \/ UNCHANGED script,
         work.step \in NtpSteps => next \in NtpSteps,
         script' \in SUBSET {"enabled", "disabled"}, silent' \in BOOLEAN,
         UNCHANGED <<callsAlive, callsQueue, callsAsked, ntpd, promised>>
  PROVE  ClockInv'
<1>1. work = [client |-> work.client, step |-> work.step]
  BY DEF ClockInv, Serving
<1>2. /\ work' = [client |-> work.client, step |-> next]
      /\ answer' = answer /\ twice' = twice
  BY <1>1 DEF DT!ClockGoes
<1>3. work'.client = work.client /\ work'.step = next /\ work' # DT!NoWork
  BY <1>2 DEF DT!NoWork, NtpSteps
<1>4. work.client \in Callers /\ work.step # "none"
  BY DEF ClockInv, Serving, NtpSteps
<1>5. ClockTypes'
  BY <1>2 DEF ClockInv, ClockTypes
<1>6. Lined'
  BY <1>2, <1>3, <1>4 DEF ClockInv, Lined
<1>7. Serving'
  BY <1>2, <1>3 DEF ClockInv, Serving
<1>8. Waiting'
  BY <1>2, <1>3 DEF ClockInv, Waiting
<1>9. Scripted'
  <2>1. DT!Op' = DT!Op
    BY <1>3 DEF DT!Op
  <2> QED
    BY <1>3, <2>1 DEF Scripted, DT!On
<1>10. DT!NtpTold'
  BY <1>3 DEF ClockInv, DT!NtpTold, NtpSteps, DT!Using, DT!CanUse
<1> QED
  BY <1>5, <1>6, <1>7, <1>8, <1>9, <1>10 DEF ClockInv

LEMMA AnswersAre ==
  ASSUME NEW what
  PROVE  /\ <<what>> # <<>> /\ Head(<<what>>) = what /\ ~(Len(<<what>>) > 1)
         /\ ~(Len(<<>>) > 1)
OBVIOUS

LEMMA NoWorkIs == DT!NoWork.step = "none" /\ DT!NoWork.client = "none"
BY DEF DT!NoWork

\* A call that is served ends, and is answered unless it set the date.
LEMMA ClockEnded ==
  ASSUME ClockInv, work # DT!NoWork,
         \/ \E what \in {"ok", "error"} : DT!ClockEnds(<<what>>)
         \/ DT!ClockEnds(<<>>) /\ callsAsked[work.client] = "date",
         work.step \in NtpSteps \/ UNCHANGED <<script, ntpd, promised>>,
         ntpd' \in {"none", "stopped", "running"}, UNCHANGED script,
         silent' \in BOOLEAN, promised' \in {"none", "ntp on", "ntp off"},
         promised' # "none" => DT!Using' = (DT!CanUse' /\ promised' = "ntp on"),
         UNCHANGED <<callsAlive, callsQueue, callsAsked>>
  PROVE  ClockInv'
<1> DEFINE c == work.client
<1>1. work' = DT!NoWork /\ work'.step = "none"
  <2>1. work' = DT!NoWork
    BY DEF DT!ClockEnds
  <2> QED
    BY <2>1, NoWorkIs
<1>2. c \in Callers /\ answer[c] = "wait" /\ work.step # "none"
  BY DEF ClockInv, Serving, NtpSteps
<1>3. /\ \/ \E what \in {"ok", "error"} : answer' = [answer EXCEPT ![c] = what]
         \/ answer' = answer /\ callsAsked[c] = "date"
      /\ twice' = FALSE
  <2>1. CASE DT!ClockEnds(<<>>) /\ callsAsked[c] = "date"
    <3>1. ~(Len(<<>>) > 1)
      BY AnswersAre, Zenon
    <3> QED
      BY <2>1, <3>1 DEF DT!ClockEnds, DT!Answers, ClockInv, Waiting
  <2>2. ASSUME NEW what \in {"ok", "error"}, DT!ClockEnds(<<what>>)
        PROVE  answer' = [answer EXCEPT ![c] = what] /\ twice' = FALSE
    <3>1. <<what>> # <<>> /\ Head(<<what>>) = what /\ ~(Len(<<what>>) > 1)
      BY AnswersAre, Zenon
    <3> QED
      BY <1>2, <2>2, <3>1 DEF DT!ClockEnds, DT!Answers, ClockInv, Waiting
  <2> QED
    BY <2>1, <2>2
<1> HIDE DEF c
<1>4. /\ answer'[c] # "wait" \/ callsAsked[c] = "date"
      /\ \A d \in Callers \ {c} : answer'[d] = answer[d]
      /\ answer' \in [Callers -> {"none", "wait", "ok", "error", "gone"}]
  BY <1>2, <1>3 DEF ClockInv, ClockTypes
<1>5. ClockTypes'
  BY <1>4 DEF ClockInv, ClockTypes
<1>6. Lined'
  <2>1. ~In(c, callsQueue)
    BY <1>2 DEF c, ClockInv, Lined
  <2> QED
    BY <1>1, <1>4, <2>1 DEF ClockInv, Lined
<1>7. Serving' /\ Scripted'
  BY <1>1 DEF Serving, Scripted
<1>8. Waiting'
  BY <1>3, <1>4 DEF c, ClockInv, Waiting
<1>9. DT!NtpTold'
  BY DEF DT!NtpTold
<1> QED
  BY <1>5, <1>6, <1>7, <1>8, <1>9 DEF ClockInv

\* What is left alone by a step that is not about NTP.
LEMMA ClockPolkit ==
  ASSUME ClockInv, DT!Polkit
  PROVE  ClockInv'
<1>1. /\ work.step = "polkit" /\ silent' = FALSE
      /\ \/ DT!ClockEnds(<<"error">>)
         \/ DT!ClockGoes("set")
         \/ DT!ClockGoes("hwclock")
         \/ callsAsked[work.client] \in {"ntp on", "ntp off"} /\ DT!ClockGoes("ntpdate")
      /\ UNCHANGED <<callsAlive, left, callsQueue, callsAsked, script, ntpd,
                     promised, clock>>
  BY DEF DT!Polkit, DT!process, DT!Op
<1>2. work # DT!NoWork /\ work.step \notin NtpSteps
  BY <1>1, NoWorkIs DEF NtpSteps
<1>3. script' \in SUBSET {"enabled", "disabled"} /\ silent' \in BOOLEAN
  BY <1>1 DEF ClockInv, ClockTypes
<1>4. CASE DT!ClockEnds(<<"error">>)
  <2>1. /\ ntpd' \in {"none", "stopped", "running"}
        /\ promised' \in {"none", "ntp on", "ntp off"}
    BY <1>1 DEF ClockInv, ClockTypes
  <2>2. promised' # "none" =>
          DT!Using' = (DT!CanUse' /\ promised' = "ntp on")
    BY <1>1, <1>2
       DEF ClockInv, DT!NtpTold, DT!Using, DT!CanUse, NtpSteps
  <2> QED
    BY <1>1, <1>2, <1>3, <1>4, <2>1, <2>2, ClockEnded
<1>5. CASE DT!ClockGoes("set")
  <2>1. "set" \in {"set", "hwclock"} \cup NtpSteps /\ "set" \notin NtpSteps
    BY DEF NtpSteps
  <2> QED
    BY <1>1, <1>2, <1>3, <1>5, <2>1, ClockGoesOn
<1>6. CASE DT!ClockGoes("hwclock")
  <2>1. "hwclock" \in {"set", "hwclock"} \cup NtpSteps /\ "hwclock" \notin NtpSteps
    BY DEF NtpSteps
  <2> QED
    BY <1>1, <1>2, <1>3, <1>6, <2>1, ClockGoesOn
<1>7. CASE /\ callsAsked[work.client] \in {"ntp on", "ntp off"}
           /\ DT!ClockGoes("ntpdate")
  <2>1. "ntpdate" \in {"set", "hwclock"} \cup NtpSteps /\ "ntpdate" \in NtpSteps
    BY DEF NtpSteps
  <2> QED
    BY <1>1, <1>2, <1>3, <1>7, <2>1, ClockGoesOn
<1> QED
  BY <1>1, <1>4, <1>5, <1>6, <1>7

\* The clock is set, and the hardware's after it.
LEMMA ClockSets ==
  ASSUME ClockInv, DT!SetClock \/ DT!Hwclock
  PROVE  ClockInv'
<1>1. /\ work.step \in {"set", "hwclock"}
      /\ UNCHANGED <<callsAlive, callsQueue, callsAsked, script, ntpd, silent,
                     promised>>
  BY DEF DT!SetClock, DT!Hwclock, DT!process, DT!ntp
<1>2. \/ DT!ClockGoes("hwclock")
      \/ \E what \in {"ok", "error"} : DT!ClockEnds(<<what>>)
      \/ DT!ClockEnds(<<>>) /\ callsAsked[work.client] = "date"
  <2>1. CASE DT!SetClock
    BY <2>1 DEF DT!SetClock
  <2>2. CASE DT!Hwclock
    <3>1. PICK ok \in {TRUE, ~HasHwclock} : DT!ClockEnds(DT!HwclockAnswers(ok))
      BY <2>2 DEF DT!Hwclock
    <3>2. \/ DT!HwclockAnswers(ok) = <<"error">>
          \/ DT!HwclockAnswers(ok) = <<"ok">>
          \/ DT!HwclockAnswers(ok) = <<>> /\ callsAsked[work.client] = "date"
      BY Zenon DEF DT!HwclockAnswers, DT!Op
    <3> QED
      BY <3>1, <3>2
  <2> QED
    BY <2>1, <2>2
<1>3. work # DT!NoWork /\ work.step \notin NtpSteps
  BY <1>1, NoWorkIs DEF NtpSteps
<1>4. /\ script' \in SUBSET {"enabled", "disabled"} /\ silent' \in BOOLEAN
      /\ ntpd' \in {"none", "stopped", "running"}
      /\ promised' \in {"none", "ntp on", "ntp off"}
  BY <1>1 DEF ClockInv, ClockTypes
<1>5. promised' # "none" => DT!Using' = (DT!CanUse' /\ promised' = "ntp on")
  BY <1>1, <1>3 DEF ClockInv, DT!NtpTold, DT!Using, DT!CanUse, NtpSteps
<1>6. "hwclock" \in {"set", "hwclock"} \cup NtpSteps /\ "hwclock" \notin NtpSteps
  BY DEF NtpSteps
<1>7. CASE DT!ClockGoes("hwclock")
  BY <1>1, <1>3, <1>4, <1>6, <1>7, ClockGoesOn
<1> QED
  BY <1>1, <1>2, <1>3, <1>4, <1>5, <1>7, ClockEnded

\* mv brings the script where it is wanted, or fails: then there is an
\* error, or silent tells.
LEMMA ClockNtpdate ==
  ASSUME ClockInv, DT!Ntpdate
  PROVE  ClockInv'
<1>1. /\ work.step = "ntpdate"
      /\ \/ script' = DT!Moved(DT!On) /\ DT!ClockGoes("ntpd") /\ UNCHANGED silent
         \/ /\ script' \in {script, DT!Moved(DT!On)}
            /\ DT!ClockGoes("ntpd failed") /\ UNCHANGED silent
         \/ UNCHANGED script /\ DT!ClockGoes("ntpd") /\ silent' = TRUE
      /\ UNCHANGED <<callsAlive, callsQueue, callsAsked, ntpd, promised>>
  BY DEF DT!Ntpdate, DT!process
<1>2. work # DT!NoWork /\ work.step \in NtpSteps
  BY <1>1, NoWorkIs DEF NtpSteps
<1>3. callsAsked[work.client] \in {"ntp on", "ntp off"}
  BY <1>2 DEF ClockInv, Serving
<1>4. /\ DT!Moved(DT!On) \subseteq IF DT!On THEN {"enabled"} ELSE {"disabled"}
      /\ DT!Moved(DT!On) \in SUBSET {"enabled", "disabled"}
  BY DEF ClockInv, ClockTypes, DT!Moved
<1>5. script' \in SUBSET {"enabled", "disabled"} /\ silent' \in BOOLEAN
  BY <1>1, <1>4 DEF ClockInv, ClockTypes
<1>6. /\ "ntpd" \in {"set", "hwclock"} \cup NtpSteps /\ "ntpd" \in NtpSteps
      /\ "ntpd failed" \in {"set", "hwclock"} \cup NtpSteps
      /\ "ntpd failed" \in NtpSteps
  BY DEF NtpSteps
<1>7. CASE DT!ClockGoes("ntpd failed")
  BY <1>1, <1>2, <1>3, <1>5, <1>6, <1>7, ClockGoesOn
<1>8. CASE /\ DT!ClockGoes("ntpd")
           /\ script' = DT!Moved(DT!On) \/ silent' = TRUE
  <2>1. ~silent' => script' \subseteq IF DT!On THEN {"enabled"} ELSE {"disabled"}
    BY <1>4, <1>8
  <2> QED
    BY <1>1, <1>2, <1>3, <1>5, <1>6, <1>8, <2>1, ClockGoesOn
<1> QED
  BY <1>1, <1>7, <1>8

LEMMA ClockNtpd ==
  ASSUME ClockInv, DT!Ntpd
  PROVE  ClockInv'
<1> DEFINE goal == IF DT!On THEN "running" ELSE "stopped"
           mayFail == ntpd \notin {"none", goal}
<1>1. PICK works \in BOOLEAN, started \in BOOLEAN :
        LET ok == started /\ work.step = "ntpd" IN
          /\ ~works \/ ~started => mayFail
          /\ ntpd' = IF mayFail /\ works /\ started THEN goal ELSE ntpd
          /\ silent' = (silent \/ ~works)
          /\ DT!ClockEnds(IF ok THEN <<"ok">> ELSE <<"error">>)
          /\ promised' = IF ok /\ ~silent' THEN DT!Op ELSE "none"
  BY DEF DT!Ntpd
<1>2. /\ work.step \in {"ntpd", "ntpd failed"}
      /\ UNCHANGED <<callsAlive, callsQueue, callsAsked, script>>
  BY DEF DT!Ntpd, DT!process
<1>3. work # DT!NoWork /\ work.step \in NtpSteps
  BY <1>2, NoWorkIs DEF NtpSteps
<1>4. DT!Op \in {"ntp on", "ntp off"} /\ (DT!On <=> DT!Op = "ntp on")
  BY <1>3 DEF ClockInv, Serving, DT!On, DT!Op
<1>5. /\ ntpd' \in {"none", "stopped", "running"}
      /\ promised' \in {"none", "ntp on", "ntp off"} /\ silent' \in BOOLEAN
  BY <1>1, <1>4 DEF ClockInv, ClockTypes
<1>6. \E what \in {"ok", "error"} : DT!ClockEnds(<<what>>)
  BY <1>1
<1>7. ASSUME promised' # "none"
      PROVE  DT!Using' = (DT!CanUse' /\ promised' = "ntp on")
  <2>1. started /\ works /\ ~silent /\ work.step = "ntpd" /\ promised' = DT!Op
    BY <1>1, <1>7
  <2>2. script' \subseteq IF DT!On THEN {"enabled"} ELSE {"disabled"}
    BY <1>2, <2>1 DEF ClockInv, Scripted
  <2>3. ntpd' \in {"none", goal}
    BY <1>1, <2>1
  <2>4. CASE DT!On
    <3>1. /\ "enabled" \in script' \/ script' = {}
          /\ ntpd' \in {"none", "running"} /\ promised' = "ntp on"
      BY <1>4, <2>1, <2>2, <2>3, <2>4
    <3>2. DT!Using' <=> DT!CanUse'
      BY <3>1 DEF DT!Using, DT!CanUse
    <3>3. DT!Using' \in BOOLEAN /\ DT!CanUse' \in BOOLEAN
      BY DEF DT!Using, DT!CanUse
    <3> QED
      BY <3>1, <3>2, <3>3
  <2>5. CASE ~DT!On
    <3>1. "enabled" \notin script' /\ ntpd' # "running" /\ promised' # "ntp on"
      BY <1>4, <2>1, <2>2, <2>3, <2>5
    <3> QED
      BY <3>1 DEF DT!Using
  <2> QED
    BY <2>4, <2>5
<1> QED
  BY <1>2, <1>3, <1>5, <1>6, <1>7, ClockEnded

LEMMA ClockNext ==
  ASSUME ClockInv, DT!ClockNext \/ UNCHANGED callsVars
  PROVE  ClockInv'
<1>1. CASE UNCHANGED callsVars
  BY <1>1 DEF callsVars, ClockInv, ClockTypes, Lined, Serving, Waiting, Scripted,
     DT!On, DT!Op, DT!NtpTold, DT!Using, DT!CanUse
<1> QED
  BY <1>1, ClockCall, ClockTimePasses, ClockExit, ClockHandle, ClockPolkit,
     ClockSets, ClockNtpdate, ClockNtpd
     DEF DT!ClockNext

(***************************************************************************)
(* The time zone                                                           *)
(***************************************************************************)

LEMMA MethodsAre ==
  /\ DOMAIN DT!Methods = 1..6 /\ Len(DT!Methods) = 6
  /\ DT!ToSet(DT!Methods) = {DT!Methods[n] : n \in 1..6}
  /\ \A m, n \in 1..6 : DT!Methods[m] = DT!Methods[n] => m = n
  /\ \A n \in 1..6 : DT!Methods[n] \notin {"idle", "localtime", "symlink", "copy"}
<1> DEFINE M == <<"timezone", "ZONE", "TIMEZONE", "TZ", "rc.conf", "conf.d">>
<1>1. DT!Methods = M
  BY DEF DT!Methods
<1>2. DOMAIN M = 1..6 /\ Len(M) = 6
  OBVIOUS
<1>3. /\ M[1] = "timezone" /\ M[2] = "ZONE" /\ M[3] = "TIMEZONE" /\ M[4] = "TZ"
      /\ M[5] = "rc.conf" /\ M[6] = "conf.d"
  OBVIOUS
<1>4. \A n \in 1..6 : n = 1 \/ n = 2 \/ n = 3 \/ n = 4 \/ n = 5 \/ n = 6
  OBVIOUS
<1> HIDE DEF M
<1>5. \A m, n \in 1..6 : M[m] = M[n] => m = n
  BY <1>3, <1>4
<1>6. \A n \in 1..6 : M[n] \notin {"idle", "localtime", "symlink", "copy"}
  BY <1>3, <1>4
<1> QED
  BY <1>1, <1>2, <1>5, <1>6 DEF DT!ToSet

\* The link or the copy is the zone's, and so are the first n of the files there are.
Done(zone, n) ==
  /\ localtime.kind # "none" /\ localtime.zone = zone
  /\ \A m \in 1..n : config[DT!Methods[m]] \in {"absent", zone}

\* What files name is the old zone or the new one; and /etc/localtime is the new
\* one, or lost, or nothing was changed.
Backed(zone) ==
  /\ \A m \in 1..6 : config[DT!Methods[m]] \in Plain =>
                       config[DT!Methods[m]] \in before \cup {zone}
  /\ \/ localtime.kind = "none"
     \/ localtime.zone = zone
     \/ DT!Found = before

ZoneInv ==
  /\ localtime \in [kind : {"link", "copy"}, zone : Zones] \cup {[kind |-> "none"]}
  /\ config \in [DT!ToSet(DT!Methods) -> Zones \cup DT!Unset]
  /\ call = DT!Idle \/ call \in [zone : Zones, step : DT!Steps \ {"idle"}]
  /\ told.reply # "none" => told.zone \in Zones
  /\ \A n \in 1..6 : call.step = DT!Methods[n] => Done(call.zone, n - 1)
  /\ call = DT!Idle /\ told.reply = "ok" => Done(told.zone, 6)
  /\ before # {} /\ call # DT!Idle => Backed(call.zone)
  /\ before # {} /\ call = DT!Idle /\ told.reply \in {"error", "lost"} => Backed(told.zone)

\* The zone is that of the link, or of the first file with a name, or one of
\* those with the data of the copy.
LEMMA FoundIs ==
  ASSUME ZoneConstants, ZoneInv
  PROVE  \/ localtime.kind = "link" /\ localtime.zone \in Plain
            /\ DT!Found = {localtime.zone}
         \/ /\ ~(localtime.kind = "link" /\ localtime.zone \in Plain)
            /\ \E n \in 1..6 : config[DT!Methods[n]] \in Plain
                 /\ DT!Found = {config[DT!Methods[n]]}
         \/ /\ ~(localtime.kind = "link" /\ localtime.zone \in Plain)
            /\ \A n \in 1..6 : config[DT!Methods[n]] \notin Plain
            /\ DT!Found = (DT!Compared \cap Plain) \cup
                 (IF DT!Compared \subseteq Plain /\ DT!Compared # {} THEN {} ELSE {"UTC"})
<1>1. DT!Configured = {n \in 1..6 : config[DT!Methods[n]] \in Plain}
  BY MethodsAre DEF DT!Configured, DT!IsValid
<1>2. (\E zone \in DT!Linked : DT!IsValid(zone)) <=>
        localtime.kind = "link" /\ localtime.zone \in Plain
  BY DEF DT!Linked, DT!IsValid
<1>3. ASSUME DT!Configured # {}
      PROVE  DT!Min(DT!Configured) \in DT!Configured
  <2>1. DT!Configured \in SUBSET Nat
    BY <1>1
  <2>2. \E n \in DT!Configured : \A m \in DT!Configured : n <= m
    BY <1>3, <2>1, LeastNumber
  <2> QED
    BY <2>2 DEF DT!Min
<1>4. CASE localtime.kind = "link" /\ localtime.zone \in Plain
  BY <1>2, <1>4 DEF DT!Found, DT!Linked
<1>5. CASE ~(localtime.kind = "link" /\ localtime.zone \in Plain) /\ DT!Configured # {}
  <2>1. DT!Found = {config[DT!Methods[DT!Min(DT!Configured)]]}
    BY <1>2, <1>5 DEF DT!Found
  <2> QED
    BY <1>1, <1>3, <1>5, <2>1
<1>6. CASE ~(localtime.kind = "link" /\ localtime.zone \in Plain) /\ DT!Configured = {}
  <2>1. DT!Found = (DT!Compared \cap Plain) \cup
          (IF DT!Compared \subseteq Plain /\ DT!Compared # {} THEN {} ELSE {"UTC"})
    BY <1>2, <1>6 DEF DT!Found
  <2> QED
    BY <1>1, <1>6, <2>1
<1> QED
  BY <1>4, <1>5, <1>6

LEMMA DoneTells ==
  ASSUME ZoneConstants, ZoneInv, NEW zone \in Zones, Done(zone, 6),
         DT!Alike(zone) \subseteq Plain
  PROVE  /\ DT!Found \subseteq DT!Alike(zone)
         /\ DT!Linked # {} \/ DT!Configured # {} => DT!Found = {zone}
<1>1. zone \in DT!Alike(zone) /\ zone \in Plain
  BY DEF DT!Alike
<1>2. localtime.kind \in {"link", "copy"} /\ localtime.zone = zone
  BY DEF ZoneInv, Done
<1>3. \A n \in 1..6 : config[DT!Methods[n]] \in Plain => config[DT!Methods[n]] = zone
  BY DEF Done, ZoneConstants, DT!Unset
<1>4. DT!Configured = {n \in 1..6 : config[DT!Methods[n]] \in Plain}
  BY MethodsAre DEF DT!Configured, DT!IsValid
<1>5. DT!Compared = IF localtime.kind = "copy" THEN DT!Alike(zone) ELSE {}
  BY <1>2 DEF DT!Compared
<1>6. localtime.kind = "copy" => DT!Linked = {}
  BY DEF DT!Linked
<1> QED
  BY <1>1, <1>2, <1>3, <1>4, <1>5, <1>6, FoundIs

LEMMA BackedKeeps ==
  ASSUME ZoneConstants, ZoneInv, NEW zone \in Zones, Backed(zone)
  PROVE  DT!Found \subseteq before \cup DT!Alike(zone) \cup
           (IF localtime.kind = "none" \/ ~ DT!Alike(zone) \subseteq Plain THEN {"UTC"}
            ELSE {})
<1>1. zone \in DT!Alike(zone)
  BY DEF DT!Alike
<1>2. CASE DT!Found = before
  BY <1>2
<1>3. CASE localtime.kind = "none"
  <2>1. DT!Compared = {}
    BY <1>3 DEF DT!Compared
  <2> QED
    BY <1>1, <1>3, <2>1, FoundIs DEF Backed
<1>4. CASE localtime.kind # "none" /\ localtime.zone = zone
  <2>1. DT!Compared \in {{}, DT!Alike(zone)}
        /\ (localtime.kind = "copy" => DT!Compared = DT!Alike(zone))
    BY <1>4 DEF DT!Compared
  <2>2. localtime.kind \in {"link", "copy"}
    BY <1>4 DEF ZoneInv
  <2> QED
    BY <1>1, <1>4, <2>1, <2>2, FoundIs DEF Backed
<1> QED
  BY <1>2, <1>3, <1>4 DEF Backed

LEMMA ZoneHolds == ZoneConstants /\ ZoneInv => DT!ZoneTold /\ DT!ZoneKept
<1> SUFFICES ASSUME ZoneConstants, ZoneInv PROVE DT!ZoneTold /\ DT!ZoneKept
  OBVIOUS
<1>1. told.reply # "none" => told.zone \in Zones
  BY DEF ZoneInv
<1>2. DT!ZoneTold
  BY <1>1, DoneTells DEF DT!ZoneTold, ZoneInv
<1>3. DT!ZoneKept
  BY <1>1, BackedKeeps DEF DT!ZoneKept, ZoneInv
<1> QED
  BY <1>2, <1>3

LEMMA ZoneInit == DT!ZoneInit => ZoneInv
<1> SUFFICES ASSUME DT!ZoneInit PROVE ZoneInv
  OBVIOUS
<1>1. /\ localtime \in [kind : {"link", "copy"}, zone : Zones]
      /\ config \in [DT!ToSet(DT!Methods) -> {"absent", localtime.zone}]
      /\ call = DT!Idle /\ told.reply = "none" /\ before = {}
  BY DEF DT!ZoneInit
<1>2. config \in [DT!ToSet(DT!Methods) -> Zones \cup DT!Unset]
  BY <1>1 DEF DT!Unset
<1>3. \A n \in 1..6 : call.step # DT!Methods[n]
  BY <1>1, MethodsAre DEF DT!Idle
<1> QED
  BY <1>1, <1>2, <1>3 DEF ZoneInv

\* A call that begins has changed nothing.
LEMMA BackedFirst ==
  ASSUME ZoneConstants, ZoneInv, NEW zone \in Zones, UNCHANGED <<localtime, config>>,
         before' = IF DT!Agreed THEN DT!Found ELSE {}, before' # {}
  PROVE  Backed(zone)'
<1>1. DT!Agreed /\ before' = DT!Found
  OBVIOUS
<1>2. DT!Found' = DT!Found
  BY DEF DT!Found, DT!Linked, DT!Configured, DT!Compared, DT!Alike
<1>3. /\ localtime.kind \in {"link", "copy"}
      /\ \A m \in 1..6 : config[DT!Methods[m]] \in {"absent", localtime.zone}
  BY <1>1, MethodsAre DEF DT!Agreed, ZoneInv
<1>4. \A m \in 1..6 : config[DT!Methods[m]] \in Plain => config[DT!Methods[m]] \in DT!Found
  BY <1>3, FoundIs DEF ZoneConstants, DT!Unset
<1> QED
  BY <1>1, <1>2, <1>4 DEF Backed

LEMMA ZoneNext ==
  ASSUME ZoneConstants, ZoneInv, DT!ZoneNext \/ UNCHANGED zoneVars
  PROVE  ZoneInv'
<1>0. /\ DT!Idle.step = "idle" /\ DT!Idle.zone = "UTC"
      /\ \A n \in 1..6 : DT!Methods[n] \in DT!Steps \ {"idle"}
      /\ {"localtime", "symlink", "copy"} \subseteq DT!Steps \ {"idle"}
  BY MethodsAre DEF DT!Idle, DT!Steps
<1>1. \A step1 \in DT!Steps \ {"idle"} : call # DT!Idle /\ call.step # "idle" /\
        DT!ZoneGoes(step1) =>
          /\ call' \in [zone : Zones, step : DT!Steps \ {"idle"}]
          /\ call'.zone = call.zone /\ call'.step = step1 /\ call' # DT!Idle
  BY <1>0 DEF DT!ZoneGoes, ZoneInv
<1>2. \A reply : DT!ZoneEnds(reply) =>
        /\ call' = DT!Idle /\ told'.reply = reply /\ told'.zone = call.zone
        /\ \A n \in 1..6 : call'.step # DT!Methods[n]
  BY <1>0, MethodsAre DEF DT!ZoneEnds
<1>3. ASSUME NEW zone \in Zones, DT!SetTimezone(zone) PROVE ZoneInv'
  <2>1. /\ call = DT!Idle /\ UNCHANGED <<localtime, config>>
        /\ before' = IF DT!Agreed THEN DT!Found ELSE {}
    BY <1>3 DEF DT!SetTimezone
  <2>2. before' # {} => Backed(zone)'
    BY <2>1, BackedFirst
  <2>3. CASE told' = [reply |-> "error", zone |-> zone] /\ UNCHANGED call
    BY <1>0, <2>1, <2>2, <2>3, MethodsAre DEF ZoneInv
  <2>4. CASE call' = [zone |-> zone, step |-> "localtime"] /\ UNCHANGED told
    BY <1>0, <2>1, <2>2, <2>4, MethodsAre DEF ZoneInv
  <2> QED
    BY <1>3, <2>3, <2>4 DEF DT!SetTimezone
<1>4. CASE DT!Localtime
  <2>1. /\ call.step = "localtime" /\ call # DT!Idle /\ UNCHANGED <<config, told, before>>
        /\ \/ localtime' = [kind |-> "none"] /\ DT!ZoneGoes("symlink")
           \/ localtime' = localtime /\ DT!ZoneGoes("copy")
    BY <1>0, <1>4 DEF DT!Localtime
  <2>2. /\ call' \in [zone : Zones, step : DT!Steps \ {"idle"}] /\ call'.zone = call.zone
        /\ call'.step \in {"symlink", "copy"} /\ call' # DT!Idle
    BY <1>0, <1>1, <2>1
  <2>3. localtime' = localtime => DT!Found' = DT!Found
    BY <2>1 DEF DT!Found, DT!Linked, DT!Configured, DT!Compared, DT!Alike
  <2>4. before' # {} => Backed(call.zone)'
    BY <2>1, <2>2, <2>3 DEF Backed, ZoneInv
  <2> QED
    BY <2>1, <2>2, <2>4, MethodsAre DEF ZoneInv
<1>5. ASSUME call # DT!Idle, call.step # "idle", DT!ZoneGoes(DT!Methods[1]),
             UNCHANGED <<config, told, before>>,
             \E kind \in {"link", "copy"} : localtime' = [kind |-> kind, zone |-> call.zone]
      PROVE  ZoneInv'
  <2>1. /\ call' \in [zone : Zones, step : DT!Steps \ {"idle"}] /\ call'.zone = call.zone
        /\ call'.step = DT!Methods[1] /\ call' # DT!Idle
    BY <1>0, <1>1, <1>5
  <2>2. /\ localtime' \in [kind : {"link", "copy"}, zone : Zones]
        /\ localtime'.zone = call'.zone /\ localtime'.kind # "none"
    BY <1>5, <2>1
  <2>3. before' # {} => Backed(call.zone)'
    BY <1>5, <2>1, <2>2 DEF Backed, ZoneInv
  <2>4. \A n \in 1..6 : call'.step = DT!Methods[n] => Done(call.zone, n - 1)'
    <3>1. ASSUME NEW n \in 1..6, call'.step = DT!Methods[n] PROVE 1..(n - 1) = {}
      <4>1. 1 \in 1..6 /\ DT!Methods[n] = DT!Methods[1]
        BY <2>1, <3>1
      <4>2. n = 1
        BY <4>1, MethodsAre, Zenon
      <4> QED
        BY <4>2
    <3> QED
      BY <2>1, <2>2, <3>1 DEF Done
  <2> QED
    BY <1>5, <2>1, <2>2, <2>3, <2>4 DEF ZoneInv
<1>6. ASSUME call # DT!Idle, UNCHANGED <<localtime, config, before>>,
             NEW reply \in {"error", "lost"}, DT!ZoneEnds(reply)
      PROVE  ZoneInv'
  <2>1. DT!Found' = DT!Found
    BY <1>6 DEF DT!Found, DT!Linked, DT!Configured, DT!Compared, DT!Alike
  <2>2. call.zone \in Zones /\ call' = DT!Idle /\ told'.reply = reply /\ told'.zone = call.zone
        /\ \A n \in 1..6 : call'.step # DT!Methods[n]
    BY <1>2, <1>6 DEF ZoneInv
  <2>3. before' # {} => Backed(told.zone)'
    BY <1>6, <2>1, <2>2 DEF Backed, ZoneInv
  <2> QED
    BY <1>6, <2>2, <2>3 DEF ZoneInv
<1>7. Head(DT!Methods) = DT!Methods[1]
  BY MethodsAre DEF DT!Methods
<1>8. CASE DT!Symlink
  <2>1. /\ call.step = "symlink" /\ call # DT!Idle /\ UNCHANGED <<config, told, before>>
        /\ \/ /\ localtime' = [kind |-> "link", zone |-> call.zone]
              /\ DT!ZoneGoes(DT!Methods[1])
           \/ localtime' = localtime /\ DT!ZoneGoes("copy")
    BY <1>0, <1>7, <1>8 DEF DT!Symlink
  <2>2. CASE localtime' = localtime /\ DT!ZoneGoes("copy")
    <3>1. /\ call' \in [zone : Zones, step : DT!Steps \ {"idle"}] /\ call'.zone = call.zone
          /\ call'.step = "copy" /\ call' # DT!Idle
      BY <1>0, <1>1, <2>1, <2>2
    <3>2. DT!Found' = DT!Found
      BY <2>1, <2>2 DEF DT!Found, DT!Linked, DT!Configured, DT!Compared, DT!Alike
    <3>3. before' # {} => Backed(call.zone)'
      BY <2>1, <2>2, <3>1, <3>2 DEF Backed, ZoneInv
    <3> QED
      BY <2>1, <2>2, <3>1, <3>3, MethodsAre DEF ZoneInv
  <2> QED
    BY <1>5, <2>1, <2>2
<1>9. CASE DT!Copy
  BY <1>0, <1>5, <1>6, <1>7, <1>9 DEF DT!Copy
<1>10. CASE DT!Update
  <2>1. /\ call.step \in DT!ToSet(DT!Methods) /\ UNCHANGED <<localtime, before>>
    BY <1>10 DEF DT!Update
  <2>2. PICK n \in 1..6 : call.step = DT!Methods[n]
    BY <2>1, MethodsAre
  <2> DEFINE at == CHOOSE m \in DOMAIN DT!Methods : DT!Methods[m] = call.step
  <2>3. at = n
    BY <2>2, MethodsAre
  <2>4. call # DT!Idle /\ call.step # "idle" /\ call.zone \in Zones /\ Done(call.zone, n - 1)
    BY <1>0, <2>2, MethodsAre DEF ZoneInv
  <2> DEFINE new == DT!Written(call.step, config[call.step], call.zone)
  <2>5. \/ /\ config' = [config EXCEPT ![call.step] = new]
           /\ IF n = 6 THEN DT!ZoneEnds("ok")
              ELSE DT!ZoneGoes(DT!Methods[n + 1]) /\ UNCHANGED told
        \/ DT!ZoneEnds("error") /\ UNCHANGED config
    BY <1>10, <2>3, MethodsAre DEF DT!Update
  <2>6. CASE DT!ZoneEnds("error") /\ UNCHANGED config
    BY <1>6, <2>1, <2>4, <2>6
  <2>7. CASE /\ config' = [config EXCEPT ![call.step] = new]
             /\ IF n = 6 THEN DT!ZoneEnds("ok")
                ELSE DT!ZoneGoes(DT!Methods[n + 1]) /\ UNCHANGED told
    <3>1. /\ new \in {"absent", call.zone} /\ new \in Zones \cup DT!Unset
          /\ config' \in [DT!ToSet(DT!Methods) -> Zones \cup DT!Unset]
          /\ config'[DT!Methods[n]] = new
          /\ \A m \in 1..6 : m # n => config'[DT!Methods[m]] = config[DT!Methods[m]]
      BY <2>1, <2>2, <2>4, <2>7, MethodsAre DEF ZoneInv, DT!Written, DT!Unset
    <3> HIDE DEF new
    <3>2. ASSUME NEW z, z = call.zone
          PROVE  Done(z, n)' /\ (before # {} => Backed(z)')
      <4>1. Done(z, n)'
        BY <2>1, <2>4, <3>1, <3>2 DEF Done
      <4>2. before # {} => Backed(z)'
        BY <2>1, <2>4, <3>1, <3>2 DEF Backed, Done, ZoneInv, ZoneConstants, DT!Unset
      <4> QED
        BY <4>1, <4>2
    <3>4. CASE n = 6
      BY <1>2, <2>1, <2>4, <2>7, <3>1, <3>2, <3>4 DEF ZoneInv, Done
    <3>5. CASE n # 6
      <4>1. /\ call' \in [zone : Zones, step : DT!Steps \ {"idle"}]
            /\ call'.zone = call.zone /\ call'.step = DT!Methods[n + 1] /\ call' # DT!Idle
        BY <1>0, <1>1, <2>4, <2>7, <3>5
      <4>2. ASSUME NEW m \in 1..6, call'.step = DT!Methods[m] PROVE m - 1 = n
        <5>1. n + 1 \in 1..6 /\ DT!Methods[m] = DT!Methods[n + 1]
          BY <3>5, <4>1, <4>2
        <5>2. m = n + 1
          BY <5>1, MethodsAre, Zenon
        <5> QED
          BY <5>2
      <4> QED
        BY <2>1, <2>7, <3>1, <3>2, <3>5, <4>1, <4>2 DEF ZoneInv, Done, Backed
    <3> QED
      BY <3>4, <3>5
  <2> QED
    BY <2>5, <2>6, <2>7
<1>11. CASE DT!Crash
  BY <1>6, <1>11 DEF DT!Crash
<1>12. CASE DT!OtherWrites
  <2>1. /\ call = DT!Idle /\ call' = DT!Idle /\ told'.reply = "none"
        /\ \/ /\ \E m \in DT!ToSet(DT!Methods), z \in Zones \cup DT!Unset :
                   config' = [config EXCEPT ![m] = z]
              /\ UNCHANGED localtime
           \/ localtime' \in [kind : {"link", "copy"}, zone : Zones] /\ UNCHANGED config
    BY <1>12 DEF DT!OtherWrites, ZoneInv
  <2>2. /\ config' \in [DT!ToSet(DT!Methods) -> Zones \cup DT!Unset]
        /\ localtime' \in [kind : {"link", "copy"}, zone : Zones] \cup {[kind |-> "none"]}
    BY <2>1 DEF ZoneInv
  <2> QED
    BY <1>0, <2>1, <2>2, MethodsAre DEF ZoneInv
<1>13. CASE UNCHANGED zoneVars
  BY <1>13 DEF zoneVars, ZoneInv, Done, Backed, DT!Found, DT!Linked, DT!Configured,
               DT!Compared, DT!Alike
<1> QED
  BY <1>3, <1>4, <1>8, <1>9, <1>10, <1>11, <1>12, <1>13 DEF DT!ZoneNext

(***************************************************************************)
(* Super pressed alone                                                     *)
(***************************************************************************)

AllKeys == Keyboard \cup {"super", "button"}
Toggled(d, key) == IF key \in d THEN d \ {key} ELSE d \cup {key}

\* What a key that is pressed, or released, makes of what was pressed.
Becomes(h, d, key) ==
  IF key = "super" THEN IF key \notin d THEN IF d = {} THEN "alone" ELSE "held" ELSE "up"
  ELSE IF h = "up" THEN h
  ELSE IF key = "button" THEN IF h \in {"clean", "rolled"} THEN h ELSE "chord"
  ELSE IF key \in d THEN "clean" ELSE IF h = "clean" THEN "rolled" ELSE "chord"

\* The events that were not seen lead from the keys d[1] that were down at the
\* last that was seen to those that are down, and from h[1] to how.
Leads(d, h) ==
  LET n == Len(superEvents) IN
    /\ d \in [1..(n + 1) -> SUBSET AllKeys] /\ d[n + 1] = down
    /\ h \in [1..(n + 1) -> SH!Hows] /\ h[n + 1] = how
    /\ \A i \in 1..n :
         /\ superEvents[i].key \in AllKeys /\ superEvents[i].how = h[i]
         /\ superEvents[i].press <=> superEvents[i].key \notin d[i]
         /\ d[i + 1] = Toggled(d[i], superEvents[i].key)
         /\ h[i + 1] = Becomes(h[i], d[i], superEvents[i].key)

\* What is counted where h is what was pressed beside Super, and d is down.
Counts(h, d) ==
  /\ key_press_cnt \in Nat
  /\ "super" \in d <=> h # "up"
  /\ h \in {"alone", "held", "rolled"} => key_press_cnt >= 1
  /\ h = "chord" => key_press_cnt >= 2
  /\ h \in {"alone", "held"} => super_press
  /\ swallowed => key_press_cnt >= 1 /\ super_press
  /\ ~swallowed => /\ h = "up" => ~super_press /\
                        (key_press_cnt > 0 => d \ {"super", "button"} # {})
                   /\ h = "alone" => key_press_cnt = 1
                   /\ h = "clean" => key_press_cnt = 0 /\ ~super_press
                   /\ h = "rolled" => ~super_press

SuperInv ==
  /\ superEvents \in Seq([key : AllKeys, press : BOOLEAN, how : SH!Hows])
  /\ \E d, h : Leads(d, h) /\ Counts(h[1], d[1])
  /\ SH!AloneRuns

LEMMA SuperInit == SH!SuperInit => SuperInv
<1> SUFFICES ASSUME SH!SuperInit PROVE SuperInv
  OBVIOUS
<1>1. /\ down = {} /\ superEvents = <<>> /\ key_press_cnt = 0 /\ super_press = FALSE
      /\ how = "up" /\ swallowed = FALSE /\ last.how = "up" /\ last.ran = FALSE
  BY DEF SH!SuperInit
<1> DEFINE d == [i \in 1..1 |-> {}]
           h == [i \in 1..1 |-> "up"]
<1>2. Len(superEvents) = 0
  BY <1>1
<1>3. Leads(d, h)
  BY <1>1, <1>2 DEF Leads, SH!Hows
<1>4. Counts(h[1], d[1])
  BY <1>1 DEF Counts
<1>5. SH!AloneRuns
  BY <1>1 DEF SH!AloneRuns
<1> HIDE DEF d, h
<1> QED
  BY <1>1, <1>3, <1>4, <1>5 DEF SuperInv

\* A key moves: one more event.
LEMMA SuperMoves ==
  ASSUME SuperInv, NEW key \in AllKeys, SH!Move(key)
  PROVE  SuperInv'
<1> DEFINE press == key \notin down
           e == [key |-> key, press |-> press, how |-> how]
           n == Len(superEvents)
<1>1. /\ down' = Toggled(down, key) /\ superEvents' = Append(superEvents, e)
      /\ UNCHANGED <<key_press_cnt, super_press, swallowed, last>>
  BY DEF SH!Move, Toggled
<1>2. how' = Becomes(how, down, key)
  BY DEF SH!Move, SH!After, SH!Button, Becomes
<1>3. PICK d, h : Leads(d, h) /\ Counts(h[1], d[1])
  BY DEF SuperInv
<1>4. /\ n \in Nat /\ down \in SUBSET AllKeys /\ how \in SH!Hows
      /\ d \in [1..(n + 1) -> SUBSET AllKeys] /\ d[n + 1] = down
      /\ h \in [1..(n + 1) -> SH!Hows] /\ h[n + 1] = how
  <2>1. n \in Nat
    BY LenProperties DEF SuperInv
  <2> QED
    BY <1>3, <2>1 DEF Leads
<1>5. e.key = key /\ (e.press <=> key \notin down) /\ e.how = how
      /\ e \in [key : AllKeys, press : BOOLEAN, how : SH!Hows]
  BY <1>4
<1> HIDE DEF e
<1>6. /\ superEvents' \in Seq([key : AllKeys, press : BOOLEAN, how : SH!Hows])
      /\ Len(superEvents') = n + 1 /\ superEvents'[n + 1] = e
      /\ \A i \in 1..n : superEvents'[i] = superEvents[i]
  BY <1>1, <1>5, AppendProperties DEF SuperInv
<1> HIDE DEF n
<1>7. /\ down' \in SUBSET AllKeys /\ how' \in SH!Hows
  BY <1>1, <1>2, <1>4 DEF Toggled, Becomes, SH!Hows
<1>8. /\ \E d2 \in [1..(n + 2) -> SUBSET AllKeys] :
             d2[n + 2] = down' /\ \A i \in 1..(n + 1) : d2[i] = d[i]
      /\ \E h2 \in [1..(n + 2) -> SH!Hows] :
             h2[n + 2] = how' /\ \A i \in 1..(n + 1) : h2[i] = h[i]
      /\ 1 \in 1..(n + 1)
  <2> DEFINE a == [i \in 1..(n + 2) |-> IF i = n + 2 THEN down' ELSE d[i]]
             b == [i \in 1..(n + 2) |-> IF i = n + 2 THEN how' ELSE h[i]]
  <2>1. /\ a \in [1..(n + 2) -> SUBSET AllKeys] /\ a[n + 2] = down'
        /\ \A i \in 1..(n + 1) : a[i] = d[i]
    BY <1>4, <1>7
  <2>2. /\ b \in [1..(n + 2) -> SH!Hows] /\ b[n + 2] = how'
        /\ \A i \in 1..(n + 1) : b[i] = h[i]
    BY <1>4, <1>7
  <2>3. 1 \in 1..(n + 1)
    BY <1>4
  <2> HIDE DEF a, b
  <2> QED
    BY <2>1, <2>2, <2>3
<1>12. PICK d2 \in [1..(n + 2) -> SUBSET AllKeys] :
         d2[n + 2] = down' /\ \A i \in 1..(n + 1) : d2[i] = d[i]
  BY <1>8
<1>13. PICK h2 \in [1..(n + 2) -> SH!Hows] :
         h2[n + 2] = how' /\ \A i \in 1..(n + 1) : h2[i] = h[i]
  BY <1>8
<1>9. Leads(d2, h2)'
  <2>1. \A i \in 1..n : /\ i \in 1..(n + 1) /\ i + 1 \in 1..(n + 1)
    BY <1>4
  <2>2. ASSUME NEW i \in 1..n
        PROVE  /\ superEvents'[i].key \in AllKeys /\ superEvents'[i].how = h2[i]
               /\ superEvents'[i].press <=> superEvents'[i].key \notin d2[i]
               /\ d2[i + 1] = Toggled(d2[i], superEvents'[i].key)
               /\ h2[i + 1] = Becomes(h2[i], d2[i], superEvents'[i].key)
    <3>1. /\ superEvents'[i] = superEvents[i] /\ d2[i] = d[i] /\ h2[i] = h[i]
          /\ d2[i + 1] = d[i + 1] /\ h2[i + 1] = h[i + 1]
      BY <1>6, <1>12, <1>13, <2>1
    <3>2. \A j \in 1..n :
            /\ superEvents[j].key \in AllKeys /\ superEvents[j].how = h[j]
            /\ superEvents[j].press <=> superEvents[j].key \notin d[j]
            /\ d[j + 1] = Toggled(d[j], superEvents[j].key)
            /\ h[j + 1] = Becomes(h[j], d[j], superEvents[j].key)
      BY <1>3 DEF Leads, n
    <3> QED
      BY <3>1, <3>2
  <2>3. /\ superEvents'[n + 1].key \in AllKeys /\ superEvents'[n + 1].how = h2[n + 1]
        /\ superEvents'[n + 1].press <=> superEvents'[n + 1].key \notin d2[n + 1]
        /\ d2[(n + 1) + 1] = Toggled(d2[n + 1], superEvents'[n + 1].key)
        /\ h2[(n + 1) + 1] = Becomes(h2[n + 1], d2[n + 1], superEvents'[n + 1].key)
    <3>1. n + 1 \in 1..(n + 1) /\ (n + 1) + 1 = n + 2
      BY <1>4
    <3> QED
      BY <1>1, <1>2, <1>4, <1>5, <1>6, <1>8, <1>12, <1>13, <3>1
  <2>4. \A i \in 1..(n + 1) : i \in 1..n \/ i = n + 1
    BY <1>4
  <2>5. (n + 1) + 1 = n + 2
    BY <1>4
  <2> QED
    BY <1>6, <1>8, <1>12, <1>13, <2>2, <2>3, <2>4, <2>5 DEF Leads
<1>10. Counts(h2[1], d2[1])'
  BY <1>1, <1>3, <1>8, <1>12, <1>13 DEF Counts
<1>11. SH!AloneRuns'
  BY <1>1 DEF SH!AloneRuns, SuperInv
<1> QED
  BY <1>6, <1>9, <1>10, <1>11 DEF SuperInv

\* A press, and whatever a button does, is counted.
LEMMA PressCounts ==
  ASSUME NEW h \in SH!Hows, NEW d \in SUBSET AllKeys, NEW key \in AllKeys, Counts(h, d),
         key \notin d \/ key = "button", UNCHANGED swallowed,
         super_press' <=> super_press \/ key = "super",
         key_press_cnt' = IF key # "button" \/ super_press THEN key_press_cnt + 1
                          ELSE key_press_cnt
  PROVE  Counts(Becomes(h, d, key), Toggled(d, key))'
<1> DEFINE h2 == Becomes(h, d, key)
           d2 == Toggled(d, key)
<1>0. key_press_cnt \in Nat /\ key_press_cnt' \in Nat
  BY DEF Counts
<1>1. CASE key = "super"
  <2>1. h = "up" /\ h2 = IF d = {} THEN "alone" ELSE "held"
    BY <1>1 DEF Counts, Becomes
  <2>2. "super" \in d2 /\ key_press_cnt' = key_press_cnt + 1 /\ super_press'
    BY <1>1 DEF Counts, Toggled
  <2> QED
    BY <1>0, <2>1, <2>2 DEF Counts
<1>2. CASE key = "button"
  <2>1. /\ h2 = IF h = "up" \/ h \in {"clean", "rolled"} THEN h ELSE "chord"
        /\ "super" \in d2 <=> "super" \in d
        /\ d2 \ {"super", "button"} = d \ {"super", "button"}
    BY <1>2 DEF Becomes, Toggled
  <2>2. /\ super_press' <=> super_press
        /\ key_press_cnt' = IF super_press THEN key_press_cnt + 1 ELSE key_press_cnt
    BY <1>2
  <2> QED
    BY <1>0, <2>1, <2>2 DEF Counts, SH!Hows
<1>3. CASE key \notin {"super", "button"}
  <2>1. /\ h2 = IF h = "up" THEN "up" ELSE IF h = "clean" THEN "rolled" ELSE "chord"
        /\ "super" \in d2 <=> "super" \in d
        /\ key \in d2 \ {"super", "button"}
    BY <1>3 DEF Becomes, Toggled
  <2>2. /\ super_press' <=> super_press
        /\ key_press_cnt' = key_press_cnt + 1
    BY <1>3
  <2> QED
    BY <1>0, <2>1, <2>2 DEF Counts, SH!Hows
<1> QED
  BY <1>1, <1>2, <1>3

\* A release starts the count anew, unless the keyboard was grabbed.
LEMMA ReleaseCounts ==
  ASSUME NEW h \in SH!Hows, NEW d \in SUBSET AllKeys, NEW key \in AllKeys, Counts(h, d),
         key \in d, key # "button",
         \/ ~swallowed' /\ key_press_cnt' = 0 /\ ~super_press'
         \/ swallowed' /\ key_press_cnt' = 1 /\ super_press'
  PROVE  Counts(Becomes(h, d, key), Toggled(d, key))'
<1> DEFINE h2 == Becomes(h, d, key)
           d2 == Toggled(d, key)
<1>1. h2 = IF key = "super" \/ h = "up" THEN "up" ELSE "clean"
  BY DEF Becomes
<1>2. "super" \in d2 <=> h2 # "up"
  BY <1>1 DEF Toggled, Counts
<1> HIDE DEF h2, d2
<1>3. Counts(h2, d2)'
  BY <1>1, <1>2 DEF Counts
<1> QED
  BY <1>3 DEF h2, d2

LEMMA SuperTakes ==
  ASSUME SuperInv, SH!Intercept
  PROVE  SuperInv'
<1> DEFINE n == Len(superEvents)
           e == Head(superEvents)
           pressed == super_press \/ e.key = "super"
<1>1. /\ superEvents # <<>> /\ superEvents' = Tail(superEvents)
      /\ UNCHANGED <<down, grabbed, how>>
      /\ IF e.press \/ e.key = "button" THEN SH!Pressed(e, pressed)
         ELSE SH!Release(e, pressed)
  BY DEF SH!Intercept, SH!Button
<1>2. PICK d, h : Leads(d, h) /\ Counts(h[1], d[1])
  BY DEF SuperInv
<1>3. /\ n \in Nat /\ n >= 1 /\ e = superEvents[1]
      /\ superEvents' \in Seq([key : AllKeys, press : BOOLEAN, how : SH!Hows])
      /\ Len(superEvents') = n - 1
      /\ \A i \in 1..(n - 1) : superEvents'[i] = superEvents[i + 1]
  BY <1>1, HeadTailProperties, LenProperties, EmptySeq DEF SuperInv
<1>4. PICK key \in AllKeys :
        /\ h[1] \in SH!Hows /\ d[1] \in SUBSET AllKeys /\ e.key = key
        /\ e.how = h[1] /\ (e.press <=> key \notin d[1])
        /\ d[2] = Toggled(d[1], key) /\ h[2] = Becomes(h[1], d[1], key)
  <2>1. 1 \in 1..n /\ 1 \in 1..(n + 1) /\ 1 + 1 = 2
    BY <1>3
  <2> QED
    BY <1>2, <1>3, <2>1 DEF Leads
<1>10. /\ \E d2 \in [1..n -> SUBSET AllKeys] :
              d2[n] = down /\ \A i \in 1..n : d2[i] = d[i + 1]
       /\ \E h2 \in [1..n -> SH!Hows] :
              h2[n] = how /\ \A i \in 1..n : h2[i] = h[i + 1]
  <2> DEFINE a == [i \in 1..n |-> d[i + 1]]
             b == [i \in 1..n |-> h[i + 1]]
  <2> HIDE DEF n, e, pressed
  <2>1. /\ d \in [1..(n + 1) -> SUBSET AllKeys] /\ d[n + 1] = down
        /\ h \in [1..(n + 1) -> SH!Hows] /\ h[n + 1] = how
    BY <1>2 DEF Leads, n
  <2>2. n \in 1..n /\ \A i \in 1..n : i + 1 \in 1..(n + 1)
    BY <1>3
  <2>3. a \in [1..n -> SUBSET AllKeys] /\ a[n] = down /\ \A i \in 1..n : a[i] = d[i + 1]
    BY <2>1, <2>2
  <2>4. b \in [1..n -> SH!Hows] /\ b[n] = how /\ \A i \in 1..n : b[i] = h[i + 1]
    BY <2>1, <2>2
  <2> HIDE DEF a, b
  <2> QED
    BY <2>3, <2>4
<1>11. PICK d2 \in [1..n -> SUBSET AllKeys] :
         d2[n] = down /\ \A i \in 1..n : d2[i] = d[i + 1]
  BY <1>10
<1>12. PICK h2 \in [1..n -> SH!Hows] :
         h2[n] = how /\ \A i \in 1..n : h2[i] = h[i + 1]
  BY <1>10
<1>5. \A i \in 1..n : d2[i] = d[i + 1] /\ h2[i] = h[i + 1]
  BY <1>11, <1>12
<1>9. Leads(d2, h2)'
  <2> HIDE DEF n, e, pressed
  <2>2. /\ (n - 1) + 1 = n /\ n \in 1..n
        /\ \A i \in 1..(n - 1) : i \in 1..n /\ i + 1 \in 1..n
    BY <1>3
  <2>4. ASSUME NEW i \in 1..(n - 1)
        PROVE  /\ superEvents'[i].key \in AllKeys /\ superEvents'[i].how = h2[i]
               /\ superEvents'[i].press <=> superEvents'[i].key \notin d2[i]
               /\ d2[i + 1] = Toggled(d2[i], superEvents'[i].key)
               /\ h2[i + 1] = Becomes(h2[i], d2[i], superEvents'[i].key)
    <3>1. /\ superEvents'[i] = superEvents[i + 1] /\ i + 1 \in 1..n
          /\ d2[i] = d[i + 1] /\ h2[i] = h[i + 1]
          /\ d2[i + 1] = d[(i + 1) + 1] /\ h2[i + 1] = h[(i + 1) + 1]
      BY <1>3, <1>5, <2>2
    <3>2. \A j \in 1..n :
            /\ superEvents[j].key \in AllKeys /\ superEvents[j].how = h[j]
            /\ superEvents[j].press <=> superEvents[j].key \notin d[j]
            /\ d[j + 1] = Toggled(d[j], superEvents[j].key)
            /\ h[j + 1] = Becomes(h[j], d[j], superEvents[j].key)
      BY <1>2 DEF Leads, n
    <3> QED
      BY <3>1, <3>2
  <2>5. /\ Len(superEvents') + 1 = n /\ 1..Len(superEvents') = 1..(n - 1)
        /\ down' = down /\ how' = how
    BY <1>1, <1>3
  <2> QED
    BY <1>11, <1>12, <2>4, <2>5 DEF Leads
<1>6. h2[1] = h[2] /\ d2[1] = d[2]
  <2>1. 1 \in 1..n /\ 1 + 1 = 2
    BY <1>3
  <2> QED
    BY <1>5, <2>1
<1>7. Counts(h[2], d[2])' /\ SH!AloneRuns'
  <2> HIDE DEF e
  <2>1. CASE e.press \/ e.key = "button"
    <3>1. /\ key_press_cnt' = IF e.key # "button" \/ pressed THEN key_press_cnt + 1
                              ELSE key_press_cnt
          /\ super_press' = pressed /\ UNCHANGED <<swallowed, last>>
      BY <1>1, <2>1 DEF SH!Pressed, SH!Button
    <3>2. Counts(Becomes(h[1], d[1], key), Toggled(d[1], key))'
      BY <1>2, <1>4, <2>1, <3>1, PressCounts
    <3>3. SH!AloneRuns'
      BY <3>1 DEF SH!AloneRuns, SuperInv
    <3> QED
      BY <1>4, <3>2, <3>3
  <2>2. CASE ~(e.press \/ e.key = "button")
    <3> DEFINE once == key_press_cnt = 1 /\ pressed
               runs == once /\ ~grabbed /\ e.key = "super"
    <3>1. /\ IF once /\ grabbed THEN key_press_cnt' = key_press_cnt /\ super_press' = pressed
             ELSE key_press_cnt' = 0 /\ super_press' = FALSE
          /\ swallowed' = (once /\ grabbed)
          /\ last' = IF e.key = "super"
                     THEN [how |-> e.how, swallowed |-> swallowed, grabbed |-> grabbed,
                           ran |-> runs] ELSE last
      BY <1>1, <2>2 DEF SH!Release
    <3>2. Counts(Becomes(h[1], d[1], key), Toggled(d[1], key))'
      <4>1. \/ ~swallowed' /\ key_press_cnt' = 0 /\ ~super_press'
            \/ swallowed' /\ key_press_cnt' = 1 /\ super_press'
        BY <3>1
      <4> QED
        BY <1>2, <1>4, <2>2, <4>1, ReleaseCounts
    <3>3. SH!AloneRuns'
      <4>1. CASE e.key = "super"
        <5>1. /\ last'.how = h[1] /\ (last'.swallowed <=> swallowed)
              /\ (last'.grabbed <=> grabbed) /\ (last'.ran <=> runs)
          BY <1>4, <3>1, <4>1
        <5>2. "super" \in d[1] /\ h[1] # "up" /\ pressed
          BY <1>2, <1>4, <2>2, <4>1 DEF Counts
        <5>3. runs => /\ ~grabbed
                      /\ \/ h[1] \in {"alone", "held", "rolled"}
                         \/ h[1] = "clean" /\ swallowed
          BY <1>2, <1>4, <5>2 DEF Counts, SH!Hows
        <5>4. h[1] = "alone" /\ ~grabbed /\ ~swallowed => runs
          BY <1>2, <4>1, <5>2 DEF Counts
        <5> HIDE DEF runs, pressed
        <5> QED
          BY <5>1, <5>3, <5>4 DEF SH!AloneRuns
      <4>2. CASE e.key # "super"
        BY <3>1, <4>2 DEF SH!AloneRuns, SuperInv
      <4> QED
        BY <4>1, <4>2
    <3> QED
      BY <1>4, <3>2, <3>3
  <2> QED
    BY <2>1, <2>2
<1>8. Counts(h2[1], d2[1])'
  BY <1>6, <1>7
<1> QED
  BY <1>3, <1>7, <1>8, <1>9 DEF SuperInv

LEMMA SuperNext ==
  ASSUME SuperInv, SH!SuperNext \/ UNCHANGED superVars
  PROVE  SuperInv'
<1>1. ASSUME UNCHANGED <<down, superEvents, how, key_press_cnt, super_press, swallowed,
                         last>>
      PROVE  SuperInv'
  BY <1>1 DEF SuperInv, Leads, Counts, SH!AloneRuns
<1>2. CASE SH!OtherGrabs \/ SH!CommandEnds
  BY <1>1, <1>2 DEF SH!OtherGrabs, SH!CommandEnds
<1>3. CASE UNCHANGED superVars
  BY <1>1, <1>3 DEF superVars
<1> QED
  BY <1>2, <1>3, SuperMoves, SuperTakes DEF SH!SuperNext, SH!Button, AllKeys

(***************************************************************************)
(* The shortcuts of the settings                                           *)
(***************************************************************************)

Places == 1..Slots
Holds(v, k) == v # Unbound /\ v.key = k
Tables == [Places -> SH!Value \cup {Unbound}]
Bound == [key : Bindable, slot : Places, cmd : KeyCommands, live : BOOLEAN]
AllCodes == {Code[l][k] : l \in Keymaps, k \in Bindable}
HeldTypes ==
  [bindings : Seq(Bound), grabs : SUBSET AllCodes, record : KeyCommands \cup {Unbound}]

\* Of the key k: one place has it at most, which has bound it once, with its
\* command, and grabbed its code in layout l, or recorded the command of Super.
GoodKey(h, t, k, l) ==
  /\ \A s1, s2 \in Places : Holds(t[s1], k) /\ Holds(t[s2], k) => s1 = s2
  /\ \A i \in 1..Len(h.bindings) : h.bindings[i].key = k =>
       /\ Holds(t[h.bindings[i].slot], k)
       /\ h.bindings[i].cmd = t[h.bindings[i].slot].cmd /\ h.bindings[i].live
  /\ \A i, j \in 1..Len(h.bindings) :
       h.bindings[i].key = k /\ h.bindings[j].key = k => i = j
  /\ \A s \in Places : Holds(t[s], k) =>
       /\ \E i \in 1..Len(h.bindings) : h.bindings[i].key = k
       /\ k \in Usable \ {Super} => Code[l][k] \in h.grabs
       /\ k = Super => h.record = t[s].cmd
  /\ k = Super /\ h.record # Unbound => \E s \in Places : Holds(t[s], k)

\* All keys but those of X.
Good(h, t, l, X) == \A k \in Bindable \ X : GoodKey(h, t, k, l)

\* What is grabbed is the code of a binding.
Covered(h, l) ==
  \A g \in h.grabs : \E i \in 1..Len(h.bindings) :
    h.bindings[i].key \in Usable \ {Super} /\ g = Code[l][h.bindings[i].key]

HeldGood(h, t, l, X, m) == h \in HeldTypes /\ Good(h, t, l, X) /\ (~m => Covered(h, l))

SlotsInv ==
  /\ table \in Tables /\ keySetting \in Tables
  /\ signals \in Seq(Places) /\ keymap \in Keymaps
  /\ \E h, t, l, X, m : /\ h = SH!Held /\ t = table /\ l = keymap
                        /\ X = shared /\ m = moved /\ HeldGood(h, t, l, X, m)
  /\ ~keysServed => \A s \in Places : table[s] = Unbound \/ table[s].key \in shared
  /\ \A s \in Places : (\A i \in 1..Len(signals) : signals[i] # s) =>
       table[s] = keySetting[s] \/ (~keysServed /\ table[s] = Unbound)

\* A place is given a value of which nothing was bound: other keys are as good.
LEMMA GoodOwners ==
  ASSUME NEW h, NEW t \in Tables, NEW t2 \in Tables, NEW k, NEW l, GoodKey(h, t, k, l),
         \A s \in Places : (Holds(t2[s], k) <=> Holds(t[s], k))
                           /\ (Holds(t[s], k) => t2[s] = t[s]),
         h \in HeldTypes
  PROVE  GoodKey(h, t2, k, l)
<1>1. \A i \in 1..Len(h.bindings) : h.bindings[i].slot \in Places
  <2>1. h.bindings \in Seq(Bound)
    BY DEF HeldTypes
  <2>2. \A i \in 1..Len(h.bindings) : h.bindings[i] \in Bound
    BY <2>1, ElementOfSeq
  <2> QED
    BY <2>2 DEF Bound
<1> QED
  BY <1>1 DEF GoodKey

LEMMA FreedIs ==
  ASSUME NEW h \in HeldTypes, NEW slot \in Places
  PROVE  LET f == SH!Freed(h, slot) IN
         /\ f \in HeldTypes /\ f.grabs = h.grabs /\ f.record = h.record
         /\ Len(f.bindings) = Len(h.bindings)
         /\ \A i \in 1..Len(h.bindings) :
              /\ f.bindings[i].key = h.bindings[i].key
              /\ f.bindings[i].slot = h.bindings[i].slot
              /\ f.bindings[i].cmd = h.bindings[i].cmd
              /\ h.bindings[i].slot # slot => (f.bindings[i].live <=> h.bindings[i].live)
<1> DEFINE q == h.bindings
           n == Len(q)
           b(i) == [q[i] EXCEPT !.live = q[i].live /\ q[i].slot # slot]
           r == [i \in DOMAIN q |-> b(i)]
<1>1. n \in Nat /\ DOMAIN q = 1..n /\ \A i \in 1..n : q[i] \in Bound
  BY LenProperties, ElementOfSeq DEF HeldTypes
<1>2. ASSUME NEW i \in 1..n
      PROVE  /\ b(i) \in Bound /\ b(i).key = q[i].key /\ b(i).slot = q[i].slot
             /\ b(i).cmd = q[i].cmd /\ (b(i).live <=> q[i].live /\ q[i].slot # slot)
  <2>1. (q[i].live /\ q[i].slot # slot) \in BOOLEAN
    BY Zenon
  <2> QED
    BY <1>1, <2>1 DEF Bound
<1>3. SH!Freed(h, slot) = [h EXCEPT !.bindings = r]
  BY DEF SH!Freed
<1> HIDE DEF b
<1>4. r \in Seq(Bound) /\ Len(r) = n /\ \A i \in 1..n : r[i] = b(i)
  <2>1. r = [i \in 1..n |-> b(i)]
    BY <1>1
  <2> QED
    BY <1>1, <1>2, <2>1, IsASeq, LenProperties
<1> HIDE DEF r
<1>5. /\ [h EXCEPT !.bindings = r] \in HeldTypes
      /\ [h EXCEPT !.bindings = r].bindings = r
      /\ [h EXCEPT !.bindings = r].grabs = h.grabs
      /\ [h EXCEPT !.bindings = r].record = h.record
  BY <1>4 DEF HeldTypes
<1> QED
  BY <1>2, <1>3, <1>4, <1>5

LEMMA BindIs ==
  ASSUME NEW h \in HeldTypes, NEW slot \in Places, NEW v \in SH!Value, keymap \in Keymaps
  PROVE  LET f == SH!Bind(h, slot, v) IN
         /\ f \in HeldTypes /\ Len(f.bindings) = Len(h.bindings) + 1
         /\ f.bindings[1] = [key |-> v.key, slot |-> slot, cmd |-> v.cmd, live |-> TRUE]
         /\ \A i \in 1..Len(h.bindings) : f.bindings[i + 1] = h.bindings[i]
         /\ f.record = IF v.key = Super THEN v.cmd ELSE h.record
         /\ f.grabs = IF v.key \in Usable \ {Super}
                      THEN h.grabs \cup {Code[keymap][v.key]} ELSE h.grabs
<1> DEFINE b == [key |-> v.key, slot |-> slot, cmd |-> v.cmd, live |-> TRUE]
           g == SH!Grab(keymap, h, b)
           r == <<b>> \o h.bindings
<1>1. /\ g \in HeldTypes /\ g.bindings = h.bindings
      /\ g.record = IF v.key = Super THEN v.cmd ELSE h.record
      /\ g.grabs = IF v.key \in Usable \ {Super}
                   THEN h.grabs \cup {Code[keymap][v.key]} ELSE h.grabs
  <2>1. v.key \in Bindable /\ v.cmd \in KeyCommands /\ b.key = v.key /\ b.cmd = v.cmd
    BY DEF SH!Value
  <2>2. {Code[keymap][k] : k \in {b.key} \cap Usable} =
          IF v.key \in Usable THEN {Code[keymap][v.key]} ELSE {}
    BY <2>1
  <2>3. v.key \in Usable => Code[keymap][v.key] \in AllCodes
    BY <2>1 DEF AllCodes
  <2> HIDE DEF b
  <2>4. CASE v.key = Super
    <3>1. g = [h EXCEPT !.record = v.cmd]
      BY <2>1, <2>4 DEF SH!Grab
    <3> QED
      BY <2>1, <2>4, <3>1 DEF HeldTypes
  <2>5. CASE v.key # Super
    <3>1. g = [h EXCEPT !.grabs = h.grabs \cup
                 {Code[keymap][k] : k \in {b.key} \cap Usable}]
      BY <2>1, <2>5 DEF SH!Grab
    <3> QED
      BY <2>1, <2>2, <2>3, <2>5, <3>1 DEF HeldTypes
  <2> QED
    BY <2>4, <2>5
<1>2. /\ r \in Seq(Bound) /\ Len(r) = Len(h.bindings) + 1 /\ r[1] = b
      /\ \A i \in 1..Len(h.bindings) : r[i + 1] = h.bindings[i]
  <2>1. b \in Bound
    BY DEF Bound, SH!Value
  <2>2. h.bindings \in Seq(Bound) /\ Len(h.bindings) \in Nat
    BY LenProperties DEF HeldTypes
  <2> HIDE DEF b
  <2>3. <<b>> \in Seq(Bound) /\ Len(<<b>>) = 1 /\ <<b>>[1] = b
    BY <2>1
  <2>4. /\ r \in Seq(Bound) /\ Len(r) = Len(<<b>>) + Len(h.bindings)
        /\ \A i \in 1..(Len(<<b>>) + Len(h.bindings)) :
             r[i] = IF i <= Len(<<b>>) THEN <<b>>[i] ELSE h.bindings[i - Len(<<b>>)]
    BY <2>2, <2>3, ConcatProperties
  <2> HIDE DEF r
  <2>5. 1 \in 1..(1 + Len(h.bindings)) /\ \A i \in 1..Len(h.bindings) :
          i + 1 \in 1..(1 + Len(h.bindings)) /\ ~(i + 1 <= 1) /\ (i + 1) - 1 = i
    BY <2>2
  <2>6. r \in Seq(Bound) /\ Len(r) = Len(h.bindings) + 1
    BY <2>2, <2>3, <2>4
  <2>7. r[1] = b
    BY <2>2, <2>3, <2>4, <2>5
  <2>8. ASSUME NEW i \in 1..Len(h.bindings) PROVE r[i + 1] = h.bindings[i]
    BY <2>2, <2>3, <2>4, <2>5
  <2> QED
    BY <2>6, <2>7, <2>8
<1>3. SH!Bind(h, slot, v) = [g EXCEPT !.bindings = <<b>> \o g.bindings]
  BY DEF SH!Bind
<1> HIDE DEF b, g, r
<1>4. SH!Bind(h, slot, v) = [g EXCEPT !.bindings = r]
  BY <1>1, <1>3 DEF r
<1>5. /\ [g EXCEPT !.bindings = r] \in HeldTypes /\ [g EXCEPT !.bindings = r].bindings = r
      /\ [g EXCEPT !.bindings = r].grabs = g.grabs
      /\ [g EXCEPT !.bindings = r].record = g.record
  BY <1>1, <1>2 DEF HeldTypes
<1> QED
  BY <1>1, <1>2, <1>4, <1>5 DEF b

\* The library's RemoveAt closes the gap.
LEMMA RemoveAtIs ==
  ASSUME NEW S, NEW s \in Seq(S), NEW i \in 1..Len(s)
  PROVE  /\ SH!RemoveAt(s, i) \in Seq(S) /\ Len(SH!RemoveAt(s, i)) = Len(s) - 1
         /\ \A j \in 1..(Len(s) - 1) :
              SH!RemoveAt(s, i)[j] = s[IF j < i THEN j ELSE j + 1]
<1> DEFINE l == Len(s)
           a == SubSeq(s, 1, i - 1)
           b == SubSeq(s, i + 1, l)
<1>1. l \in Nat /\ i \in 1..l /\ \A j \in 1..l : s[j] \in S
  BY LenProperties, ElementOfSeq
<1>2. SH!RemoveAt(s, i) = a \o b
  BY DEF SH!RemoveAt
<1> HIDE DEF l
<1>3. a \in Seq(S) /\ Len(a) = i - 1 /\ \A j \in 1..(i - 1) : a[j] = s[j]
  <2>1. 1 \in Int /\ i - 1 \in Int /\ \A j \in 1..(i - 1) : s[j] \in S
    BY <1>1
  <2>2. /\ a \in Seq(S) /\ Len(a) = IF 1 <= i - 1 THEN (i - 1) - 1 + 1 ELSE 0
        /\ \A j \in 1..((i - 1) - 1 + 1) : a[j] = s[1 + j - 1]
    BY <2>1, SubSeqProperties, SMTT(60)
  <2> HIDE DEF a
  <2>3. Len(a) = IF 1 <= i - 1 THEN (i - 1) - 1 + 1 ELSE 0
    BY <2>2
  <2>4. l \in Nat /\ i \in 1..l
    BY <1>1
  <2>5. Len(a) = i - 1
    BY <2>3, <2>4
  <2>6. \A j \in 1..(i - 1) : j \in 1..((i - 1) - 1 + 1) /\ 1 + j - 1 = j
    BY <2>4
  <2> QED
    BY <2>2, <2>5, <2>6
<1>4. b \in Seq(S) /\ Len(b) = l - i /\ \A j \in 1..(l - i) : b[j] = s[i + j]
  <2>1. i + 1 \in Int /\ l \in Int /\ \A j \in (i + 1)..l : s[j] \in S
    BY <1>1
  <2>2. /\ b \in Seq(S) /\ Len(b) = IF i + 1 <= l THEN l - (i + 1) + 1 ELSE 0
        /\ \A j \in 1..(l - (i + 1) + 1) : b[j] = s[(i + 1) + j - 1]
    BY <2>1, SubSeqProperties, SMTT(60)
  <2> HIDE DEF b
  <2>3. Len(b) = IF i + 1 <= l THEN l - (i + 1) + 1 ELSE 0
    BY <2>2
  <2>4. l \in Nat /\ i \in 1..l
    BY <1>1
  <2>5. Len(b) = l - i
    BY <2>3, <2>4
  <2>6. \A j \in 1..(l - i) : j \in 1..(l - (i + 1) + 1) /\ (i + 1) + j - 1 = i + j
    BY <2>4
  <2> QED
    BY <2>2, <2>5, <2>6
<1> HIDE DEF a, b
<1>5. /\ a \o b \in Seq(S) /\ Len(a \o b) = Len(a) + Len(b)
      /\ \A j \in 1..(Len(a) + Len(b)) :
           (a \o b)[j] = IF j <= Len(a) THEN a[j] ELSE b[j - Len(a)]
  BY <1>3, <1>4, ConcatProperties
<1>6. Len(a \o b) = l - 1 /\ Len(a) + Len(b) = l - 1
  BY <1>1, <1>3, <1>4, <1>5
<1>7. ASSUME NEW j \in 1..(l - 1) PROVE (a \o b)[j] = s[IF j < i THEN j ELSE j + 1]
  <2>1. CASE j < i
    <3>1. j \in 1..(i - 1) /\ j <= Len(a)
      BY <1>1, <1>3, <2>1
    <3> QED
      BY <1>3, <1>5, <1>6, <2>1, <3>1
  <2>2. CASE ~(j < i)
    <3>1. /\ ~(j <= Len(a)) /\ j - Len(a) \in 1..(l - i)
          /\ i + (j - Len(a)) = j + 1
      BY <1>1, <1>3, <2>2
    <3> QED
      BY <1>4, <1>5, <1>6, <2>2, <3>1
  <2> QED
    BY <2>1, <2>2
<1> QED
  BY <1>2, <1>5, <1>6, <1>7 DEF l

\* keybinder_unbind: the first binding of the key goes, if there is one.
UnboundAt(h, u, key, l, r) ==
  /\ r \in 1..Len(h.bindings) /\ h.bindings[r].key = key
  /\ Len(u.bindings) = Len(h.bindings) - 1
  /\ \A j \in 1..(Len(h.bindings) - 1) :
       u.bindings[j] = h.bindings[IF j < r THEN j ELSE j + 1]
  /\ u.record = IF key = Super THEN Unbound ELSE h.record
  /\ u.grabs = IF key \in Usable \ {Super} THEN h.grabs \ {Code[l][key]} ELSE h.grabs

LEMMA UnbindIs ==
  ASSUME NEW h \in HeldTypes, NEW key \in Bindable, keymap \in Keymaps
  PROVE  LET u == SH!Unbind(h, key) IN
         /\ u \in HeldTypes
         /\ \/ u = h /\ \A i \in 1..Len(h.bindings) : h.bindings[i].key # key
            \/ \E r : UnboundAt(h, u, key, keymap, r)
<1> DEFINE n == Len(h.bindings)
           found == {i \in DOMAIN h.bindings : h.bindings[i].key = key}
           r == SH!Min(found)
<1>1. /\ n \in Nat /\ h.bindings \in Seq(Bound) /\ DOMAIN h.bindings = 1..n
      /\ \A i \in 1..n : h.bindings[i] \in Bound
  <2>1. h.bindings \in Seq(Bound)
    BY DEF HeldTypes
  <2> QED
    BY <2>1, LenProperties, ElementOfSeq
<1>2. CASE found = {}
  <2>1. SH!Unbind(h, key) = h
    BY <1>2 DEF SH!Unbind
  <2>2. \A i \in 1..n : h.bindings[i].key # key
    BY <1>1, <1>2
  <2> QED
    BY <2>1, <2>2
<1>3. CASE found # {}
  <2>1. found \in SUBSET Nat /\ \A i \in found : i \in 1..n /\ h.bindings[i].key = key
    BY <1>1
  <2> DEFINE b == h.bindings[r]
             g == SH!Ungrab(keymap, h, b)
             q == SH!RemoveAt(h.bindings, r)
  <2>2. SH!Unbind(h, key) = [g EXCEPT !.bindings = SH!RemoveAt(g.bindings, r)]
    BY <1>3 DEF SH!Unbind
  <2> HIDE DEF found
  <2>3. r \in found
    <3>1. \E i \in found : \A j \in found : i <= j
      BY <1>3, <2>1, LeastNumber
    <3> QED
      BY <3>1 DEF SH!Min
  <2> HIDE DEF r
  <2>4. r \in 1..n /\ b \in Bound /\ b.key = key
    BY <1>1, <2>1, <2>3
  <2> HIDE DEF b
  <2>5. /\ g \in HeldTypes /\ g.bindings = h.bindings
        /\ g.record = IF key = Super THEN Unbound ELSE h.record
        /\ g.grabs = IF key \in Usable \ {Super} THEN h.grabs \ {Code[keymap][key]}
                     ELSE h.grabs
    <3>1. {Code[keymap][k] : k \in {b.key} \cap Usable} =
            IF key \in Usable THEN {Code[keymap][key]} ELSE {}
      BY <2>4
    <3>2. CASE key = Super
      <4>1. g = [h EXCEPT !.record = Unbound]
        BY <2>4, <3>2 DEF SH!Ungrab
      <4> QED
        BY <3>2, <4>1 DEF HeldTypes
    <3>3. CASE key # Super
      <4>1. g = [h EXCEPT !.grabs = h.grabs \
                   {Code[keymap][k] : k \in {b.key} \cap Usable}]
        BY <2>4, <3>3 DEF SH!Ungrab
      <4> QED
        BY <3>1, <3>3, <4>1 DEF HeldTypes
    <3> QED
      BY <3>2, <3>3
  <2>6. /\ q \in Seq(Bound) /\ Len(q) = n - 1
        /\ \A j \in 1..(n - 1) : q[j] = h.bindings[IF j < r THEN j ELSE j + 1]
    BY <1>1, <2>4, RemoveAtIs
  <2> HIDE DEF n, g
  <2>7. SH!Unbind(h, key) = [g EXCEPT !.bindings = q]
    BY <2>2, <2>5
  <2> HIDE DEF q
  <2>8. /\ [g EXCEPT !.bindings = q] \in HeldTypes /\ [g EXCEPT !.bindings = q].bindings = q
        /\ [g EXCEPT !.bindings = q].grabs = g.grabs
        /\ [g EXCEPT !.bindings = q].record = g.record
    BY <2>5, <2>6 DEF HeldTypes
  <2>9. UnboundAt(h, SH!Unbind(h, key), key, keymap, r)
    BY <2>4, <2>5, <2>6, <2>7, <2>8 DEF UnboundAt, n, b
  <2> QED
    BY <2>7, <2>8, <2>9
<1> QED
  BY <1>2, <1>3

\* Where a binding goes to when the r-th is removed, and where it comes from.
Later(r, i) == IF i < r THEN i ELSE i - 1

LEMMA UnboundMoves ==
  ASSUME NEW h \in HeldTypes, NEW u, NEW key, NEW l, NEW r, UnboundAt(h, u, key, l, r)
  PROVE  /\ \A j \in 1..Len(u.bindings) : \E i \in 1..Len(h.bindings) :
              i # r /\ j = Later(r, i) /\ u.bindings[j] = h.bindings[i]
         /\ \A i \in 1..Len(h.bindings) \ {r} :
              /\ Later(r, i) \in 1..Len(u.bindings)
              /\ u.bindings[Later(r, i)] = h.bindings[i]
<1> DEFINE n == Len(h.bindings)
<1>1. n \in Nat /\ r \in 1..n /\ Len(u.bindings) = n - 1
  BY LenProperties DEF UnboundAt, HeldTypes
<1>2. \A j \in 1..(n - 1) : u.bindings[j] = h.bindings[IF j < r THEN j ELSE j + 1]
  BY DEF UnboundAt
<1> HIDE DEF n
<1>3. ASSUME NEW j \in 1..(n - 1)
      PROVE  \E i \in 1..n : i # r /\ j = Later(r, i) /\ u.bindings[j] = h.bindings[i]
  <2> DEFINE i == IF j < r THEN j ELSE j + 1
  <2>1. i \in 1..n /\ i # r /\ j = Later(r, i)
    BY <1>1 DEF Later
  <2> QED
    BY <1>2, <2>1
<1>4. ASSUME NEW i \in 1..n, i # r
      PROVE  Later(r, i) \in 1..(n - 1) /\ u.bindings[Later(r, i)] = h.bindings[i]
  <2> DEFINE j == Later(r, i)
  <2>1. j \in 1..(n - 1) /\ i = IF j < r THEN j ELSE j + 1
    BY <1>1, <1>4 DEF Later
  <2> QED
    BY <1>2, <2>1
<1> QED
  BY <1>1, <1>3, <1>4 DEF n

\* Another key is as good as it was.
LEMMA UnbindKeeps ==
  ASSUME KeyConstants, NEW h \in HeldTypes, NEW u, NEW key \in Bindable, NEW l \in Keymaps,
         NEW r, UnboundAt(h, u, key, l, r),
         NEW t, NEW k \in Bindable, k # key, GoodKey(h, t, k, l)
  PROVE  GoodKey(u, t, k, l)
<1> DEFINE n == Len(h.bindings)
           m == Len(u.bindings)
<1>1. /\ \A j \in 1..m : \E i \in 1..n :
           i # r /\ j = Later(r, i) /\ u.bindings[j] = h.bindings[i]
      /\ \A i \in 1..n : i # r =>
           Later(r, i) \in 1..m /\ u.bindings[Later(r, i)] = h.bindings[i]
  BY UnboundMoves
<1>2. r \in 1..n /\ h.bindings[r].key = key
  BY DEF UnboundAt
<1>3. /\ \A s1, s2 \in Places : Holds(t[s1], k) /\ Holds(t[s2], k) => s1 = s2
      /\ \A i \in 1..n : h.bindings[i].key = k =>
           /\ Holds(t[h.bindings[i].slot], k)
           /\ h.bindings[i].cmd = t[h.bindings[i].slot].cmd /\ h.bindings[i].live
      /\ \A i, j \in 1..n : h.bindings[i].key = k /\ h.bindings[j].key = k => i = j
      /\ \A s \in Places : Holds(t[s], k) =>
           /\ \E i \in 1..n : h.bindings[i].key = k
           /\ k \in Usable \ {Super} => Code[l][k] \in h.grabs
           /\ k = Super => h.record = t[s].cmd
      /\ k = Super /\ h.record # Unbound => \E s \in Places : Holds(t[s], k)
  BY DEF GoodKey
<1>4. k = Super => u.record = h.record
  BY DEF UnboundAt
<1>5. k \in Usable \ {Super} /\ Code[l][k] \in h.grabs => Code[l][k] \in u.grabs
  BY DEF UnboundAt, KeyConstants
<1> HIDE DEF n, m
<1>6. ASSUME NEW j \in 1..m, u.bindings[j].key = k
      PROVE  /\ Holds(t[u.bindings[j].slot], k)
             /\ u.bindings[j].cmd = t[u.bindings[j].slot].cmd /\ u.bindings[j].live
  BY <1>1, <1>3, <1>6
<1>7. ASSUME NEW i \in 1..m, NEW j \in 1..m, u.bindings[i].key = k, u.bindings[j].key = k
      PROVE  i = j
  <2>1. PICK a \in 1..n : a # r /\ i = Later(r, a) /\ u.bindings[i] = h.bindings[a]
    BY <1>1
  <2>2. PICK b \in 1..n : b # r /\ j = Later(r, b) /\ u.bindings[j] = h.bindings[b]
    BY <1>1
  <2>3. a = b
    BY <1>3, <1>7, <2>1, <2>2
  <2> QED
    BY <2>1, <2>2, <2>3
<1>8. ASSUME NEW i \in 1..n, h.bindings[i].key = k
      PROVE  \E j \in 1..m : u.bindings[j].key = k
  BY <1>1, <1>2, <1>8
<1>9. ASSUME NEW s \in Places, Holds(t[s], k)
      PROVE  /\ \E j \in 1..m : u.bindings[j].key = k
             /\ k \in Usable \ {Super} => Code[l][k] \in u.grabs
             /\ k = Super => u.record = t[s].cmd
  BY <1>3, <1>4, <1>5, <1>8, <1>9
<1>10. k = Super /\ u.record # Unbound => \E s \in Places : Holds(t[s], k)
  BY <1>3, <1>4
<1> QED
  BY <1>3, <1>6, <1>7, <1>9, <1>10 DEF GoodKey, m

\* What the removed binding alone had grabbed is grabbed no longer.
LEMMA UnbindCovers ==
  ASSUME NEW h \in HeldTypes, NEW u, NEW key \in Bindable, NEW l \in Keymaps,
         NEW r, UnboundAt(h, u, key, l, r), Covered(h, l)
  PROVE  Covered(u, l)
<1> SUFFICES ASSUME NEW g \in u.grabs
             PROVE  \E j \in 1..Len(u.bindings) :
                      /\ u.bindings[j].key \in Usable \ {Super}
                      /\ g = Code[l][u.bindings[j].key]
  BY DEF Covered
<1>1. g \in h.grabs /\ (key \in Usable \ {Super} => g # Code[l][key])
  BY DEF UnboundAt
<1>2. PICK i \in 1..Len(h.bindings) :
        h.bindings[i].key \in Usable \ {Super} /\ g = Code[l][h.bindings[i].key]
  BY <1>1 DEF Covered
<1>3. i # r
  BY <1>1, <1>2 DEF UnboundAt
<1> QED
  BY <1>2, <1>3, UnboundMoves

\* A key that two settings had may be unbound: the others are good.
LEMMA UnbindShared ==
  ASSUME KeyConstants, keymap \in Keymaps, NEW h \in HeldTypes, NEW key \in Bindable,
         NEW t, NEW X, key \in X, Good(h, t, keymap, X)
  PROVE  Good(SH!Unbind(h, key), t, keymap, X)
<1> DEFINE u == SH!Unbind(h, key)
<1>1. CASE u = h
  BY <1>1
<1>2. ASSUME NEW r, UnboundAt(h, u, key, keymap, r)
      PROVE  Good(u, t, keymap, X)
  <2> HIDE DEF u
  <2> SUFFICES ASSUME NEW k \in Bindable \ X PROVE GoodKey(u, t, k, keymap)
    BY DEF Good
  <2>1. GoodKey(h, t, k, keymap) /\ k # key
    BY DEF Good
  <2> QED
    BY <1>2, <2>1, UnbindKeeps
<1> QED
  BY <1>1, <1>2, UnbindIs

LEMMA UnbindTypes ==
  ASSUME keymap \in Keymaps, NEW h \in HeldTypes, NEW key \in Bindable
  PROVE  /\ SH!Unbind(h, key) \in HeldTypes
         /\ Covered(h, keymap) => Covered(SH!Unbind(h, key), keymap)
<1> DEFINE u == SH!Unbind(h, key)
<1>1. ASSUME NEW r, UnboundAt(h, u, key, keymap, r), Covered(h, keymap)
      PROVE  Covered(u, keymap)
  <2> HIDE DEF u
  <2> QED
    BY <1>1, UnbindCovers
<1> QED
  BY <1>1, UnbindIs

\* What a place had bound is unbound: without it the keys are good.
LEMMA UnbindOwn ==
  ASSUME KeyConstants, keymap \in Keymaps, NEW h \in HeldTypes, NEW t \in Tables,
         NEW slot \in Places, t[slot] # Unbound, NEW X, Good(h, t, keymap, X)
  PROVE  Good(SH!Unbind(h, t[slot].key), [t EXCEPT ![slot] = Unbound], keymap, X)
<1> DEFINE key == t[slot].key
           u == SH!Unbind(h, key)
           t2 == [t EXCEPT ![slot] = Unbound]
<1>1. key \in Bindable /\ t2 \in Tables
  BY DEF Tables, SH!Value
<1>2. \A s \in Places : t2[s] = IF s = slot THEN Unbound ELSE t[s]
  BY DEF Tables
<1>3. /\ u \in HeldTypes
      /\ \/ u = h /\ \A i \in 1..Len(h.bindings) : h.bindings[i].key # key
         \/ \E r : UnboundAt(h, u, key, keymap, r)
  BY <1>1, UnbindIs
<1>4. Holds(t[slot], key)
  BY DEF Holds
<1> HIDE DEF u, t2
<1>5. ASSUME NEW k \in Bindable \ X, k # key
      PROVE  GoodKey(u, t2, k, keymap)
  <2>1. GoodKey(h, t, k, keymap)
    BY DEF Good
  <2>2. GoodKey(u, t, k, keymap)
    BY <1>1, <1>3, <1>5, <2>1, UnbindKeeps
  <2>3. \A s \in Places : /\ Holds(t2[s], k) <=> Holds(t[s], k)
                          /\ Holds(t[s], k) => t2[s] = t[s]
    BY <1>2, <1>5 DEF Holds
  <2> QED
    BY <1>1, <1>3, <2>2, <2>3, GoodOwners
<1>6. ASSUME key \in Bindable \ X
      PROVE  GoodKey(u, t2, key, keymap)
  <2>1. GoodKey(h, t, key, keymap)
    BY <1>6 DEF Good
  <2>2. \A s \in Places : ~Holds(t2[s], key)
    <3>1. \A s \in Places : Holds(t[s], key) => s = slot
      BY <1>4, <2>1 DEF GoodKey
    <3> QED
      BY <1>2, <3>1 DEF Holds
  <2>3. PICK i \in 1..Len(h.bindings) : h.bindings[i].key = key
    BY <1>4, <2>1 DEF GoodKey
  <2>4. PICK r : UnboundAt(h, u, key, keymap, r)
    BY <1>3, <2>3
  <2>5. \A j \in 1..Len(u.bindings) : u.bindings[j].key # key
    <3> SUFFICES ASSUME NEW j \in 1..Len(u.bindings), u.bindings[j].key = key PROVE FALSE
      OBVIOUS
    <3>1. PICK a \in 1..Len(h.bindings) : a # r /\ u.bindings[j] = h.bindings[a]
      BY <2>4, UnboundMoves
    <3>2. r \in 1..Len(h.bindings) /\ h.bindings[r].key = key
      BY <2>4 DEF UnboundAt
    <3> QED
      BY <2>1, <3>1, <3>2 DEF GoodKey
  <2>6. key = Super => u.record = Unbound
    BY <2>4 DEF UnboundAt
  <2> HIDE DEF key
  <2> QED
    BY <2>2, <2>5, <2>6 DEF GoodKey
<1>7. Good(u, t2, keymap, X)
  <2> SUFFICES ASSUME NEW k \in Bindable \ X PROVE GoodKey(u, t2, k, keymap)
    BY DEF Good
  <2> QED
    BY <1>5, <1>6
<1> QED
  BY <1>7 DEF u, t2

\* The strings of a place that has nothing bound of the good keys are freed.
LEMMA FreedKeeps ==
  ASSUME NEW h \in HeldTypes, NEW t \in Tables, NEW slot \in Places, NEW l, NEW X,
         t[slot] = Unbound \/ t[slot].key \in X, Good(h, t, l, X)
  PROVE  Good(SH!Freed(h, slot), t, l, X)
<1> DEFINE f == SH!Freed(h, slot)
           n == Len(h.bindings)
<1>1. /\ f.grabs = h.grabs /\ f.record = h.record /\ Len(f.bindings) = n
      /\ \A i \in 1..n :
           /\ f.bindings[i].key = h.bindings[i].key
           /\ f.bindings[i].slot = h.bindings[i].slot
           /\ f.bindings[i].cmd = h.bindings[i].cmd
           /\ h.bindings[i].slot # slot => (f.bindings[i].live <=> h.bindings[i].live)
  BY FreedIs
<1> HIDE DEF f
<1>2. Good(f, t, l, X)
  <2> SUFFICES ASSUME NEW k \in Bindable \ X PROVE GoodKey(f, t, k, l)
    BY DEF Good
  <2>1. GoodKey(h, t, k, l)
    BY DEF Good
  <2>2. \A i \in 1..n : h.bindings[i].key = k => h.bindings[i].slot # slot
    BY <2>1 DEF GoodKey, Holds
  <2>3. \A i \in 1..n : f.bindings[i].key = k =>
          /\ Holds(t[f.bindings[i].slot], k)
          /\ f.bindings[i].cmd = t[f.bindings[i].slot].cmd /\ f.bindings[i].live
    <3> SUFFICES ASSUME NEW i \in 1..n, h.bindings[i].key = k
                 PROVE  /\ Holds(t[h.bindings[i].slot], k)
                        /\ h.bindings[i].cmd = t[h.bindings[i].slot].cmd /\ h.bindings[i].live
                        /\ h.bindings[i].slot # slot
      BY <1>1
    <3> QED
      BY <2>1, <2>2 DEF GoodKey
  <2>4. \A i, j \in 1..n : f.bindings[i].key = k /\ f.bindings[j].key = k => i = j
    BY <1>1, <2>1 DEF GoodKey
  <2>5. \A s \in Places : Holds(t[s], k) => \E i \in 1..n : f.bindings[i].key = k
    BY <1>1, <2>1 DEF GoodKey
  <2>6. /\ \A s1, s2 \in Places : Holds(t[s1], k) /\ Holds(t[s2], k) => s1 = s2
        /\ \A s \in Places : Holds(t[s], k) =>
             /\ k \in Usable \ {Super} => Code[l][k] \in f.grabs
             /\ k = Super => f.record = t[s].cmd
    BY <1>1, <2>1 DEF GoodKey
  <2>7. k = Super /\ f.record # Unbound => \E s \in Places : Holds(t[s], k)
    BY <1>1, <2>1 DEF GoodKey
  <2>8. \A s \in Places : Holds(t[s], k) =>
          /\ \E i \in 1..n : f.bindings[i].key = k
          /\ k \in Usable \ {Super} => Code[l][k] \in f.grabs
          /\ k = Super => f.record = t[s].cmd
    BY <2>5, <2>6
  <2>9. Len(f.bindings) = n
    BY <1>1
  <2> HIDE DEF n
  <2> QED
    BY <2>3, <2>4, <2>6, <2>7, <2>8, <2>9 DEF GoodKey
<1> QED
  BY <1>2 DEF f

LEMMA FreedCovers ==
  ASSUME NEW h \in HeldTypes, NEW slot \in Places, NEW l, Covered(h, l)
  PROVE  Covered(SH!Freed(h, slot), l)
<1> DEFINE f == SH!Freed(h, slot)
<1>1. /\ f.grabs = h.grabs /\ Len(f.bindings) = Len(h.bindings)
      /\ \A i \in 1..Len(h.bindings) : f.bindings[i].key = h.bindings[i].key
  BY FreedIs
<1> HIDE DEF f
<1>2. Covered(f, l)
  BY <1>1 DEF Covered
<1> QED
  BY <1>2 DEF f

\* A place that had nothing of the good keys is bound to what it is set to.
LEMMA BindKeeps ==
  ASSUME KeyConstants, keymap \in Keymaps, NEW h \in HeldTypes, NEW t \in Tables,
         NEW slot \in Places, NEW v \in SH!Value, NEW X, Good(h, t, keymap, X),
         t[slot] = Unbound \/ t[slot].key \in X,
         \A s \in Places : s # slot /\ Holds(t[s], v.key) => v.key \in X
  PROVE  Good(SH!Bind(h, slot, v), [t EXCEPT ![slot] = v], keymap, X)
<1> DEFINE f == SH!Bind(h, slot, v)
           t2 == [t EXCEPT ![slot] = v]
           n == Len(h.bindings)
<1>1. /\ f \in HeldTypes /\ Len(f.bindings) = n + 1
      /\ f.bindings[1] = [key |-> v.key, slot |-> slot, cmd |-> v.cmd, live |-> TRUE]
      /\ \A i \in 1..n : f.bindings[i + 1] = h.bindings[i]
      /\ f.record = IF v.key = Super THEN v.cmd ELSE h.record
      /\ f.grabs = IF v.key \in Usable \ {Super}
                   THEN h.grabs \cup {Code[keymap][v.key]} ELSE h.grabs
  BY BindIs
<1>2. t2 \in Tables /\ \A s \in Places : t2[s] = IF s = slot THEN v ELSE t[s]
  BY DEF Tables
<1>3. n \in Nat
  BY LenProperties DEF HeldTypes
<1>4. v # Unbound /\ v.key \in Bindable
  BY DEF KeyConstants, SH!Value
<1> HIDE DEF f, t2, n
<1>5. /\ 1 \in 1..(n + 1)
      /\ \A i \in 1..n : i + 1 \in 1..(n + 1)
      /\ \A j \in 1..(n + 1) : j = 1 \/ \E i \in 1..n : j = i + 1
  <2>1. \A j \in 1..(n + 1) : j = 1 \/ (j - 1 \in 1..n /\ j = (j - 1) + 1)
    BY <1>3
  <2> QED
    BY <1>3, <2>1
<1>6. ASSUME NEW k \in Bindable \ X, k # v.key
      PROVE  GoodKey(f, t2, k, keymap)
  <2>1. GoodKey(h, t, k, keymap)
    BY DEF Good
  <2>2. GoodKey(f, t, k, keymap)
    <3>1. f.bindings[1].key # k
      BY <1>1, <1>6
    <3>2. ASSUME NEW j \in 1..(n + 1), f.bindings[j].key = k
          PROVE  \E i \in 1..n : j = i + 1 /\ f.bindings[j] = h.bindings[i]
      BY <1>1, <1>5, <3>1, <3>2
    <3>3. \A i \in 1..n : h.bindings[i].key = k =>
            \E j \in 1..(n + 1) : f.bindings[j].key = k
      BY <1>1, <1>5
    <3>4. (k = Super => f.record = h.record) /\ h.grabs \subseteq f.grabs
      BY <1>1, <1>6
    <3>5. /\ \A s1, s2 \in Places : Holds(t[s1], k) /\ Holds(t[s2], k) => s1 = s2
          /\ \A i \in 1..n : h.bindings[i].key = k =>
               /\ Holds(t[h.bindings[i].slot], k)
               /\ h.bindings[i].cmd = t[h.bindings[i].slot].cmd /\ h.bindings[i].live
          /\ \A i, j \in 1..n : h.bindings[i].key = k /\ h.bindings[j].key = k => i = j
          /\ \A s \in Places : Holds(t[s], k) =>
               /\ \E i \in 1..n : h.bindings[i].key = k
               /\ k \in Usable \ {Super} => Code[keymap][k] \in h.grabs
               /\ k = Super => h.record = t[s].cmd
          /\ k = Super /\ h.record # Unbound => \E s \in Places : Holds(t[s], k)
      BY <2>1 DEF GoodKey, n
    <3>6. ASSUME NEW j \in 1..(n + 1), f.bindings[j].key = k
          PROVE  /\ Holds(t[f.bindings[j].slot], k)
                 /\ f.bindings[j].cmd = t[f.bindings[j].slot].cmd /\ f.bindings[j].live
      BY <3>2, <3>5, <3>6
    <3>7. ASSUME NEW i \in 1..(n + 1), NEW j \in 1..(n + 1),
                 f.bindings[i].key = k, f.bindings[j].key = k
          PROVE  i = j
      <4>1. PICK a \in 1..n : i = a + 1 /\ f.bindings[i] = h.bindings[a]
        BY <3>2, <3>7
      <4>2. PICK b \in 1..n : j = b + 1 /\ f.bindings[j] = h.bindings[b]
        BY <3>2, <3>7
      <4>3. a = b
        BY <3>5, <3>7, <4>1, <4>2
      <4> QED
        BY <4>1, <4>2, <4>3
    <3>8. ASSUME NEW s \in Places, Holds(t[s], k)
          PROVE  /\ \E j \in 1..(n + 1) : f.bindings[j].key = k
                 /\ k \in Usable \ {Super} => Code[keymap][k] \in f.grabs
                 /\ k = Super => f.record = t[s].cmd
      BY <3>3, <3>4, <3>5, <3>8
    <3>9. k = Super /\ f.record # Unbound => \E s \in Places : Holds(t[s], k)
      BY <3>4, <3>5
    <3>10. Len(f.bindings) = n + 1
      BY <1>1
    <3> QED
      BY <3>5, <3>6, <3>7, <3>8, <3>9, <3>10 DEF GoodKey
  <2>3. \A s \in Places : /\ Holds(t2[s], k) <=> Holds(t[s], k)
                          /\ Holds(t[s], k) => t2[s] = t[s]
    BY <1>2, <1>6 DEF Holds
  <2> QED
    BY <1>1, <1>2, <2>2, <2>3, GoodOwners
<1>7. ASSUME v.key \notin X
      PROVE  GoodKey(f, t2, v.key, keymap)
  <2> DEFINE k == v.key
  <2>1. GoodKey(h, t, k, keymap)
    BY <1>4, <1>7 DEF Good
  <2>2. \A s \in Places : ~Holds(t[s], k) /\ (Holds(t2[s], k) <=> s = slot)
    BY <1>2, <1>4, <1>7 DEF Holds
  <2>3. \A i \in 1..n : h.bindings[i].key # k
    <3>1. \A i \in 1..n : h.bindings[i].slot \in Places
      <4>1. h.bindings \in Seq(Bound)
        BY DEF HeldTypes
      <4>2. \A i \in 1..n : h.bindings[i] \in Bound
        BY <4>1, ElementOfSeq DEF n
      <4> QED
        BY <4>2 DEF Bound
    <3> QED
      BY <2>1, <2>2, <3>1 DEF GoodKey, n
  <2>4. \A j \in 1..(n + 1) : f.bindings[j].key = k => j = 1
    BY <1>1, <1>5, <2>3
  <2>5. /\ f.bindings[1].key = k /\ f.bindings[1].slot = slot /\ f.bindings[1].cmd = v.cmd
        /\ f.bindings[1].live /\ t2[slot] = v
    BY <1>1, <1>2
  <2>6. /\ k \in Usable \ {Super} => Code[keymap][k] \in f.grabs
        /\ k = Super => f.record = v.cmd
        /\ Len(f.bindings) = n + 1
    BY <1>1
  <2> HIDE DEF k
  <2>7. GoodKey(f, t2, k, keymap)
    BY <1>5, <2>2, <2>4, <2>5, <2>6 DEF GoodKey
  <2> QED
    BY <2>7 DEF k
<1>8. Good(f, t2, keymap, X)
  BY <1>6, <1>7 DEF Good
<1> QED
  BY <1>8 DEF f, t2

LEMMA BindCovers ==
  ASSUME keymap \in Keymaps, NEW h \in HeldTypes, NEW slot \in Places, NEW v \in SH!Value,
         Covered(h, keymap)
  PROVE  Covered(SH!Bind(h, slot, v), keymap)
<1> DEFINE f == SH!Bind(h, slot, v)
           n == Len(h.bindings)
<1>0. f.bindings[1] = [key |-> v.key, slot |-> slot, cmd |-> v.cmd, live |-> TRUE]
  BY BindIs
<1>1. /\ Len(f.bindings) = n + 1 /\ f.bindings[1].key = v.key
      /\ \A i \in 1..n : f.bindings[i + 1] = h.bindings[i]
      /\ f.grabs = IF v.key \in Usable \ {Super}
                   THEN h.grabs \cup {Code[keymap][v.key]} ELSE h.grabs
  <2>1. f.bindings[1].key = v.key
    BY <1>0
  <2> QED
    BY <2>1, BindIs
<1>2. n \in Nat
  BY LenProperties DEF HeldTypes
<1> HIDE DEF f
<1>3. 1 \in 1..(n + 1) /\ \A i \in 1..n : i + 1 \in 1..(n + 1)
  BY <1>2
<1>4. ASSUME NEW g \in h.grabs
      PROVE  \E j \in 1..(n + 1) :
               f.bindings[j].key \in Usable \ {Super} /\ g = Code[keymap][f.bindings[j].key]
  <2>1. PICK i \in 1..n :
          h.bindings[i].key \in Usable \ {Super} /\ g = Code[keymap][h.bindings[i].key]
    BY DEF Covered
  <2> HIDE DEF n
  <2> QED
    BY <1>1, <1>3, <2>1
<1>5. Covered(f, keymap)
  BY <1>1, <1>3, <1>4 DEF Covered
<1> QED
  BY <1>5 DEF f

\* What was bound for a place is given up.
LEMMA PlaceFreed ==
  ASSUME KeyConstants, keymap \in Keymaps, NEW h, NEW t \in Tables, NEW slot \in Places,
         NEW v, v = t[slot], NEW X, NEW m, HeldGood(h, t, keymap, X, m)
  PROVE  HeldGood(SH!Freed(SH!Free(h, v), slot), [t EXCEPT ![slot] = Unbound],
                  keymap, X, m)
<1> DEFINE u == SH!Free(h, v)
           f == SH!Freed(u, slot)
           t2 == [t EXCEPT ![slot] = Unbound]
<1>1. t2 \in Tables /\ t2[slot] = Unbound
  BY DEF Tables
<1>2. HeldGood(u, t2, keymap, X, m)
  <2>1. CASE v = Unbound
    <3>1. t2 = t
      BY <2>1 DEF Tables
    <3>2. u = h
      BY <2>1 DEF SH!Free
    <3> QED
      BY <3>1, <3>2
  <2>2. CASE v # Unbound
    <3>1. u = SH!Unbind(h, v.key) /\ v.key \in Bindable
      BY <2>2 DEF SH!Free, Tables, SH!Value
    <3>2. h \in HeldTypes /\ Good(h, t, keymap, X) /\ (~m => Covered(h, keymap))
      BY DEF HeldGood
    <3>3. u \in HeldTypes /\ (~m => Covered(u, keymap))
      BY <3>1, <3>2, UnbindTypes
    <3>4. Good(u, t2, keymap, X)
      BY <2>2, <3>1, <3>2, UnbindOwn
    <3> HIDE DEF u, t2
    <3> QED
      BY <3>3, <3>4 DEF HeldGood
  <2> QED
    BY <2>1, <2>2
<1> HIDE DEF u, t2
<1>3. u \in HeldTypes /\ Good(u, t2, keymap, X) /\ (~m => Covered(u, keymap))
  BY <1>2 DEF HeldGood
<1>4. f \in HeldTypes
  BY <1>3, FreedIs
<1>5. Good(f, t2, keymap, X) /\ (~m => Covered(f, keymap))
  BY <1>1, <1>3, FreedKeeps, FreedCovers
<1>6. HeldGood(f, t2, keymap, X, m)
  BY <1>4, <1>5 DEF HeldGood
<1> QED
  BY <1>6 DEF u, t2

\* A place that had nothing of the good keys is bound to its setting.
LEMMA PlaceBound ==
  ASSUME KeyConstants, keymap \in Keymaps, NEW h, NEW t \in Tables, NEW slot \in Places,
         NEW v \in SH!Value, NEW X, NEW m, HeldGood(h, t, keymap, X, m),
         t[slot] = Unbound \/ t[slot].key \in X,
         \A s \in Places : s # slot /\ Holds(t[s], v.key) => v.key \in X
  PROVE  HeldGood(SH!Bind(h, slot, v), [t EXCEPT ![slot] = v], keymap, X, m)
<1>1. h \in HeldTypes /\ Good(h, t, keymap, X) /\ (~m => Covered(h, keymap))
  BY DEF HeldGood
<1>2. SH!Bind(h, slot, v) \in HeldTypes
  BY <1>1, BindIs
<1>3. Good(SH!Bind(h, slot, v), [t EXCEPT ![slot] = v], keymap, X)
  BY <1>1, BindKeeps
<1>4. ~m => Covered(SH!Bind(h, slot, v), keymap)
  BY <1>1, BindCovers
<1> QED
  BY <1>2, <1>3, <1>4 DEF HeldGood

\* gsd_kb_util_read_gsettings, of a place.
LEMMA PlaceRead ==
  ASSUME KeyConstants, keymap \in Keymaps, NEW h, NEW t \in Tables, NEW slot \in Places,
         NEW v \in SH!Value, NEW X, NEW m, HeldGood(h, t, keymap, X, m),
         NEW old, old = t[slot], old = Unbound \/ old.key \in X,
         \A s \in Places : s # slot /\ Holds(t[s], v.key) => v.key \in X
  PROVE  HeldGood(SH!Free(SH!Bind(SH!Freed(h, slot), slot, v), old),
                  [t EXCEPT ![slot] = v], keymap, X, m)
<1> DEFINE f == SH!Freed(h, slot)
           b == SH!Bind(f, slot, v)
           t2 == [t EXCEPT ![slot] = v]
           u == SH!Free(b, old)
<1>1. h \in HeldTypes /\ Good(h, t, keymap, X) /\ (~m => Covered(h, keymap))
  BY DEF HeldGood
<1>2. HeldGood(f, t, keymap, X, m)
  <2>1. f \in HeldTypes
    BY <1>1, FreedIs
  <2>2. Good(f, t, keymap, X) /\ (~m => Covered(f, keymap))
    BY <1>1, FreedKeeps, FreedCovers
  <2> QED
    BY <2>1, <2>2 DEF HeldGood
<1> HIDE DEF f
<1>3. HeldGood(b, t2, keymap, X, m)
  BY <1>2, PlaceBound
<1> HIDE DEF b, t2
<1>4. HeldGood(u, t2, keymap, X, m)
  <2>1. CASE old = Unbound
    <3>1. u = b
      BY <2>1 DEF SH!Free
    <3> QED
      BY <1>3, <3>1
  <2>2. CASE old # Unbound
    <3>1. u = SH!Unbind(b, old.key) /\ old.key \in Bindable /\ old.key \in X
      BY <2>2 DEF SH!Free, Tables, SH!Value
    <3>2. b \in HeldTypes /\ Good(b, t2, keymap, X) /\ (~m => Covered(b, keymap))
      BY <1>3 DEF HeldGood
    <3>3. u \in HeldTypes /\ (~m => Covered(u, keymap))
      BY <3>1, <3>2, UnbindTypes
    <3>4. Good(u, t2, keymap, X)
      BY <3>1, <3>2, UnbindShared
    <3> HIDE DEF u
    <3> QED
      BY <3>3, <3>4 DEF HeldGood
  <2> QED
    BY <2>1, <2>2
<1> QED
  BY <1>4 DEF f, b, t2

\* One place after the other: those up to s have what t2 says.
Upto(t, t2, s) == [p \in Places |-> IF p <= s THEN t2[p] ELSE t[p]]

\* The recursive function of All is defined.
LEMMA AllIs ==
  ASSUME Slots \in Nat, NEW starts
  PROVE  \E f : /\ SH!All(starts) = f[Slots] /\ f[0] = SH!Held
                /\ \A s \in Places : f[s] = SH!Handled(f[s - 1], s, starts)
<1> DEFINE Eq(f, n) ==
             f = [s \in 0..n |-> IF s = 0 THEN SH!Held
                                 ELSE SH!Handled(f[s - 1], s, starts)]
           T == {n \in 0..Slots : ~\E f : Eq(f, n)}
<1>1. \E f : Eq(f, 0)
  <2>1. Eq([s \in 0..0 |-> SH!Held], 0)
    OBVIOUS
  <2> QED
    BY <2>1
<1>2. ASSUME NEW n \in 1..Slots, NEW f, Eq(f, n - 1)
      PROVE  \E g : Eq(g, n)
  <2> DEFINE g == [s \in 0..n |-> IF s = n THEN SH!Handled(f[n - 1], n, starts) ELSE f[s]]
  <2>1. \A s \in 0..n : s # n => s \in 0..(n - 1)
    OBVIOUS
  <2>2. \A s \in 0..n : s # 0 => s - 1 \in 0..n /\ s - 1 # n /\ g[s - 1] = f[s - 1]
    OBVIOUS
  <2>3. ASSUME NEW s \in 0..n
        PROVE  g[s] = IF s = 0 THEN SH!Held ELSE SH!Handled(g[s - 1], s, starts)
    <3>1. CASE s = n
      BY <2>2, <3>1
    <3>2. CASE s # n
      <4>1. s \in 0..(n - 1) /\ g[s] = f[s]
        BY <2>1, <3>2
      <4>2. f[s] = IF s = 0 THEN SH!Held ELSE SH!Handled(f[s - 1], s, starts)
        BY <1>2, <4>1
      <4> QED
        BY <2>2, <4>1, <4>2
    <3> QED
      BY <3>1, <3>2
  <2>4. g = [s \in 0..n |-> g[s]]
    OBVIOUS
  <2> HIDE DEF g
  <2>5. Eq(g, n)
    BY <2>3, <2>4
  <2> QED
    BY <2>5
<1>3. T = {}
  <2> SUFFICES ASSUME T # {} PROVE FALSE
    OBVIOUS
  <2>1. PICK n \in T : \A m \in T : n <= m
    <3>1. T \subseteq Nat
      OBVIOUS
    <3> HIDE DEF T
    <3> QED
      BY <3>1, LeastNumber
  <2>2. n \in 0..Slots /\ ~\E f : Eq(f, n)
    OBVIOUS
  <2> HIDE DEF Eq
  <2>3. n # 0
    BY <1>1, <2>2
  <2>4. n \in 1..Slots /\ n - 1 \in 0..Slots /\ ~(n <= n - 1)
    BY <2>2, <2>3
  <2>5. \E f : Eq(f, n - 1)
    BY <2>1, <2>4
  <2> QED
    BY <1>2, <2>2, <2>4, <2>5
<1> DEFINE F == CHOOSE f : Eq(f, Slots)
<1>4. Eq(F, Slots)
  <2>1. \E f : Eq(f, Slots)
    <3> HIDE DEF Eq
    <3> QED
      BY <1>3
  <2> HIDE DEF Eq
  <2> QED
    BY <2>1
<1>5. SH!All(starts) = F[Slots]
  BY DEF SH!All
<1> HIDE DEF F
<1>6. F[0] = SH!Held /\ \A s \in Places : F[s] = SH!Handled(F[s - 1], s, starts)
  <2>1. 0 \in 0..Slots /\ \A s \in Places : s \in 0..Slots /\ s # 0
    BY DEF Places
  <2> QED
    BY <1>4, <2>1
<1> QED
  BY <1>5, <1>6

LEMMA AllGood ==
  ASSUME Slots \in Nat, NEW starts, NEW t, NEW t2 \in Tables, NEW l, NEW X, NEW m,
         HeldGood(SH!Held, Upto(t, t2, 0), l, X, m),
         \A s \in Places : \A h : HeldGood(h, Upto(t, t2, s - 1), l, X, m) =>
           HeldGood(SH!Handled(h, s, starts), Upto(t, t2, s), l, X, m)
  PROVE  HeldGood(SH!All(starts), t2, l, X, m)
<1>1. PICK f : /\ SH!All(starts) = f[Slots] /\ f[0] = SH!Held
               /\ \A s \in Places : f[s] = SH!Handled(f[s - 1], s, starts)
  BY AllIs
<1> DEFINE P(s) == HeldGood(f[s], Upto(t, t2, s), l, X, m)
           T == {s \in 0..Slots : ~P(s)}
<1>2. P(0)
  BY <1>1
<1>3. \A s \in Places : P(s - 1) => P(s)
  BY <1>1
<1> HIDE DEF P
<1>4. T = {}
  <2> SUFFICES ASSUME T # {} PROVE FALSE
    OBVIOUS
  <2>1. PICK n \in T : \A k \in T : n <= k
    <3>1. T \subseteq Nat
      OBVIOUS
    <3> HIDE DEF T
    <3> QED
      BY <3>1, LeastNumber
  <2>2. n \in 1..Slots /\ n - 1 \in 0..Slots /\ ~(n <= n - 1) /\ ~P(n)
    BY <1>2
  <2>3. P(n - 1)
    BY <2>1, <2>2
  <2> QED
    BY <1>3, <2>2, <2>3 DEF Places
<1>5. P(Slots)
  BY <1>4
<1>6. Upto(t, t2, Slots) = t2
  BY DEF Upto, Tables, Places
<1> QED
  BY <1>1, <1>5, <1>6 DEF P

LEMMA HeldNext == ASSUME NEW h \in HeldTypes, SH!HeldIs(h) PROVE SH!Held' = h
BY DEF SH!HeldIs, SH!Held, HeldTypes

\* More keys are left out.
LEMMA GoodFewer ==
  ASSUME NEW h, NEW t, NEW l, NEW X, NEW Y, X \subseteq Y, NEW m, HeldGood(h, t, l, X, m)
  PROVE  HeldGood(h, t, l, Y, m)
BY DEF HeldGood, Good

LEMMA SlotsInit == ASSUME KeyConstants, SH!SlotsInit PROVE SlotsInv
<1>1. /\ ~keysServed /\ keySetting \in Tables /\ signals = <<>>
      /\ table = [s \in Places |-> Unbound] /\ bindings = <<>> /\ grabs = {}
      /\ record = Unbound /\ keymap \in Keymaps
  BY DEF SH!SlotsInit, SH!Slot, Places, Tables
<1>2. table \in Tables /\ \A s \in Places : table[s] = Unbound
  BY <1>1 DEF Tables
<1>3. PICK h, t, l, X, m : h = SH!Held /\ t = table /\ l = keymap /\ X = shared /\ m = moved
  OBVIOUS
<1>4. /\ h \in HeldTypes /\ Len(h.bindings) = 0 /\ h.grabs = {} /\ h.record = Unbound
  BY <1>1, <1>3 DEF HeldTypes, SH!Held
<1>5. HeldGood(h, t, l, X, m)
  BY <1>2, <1>3, <1>4 DEF HeldGood, Good, GoodKey, Covered, Holds
<1>6. signals \in Seq(Places)
  BY <1>1
<1> QED
  BY <1>1, <1>2, <1>3, <1>5, <1>6 DEF SlotsInv

LEMMA SlotsStart ==
  ASSUME KeyConstants, SlotsInv, SH!Start
  PROVE  SlotsInv'
<1> DEFINE t2 == [s \in Places |-> IF keySetting[s] = Unbound THEN table[s] ELSE keySetting[s]]
<1>1. /\ ~keysServed /\ keysServed' /\ SH!HeldIs(SH!All(TRUE)) /\ table' = t2
      /\ shared' = shared \cup
           {k \in Bindable : \E s, p \in Places : s # p /\ SH!HasKey(t2[s], k)
               /\ SH!HasKey(t2[p], k)}
      /\ UNCHANGED <<keySetting, signals, keymap, moved>>
  BY DEF SH!Start, SH!Slot, Places
<1>2. /\ table \in Tables /\ keySetting \in Tables /\ t2 \in Tables
      /\ \A s \in Places : t2[s] = IF keySetting[s] = Unbound THEN table[s] ELSE keySetting[s]
      /\ \A s \in Places : table[s] = Unbound \/ table[s].key \in shared
      /\ keymap \in Keymaps
  BY <1>1 DEF SlotsInv, Tables
<1> HIDE DEF t2
<1>3. PICK h, l, X, m : /\ h = SH!Held /\ l = keymap /\ X = shared' /\ m = moved
                        /\ HeldGood(h, table, l, X, m)
  <2>1. PICK X : X = shared'
    OBVIOUS
  <2>2. shared \subseteq X
    BY <1>1, <2>1
  <2> QED
    BY <2>1, <2>2, GoodFewer DEF SlotsInv
<1>4. ASSUME NEW s \in Places, NEW p \in Places, s # p, NEW k \in Bindable,
             Holds(t2[s], k), Holds(t2[p], k)
      PROVE  k \in X
  BY <1>1, <1>3, <1>4 DEF Holds, SH!HasKey
<1>5. ASSUME NEW s \in Places, NEW g, HeldGood(g, Upto(table, t2, s - 1), l, X, m)
      PROVE  HeldGood(SH!Handled(g, s, TRUE), Upto(table, t2, s), l, X, m)
  <2> DEFINE a == Upto(table, t2, s - 1)
             b == Upto(table, t2, s)
  <2>1. /\ a \in Tables /\ a[s] = table[s]
        /\ \A p \in Places : a[p] = t2[p] \/ a[p] = table[p]
        /\ b = [a EXCEPT ![s] = t2[s]]
    <3>1. /\ a \in Tables /\ a[s] = table[s]
          /\ \A p \in Places : a[p] = t2[p] \/ a[p] = table[p]
      BY <1>2 DEF Upto, Tables, Places
    <3>2. \A p \in Places : p <= s <=> p <= s - 1 \/ p = s
      BY DEF Places
    <3>3. b = [a EXCEPT ![s] = t2[s]]
      BY <3>2 DEF Upto
    <3> QED
      BY <3>1, <3>3
  <2> HIDE DEF a, b
  <2>2. CASE keySetting[s] = Unbound
    <3>1. t2[s] = a[s]
      BY <1>2, <2>1, <2>2
    <3>2. b = a
      BY <2>1, <3>1 DEF Tables
    <3>3. SH!Handled(g, s, TRUE) = g
      BY <2>2 DEF SH!Handled, SH!Read
    <3> QED
      BY <1>5, <3>2, <3>3 DEF a, b
  <2>3. CASE keySetting[s] # Unbound
    <3>1. PICK v \in SH!Value : v = keySetting[s] /\ v = t2[s]
      BY <1>2, <2>3 DEF Tables
    <3>2. v # Unbound /\ v.key \in Bindable
      BY DEF KeyConstants, SH!Value
    <3>3. PICK old : old = table[s] /\ old = a[s] /\ (old = Unbound \/ old.key \in X)
      BY <1>1, <1>2, <1>3, <2>1
    <3>4. ASSUME NEW p \in Places, p # s, Holds(a[p], v.key)
          PROVE  v.key \in X
      <4>1. CASE a[p] = t2[p]
        BY <1>4, <3>1, <3>2, <3>4, <4>1 DEF Holds
      <4>2. CASE a[p] = table[p]
        <5>1. table[p] = Unbound \/ table[p].key \in X
          BY <1>1, <1>2, <1>3
        <5> QED
          BY <3>4, <4>2, <5>1 DEF Holds
      <4> QED
        BY <2>1, <4>1, <4>2
    <3>5. SH!Handled(g, s, TRUE) = SH!Free(SH!Bind(SH!Freed(g, s), s, v), old)
      BY <2>3, <3>1, <3>3 DEF SH!Handled, SH!Read
    <3>6. HeldGood(g, a, keymap, X, m)
      BY <1>3, <1>5 DEF a
    <3>7. HeldGood(SH!Free(SH!Bind(SH!Freed(g, s), s, v), old), [a EXCEPT ![s] = v],
                   keymap, X, m)
      BY <1>2, <2>1, <3>3, <3>4, <3>6, PlaceRead
    <3> QED
      BY <1>3, <2>1, <3>1, <3>5, <3>7 DEF b
  <2> QED
    BY <2>2, <2>3
<1>6. HeldGood(SH!All(TRUE), t2, l, X, m)
  <2>1. Upto(table, t2, 0) = table
    BY <1>2 DEF Upto, Tables, Places
  <2>2. HeldGood(SH!Held, Upto(table, t2, 0), l, X, m)
    BY <1>3, <2>1
  <2> QED
    BY <1>2, <1>5, <2>2, AllGood DEF KeyConstants
<1>7. PICK f : f = SH!All(TRUE) /\ f \in HeldTypes /\ f = SH!Held'
  <2>1. SH!All(TRUE) \in HeldTypes
    BY <1>6 DEF HeldGood
  <2> QED
    BY <1>1, <2>1, HeldNext
<1>8. \E g, t, k, Y, n : /\ g = SH!Held' /\ t = table' /\ k = keymap' /\ Y = shared'
                         /\ n = moved' /\ HeldGood(g, t, k, Y, n)
  BY <1>1, <1>3, <1>6, <1>7
<1>9. \A s \in Places : (\A i \in 1..Len(signals) : signals[i] # s) =>
         t2[s] = keySetting[s]
  BY <1>1, <1>2 DEF SlotsInv
<1> QED
  BY <1>1, <1>2, <1>8, <1>9 DEF SlotsInv

LEMMA SlotsStop ==
  ASSUME KeyConstants, SlotsInv, SH!Stop
  PROVE  SlotsInv'
<1> DEFINE t2 == [s \in Places |-> Unbound]
<1>1. /\ ~keysServed' /\ SH!HeldIs([SH!All(FALSE) EXCEPT !.record = Unbound])
      /\ table' = t2 /\ UNCHANGED <<keySetting, signals, keymap, shared, moved>>
  BY DEF SH!Stop, SH!Slot, Places
<1>2. /\ table \in Tables /\ t2 \in Tables /\ keymap \in Keymaps
      /\ \A s \in Places : t2[s] = Unbound
  BY DEF SlotsInv, Tables
<1> HIDE DEF t2
<1>3. PICK h, l, X, m : /\ h = SH!Held /\ l = keymap /\ X = shared /\ m = moved
                        /\ HeldGood(h, table, l, X, m)
  BY DEF SlotsInv
<1>4. ASSUME NEW s \in Places, NEW g, HeldGood(g, Upto(table, t2, s - 1), l, X, m)
      PROVE  HeldGood(SH!Handled(g, s, FALSE), Upto(table, t2, s), l, X, m)
  <2> DEFINE a == Upto(table, t2, s - 1)
             b == Upto(table, t2, s)
  <2>1. a \in Tables /\ a[s] = table[s] /\ b = [a EXCEPT ![s] = Unbound]
    <3>1. a \in Tables /\ a[s] = table[s]
      BY <1>2 DEF Upto, Tables, Places
    <3>2. \A p \in Places : p <= s <=> p <= s - 1 \/ p = s
      BY DEF Places
    <3>3. b = [a EXCEPT ![s] = Unbound]
      BY <1>2, <3>2 DEF Upto
    <3> QED
      BY <3>1, <3>3
  <2> HIDE DEF a, b
  <2>2. PICK v : v = table[s] /\ v = a[s]
    BY <2>1
  <2>3. SH!Handled(g, s, FALSE) = SH!Freed(SH!Free(g, v), s)
    BY <2>2 DEF SH!Handled
  <2>4. HeldGood(g, a, keymap, X, m)
    BY <1>3, <1>4 DEF a
  <2>5. HeldGood(SH!Freed(SH!Free(g, v), s), [a EXCEPT ![s] = Unbound], keymap, X, m)
    BY <1>2, <2>1, <2>2, <2>4, PlaceFreed
  <2> QED
    BY <1>3, <2>1, <2>3, <2>5 DEF b
<1>5. PICK f : f = SH!All(FALSE) /\ HeldGood(f, t2, l, X, m)
  <2>1. Upto(table, t2, 0) = table
    BY <1>2 DEF Upto, Tables, Places
  <2>2. HeldGood(SH!Held, Upto(table, t2, 0), l, X, m)
    BY <1>3, <2>1
  <2> QED
    BY <1>2, <1>4, <2>2, AllGood DEF KeyConstants
<1>6. PICK g : /\ g = [f EXCEPT !.record = Unbound] /\ g \in HeldTypes
               /\ g.bindings = f.bindings /\ g.grabs = f.grabs /\ g.record = Unbound
  <2> DEFINE e == [f EXCEPT !.record = Unbound]
  <2>1. /\ e \in HeldTypes /\ e.bindings = f.bindings /\ e.grabs = f.grabs
        /\ e.record = Unbound
    BY <1>5 DEF HeldGood, HeldTypes
  <2> HIDE DEF e
  <2>2. e = [f EXCEPT !.record = Unbound]
    BY DEF e
  <2> QED
    BY <2>1, <2>2
<1>7. HeldGood(g, t2, l, X, m)
  <2>1. Good(f, t2, l, X) /\ (~m => Covered(f, l))
    BY <1>5 DEF HeldGood
  <2>2. \A s \in Places, k \in Bindable : ~Holds(t2[s], k)
    BY <1>2 DEF Holds
  <2>3. ASSUME NEW k \in Bindable \ X PROVE GoodKey(g, t2, k, l)
    <3>1. GoodKey(f, t2, k, l)
      BY <2>1 DEF Good
    <3> QED
      BY <1>6, <2>2, <3>1 DEF GoodKey
  <2>4. ~m => Covered(g, l)
    BY <1>6, <2>1 DEF Covered
  <2> QED
    BY <1>6, <2>3, <2>4 DEF HeldGood, Good
<1>8. g = SH!Held'
  BY <1>1, <1>5, <1>6, HeldNext
<1>9. \E h2, t, k, Y, n : /\ h2 = SH!Held' /\ t = table' /\ k = keymap' /\ Y = shared'
                          /\ n = moved' /\ HeldGood(h2, t, k, Y, n)
  BY <1>1, <1>3, <1>7, <1>8
<1> QED
  BY <1>1, <1>2, <1>9 DEF SlotsInv

LEMMA SlotsChanged ==
  ASSUME KeyConstants, SlotsInv, SH!SettingsChanged
  PROVE  SlotsInv'
<1>1. /\ signals # <<>> /\ signals' = Tail(signals)
      /\ UNCHANGED <<keysServed, keySetting, keymap, moved>>
  BY DEF SH!SettingsChanged
<1>2. PICK slot, v, w : slot = Head(signals) /\ v = keySetting[slot] /\ w = table[slot]
  OBVIOUS
<1>3. /\ SH!HeldIs(SH!Replaced(SH!Held, slot, v)) /\ table' = [table EXCEPT ![slot] = v]
      /\ shared' = shared \cup {k \in Bindable : SH!HasKey(v, k) /\
           (~keysServed \/ \E s \in Places \ {slot} : SH!HasKey(table[s], k))}
  BY <1>2 DEF SH!SettingsChanged, SH!Slot, Places
<1>4. /\ slot \in Places /\ Tail(signals) \in Seq(Places)
      /\ Len(Tail(signals)) = Len(signals) - 1 /\ slot = signals[1] /\ Len(signals) \in Nat
      /\ \A i \in 1..(Len(signals) - 1) : Tail(signals)[i] = signals[i + 1]
  BY <1>1, <1>2, HeadTailProperties, LenProperties, EmptySeq DEF SlotsInv
<1>5. /\ table \in Tables /\ keySetting \in Tables /\ keymap \in Keymaps
      /\ v \in SH!Value \cup {Unbound}
  BY <1>2, <1>4 DEF SlotsInv, Tables
<1>6. PICK h, l, X, m : /\ h = SH!Held /\ l = keymap /\ X = shared' /\ m = moved
                        /\ HeldGood(h, table, l, X, m)
  <2>1. PICK X : X = shared'
    OBVIOUS
  <2>2. shared \subseteq X
    BY <1>3, <2>1
  <2> QED
    BY <2>1, <2>2, GoodFewer DEF SlotsInv
<1> DEFINE gone == SH!Freed(SH!Free(h, w), slot)
           t1 == [table EXCEPT ![slot] = Unbound]
           t2 == [table EXCEPT ![slot] = v]
<1>7. HeldGood(gone, t1, keymap, X, m)
  BY <1>2, <1>4, <1>5, <1>6, PlaceFreed
<1>8. /\ t1 \in Tables /\ t1[slot] = Unbound /\ t2 = [t1 EXCEPT ![slot] = v]
      /\ \A s \in Places : s # slot => t1[s] = table[s]
      /\ t2 \in Tables /\ \A s \in Places : t2[s] = IF s = slot THEN v ELSE table[s]
  BY <1>4, <1>5 DEF Tables
<1>9. PICK f : f = SH!Replaced(h, slot, v) /\ HeldGood(f, t2, keymap, X, m)
  <2>1. CASE v = Unbound
    <3>1. SH!Replaced(h, slot, v) = gone
      BY <1>2, <2>1 DEF SH!Replaced
    <3> HIDE DEF gone, t1, t2
    <3>2. t2 = t1
      BY <1>8, <2>1 DEF Tables
    <3> QED
      BY <1>7, <3>1, <3>2
  <2>2. CASE v # Unbound
    <3>1. SH!Replaced(h, slot, v) = SH!Bind(gone, slot, v)
      BY <1>2, <2>2 DEF SH!Replaced
    <3> HIDE DEF gone, t1, t2
    <3>2. v \in SH!Value /\ v.key \in Bindable
      BY <1>5, <2>2 DEF SH!Value
    <3>3. ASSUME NEW s \in Places, s # slot, Holds(t1[s], v.key)
          PROVE  v.key \in X
      <4>1. SH!HasKey(v, v.key) /\ SH!HasKey(table[s], v.key)
        BY <1>8, <2>2, <3>3 DEF Holds, SH!HasKey
      <4> QED
        BY <1>3, <1>6, <3>2, <3>3, <4>1
    <3>4. HeldGood(SH!Bind(gone, slot, v), [t1 EXCEPT ![slot] = v], keymap, X, m)
      BY <1>4, <1>5, <1>7, <1>8, <3>2, <3>3, PlaceBound
    <3>5. HeldGood(SH!Replaced(h, slot, v), t2, keymap, X, m)
      BY <1>8, <3>1, <3>4
    <3> QED
      BY <3>5
  <2> QED
    BY <2>1, <2>2
<1> HIDE DEF gone, t1, t2
<1>10. f = SH!Held'
  <2>1. f \in HeldTypes
    BY <1>9 DEF HeldGood
  <2>2. SH!HeldIs(f)
    BY <1>3, <1>6, <1>9
  <2> QED
    BY <2>1, <2>2, HeldNext
<1>11. \E g, t, k, Y, n : /\ g = SH!Held' /\ t = table' /\ k = keymap' /\ Y = shared'
                          /\ n = moved' /\ HeldGood(g, t, k, Y, n)
  BY <1>1, <1>3, <1>6, <1>9, <1>10 DEF t2
<1>12. /\ table' = t2 /\ signals' \in Seq(Places)
  BY <1>1, <1>3, <1>4 DEF t2
<1>13. ASSUME ~keysServed, NEW s \in Places
       PROVE  t2[s] = Unbound \/ t2[s].key \in X
  <2>1. CASE s = slot
    <3>1. t2[s] = v
      BY <1>8, <2>1
    <3>2. v # Unbound => v.key \in Bindable /\ SH!HasKey(v, v.key)
      BY <1>5 DEF SH!Value, SH!HasKey
    <3> QED
      BY <1>3, <1>6, <1>13, <3>1, <3>2
  <2>2. CASE s # slot
    BY <1>3, <1>6, <1>8, <1>13, <2>2 DEF SlotsInv
  <2> QED
    BY <2>1, <2>2
<1>14. ASSUME NEW s \in Places, \A i \in 1..(Len(signals) - 1) : Tail(signals)[i] # s
       PROVE  t2[s] = keySetting[s] \/ (~keysServed /\ t2[s] = Unbound)
  <2>1. CASE s = slot
    BY <1>2, <1>8, <2>1
  <2>2. CASE s # slot
    <3>1. ASSUME NEW i \in 1..Len(signals) PROVE signals[i] # s
      <4>1. CASE i = 1
        BY <1>4, <2>2, <4>1
      <4>2. CASE i # 1
        <5>1. i - 1 \in 1..(Len(signals) - 1) /\ (i - 1) + 1 = i
          BY <1>4, <4>2
        <5> QED
          BY <1>4, <1>14, <5>1
      <4> QED
        BY <4>1, <4>2
    <3> QED
      BY <1>8, <2>2, <3>1 DEF SlotsInv
  <2> QED
    BY <2>1, <2>2
<1>15. X = shared' /\ Len(signals') = Len(signals) - 1
  BY <1>1, <1>4, <1>6
<1> QED
  BY <1>1, <1>5, <1>8, <1>11, <1>12, <1>13, <1>14, <1>15 DEF SlotsInv

LEMMA SlotsUserSets ==
  ASSUME KeyConstants, SlotsInv, NEW slot \in Places, NEW v \in SH!Value \cup {Unbound},
         SH!UserSets(slot, v)
  PROVE  SlotsInv'
<1>1. /\ keySetting' = [keySetting EXCEPT ![slot] = v] /\ signals' = Append(signals, slot)
      /\ UNCHANGED <<keysServed, table, bindings, grabs, record, keymap, shared, moved>>
  BY DEF SH!UserSets
<1>2. /\ signals' \in Seq(Places) /\ Len(signals') = Len(signals) + 1
      /\ signals'[Len(signals) + 1] = slot /\ Len(signals) \in Nat
      /\ \A i \in 1..Len(signals) : signals'[i] = signals[i]
  BY <1>1, AppendProperties, LenProperties DEF SlotsInv
<1>3. /\ keySetting' \in Tables
      /\ \A s \in Places : s # slot => keySetting'[s] = keySetting[s]
  BY <1>1 DEF SlotsInv, Tables
<1>4. ASSUME NEW s \in Places, \A i \in 1..Len(signals') : signals'[i] # s
      PROVE  table[s] = keySetting'[s] \/ (~keysServed /\ table[s] = Unbound)
  <2>1. Len(signals) + 1 \in 1..Len(signals') /\ \A i \in 1..Len(signals) : i \in 1..Len(signals')
    BY <1>2
  <2>2. s # slot /\ \A i \in 1..Len(signals) : signals[i] # s
    BY <1>2, <1>4, <2>1
  <2> QED
    BY <1>3, <2>2 DEF SlotsInv
<1>5. SH!Held' = SH!Held
  BY <1>1 DEF SH!Held
<1> QED
  BY <1>1, <1>2, <1>3, <1>4, <1>5 DEF SlotsInv

LEMMA SlotsMapped ==
  ASSUME KeyConstants, SlotsInv, NEW l2 \in Keymaps, SH!KeymapChanged(l2)
  PROVE  SlotsInv'
<1>1. /\ keymap' = l2 /\ moved' = TRUE /\ SH!HeldIs(SH!Regrabbed(l2, SH!Held))
      /\ UNCHANGED <<keysServed, keySetting, signals, table, shared>>
  BY DEF SH!KeymapChanged
<1>2. PICK h, t, l, X : /\ h = SH!Held /\ t = table /\ l = keymap /\ X = shared
                        /\ h \in HeldTypes /\ Good(h, t, l, X)
  BY DEF SlotsInv, HeldGood
<1> DEFINE n == Len(h.bindings)
<1>3. /\ bindings = h.bindings /\ h.record = record /\ n \in Nat
      /\ DOMAIN bindings = 1..n
      /\ \A i \in 1..n : h.bindings[i] \in Bound
  <2>1. bindings = h.bindings /\ h.record = record
    BY <1>2 DEF SH!Held
  <2>2. h.bindings \in Seq(Bound)
    BY <1>2 DEF HeldTypes
  <2> QED
    BY <2>1, <2>2, LenProperties, ElementOfSeq
<1> HIDE DEF n
<1>4. \A c : c \in SH!Codes(l2) <=>
        \E i \in 1..n : h.bindings[i].key \in Usable \ {Super} /\ c = Code[l2][h.bindings[i].key]
  BY <1>3 DEF SH!Codes
<1>5. SH!Codes(l2) \in SUBSET AllCodes
  BY <1>3, <1>4 DEF AllCodes, Bound
<1> DEFINE rec == IF SH!Supers = {} THEN h.record ELSE bindings[SH!Max(SH!Supers)].cmd
<1>6. \/ rec = h.record /\ \A i \in 1..n : h.bindings[i].key # Super
      \/ \E i \in 1..n : h.bindings[i].key = Super /\ rec = h.bindings[i].cmd
  <2>1. SH!Supers = {i \in 1..n : h.bindings[i].key = Super}
    BY <1>3 DEF SH!Supers
  <2>2. CASE SH!Supers = {}
    BY <2>1, <2>2
  <2>3. CASE SH!Supers # {}
    <3>1. SH!Supers \in SUBSET (0..n)
      BY <1>3, <2>1
    <3>2. \E i \in SH!Supers : \A j \in SH!Supers : j <= i
      BY <1>3, <2>3, <3>1, GreatestNumber
    <3>3. SH!Max(SH!Supers) \in SH!Supers
      BY <3>1, <3>2 DEF SH!Max
    <3>4. PICK i : i = SH!Max(SH!Supers)
      OBVIOUS
    <3>5. i \in 1..n /\ h.bindings[i].key = Super /\ rec = h.bindings[i].cmd
      BY <1>3, <2>1, <2>3, <3>3, <3>4
    <3> QED
      BY <3>5
  <2> QED
    BY <2>2, <2>3
<1>7. SH!Regrabbed(l2, SH!Held) = [h EXCEPT !.grabs = h.grabs \cup SH!Codes(l2), !.record = rec]
  BY <1>2 DEF SH!Regrabbed
<1>8. rec \in KeyCommands \cup {Unbound}
  <2>1. h.record \in KeyCommands \cup {Unbound}
    BY <1>2 DEF HeldTypes
  <2> HIDE DEF rec
  <2> QED
    BY <1>3, <1>6, <2>1 DEF Bound
<1> HIDE DEF rec
<1>9. PICK g : /\ g = SH!Regrabbed(l2, SH!Held) /\ g \in HeldTypes /\ g.bindings = h.bindings
               /\ g.grabs = h.grabs \cup SH!Codes(l2) /\ g.record = rec
  <2> DEFINE e == [h EXCEPT !.grabs = h.grabs \cup SH!Codes(l2), !.record = rec]
  <2>1. /\ e \in HeldTypes /\ e.bindings = h.bindings
        /\ e.grabs = h.grabs \cup SH!Codes(l2) /\ e.record = rec
    BY <1>2, <1>5, <1>8 DEF HeldTypes
  <2> HIDE DEF e
  <2>2. e = SH!Regrabbed(l2, SH!Held)
    BY <1>7 DEF e
  <2> QED
    BY <2>1, <2>2
<1>10. ASSUME NEW k \in Bindable \ X
       PROVE  GoodKey(g, t, k, l2)
  <2>1. GoodKey(h, t, k, l)
    BY <1>2 DEF Good
  <2>2. ASSUME NEW s \in Places, Holds(t[s], k)
        PROVE  /\ \E i \in 1..n : h.bindings[i].key = k
               /\ k \in Usable \ {Super} => Code[l2][k] \in g.grabs
               /\ k = Super => g.record = t[s].cmd
    <3>1. \E i \in 1..n : h.bindings[i].key = k
      BY <2>1, <2>2 DEF GoodKey, n
    <3>2. k \in Usable \ {Super} => Code[l2][k] \in g.grabs
      BY <1>4, <1>9, <3>1
    <3>3. ASSUME k = Super PROVE g.record = t[s].cmd
      <4>1. PICK i \in 1..n : h.bindings[i].key = Super /\ rec = h.bindings[i].cmd
        BY <1>6, <3>1, <3>3
      <4>2. Holds(t[h.bindings[i].slot], k) /\ h.bindings[i].cmd = t[h.bindings[i].slot].cmd
        BY <2>1, <3>3, <4>1 DEF GoodKey, n
      <4>3. h.bindings[i].slot \in Places
        BY <1>3 DEF Bound
      <4>4. h.bindings[i].slot = s
        BY <2>1, <2>2, <4>2, <4>3 DEF GoodKey
      <4> QED
        BY <1>9, <4>1, <4>2, <4>4
    <3> QED
      BY <3>1, <3>2, <3>3
  <2>3. ASSUME k = Super, g.record # Unbound
        PROVE  \E s \in Places : Holds(t[s], k)
    <3>1. CASE rec = h.record
      BY <1>9, <2>1, <2>3, <3>1 DEF GoodKey
    <3>2. CASE \E i \in 1..n : h.bindings[i].key = Super
      <4>1. PICK i \in 1..n : h.bindings[i].key = Super
        BY <3>2
      <4>2. Holds(t[h.bindings[i].slot], k) /\ h.bindings[i].slot \in Places
        BY <1>3, <2>1, <2>3, <4>1 DEF GoodKey, Bound, n
      <4> QED
        BY <4>2
    <3> QED
      BY <1>6, <3>1, <3>2
  <2> QED
    BY <1>9, <2>1, <2>2, <2>3 DEF GoodKey, n
<1>11. g = SH!Held'
  <2>1. SH!HeldIs(g)
    BY <1>1, <1>9
  <2> QED
    BY <1>9, <2>1, HeldNext
<1>12. \E f, u, k, Y, m : /\ f = SH!Held' /\ u = table' /\ k = keymap' /\ Y = shared'
                          /\ m = moved' /\ HeldGood(f, u, k, Y, m)
  <2>1. HeldGood(g, t, l2, X, TRUE)
    BY <1>9, <1>10 DEF HeldGood, Good
  <2> QED
    BY <1>1, <1>2, <1>11, <2>1
<1> QED
  BY <1>1, <1>12 DEF SlotsInv

LEMMA SlotsNext ==
  ASSUME KeyConstants, SlotsInv, SH!SlotsNext \/ UNCHANGED slotsVars
  PROVE  SlotsInv'
<1>1. CASE UNCHANGED slotsVars
  BY <1>1 DEF slotsVars, SlotsInv, SH!Held
<1> QED
  BY <1>1, SlotsStart, SlotsStop, SlotsChanged, SlotsUserSets, SlotsMapped
     DEF SH!SlotsNext, SH!Slot, Places

\* Key by key the settings are obeyed.
LEMMA SlotsHold == KeyConstants /\ SlotsInv => SH!KeysRun /\ SH!NoneTaken
<1> SUFFICES ASSUME KeyConstants, SlotsInv PROVE SH!KeysRun /\ SH!NoneTaken
  OBVIOUS
<1>1. PICK h, t, l, X, m : /\ h = SH!Held /\ t = table /\ l = keymap
                           /\ X = shared /\ m = moved /\ HeldGood(h, t, l, X, m)
  BY DEF SlotsInv
<1> DEFINE n == Len(h.bindings)
<1>2. /\ bindings = h.bindings /\ h.record = record /\ h.grabs = grabs /\ n \in Nat
      /\ DOMAIN bindings = 1..n
      /\ \A i \in 1..n : h.bindings[i] \in Bound
  <2>1. bindings = h.bindings /\ h.record = record /\ h.grabs = grabs
    BY <1>1 DEF SH!Held
  <2>2. h.bindings \in Seq(Bound)
    BY <1>1 DEF HeldGood, HeldTypes
  <2> QED
    BY <2>1, <2>2, LenProperties, ElementOfSeq
<1>3. t \in Tables /\ keySetting \in Tables
  BY <1>1 DEF SlotsInv
<1>4. SH!NoneTaken
  <2>1. ~moved => Covered(h, keymap)
    BY <1>1 DEF HeldGood
  <2> QED
    BY <1>2, <2>1 DEF Covered, SH!NoneTaken, SH!Codes
<1>5. ASSUME NEW k \in Bindable \ shared
      PROVE  /\ signals = <<>> => SH!Run(k) = SH!Wanted(k)
             /\ \A i \in DOMAIN bindings : bindings[i].key = k => bindings[i].live
  <2>1. GoodKey(h, t, k, l)
    BY <1>1 DEF HeldGood, Good
  <2>2. \A i \in DOMAIN bindings : bindings[i].key = k => bindings[i].live
    BY <1>2, <2>1 DEF GoodKey
  <2>3. ASSUME signals = <<>> PROVE SH!Run(k) = SH!Wanted(k)
    <3>1. \A s \in Places : t[s] = keySetting[s] \/ (~keysServed /\ t[s] = Unbound)
      <4>1. Len(signals) = 0
        BY <2>3
      <4> QED
        BY <1>1, <4>1 DEF SlotsInv
    <3>2. ~keysServed => \A s \in Places : ~Holds(t[s], k)
      BY <1>1, <1>5 DEF SlotsInv, Holds
    <3> DEFINE found == {i \in DOMAIN bindings : bindings[i].key = k}
               own == {s \in Places : Holds(keySetting[s], k)}
    <3>3. SH!Run(k) = IF k = Super THEN record
                      ELSE IF found = {} \/ k \notin Usable \/ Code[keymap][k] \notin grabs
                      THEN Unbound ELSE bindings[SH!Min(found)].cmd
      BY DEF SH!Run
    <3>4. SH!Wanted(k) = IF own = {} \/ ~keysServed \/ (k \notin Usable /\ k # Super)
                         THEN Unbound ELSE keySetting[CHOOSE s \in own : TRUE].cmd
      BY DEF SH!Wanted, SH!HasKey, Holds, SH!Slot, Places
    <3>5. found # {} => SH!Min(found) \in found
      <4>1. found \in SUBSET Nat
        BY <1>2
      <4> HIDE DEF found
      <4>2. found # {} => \E i \in found : \A j \in found : i <= j
        BY <4>1, LeastNumber
      <4> QED
        BY <4>2 DEF SH!Min
    <3>6. \A i \in found : /\ bindings[i].slot \in Places /\ Holds(t[bindings[i].slot], k)
                           /\ bindings[i].cmd = t[bindings[i].slot].cmd
      BY <1>2, <2>1 DEF GoodKey, Bound
    <3>7. CASE \A s \in Places : ~Holds(t[s], k)
      <4>1. found = {} /\ (k = Super => record = Unbound)
        BY <1>2, <2>1, <3>6, <3>7 DEF GoodKey
      <4>2. own = {} \/ ~keysServed
        BY <3>1, <3>7
      <4> HIDE DEF found, own
      <4> QED
        BY <3>3, <3>4, <4>1, <4>2
    <3>8. ASSUME NEW s \in Places, Holds(t[s], k)
          PROVE  SH!Run(k) = SH!Wanted(k)
      <4>1. keysServed /\ \A p \in Places : t[p] = keySetting[p]
        BY <3>1, <3>2, <3>8
      <4>2. \A p \in Places : Holds(t[p], k) => p = s
        BY <2>1, <3>8 DEF GoodKey
      <4>3. own = {s} /\ (CHOOSE p \in own : TRUE) = s
        BY <3>8, <4>1, <4>2
      <4>4. found # {} /\ (k = Super => record = t[s].cmd)
            /\ (k \in Usable \ {Super} => Code[keymap][k] \in grabs)
        BY <1>1, <1>2, <2>1, <3>8 DEF GoodKey
      <4> HIDE DEF found, own
      <4>5. bindings[SH!Min(found)].cmd = t[s].cmd
        BY <3>5, <3>6, <4>2, <4>4
      <4> QED
        BY <3>3, <3>4, <4>1, <4>3, <4>4, <4>5
    <3> QED
      BY <3>7, <3>8
  <2> QED
    BY <2>2, <2>3
<1>6. SH!KeysRun
  BY <1>5 DEF SH!KeysRun
<1> QED
  BY <1>4, <1>6

(***************************************************************************)
(* The parts together: the one that moves keeps its invariant              *)
(***************************************************************************)

LEMMA PartMoves ==
  ASSUME [PartsNext]_PartsVars
  PROVE  /\ focus' = focus
         /\ focus = "tracker" => ST!Next \/ UNCHANGED trackerVars
         /\ focus = "proxy" => SP!Next \/ UNCHANGED proxyVars
         /\ focus = "zone" => DT!ZoneNext \/ UNCHANGED zoneVars
         /\ focus = "calls" => DT!ClockNext \/ UNCHANGED callsVars
         /\ focus = "slots" => SH!SlotsNext \/ UNCHANGED slotsVars
         /\ focus = "super" => SH!SuperNext \/ UNCHANGED superVars
         /\ focus = "confirm" => XR!ConfirmNext \/ UNCHANGED confirmVars
         /\ focus = "monitors" => XR!DeepinNext \/ UNCHANGED monitorsVars
BY Zenon DEF PartsNext, PartsVars

LEMMA ProxyAlways ==
  ASSUME CookieMax \in Nat
  PROVE  PartsSafe => [](focus = "proxy" => ProxyInv)
<1> DEFINE I == focus = "proxy" => ProxyInv
<1>1. PartsInit => I
  BY ProxyInit DEF PartsInit
<1>2. I /\ [PartsNext]_PartsVars => I'
  BY ProxyNext, PartMoves
<1> QED
  BY <1>1, <1>2, PTL DEF PartsSafe

LEMMA TrackerAlways ==
  ASSUME TrackerConstants
  PROVE  PartsSafe => [](focus = "tracker" => TrackerInv)
<1> DEFINE I == focus = "tracker" => TrackerInv
<1>1. PartsInit => I
  BY TrackerInit DEF PartsInit, TrackerConstants
<1>2. I /\ [PartsNext]_PartsVars => I'
  BY TrackerNext, PartMoves DEF TrackerConstants
<1> QED
  BY <1>1, <1>2, PTL DEF PartsSafe

LEMMA ConfirmAlways ==
  ASSUME ConfirmConstants
  PROVE  PartsSafe => [](focus = "confirm" => ConfirmInv)
<1> DEFINE I == focus = "confirm" => ConfirmInv
<1>1. PartsInit => I
  BY ConfirmInit DEF PartsInit
<1>2. I /\ [PartsNext]_PartsVars => I'
  BY ConfirmNext, PartMoves
<1> QED
  BY <1>1, <1>2, PTL DEF PartsSafe

LEMMA MonitorsAlways ==
  PartsSafe => [](focus = "monitors" => MonitorsInv)
<1> DEFINE I == focus = "monitors" => MonitorsInv
<1>1. PartsInit => I
  BY MonitorsInit DEF PartsInit
<1>2. I /\ [PartsNext]_PartsVars => I'
  BY MonitorsNext, PartMoves
<1> QED
  BY <1>1, <1>2, PTL DEF PartsSafe

LEMMA ClockAlways ==
  PartsSafe => [](focus = "calls" => ClockInv)
<1> DEFINE I == focus = "calls" => ClockInv
<1>1. PartsInit => I
  BY ClockInit DEF PartsInit
<1>2. I /\ [PartsNext]_PartsVars => I'
  BY ClockNext, PartMoves
<1> QED
  BY <1>1, <1>2, PTL DEF PartsSafe

LEMMA ZoneAlways ==
  ASSUME ZoneConstants
  PROVE  PartsSafe => [](focus = "zone" => ZoneInv)
<1> DEFINE I == focus = "zone" => ZoneInv
<1>1. PartsInit => I
  BY ZoneInit DEF PartsInit
<1>2. I /\ [PartsNext]_PartsVars => I'
  BY ZoneNext, PartMoves
<1> QED
  BY <1>1, <1>2, PTL DEF PartsSafe

LEMMA SlotsAlways ==
  ASSUME KeyConstants
  PROVE  PartsSafe => [](focus = "slots" => SlotsInv)
<1> DEFINE I == focus = "slots" => SlotsInv
<1>1. PartsInit => I
  BY SlotsInit DEF PartsInit
<1>2. I /\ [PartsNext]_PartsVars => I'
  BY SlotsNext, PartMoves
<1> QED
  BY <1>1, <1>2, PTL DEF PartsSafe

LEMMA SuperAlways ==
  PartsSafe => [](focus = "super" => SuperInv)
<1> DEFINE I == focus = "super" => SuperInv
<1>1. PartsInit => I
  BY SuperInit DEF PartsInit
<1>2. I /\ [PartsNext]_PartsVars => I'
  BY SuperNext, PartMoves
<1> QED
  BY <1>1, <1>2, PTL DEF PartsSafe

(* Settled: the tracker, once it has read everything, knows whether the    *)
(* session is active (gnome-settings-session.c); NTP is what the last call *)
(* has promised (gsd-datetime-mechanism-debian.c); and two monitors show   *)
(* what the settings want once all commands have ended (deepin_xrandr.c),  *)
(* in whatever order.                                                      *)
THEOREM AllSettles == PartsSpec => []Settled
<1> DEFINE T == focus = "tracker" => TrackerInv
           C == focus = "calls" => ClockInv
           M == focus = "monitors" => MonitorsInv
<1>1. TrackerInv => ST!Settled
  BY DEF TrackerInv, ST!Settled, Right, ST!TypeOK
<1>2. MonitorsInv => XR!Obeyed
  <2>1. DOMAIN <<>> = {}
    OBVIOUS
  <2> QED
    BY <2>1 DEF MonitorsInv, Comes, Flies, XR!Obeyed, XR!AtRest
<1>3. T /\ C /\ M => Settled
  BY <1>1, <1>2, ClockAnswers DEF Settled
<1> QED
  BY <1>3, PartsAssumption, TrackerAlways, ClockAlways, MonitorsAlways, PTL DEF PartsSpec

(* Released: a program that has left the bus inhibits no longer, one that  *)
(* inhibits is watched (gsd-screensaver-proxy-manager.c), and no client of *)
(* the datetime mechanism is answered twice or waits for nothing           *)
(* (gsd-datetime-mechanism.c).                                             *)
THEOREM NobodyIsLeft == PartsSpec => []Released
<1> DEFINE P == focus = "proxy" => ProxyInv
           C == focus = "calls" => ClockInv
<1>1. P /\ C => Released
  BY ClockAnswers DEF ProxyInv, Released
<1> QED
  BY <1>1, PartsAssumption, ProxyAlways, ClockAlways, PTL DEF PartsSpec

(* Reverts: of a configuration that was tried and not kept nothing is left *)
(* in monitors.xml, whatever dialogs, errors, keys, crashes and starts     *)
(* come between (gsd-xrandr-manager.c), and the names of outputs that are  *)
(* used late are not freed (deepin_xrandr.c).                              *)
THEOREM TrialsLeaveNoTrace == PartsSpec => []Reverts
<1> DEFINE C == focus = "confirm" => ConfirmInv
           M == focus = "monitors" => MonitorsInv
<1>1. C /\ M => Reverts
  BY ConfirmLeavesNoTrace DEF MonitorsInv, Reverts
<1> QED
  BY <1>1, PartsAssumption, ConfirmAlways, MonitorsAlways, PTL DEF PartsSpec

(* KeysAndZones: the zone that is set is the one that is found, even after *)
(* a crash between two files (system-timezone.c); a key runs the command   *)
(* its setting names, and no key is taken for nothing, in whatever order   *)
(* settings, layouts, starts and stops come (keybinder.c,                  *)
(* gsd-key-bindings-manager.c); and Super alone runs its command, however  *)
(* late its events are seen (parse-super.c).                               *)
THEOREM KeysAndZonesKept == PartsSpec => []KeysAndZones
<1> DEFINE Z == focus = "zone" => ZoneInv
           L == focus = "slots" => SlotsInv
           S == focus = "super" => SuperInv
<1>1. Z /\ L /\ S => KeysAndZones
  BY PartsAssumption, ZoneHolds, SlotsHold DEF SuperInv, KeysAndZones
<1> QED
  BY <1>1, PartsAssumption, ZoneAlways, SlotsAlways, SuperAlways, PTL DEF PartsSpec
=============================================================================
