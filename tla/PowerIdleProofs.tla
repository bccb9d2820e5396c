-------------------------- MODULE PowerIdleProofs --------------------------
(***************************************************************************)
(* Theorems about PowerIdle for every panel, keyboard, set of settings and *)
(* set of calls that may fail.  TypeOK is inductive by itself.             *)
(* NoStrayTimer is too; AwakeForUser is inductive relative to it, since a  *)
(* timer callback is harmless only because it can run only while X is idle.*)
(*                                                                         *)
(* That the user's levels come back rests on three invariants that say, for*)
(* each idle mode, which variable keeps the level: PanelKept, KbdKept and  *)
(* Powered.  Each needs that no failure, and no press of the brightness    *)
(* keys while dimmed, makes the saved level a false one.                   *)
(***************************************************************************)
EXTENDS PowerIdle, TLAPS

(***************************************************************************)
(* What the helpers on levels return                                       *)
(***************************************************************************)

\* backlight_set_abs leaves the panel at a level it has.
LEMMA SetPanelType ==
  ASSUME NEW level \in PanelLevels, panel \in PanelLevels,
         NEW r \in SetPanel(level)
  PROVE  r.level \in PanelLevels /\ r.ok \in BOOLEAN
BY DEF SetPanel

\* upower_kbd_set_brightness changes only kbd_brightness_now.
LEMMA SetKbdType ==
  ASSUME NEW k \in KbdStates, NEW level \in KbdLevels, NEW r \in SetKbd(k, level)
  PROVE  r.k \in KbdStates /\ r.ok \in BOOLEAN
BY DEF SetKbd, KbdStates

\* A level that was saved, if there is one, is a level.
LEMMA SavedLevel ==
  ASSUME NEW l \in Saved(KbdLevels), l >= 0
  PROVE  l \in KbdLevels
BY LevelsAssumption DEF Saved, KbdLevels

\* upower_kbd_toggle and what is built from it keep the keyboard's type.
LEMMA ToggleKbdType ==
  ASSUME NEW k \in KbdStates, NEW t \in ToggleKbd(k)
  PROVE  t \in KbdStates
<1>1. 0 \in KbdLevels /\ -1 \in Saved(KbdLevels)
  BY LevelsAssumption DEF KbdLevels, Saved
<1>2. CASE k.old >= 0
  <2>1. k.old \in KbdLevels
    BY <1>2, SavedLevel DEF KbdStates
  <2>2. PICK r \in SetKbd(k, k.old) :
          t = IF r.ok THEN [r.k EXCEPT !.old = -1] ELSE r.k
    BY <1>2 DEF ToggleKbd
  <2>3. r.k \in KbdStates
    BY <2>1, SetKbdType
  <2> QED BY <1>1, <2>2, <2>3 DEF KbdStates
<1>3. CASE ~(k.old >= 0)
  <2>1. PICK r \in SetKbd(k, 0) :
          t = IF r.ok THEN [r.k EXCEPT !.old = k.now] ELSE r.k
    BY <1>3 DEF ToggleKbd
  <2>2. r.k \in KbdStates
    BY <1>1, SetKbdType
  <2>3. k.now \in Saved(KbdLevels)
    BY DEF KbdStates, Saved
  <2> QED BY <2>1, <2>2, <2>3 DEF KbdStates
<1> QED BY <1>2, <1>3

LEMMA KbdOnOffType ==
  ASSUME NEW k \in KbdStates, NEW t \in KbdOff(k) \cup KbdOn(k)
  PROVE  t \in KbdStates
BY ToggleKbdType DEF KbdOff, KbdOn

LEMMA DimKbdType ==
  ASSUME NEW k \in KbdStates, NEW t \in DimKbdResults(k)
  PROVE  t \in KbdStates
<1>1. CASE ~KbdPresent \/ DimKbd > k.now
  BY <1>1 DEF DimKbdResults
<1>2. CASE KbdPresent /\ ~(DimKbd > k.now)
  <2>1. DimKbd \in KbdLevels
    BY <1>2, LevelsAssumption DEF KbdStates, KbdLevels
  <2>2. PICK r \in SetKbd(k, DimKbd) :
          t = IF r.ok THEN [r.k EXCEPT !.preDim = k.now] ELSE k
    BY <1>2 DEF DimKbdResults
  <2>3. r.k \in KbdStates
    BY <2>1, SetKbdType
  <2>4. k.now \in Saved(KbdLevels)
    BY DEF KbdStates, Saved
  <2> QED BY <2>2, <2>3, <2>4 DEF KbdStates
<1> QED BY <1>1, <1>2, EnvironmentAssumption

LEMMA UndimKbdType ==
  ASSUME NEW k \in KbdStates, NEW t \in UndimKbd(k)
  PROVE  t \in KbdStates
<1>1. CASE k.preDim >= 0
  <2>1. k.preDim \in KbdLevels
    BY <1>1, SavedLevel DEF KbdStates
  <2>2. PICK r \in SetKbd(k, k.preDim) : t = [r.k EXCEPT !.preDim = -1]
    BY <1>1 DEF UndimKbd
  <2>3. r.k \in KbdStates
    BY <2>1, SetKbdType
  <2> QED BY <2>2, <2>3 DEF KbdStates, Saved
<1>2. CASE ~(k.preDim >= 0)
  BY <1>2 DEF UndimKbd
<1> QED BY <1>1, <1>2

(***************************************************************************)
(* What idle_set_mode and idle_evaluate keep                               *)
(***************************************************************************)

\* The part of TypeOK that idle_set_mode may disturb.
ScreenType ==
  /\ mode \in Modes
  /\ panel \in PanelLevels /\ preDim \in Saved(PanelLevels)
  /\ kbd \in KbdStates
  /\ dpms \in BOOLEAN /\ asked \in PowerActions \cup {"none"}

\* The part of TypeOK about the two timers.
TimerType ==
  /\ blankId \in BOOLEAN /\ blankLive \in BOOLEAN
  /\ sleepId \in BOOLEAN /\ sleepLive \in BOOLEAN

LEMMA SetDpmsType ==
  ASSUME dpms \in BOOLEAN, NEW on \in BOOLEAN, SetDpms(on)
  PROVE  dpms' \in BOOLEAN
BY DEF SetDpms

LEMMA DoPowerActionType ==
  ASSUME dpms \in BOOLEAN, NEW action \in PowerActions, DoPowerAction(action)
  PROVE  dpms' \in BOOLEAN /\ asked' \in PowerActions \cup {"none"}
BY SetDpmsType DEF DoPowerAction

LEMMA DimDisplayType ==
  ASSUME panel \in PanelLevels, preDim \in Saved(PanelLevels), DimDisplay
  PROVE  panel' \in PanelLevels /\ preDim' \in Saved(PanelLevels)
<1>1. CASE UNCHANGED <<panel, preDim>>
  BY <1>1
<1>2. CASE /\ DimPanel <= panel
           /\ \E r \in SetPanel(DimPanel) :
                /\ panel' = r.level
                /\ preDim' = IF r.ok THEN panel ELSE preDim
  <2>1. DimPanel \in PanelLevels
    BY <1>2, LevelsAssumption DEF PanelLevels
  <2> QED BY <1>2, <2>1, SetPanelType DEF Saved
<1> QED BY <1>1, <1>2 DEF DimDisplay

LEMMA RestoreDisplayType ==
  ASSUME panel \in PanelLevels, preDim \in Saved(PanelLevels), RestoreDisplay
  PROVE  panel' \in PanelLevels /\ preDim' \in Saved(PanelLevels)
<1>1. CASE preDim >= 0
  <2>1. preDim \in PanelLevels
    BY <1>1 DEF Saved, PanelLevels
  <2> QED BY <1>1, <2>1, SetPanelType DEF RestoreDisplay, Saved
<1>2. CASE ~(preDim >= 0)
  BY <1>2 DEF RestoreDisplay
<1> QED BY <1>1, <1>2

LEMMA SetModeType ==
  ASSUME ScreenType, NEW m \in Modes, SetMode(m)
  PROVE  ScreenType'
<1> USE DEF ScreenType
<1>1. CASE m = mode \/ session' = "INACTIVE"
  BY <1>1 DEF SetMode, levels
<1>2. CASE ~(m = mode \/ session' = "INACTIVE")
  <2>1. mode' = m
    BY <1>2 DEF SetMode
  <2>2. CASE m = "DIM" /\ EnterDim
    BY <2>1, <2>2, DimDisplayType, DimKbdType DEF EnterDim, levels
  <2>3. CASE m = "BLANK" /\ EnterBlank
    BY <2>1, <2>3, SetDpmsType, KbdOnOffType DEF EnterBlank
  <2>4. CASE m = "SLEEP" /\ EnterSleep
    BY <2>1, <2>4, DoPowerActionType, EnvironmentAssumption
       DEF EnterSleep, levels
  <2>5. CASE m = "NORMAL" /\ EnterNormal
    <3>1. PICK k \in KbdOn(kbd) : kbd' \in UndimKbd(k)
      BY <2>5 DEF EnterNormal
    <3>2. kbd' \in KbdStates
      BY <3>1, KbdOnOffType, UndimKbdType
    <3> QED BY <2>1, <2>5, <3>2, SetDpmsType, RestoreDisplayType
            DEF EnterNormal
  <2> QED BY <1>2, <2>2, <2>3, <2>4, <2>5 DEF SetMode
<1> QED BY <1>1, <1>2

LEMMA EvaluateType ==
  ASSUME ScreenType, TimerType, Evaluate
  PROVE  ScreenType' /\ TimerType'
<1>1. CASE BeNormal
  <2>1. ScreenType'
    BY <1>1, SetModeType DEF BeNormal, Modes
  <2>2. TimerType'
    BY <1>1 DEF BeNormal, CancelTimers, TimerType
  <2> QED BY <2>1, <2>2
<1>2. CASE /\ IF mode = "NORMAL" THEN SetMode("DIM")
                               ELSE UNCHANGED <<mode, levels, dpms, asked>>
           /\ ArmTimers
  <2>1. CASE mode = "NORMAL"
    <3>1. ScreenType'
      BY <1>2, <2>1, SetModeType DEF Modes
    <3> QED BY <1>2, <3>1 DEF ArmTimers, TimerType
  <2>2. CASE mode # "NORMAL"
    <3>1. ScreenType'
      BY <1>2, <2>2 DEF ScreenType, levels
    <3> QED BY <1>2, <3>1 DEF ArmTimers, TimerType
  <2> QED BY <2>1, <2>2
<1> QED BY <1>1, <1>2 DEF Evaluate

(***************************************************************************)
(* Type correctness                                                        *)
(***************************************************************************)

\* TypeOK in two parts: what the lemmas above are about, and the rest.
WorldType ==
  /\ xIdle \in BOOLEAN
  /\ userPanel \in PanelLevels /\ userKbd \in KbdLevels
  /\ onBattery \in BOOLEAN /\ lidClosed \in BOOLEAN
  /\ session \in SessionStates /\ presenceIdle \in BOOLEAN
  /\ inhibited \in SUBSET {"idle", "suspend"} /\ inhibitSignal \in BOOLEAN
  /\ config \in Configs

LEMMA TypeParts == TypeOK <=> ScreenType /\ TimerType /\ WorldType
BY DEF TypeOK, ScreenType, TimerType, WorldType

LEMMA InitType == Init => TypeOK
<1> SUFFICES ASSUME Init PROVE TypeOK
  OBVIOUS
<1>1. kbd \in KbdStates /\ userKbd \in KbdLevels
  BY DEF Init, KbdStates, Saved
<1> QED BY <1>1 DEF Init, TypeOK, Modes, Saved

LEMMA StepType == TypeOK /\ [Next]_vars => TypeOK'
<1> SUFFICES ASSUME TypeOK, [Next]_vars PROVE ScreenType' /\ TimerType' /\ WorldType'
  BY DEF TypeOK, ScreenType, TimerType, WorldType
<1>0. ScreenType /\ TimerType /\ WorldType
  BY TypeParts
<1>1. CASE AlarmExpired
  BY <1>0, <1>1, EvaluateType DEF AlarmExpired, WorldType, world, user
<1>2. CASE IdleReset
  BY <1>0, <1>2, EvaluateType DEF IdleReset, WorldType, world, user
<1>3. CASE BlankTimeout
  <2>1. ScreenType'
    <3>1. CASE mode = "SLEEP"
      BY <1>0, <1>3, <3>1 DEF BlankTimeout, ScreenType, levels
    <3>2. CASE mode # "SLEEP"
      BY <1>0, <1>3, <3>2, SetModeType DEF BlankTimeout, Modes
    <3> QED BY <3>1, <3>2
  <2> QED BY <1>0, <1>3, <2>1
          DEF BlankTimeout, TimerType, WorldType, world, user
<1>4. CASE SleepInhibited
  BY <1>0, <1>4 DEF SleepInhibited, ScreenType, TimerType, WorldType,
                    levels, world, user
<1>5. CASE SleepNotIdle
  BY <1>0, <1>5 DEF SleepNotIdle, vars, ScreenType, TimerType, WorldType,
                    timers, levels, world, user
<1>6. CASE SleepNow
  <2>1. ScreenType'
    BY <1>0, <1>6, SetModeType DEF SleepNow, Modes
  <2> QED BY <1>0, <1>6, <2>1
          DEF SleepNow, TimerType, WorldType, world, user
<1>7. CASE InhibitorsChange
  BY <1>0, <1>7 DEF InhibitorsChange, ScreenType, TimerType, WorldType,
                    timers, levels, user
<1>8. CASE InhibitorSignal
  BY <1>0, <1>8, EvaluateType DEF InhibitorSignal, WorldType, user
<1>9. CASE StatusChanged
  BY <1>0, <1>9, EvaluateType DEF StatusChanged, WorldType, user
<1>10. CASE SettingsChanged
  <2>1. WorldType'
    BY <1>0, <1>10 DEF SettingsChanged, WorldType, user
  <2>2. CASE Evaluate
    BY <1>0, <2>1, <2>2, EvaluateType
  <2>3. CASE UNCHANGED <<mode, timers, levels, dpms, asked>>
    BY <1>0, <2>1, <2>3 DEF ScreenType, TimerType, timers, levels
  <2> QED BY <1>10, <2>2, <2>3 DEF SettingsChanged
<1>11. CASE SessionChanged
  BY <1>0, <1>11, SetModeType
     DEF SessionChanged, TimerType, WorldType, Modes, timers, user
<1>12. CASE UpClientChanged
  <2>1. TimerType' /\ WorldType'
    BY <1>0, <1>12 DEF UpClientChanged, TimerType, WorldType, timers, user
  <2>2. CASE UNCHANGED <<levels, dpms, asked>>
    BY <1>0, <1>12, <2>1, <2>2 DEF UpClientChanged, ScreenType, levels
  <2>3. CASE LidShut
    <3>1. PICK action \in LidTypes :
            \/ UNCHANGED <<levels, dpms, asked>>
            \/ DoPowerAction("SUSPEND") /\ UNCHANGED levels
            \/ /\ SetDpms(FALSE)
               /\ kbd' \in KbdOff(kbd)
               /\ asked' \in {asked, action}
               /\ UNCHANGED <<panel, preDim>>
      BY <2>3 DEF LidShut
    <3>2. ScreenType'
      BY <1>0, <1>12, <3>1, DoPowerActionType, SetDpmsType, KbdOnOffType,
         EnvironmentAssumption
         DEF UpClientChanged, ScreenType, PowerActions, levels
    <3> QED BY <2>1, <3>2
  <2>4. CASE LidOpened
    <3>1. ScreenType'
      BY <1>0, <1>12, <2>4, SetDpmsType, KbdOnOffType
         DEF UpClientChanged, LidOpened, ScreenType
    <3> QED BY <2>1, <3>1
  <2> QED BY <1>12, <2>2, <2>3, <2>4 DEF UpClientChanged
<1>13. CASE Resume
  BY <1>0, <1>13, SetDpmsType
     DEF Resume, ScreenType, TimerType, WorldType, timers, levels, world, user
<1>14. CASE SetScreen
  <2>1. panel' \in PanelLevels /\ userPanel' \in PanelLevels
    BY <1>0, <1>14, SetPanelType DEF SetScreen, ScreenType
  <2> QED BY <1>0, <1>14, <2>1
          DEF SetScreen, ScreenType, TimerType, WorldType, timers, world
<1>15. CASE StepKbd
  <2>1. kbd' \in KbdStates /\ userKbd' \in KbdLevels
    BY <1>0, <1>15, SetKbdType DEF StepKbd, ScreenType, KbdStates
  <2> QED BY <1>0, <1>15, <2>1
          DEF StepKbd, ScreenType, TimerType, WorldType, timers, world
<1>16. CASE SwitchKbd
  <2>1. kbd' \in KbdStates /\ userKbd' \in KbdLevels
    BY <1>0, <1>16, ToggleKbdType DEF SwitchKbd, ScreenType, KbdStates
  <2> QED BY <1>0, <1>16, <2>1
          DEF SwitchKbd, ScreenType, TimerType, WorldType, timers, world
<1>17. CASE UNCHANGED vars
  BY <1>0, <1>17 DEF vars, ScreenType, TimerType, WorldType,
                     timers, levels, world, user
<1> QED BY <1>1, <1>2, <1>3, <1>4, <1>5, <1>6, <1>7, <1>8, <1>9, <1>10,
           <1>11, <1>12, <1>13, <1>14, <1>15, <1>16, <1>17
        DEF Next, SleepTimeout

\* Every variable keeps its type: in particular a dimmed or restored level
\* is always one the panel or the keyboard has, whatever calls fail.
THEOREM TypeCorrect == Spec => []TypeOK
BY InitType, StepType, PTL DEF Spec

(***************************************************************************)
(* The timers                                                              *)
(***************************************************************************)

\* idle_evaluate keeps NoStrayTimer: with X active it cancels what is
\* recorded, and what it arms it records.
LEMMA EvaluateNoStray ==
  ASSUME TypeOK, NoStrayTimer, Evaluate
  PROVE  NoStrayTimer'
<1>1. CASE BeNormal
  BY <1>1 DEF BeNormal, CancelTimers, NoStrayTimer, TypeOK
<1>2. CASE xIdle' /\ ArmTimers
  BY <1>2 DEF ArmTimers, NoStrayTimer, TypeOK
<1> QED BY <1>1, <1>2 DEF Evaluate

LEMMA StepNoStray == TypeOK /\ NoStrayTimer /\ [Next]_vars => NoStrayTimer'
<1> SUFFICES ASSUME TypeOK, NoStrayTimer, [Next]_vars PROVE NoStrayTimer'
  OBVIOUS
<1>1. CASE Evaluate
  BY <1>1, EvaluateNoStray
<1>2. CASE BlankTimeout
  BY <1>2 DEF BlankTimeout, NoStrayTimer
<1>3. CASE SleepInhibited
  BY <1>3 DEF SleepInhibited, NoStrayTimer, TypeOK
<1>4. CASE SleepNow
  BY <1>4 DEF SleepNow, NoStrayTimer
<1>5. CASE UNCHANGED <<xIdle, timers>>
  BY <1>5 DEF NoStrayTimer, timers
<1>6. CASE SettingsChanged /\ ~Evaluate
  BY <1>5, <1>6 DEF SettingsChanged
<1> QED BY <1>1, <1>2, <1>3, <1>4, <1>5, <1>6
        DEF Next, AlarmExpired, IdleReset, SleepTimeout, SleepNotIdle,
            InhibitorsChange, InhibitorSignal, StatusChanged, SessionChanged,
            UpClientChanged, Resume, SetScreen, StepKbd, SwitchKbd, vars

\* Whatever calls fail and however the session is switched, every running
\* blank or sleep timer can be cancelled, and none runs once X is active.
THEOREM NoTimerIsStray == Spec => []NoStrayTimer
<1>1. Init => NoStrayTimer
  BY DEF Init, NoStrayTimer
<1> QED BY <1>1, StepNoStray, TypeCorrect, PTL DEF Spec

(***************************************************************************)
(* The user is never left in front of a dimmed or blanked screen           *)
(***************************************************************************)

\* idle_set_mode (NORMAL) leaves the mode NORMAL or the session inactive.
LEMMA NormalUnlessInactive ==
  ASSUME SetMode("NORMAL")
  PROVE  session' # "INACTIVE" => mode' = "NORMAL"
BY DEF SetMode

LEMMA StepAwake ==
  NoStrayTimer /\ AwakeForUser /\ [Next]_vars => AwakeForUser'
<1> SUFFICES ASSUME NoStrayTimer, AwakeForUser, [Next]_vars,
                    ~xIdle', session' # "INACTIVE"
             PROVE  mode' = "NORMAL"
  BY DEF AwakeForUser
<1>1. CASE Evaluate
  BY <1>1, NormalUnlessInactive DEF Evaluate, BeNormal
<1>2. CASE SessionChanged
  BY <1>2, NormalUnlessInactive DEF SessionChanged
<1>3. CASE UNCHANGED <<xIdle, session, mode>>
  BY <1>3 DEF AwakeForUser
<1>4. CASE BlankTimeout \/ SleepNow
  BY <1>4 DEF BlankTimeout, SleepNow, NoStrayTimer
<1>5. CASE SettingsChanged /\ ~Evaluate
  BY <1>3, <1>5 DEF SettingsChanged
<1> QED BY <1>1, <1>2, <1>3, <1>4, <1>5
        DEF Next, AlarmExpired, IdleReset, SleepTimeout, SleepNotIdle,
            SleepInhibited, InhibitorsChange, InhibitorSignal, StatusChanged,
            UpClientChanged, Resume, SetScreen, StepKbd, SwitchKbd, vars, world

\* An active user on an active session is in mode NORMAL, also when the user
\* came back while the session was inactive and the transition was ignored.
THEOREM UserIsAwake == Spec => []AwakeForUser
<1>1. Init => AwakeForUser
  BY DEF Init, AwakeForUser
<1> QED BY <1>1, StepAwake, NoTimerIsStray, PTL DEF Spec

(***************************************************************************)
(* Inhibitors                                                              *)
(***************************************************************************)

\* Once gnome-session's signal has been handled, an inhibitor for idleness
\* has stopped both timers.
InhibitorObeyed ==
  "idle" \in inhibited /\ ~inhibitSignal => ~blankLive /\ ~sleepLive

LEMMA EvaluateObeys ==
  ASSUME "bus" \notin MayFail, TypeOK, NoStrayTimer, Evaluate,
         "idle" \in inhibited'
  PROVE  ~blankLive' /\ ~sleepLive'
<1>1. BeNormal
  BY DEF Evaluate, Answers
<1> QED BY <1>1 DEF BeNormal, CancelTimers, NoStrayTimer, TypeOK

LEMMA StepObeys ==
  ASSUME "bus" \notin MayFail
  PROVE  TypeOK /\ NoStrayTimer /\ InhibitorObeyed /\ [Next]_vars
           => InhibitorObeyed'
<1> SUFFICES ASSUME TypeOK, NoStrayTimer, InhibitorObeyed, [Next]_vars,
                    "idle" \in inhibited', ~inhibitSignal'
             PROVE  ~blankLive' /\ ~sleepLive'
  BY DEF InhibitorObeyed
<1>1. CASE Evaluate
  BY <1>1, EvaluateObeys
<1>2. CASE UNCHANGED <<timers, inhibited, inhibitSignal>>
  BY <1>2 DEF InhibitorObeyed, timers
<1>3. CASE BlankTimeout \/ SleepInhibited \/ SleepNow
  BY <1>3 DEF BlankTimeout, SleepInhibited, SleepNow, InhibitorObeyed, world
<1>4. CASE SettingsChanged /\ ~Evaluate
  BY <1>2, <1>4 DEF SettingsChanged
<1> QED BY <1>1, <1>2, <1>3, <1>4
        DEF Next, AlarmExpired, IdleReset, SleepTimeout, SleepNotIdle,
            InhibitorsChange, InhibitorSignal, StatusChanged, SessionChanged,
            UpClientChanged, Resume, SetScreen, StepKbd, SwitchKbd, vars, world

\* While gnome-session answers, the idle policy suspends only an idle and
\* uninhibited session: the action property of the runs, for every constant.
THEOREM SleepIsAllowed ==
  ASSUME "bus" \notin MayFail
  PROVE  Spec => SleepOnlyWhenIdle
<1>1. Init => InhibitorObeyed
  BY DEF Init, InhibitorObeyed
<1>2. Spec => []InhibitorObeyed
  BY <1>1, StepObeys, TypeCorrect, NoTimerIsStray, PTL DEF Spec
<1>3. TypeOK /\ NoStrayTimer /\ InhibitorObeyed /\ [Next]_vars
        => [mode # "SLEEP" /\ mode' = "SLEEP"
              => /\ xIdle /\ presenceIdle /\ "suspend" \notin inhibited
                 /\ "idle" \in inhibited => inhibitSignal]_vars
  <2> SUFFICES ASSUME TypeOK, NoStrayTimer, InhibitorObeyed, [Next]_vars,
                      mode # "SLEEP", mode' = "SLEEP"
               PROVE  /\ xIdle /\ presenceIdle /\ "suspend" \notin inhibited
                      /\ "idle" \in inhibited => inhibitSignal
    OBVIOUS
  <2>1. CASE SleepNow
    BY <2>1 DEF SleepNow, NoStrayTimer, InhibitorObeyed, Answers, world,
                TypeOK
  <2>2. CASE ~SleepNow
    <3>1. ~Evaluate
      BY DEF Evaluate, BeNormal, SetMode
    <3>2. ~SetMode("BLANK") /\ ~SetMode("NORMAL")
      BY DEF SetMode
    <3> QED BY <2>2, <3>1, <3>2
            DEF Next, AlarmExpired, IdleReset, BlankTimeout, SleepTimeout,
                SleepNotIdle, SleepInhibited, InhibitorsChange,
                InhibitorSignal, StatusChanged, SettingsChanged,
                SessionChanged, UpClientChanged, Resume, SetScreen, StepKbd,
                SwitchKbd, vars
  <2> QED BY <2>1, <2>2
<1> QED BY <1>2, <1>3, TypeCorrect, NoTimerIsStray, PTL
        DEF Spec, SleepOnlyWhenIdle

(***************************************************************************)
(* What the helpers on levels do while the calls they make succeed         *)
(***************************************************************************)

\* backlight_set_abs then sets the level and says so.
LEMMA SetPanelIs ==
  ASSUME "panel" \notin MayFail, NEW level, NEW r \in SetPanel(level)
  PROVE  r.level = level /\ r.ok
BY DEF SetPanel

LEMMA SetDpmsIs ==
  ASSUME "dpms" \notin MayFail, NEW on, SetDpms(on)
  PROVE  dpms' = on
BY DEF SetDpms, Fails

\* upower_kbd_set_brightness then sets kbd_brightness_now and nothing else.
LEMMA SetKbdIs ==
  ASSUME "kbd" \notin MayFail, NEW k \in KbdStates, NEW level \in KbdLevels,
         NEW r \in SetKbd(k, level)
  PROVE  r.k = [k EXCEPT !.now = level] /\ r.ok
<1>1. r.k.now = level /\ r.ok
  BY DEF SetKbd
<1>2. r.k \in {k, [k EXCEPT !.now = level]}
  BY DEF SetKbd
<1>3. CASE r.k = k
  BY <1>1, <1>3 DEF KbdStates
<1> QED BY <1>1, <1>2, <1>3

\* upower_kbd_toggle then swaps the level with the saved one and back.
LEMMA ToggleKbdIs ==
  ASSUME "kbd" \notin MayFail, NEW k \in KbdStates, NEW t \in ToggleKbd(k)
  PROVE  /\ k.old = -1
              => t = [now |-> 0, old |-> k.now, preDim |-> k.preDim]
         /\ k.old # -1
              => t = [now |-> k.old, old |-> -1, preDim |-> k.preDim]
<1>0. k.old \in KbdLevels \cup {-1}
  BY DEF KbdStates, Saved
<1>1. CASE k.old = -1
  <2>1. 0 \in KbdLevels
    BY LevelsAssumption DEF KbdLevels
  <2>2. PICK r \in SetKbd(k, 0) :
          t = IF r.ok THEN [r.k EXCEPT !.old = k.now] ELSE r.k
    BY <1>1 DEF ToggleKbd
  <2>3. r.k = [k EXCEPT !.now = 0] /\ r.ok
    BY <2>1, SetKbdIs
  <2> QED BY <1>1, <2>2, <2>3 DEF KbdStates
<1>2. CASE k.old # -1
  <2>1. k.old \in KbdLevels /\ k.old >= 0
    BY <1>0, <1>2, LevelsAssumption DEF KbdLevels
  <2>2. PICK r \in SetKbd(k, k.old) :
          t = IF r.ok THEN [r.k EXCEPT !.old = -1] ELSE r.k
    BY <2>1 DEF ToggleKbd
  <2>3. r.k = [k EXCEPT !.now = k.old] /\ r.ok
    BY <2>1, SetKbdIs
  <2> QED BY <1>2, <2>2, <2>3 DEF KbdStates
<1> QED BY <1>1, <1>2

(***************************************************************************)
(* What the user selected is kept                                          *)
(***************************************************************************)

\* The level the user selected is saved while the panel is dimmed and on the
\* panel otherwise; in NORMAL nothing is dimmed.
PanelKept ==
  /\ IF preDim = -1 THEN panel = userPanel ELSE preDim = userPanel
  /\ mode = "NORMAL" => preDim = -1

\* The keyboard's level u the user selected: dimming saves it in
\* kbd_brightness_pre_dim; if it is not dimmed, then it is saved in
\* kbd_brightness_old while the light is off and is on the keyboard
\* otherwise.  A light that was switched off is off.
Kept(k, u) ==
  /\ k.preDim # -1 => k.preDim = u
  /\ k.preDim = -1 => u = IF k.old = -1 THEN k.now ELSE k.old
  /\ k.old # -1 => k.now = 0
  /\ ~KbdPresent => k.old = -1

KbdKept ==
  /\ Kept(kbd, userKbd)
  /\ mode = "NORMAL" => kbd.preDim = -1 /\ (~lidClosed => kbd.old = -1)

\* Switching off (BLANK, the lid closed) keeps the level.
LEMMA KbdOffKeeps ==
  ASSUME "kbd" \notin MayFail, NEW k \in KbdStates, NEW u \in KbdLevels,
         Kept(k, u), NEW t \in KbdOff(k)
  PROVE  Kept(t, u) /\ t.preDim = k.preDim
<1>1. CASE KbdPresent /\ k.old = -1
  <2>1. t = [now |-> 0, old |-> k.now, preDim |-> k.preDim]
    BY <1>1, ToggleKbdIs DEF KbdOff
  <2>2. k.now # -1
    BY LevelsAssumption DEF KbdStates, KbdLevels
  <2> QED BY <1>1, <2>1, <2>2 DEF Kept
<1>2. CASE ~(KbdPresent /\ k.old = -1)
  BY <1>2 DEF KbdOff
<1> QED BY <1>1, <1>2

\* Switching on again (NORMAL, the lid opened) keeps the level as well.
LEMMA KbdOnKeeps ==
  ASSUME "kbd" \notin MayFail, NEW k \in KbdStates, NEW u \in KbdLevels,
         Kept(k, u), NEW t \in KbdOn(k)
  PROVE  Kept(t, u) /\ t.preDim = k.preDim /\ t.old = -1
<1>1. CASE KbdPresent /\ k.old # -1
  <2>1. t = [now |-> k.old, old |-> -1, preDim |-> k.preDim]
    BY <1>1, ToggleKbdIs DEF KbdOn
  <2> QED BY <1>1, <2>1 DEF Kept
<1>2. CASE ~(KbdPresent /\ k.old # -1)
  BY <1>2, EnvironmentAssumption DEF KbdOn, Kept
<1> QED BY <1>1, <1>2

\* kbd_backlight_dim saves the level before it lowers it.  A keyboard that
\* is off has level 0 and is not dimmed: this is where DimKbd > 0 is needed.
LEMMA DimKbdKeeps ==
  ASSUME "kbd" \notin MayFail, DimKbd > 0,
         NEW k \in KbdStates, NEW u \in KbdLevels,
         Kept(k, u), k.preDim = -1, NEW t \in DimKbdResults(k)
  PROVE  Kept(t, u)
<1>1. CASE ~KbdPresent \/ DimKbd > k.now
  BY <1>1 DEF DimKbdResults
<1>2. CASE KbdPresent /\ ~(DimKbd > k.now)
  <2>1. k.now \in KbdLevels /\ DimKbd \in KbdLevels /\ k.now # 0 /\ k.now # -1
    BY <1>2, LevelsAssumption DEF KbdStates, KbdLevels
  <2>2. k.old = -1 /\ u = k.now
    BY <2>1 DEF Kept
  <2>3. PICK r \in SetKbd(k, DimKbd) :
          t = IF r.ok THEN [r.k EXCEPT !.preDim = k.now] ELSE k
    BY <1>2 DEF DimKbdResults
  <2>4. r.k = [k EXCEPT !.now = DimKbd] /\ r.ok
    BY <2>1, SetKbdIs
  <2>5. t = [now |-> DimKbd, old |-> k.old, preDim |-> k.now]
    BY <2>3, <2>4 DEF KbdStates
  <2> QED BY <1>2, <2>1, <2>2, <2>5 DEF Kept
<1> QED BY <1>1, <1>2, EnvironmentAssumption

\* NORMAL undoes the dimming of a keyboard that is on.
LEMMA UndimKbdKeeps ==
  ASSUME "kbd" \notin MayFail, NEW k \in KbdStates, NEW u \in KbdLevels,
         Kept(k, u), k.old = -1, NEW t \in UndimKbd(k)
  PROVE  Kept(t, u) /\ t.preDim = -1 /\ t.old = -1
<1>0. k.preDim \in KbdLevels \cup {-1}
  BY DEF KbdStates, Saved
<1>1. CASE k.preDim = -1
  BY <1>1 DEF UndimKbd
<1>2. CASE k.preDim # -1
  <2>1. k.preDim \in KbdLevels /\ k.preDim >= 0
    BY <1>0, <1>2, LevelsAssumption DEF KbdLevels
  <2>2. PICK r \in SetKbd(k, k.preDim) : t = [r.k EXCEPT !.preDim = -1]
    BY <2>1 DEF UndimKbd
  <2>3. r.k = [k EXCEPT !.now = k.preDim]
    BY <2>1, SetKbdIs
  <2>4. t = [now |-> k.preDim, old |-> k.old, preDim |-> -1]
    BY <2>2, <2>3 DEF KbdStates
  <2> QED BY <1>2, <2>4 DEF Kept
<1> QED BY <1>1, <1>2

(***************************************************************************)
(* The panel                                                               *)
(***************************************************************************)

LEMMA DimDisplayKeeps ==
  ASSUME "panel" \notin MayFail, panel \in PanelLevels, PanelKept,
         preDim = -1, DimDisplay, userPanel' = userPanel, mode' = "DIM"
  PROVE  PanelKept'
<1>1. CASE UNCHANGED <<panel, preDim>>
  BY <1>1 DEF PanelKept
<1>2. CASE /\ DimPanel <= panel
           /\ \E r \in SetPanel(DimPanel) :
                /\ panel' = r.level
                /\ preDim' = IF r.ok THEN panel ELSE preDim
  <2>1. preDim' = panel
    BY <1>2, SetPanelIs
  <2>2. panel # -1
    BY LevelsAssumption DEF PanelLevels
  <2> QED BY <2>1, <2>2 DEF PanelKept
<1> QED BY <1>1, <1>2 DEF DimDisplay

LEMMA RestoreDisplayRestores ==
  ASSUME "panel" \notin MayFail, preDim \in Saved(PanelLevels), PanelKept,
         RestoreDisplay, userPanel' = userPanel
  PROVE  PanelKept' /\ preDim' = -1
<1>1. CASE preDim >= 0
  <2>1. PICK r \in SetPanel(preDim) :
          panel' = r.level /\ preDim' = IF r.ok THEN -1 ELSE preDim
    BY <1>1 DEF RestoreDisplay
  <2>2. panel' = preDim /\ preDim' = -1
    BY <2>1, SetPanelIs
  <2> QED BY <1>1, <2>2 DEF PanelKept
<1>2. CASE ~(preDim >= 0)
  <2>1. preDim = -1
    BY <1>2, LevelsAssumption DEF Saved, PanelLevels
  <2> QED BY <1>2, <2>1 DEF RestoreDisplay, PanelKept
<1> QED BY <1>1, <1>2

\* DIM is entered only from NORMAL, which idle_evaluate sees to: the level
\* in pre_dim_brightness is never overwritten by a dimmed one.
LEMMA SetModeKeepsPanel ==
  ASSUME "panel" \notin MayFail, TypeOK, PanelKept, NEW m \in Modes,
         SetMode(m), m = "DIM" => mode = "NORMAL", userPanel' = userPanel
  PROVE  PanelKept'
<1> USE DEF TypeOK
<1>1. CASE UNCHANGED <<mode, levels, dpms, asked>>
  BY <1>1 DEF PanelKept, levels
<1>2. CASE m = "DIM" /\ mode' = "DIM" /\ EnterDim
  <2>1. preDim = -1
    BY <1>2 DEF PanelKept
  <2>2. CASE DimDisplay
    BY <1>2, <2>1, <2>2, DimDisplayKeeps
  <2>3. CASE UNCHANGED levels
    BY <1>2, <2>3 DEF PanelKept, levels
  <2> QED BY <1>2, <2>2, <2>3 DEF EnterDim
<1>3. CASE mode' = "BLANK" /\ EnterBlank
  BY <1>3 DEF EnterBlank, PanelKept
<1>4. CASE mode' = "SLEEP" /\ EnterSleep
  BY <1>4 DEF EnterSleep, PanelKept, levels
<1>5. CASE mode' = "NORMAL" /\ EnterNormal
  BY <1>5, RestoreDisplayRestores DEF EnterNormal
<1> QED BY <1>1, <1>2, <1>3, <1>4, <1>5 DEF SetMode

LEMMA EvaluateKeepsPanel ==
  ASSUME "panel" \notin MayFail, TypeOK, PanelKept, Evaluate,
         userPanel' = userPanel
  PROVE  PanelKept'
<1>1. CASE SetMode("NORMAL")
  BY <1>1, SetModeKeepsPanel DEF Modes
<1>2. CASE mode = "NORMAL" /\ SetMode("DIM")
  BY <1>2, SetModeKeepsPanel DEF Modes
<1>3. CASE UNCHANGED <<mode, levels, dpms, asked>>
  BY <1>3 DEF PanelKept, levels
<1> QED BY <1>1, <1>2, <1>3 DEF Evaluate, BeNormal

LEMMA StepKeepsPanel ==
  ASSUME "panel" \notin MayFail, "adjust" \notin UserMay,
         TypeOK, PanelKept, [Next]_vars
  PROVE  PanelKept'
<1>1. CASE Evaluate /\ UNCHANGED user
  BY <1>1, EvaluateKeepsPanel DEF user
<1>2. CASE SetMode("NORMAL") /\ UNCHANGED user
  BY <1>2, SetModeKeepsPanel DEF Modes, user
<1>3. CASE SetMode("BLANK") /\ UNCHANGED user
  BY <1>3, SetModeKeepsPanel DEF Modes, user
<1>4. CASE SetMode("SLEEP") /\ UNCHANGED user
  BY <1>4, SetModeKeepsPanel DEF Modes, user
<1>5. CASE UNCHANGED <<mode, panel, preDim, userPanel>>
  BY <1>5 DEF PanelKept
<1>6. CASE SetScreen
  <2>1. preDim = -1
    BY <1>6 DEF SetScreen, MayAdjust, PanelKept
  <2>2. panel' = userPanel'
    BY <1>6 DEF SetScreen
  <2> QED BY <1>6, <2>1, <2>2 DEF SetScreen, PanelKept
<1>7. CASE UpClientChanged
  BY <1>5, <1>7 DEF UpClientChanged, LidShut, LidOpened, levels, user
<1>8. CASE SettingsChanged
  BY <1>1, <1>5, <1>8 DEF SettingsChanged, levels, user
<1>9. CASE BlankTimeout
  BY <1>3, <1>5, <1>9 DEF BlankTimeout, levels, user
<1>10. CASE SleepTimeout
  BY <1>4, <1>5, <1>10 DEF SleepTimeout, SleepInhibited, SleepNotIdle,
                          SleepNow, vars, levels, user
<1>11. CASE InhibitorsChange \/ Resume \/ StepKbd \/ SwitchKbd
  BY <1>5, <1>11 DEF InhibitorsChange, Resume, StepKbd, SwitchKbd, levels, user
<1>12. CASE AlarmExpired \/ IdleReset \/ InhibitorSignal \/ StatusChanged
  BY <1>1, <1>12 DEF AlarmExpired, IdleReset, InhibitorSignal, StatusChanged
<1>13. CASE SessionChanged
  BY <1>2, <1>13 DEF SessionChanged
<1>14. CASE UNCHANGED vars
  BY <1>5, <1>14 DEF vars, levels, user
<1> QED BY <1>6, <1>7, <1>8, <1>9, <1>10, <1>11, <1>12, <1>13, <1>14 DEF Next

LEMMA PanelIsKept ==
  ASSUME "panel" \notin MayFail, "adjust" \notin UserMay
  PROVE  Spec => []PanelKept
<1>1. Init => PanelKept
  BY DEF Init, PanelKept
<1>2. TypeOK /\ PanelKept /\ [Next]_vars => PanelKept'
  BY StepKeepsPanel
<1> QED BY <1>1, <1>2, TypeCorrect, PTL DEF Spec

\* As long as setting the panel works and the user moves it only while it is
\* not dimmed, the level the user selected is never forgotten, in whatever
\* order dimming, blanking, sleeping, the lid and the session come.
THEOREM PanelNotForgotten ==
  ASSUME "panel" \notin MayFail, "adjust" \notin UserMay
  PROVE  Spec => []UserPanelKept
<1>1. PanelKept => UserPanelKept
  BY DEF PanelKept, UserPanelKept
<1> QED BY <1>1, PanelIsKept, PTL

(***************************************************************************)
(* The keyboard                                                            *)
(***************************************************************************)

LEMMA SetModeKeepsKbd ==
  ASSUME "kbd" \notin MayFail, DimKbd > 0, TypeOK, KbdKept, NEW m \in Modes,
         SetMode(m), m = "DIM" => mode = "NORMAL",
         userKbd' = userKbd, lidClosed' = lidClosed
  PROVE  KbdKept'
<1> USE DEF TypeOK
<1>1. CASE UNCHANGED <<mode, levels, dpms, asked>>
  BY <1>1 DEF KbdKept, Kept, levels
<1>2. CASE m = "DIM" /\ mode' = "DIM" /\ EnterDim
  <2>1. kbd.preDim = -1 /\ Kept(kbd, userKbd)
    BY <1>2 DEF KbdKept
  <2>2. Kept(kbd', userKbd)
    <3>1. CASE kbd' \in DimKbdResults(kbd)
      BY <2>1, <3>1, DimKbdKeeps
    <3>2. CASE UNCHANGED levels
      BY <2>1, <3>2 DEF levels
    <3> QED BY <1>2, <3>1, <3>2 DEF EnterDim
  <2> QED BY <1>2, <2>2 DEF KbdKept, Kept
<1>3. CASE mode' = "BLANK" /\ EnterBlank
  <2>1. kbd' \in KbdOff(kbd) /\ Kept(kbd, userKbd)
    BY <1>3 DEF EnterBlank, KbdKept
  <2>2. Kept(kbd', userKbd)
    BY <2>1, KbdOffKeeps
  <2> QED BY <1>3, <2>2 DEF KbdKept, Kept
<1>4. CASE mode' = "SLEEP" /\ EnterSleep
  BY <1>4 DEF EnterSleep, KbdKept, Kept, levels
<1>5. CASE mode' = "NORMAL" /\ EnterNormal
  <2>1. PICK k \in KbdOn(kbd) : kbd' \in UndimKbd(k)
    BY <1>5 DEF EnterNormal
  <2>2. k \in KbdStates
    BY <2>1, KbdOnOffType
  <2>3. Kept(kbd, userKbd)
    BY DEF KbdKept
  <2>4. Kept(k, userKbd) /\ k.old = -1
    BY <2>1, <2>3, KbdOnKeeps
  <2>5. Kept(kbd', userKbd) /\ kbd'.preDim = -1 /\ kbd'.old = -1
    BY <2>1, <2>2, <2>4, UndimKbdKeeps
  <2> QED BY <1>5, <2>5 DEF KbdKept, Kept
<1> QED BY <1>1, <1>2, <1>3, <1>4, <1>5 DEF SetMode

LEMMA EvaluateKeepsKbd ==
  ASSUME "kbd" \notin MayFail, DimKbd > 0, TypeOK, KbdKept, Evaluate,
         userKbd' = userKbd, lidClosed' = lidClosed
  PROVE  KbdKept'
<1>1. CASE SetMode("NORMAL")
  BY <1>1, SetModeKeepsKbd DEF Modes
<1>2. CASE mode = "NORMAL" /\ SetMode("DIM")
  BY <1>2, SetModeKeepsKbd DEF Modes
<1>3. CASE UNCHANGED <<mode, levels, dpms, asked>>
  BY <1>3 DEF KbdKept, Kept, levels
<1> QED BY <1>1, <1>2, <1>3 DEF Evaluate, BeNormal

\* Closing the lid switches the light off, unless it is off; opening it
\* switches it on, also in BLANK.
LEMMA LidKeepsKbd ==
  ASSUME "kbd" \notin MayFail, TypeOK, KbdKept, UpClientChanged
  PROVE  KbdKept'
<1> USE DEF TypeOK
<1>0. Kept(kbd, userKbd) /\ UNCHANGED <<mode, userKbd>>
  BY DEF KbdKept, UpClientChanged, user
<1>1. CASE lidClosed' = lidClosed /\ UNCHANGED levels
  BY <1>0, <1>1 DEF KbdKept, Kept, levels
<1>2. CASE lidClosed' /\ LidShut
  <2>1. CASE UNCHANGED levels
    BY <1>0, <1>2, <2>1 DEF KbdKept, Kept, levels
  <2>2. CASE kbd' \in KbdOff(kbd)
    <3>1. Kept(kbd', userKbd) /\ kbd'.preDim = kbd.preDim
      BY <1>0, <2>2, KbdOffKeeps
    <3> QED BY <1>0, <1>2, <3>1 DEF KbdKept, Kept
  <2> QED BY <1>2, <2>1, <2>2 DEF LidShut, levels
<1>3. CASE LidOpened
  <2>1. Kept(kbd', userKbd) /\ kbd'.preDim = kbd.preDim /\ kbd'.old = -1
    BY <1>0, <1>3, KbdOnKeeps DEF LidOpened
  <2> QED BY <1>0, <2>1 DEF KbdKept, Kept
<1> QED BY <1>1, <1>2, <1>3 DEF UpClientChanged, levels

LEMMA StepKeepsKbd ==
  ASSUME "kbd" \notin MayFail, DimKbd > 0, UserMay = {},
         TypeOK, KbdKept, [Next]_vars
  PROVE  KbdKept'
<1>1. CASE Evaluate /\ UNCHANGED <<user, lidClosed>>
  BY <1>1, EvaluateKeepsKbd DEF user
<1>2. CASE SetMode("NORMAL") /\ UNCHANGED <<user, lidClosed>>
  BY <1>2, SetModeKeepsKbd DEF Modes, user
<1>3. CASE SetMode("BLANK") /\ UNCHANGED <<user, lidClosed>>
  BY <1>3, SetModeKeepsKbd DEF Modes, user
<1>4. CASE SetMode("SLEEP") /\ UNCHANGED <<user, lidClosed>>
  BY <1>4, SetModeKeepsKbd DEF Modes, user
<1>5. CASE UNCHANGED <<mode, kbd, userKbd, lidClosed>>
  BY <1>5 DEF KbdKept, Kept
<1>6. CASE StepKbd
  <2>1. PICK level \in KbdLevels : \E r \in SetKbd(kbd, level) :
          kbd' = r.k /\ userKbd' = r.k.now
    BY <1>6 DEF StepKbd
  <2>2. kbd' = [kbd EXCEPT !.now = level] /\ userKbd' = kbd'.now
    BY <2>1, SetKbdIs DEF TypeOK
  <2>3. mode = "NORMAL" /\ kbd.old = -1 /\ kbd.preDim = -1
    BY <1>6 DEF StepKbd, MayAdjust, KbdKept
  <2>4. kbd' = [now |-> level, old |-> -1, preDim |-> -1]
    BY <2>2, <2>3 DEF TypeOK, KbdStates
  <2> QED BY <1>6, <2>2, <2>4 DEF StepKbd, KbdKept, Kept
<1>7. CASE UpClientChanged
  BY <1>7, LidKeepsKbd
<1>8. CASE SettingsChanged
  BY <1>1, <1>5, <1>8 DEF SettingsChanged, levels, user
<1>9. CASE BlankTimeout
  BY <1>3, <1>5, <1>9 DEF BlankTimeout, levels, user, world
<1>10. CASE SleepTimeout
  BY <1>4, <1>5, <1>10 DEF SleepTimeout, SleepInhibited, SleepNotIdle,
                          SleepNow, vars, levels, user, world
<1>11. CASE InhibitorsChange \/ Resume \/ SetScreen
  BY <1>5, <1>11 DEF InhibitorsChange, Resume, SetScreen, levels, user, world
<1>12. CASE AlarmExpired \/ IdleReset \/ InhibitorSignal \/ StatusChanged
  BY <1>1, <1>12 DEF AlarmExpired, IdleReset, InhibitorSignal, StatusChanged,
                     world
<1>13. CASE SessionChanged
  BY <1>2, <1>13 DEF SessionChanged
<1>14. CASE UNCHANGED vars
  BY <1>5, <1>14 DEF vars, levels, user, world
<1>15. ~SwitchKbd
  BY DEF SwitchKbd
<1> QED BY <1>6, <1>7, <1>8, <1>9, <1>10, <1>11, <1>12, <1>13, <1>14, <1>15
        DEF Next

LEMMA KbdIsKept ==
  ASSUME "kbd" \notin MayFail, DimKbd > 0, UserMay = {}
  PROVE  Spec => []KbdKept
<1>1. Init => KbdKept
  BY DEF Init, KbdKept, Kept
<1>2. TypeOK /\ KbdKept /\ [Next]_vars => KbdKept'
  BY StepKeepsKbd
<1> QED BY <1>1, <1>2, TypeCorrect, PTL DEF Spec

\* The keyboard's level survives dimming and switching off, which save it in
\* two variables, in every order the idle modes and the lid allow.  The two
\* must not be confused: a keyboard dimmed to 0 is (DimKbd > 0).
THEOREM KbdNotForgotten ==
  ASSUME "kbd" \notin MayFail, DimKbd > 0, UserMay = {}
  PROVE  Spec => []UserKbdKept
<1>1. KbdKept => UserKbdKept
  BY DEF KbdKept, Kept, UserKbdKept
<1> QED BY <1>1, KbdIsKept, PTL

(***************************************************************************)
(* Back in NORMAL                                                          *)
(***************************************************************************)

\* In NORMAL the screen is powered, unless closing the lid switched it off.
Powered == mode = "NORMAL" /\ ~lidClosed => dpms

LEMMA SetModePowers ==
  ASSUME "dpms" \notin MayFail, Powered, NEW m, SetMode(m),
         lidClosed' = lidClosed
  PROVE  Powered'
BY SetDpmsIs DEF SetMode, EnterDim, EnterBlank, EnterSleep, EnterNormal, Powered

LEMMA StepPowers ==
  ASSUME "dpms" \notin MayFail, TypeOK, Powered, [Next]_vars
  PROVE  Powered'
<1>1. CASE UNCHANGED lidClosed /\ \E m \in Modes : SetMode(m)
  BY <1>1, SetModePowers
<1>2. CASE UNCHANGED <<mode, lidClosed, dpms>>
  BY <1>2 DEF Powered
<1>3. Evaluate => \/ \E m \in Modes : SetMode(m)
                  \/ UNCHANGED <<mode, dpms>>
  BY DEF Evaluate, BeNormal, Modes
<1>4. CASE UpClientChanged
  <2>1. CASE lidClosed' = lidClosed
    BY <1>2, <1>4, <2>1 DEF UpClientChanged, TypeOK
  <2>2. CASE lidClosed'
    BY <2>2 DEF Powered
  <2>3. CASE LidOpened
    BY <2>3, SetDpmsIs DEF LidOpened, Powered
  <2> QED BY <1>4, <2>1, <2>2, <2>3 DEF UpClientChanged
<1>5. CASE Resume
  BY <1>5, SetDpmsIs DEF Resume, Powered
<1>6. CASE SettingsChanged
  BY <1>1, <1>2, <1>3, <1>6 DEF SettingsChanged
<1>7. CASE BlankTimeout \/ SleepTimeout
  BY <1>1, <1>2, <1>7 DEF BlankTimeout, SleepTimeout, SleepInhibited,
                          SleepNotIdle, SleepNow, Modes, vars, world
<1>8. CASE InhibitorsChange \/ SetScreen \/ StepKbd \/ SwitchKbd
  BY <1>2, <1>8 DEF InhibitorsChange, SetScreen, StepKbd, SwitchKbd, world
<1>9. CASE AlarmExpired \/ IdleReset \/ InhibitorSignal \/ StatusChanged
  BY <1>1, <1>2, <1>3, <1>9
     DEF AlarmExpired, IdleReset, InhibitorSignal, StatusChanged, world
<1>10. CASE SessionChanged
  BY <1>1, <1>10 DEF SessionChanged, Modes
<1>11. CASE UNCHANGED vars
  BY <1>2, <1>11 DEF vars, world
<1> QED BY <1>4, <1>5, <1>6, <1>7, <1>8, <1>9, <1>10, <1>11 DEF Next

LEMMA ScreenIsPowered ==
  ASSUME "dpms" \notin MayFail
  PROVE  Spec => []Powered
<1>1. Init => Powered
  BY DEF Init, Powered
<1>2. TypeOK /\ Powered /\ [Next]_vars => Powered'
  BY StepPowers
<1> QED BY <1>1, <1>2, TypeCorrect, PTL DEF Spec

\* In NORMAL everything is as the user left it: both backlights and, with
\* the lid open, the power of the screen.  Calls to gnome-session may fail,
\* calls to the panel, the keyboard and X may not.
THEOREM EverythingRestored ==
  ASSUME MayFail \subseteq {"bus"}, DimKbd > 0, UserMay = {}
  PROVE  Spec => []NormalIsRestored
<1>1. PanelKept /\ KbdKept /\ Powered => NormalIsRestored
  BY DEF PanelKept, KbdKept, Kept, Powered, NormalIsRestored
<1>2. /\ "panel" \notin MayFail /\ "kbd" \notin MayFail
      /\ "dpms" \notin MayFail /\ "adjust" \notin UserMay
  OBVIOUS
<1> QED BY <1>1, <1>2, PanelIsKept, KbdIsKept, ScreenIsPowered, PTL
=============================================================================
