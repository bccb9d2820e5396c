----------------------------- MODULE PowerParts -----------------------------
(* What the power plugin does beside its idle policy and batteries: the    *)
(* plan that films replace, the panel's brightness as keys step it, and    *)
(* the battery of a phone.                                                 *)
EXTENDS Integers, Sequences

-----------------------------------------------------------------------------
(* The plan of the power settings, its time limits, and the plan for films    *)
(* that replaces it while a player's window is in front in full screen.       *)
CONSTANTS
  Windows, Players,  \* Players are those whose command line names a player
  Plans, High,       \* High is one of Plans
  Known,             \* the plans of powers.xml
  NoWindow, NoPlan,
  MaxPlanActs            \* bounds what the user does, starts and stops

VARIABLES
  running,    \* the power plugin
  plan,       \* the setting current-plan
  told,       \* a change of it is not handled yet
  limits,     \* the plan whose limits the settings have, or NoPlan
  active,     \* the window in front
  full,       \* windows in full screen
  also,       \* windows of which another state changed, not seen yet
  seen,       \* of active and full, by the library
  listening,  \* the window whose state is listened to
  userPlan, activeSet, hasSet,
  wanted,     \* history: the user's plan
  mixed,      \* history: the two ways to replace it met, or one was missed
  missed,     \* history: limits were set, or a change was, without the plugin
  planActs

ends == <<wanted, mixed, missed, planActs>>
movie == <<userPlan, activeSet, hasSet>>
planVars == <<running, plan, told, limits, active, full, also, seen, listening,
              movie, ends>>

PlanInit ==
  /\ running = FALSE /\ plan \in Plans /\ told = FALSE /\ limits = plan
  /\ active = NoWindow /\ full = {} /\ also = {}
  /\ seen = [active |-> NoWindow, full |-> {}]
  /\ listening = NoWindow /\ userPlan = NoPlan /\ activeSet = FALSE /\ hasSet = FALSE
  /\ wanted = plan /\ mixed = FALSE /\ missed = FALSE /\ planActs = 0

PlanActs == planActs < MaxPlanActs /\ planActs' = planActs + 1

\* The setting changes; without the plugin nobody hears of it.
ChangePlan(p) ==
  /\ plan' = p /\ told' = (told \/ (running /\ p # plan))
  /\ missed' = (missed \/ (~running /\ p # plan))

\* set_power_plan: without a plan nothing is done.
SetPlan(p) == IF p = NoPlan THEN UNCHANGED <<plan, told, missed>> ELSE ChangePlan(p)

-----------------------------------------------------------------------------
\* init_power_movie, deepin_power_init: nothing is read or applied yet.
PlanStart ==
  /\ PlanActs /\ ~running /\ running' = TRUE
  /\ UNCHANGED <<plan, told, limits, active, full, also, seen, listening, movie,
                 wanted, mixed, missed>>

\* finalize_reset_power, deepin_power_cleanup: the flags are kept.
PlanStop ==
  /\ PlanActs /\ running /\ running' = FALSE /\ told' = FALSE /\ missed' = (missed \/ told)
  /\ listening' = IF listening = seen.active THEN NoWindow ELSE listening
  /\ userPlan' = NoPlan /\ mixed' = (mixed \/ activeSet \/ hasSet)
  /\ UNCHANGED <<plan, limits, active, full, also, seen, activeSet, hasSet, wanted>>

Focus(w) ==
  /\ PlanActs /\ w # active /\ active' = w
  /\ UNCHANGED <<running, plan, told, limits, full, also, seen, listening, movie,
                 wanted, mixed, missed>>

\* Also when another of its states changes at once.
Toggle(w, another) ==
  /\ PlanActs /\ full' = (full \ {w}) \cup ({w} \ full)
         /\ also' = IF another THEN also \cup {w} ELSE also
  /\ UNCHANGED <<running, plan, told, limits, active, seen, listening, movie,
                 wanted, mixed, missed>>

UserSetsPlan(p) ==
  /\ PlanActs /\ p # plan /\ ChangePlan(p) /\ wanted' = p
         /\ mixed' = (mixed \/ activeSet \/ hasSet)
  /\ UNCHANGED <<running, limits, active, full, also, seen, listening, movie>>

UserSetsLimits ==
  /\ PlanActs /\ limits' = NoPlan /\ missed' = TRUE
  /\ UNCHANGED <<running, plan, told, active, full, also, seen, listening, movie,
                 wanted, mixed>>

-----------------------------------------------------------------------------
\* A bug: the user's plan is asked for when it was replaced already.
KeepLate == userPlan' = High /\ SetPlan(High)

\* get_user_power_plan, then the plan for films
Keep == userPlan' = plan /\ SetPlan(High)

\* power_setting_is_change starts its search at an index that is never set.
Recognized(w) == IF w \in Players THEN BOOLEAN ELSE {FALSE}

\* on_active_window_changed
ActiveChanged(w) ==
  /\ listening' = w
  /\ IF w \in seen.full
     THEN \E ok \in Recognized(w) :
            /\ IF ok THEN activeSet' = TRUE /\ Keep ELSE UNCHANGED <<activeSet, userPlan,
                                                                     plan, told, missed>>
            /\ mixed' = (mixed \/ hasSet \/ (w \in Players /\ ~ok) \/ (ok /\ activeSet))
     ELSE /\ IF activeSet /\ w # NoWindow THEN activeSet' = FALSE /\ SetPlan(userPlan)
             ELSE UNCHANGED <<activeSet, plan, told, missed>>
          /\ mixed' = (mixed \/ hasSet) /\ UNCHANGED userPlan
  /\ UNCHANGED hasSet

SeeActive ==
  /\ seen.active # active /\ seen' = [seen EXCEPT !.active = active]
  /\ IF running THEN ActiveChanged(active)
     ELSE UNCHANGED <<plan, told, listening, movie, mixed, missed>>
  /\ UNCHANGED <<running, limits, active, full, also, wanted, planActs>>

\* on_state_changed: each change is taken for the opposite of the last one.
PlanStateChanged(w) ==
  /\ \E ok \in Recognized(w) :
       /\ IF ~ok THEN UNCHANGED <<hasSet, userPlan, plan, told, missed>>
          ELSE hasSet' = ~hasSet /\ IF hasSet THEN SetPlan(userPlan)
              /\ UNCHANGED userPlan ELSE Keep
       /\ mixed' = (mixed \/ activeSet \/ (w \in Players /\ ~ok))
  /\ UNCHANGED activeSet

SeeState(w) ==
  /\ LET changed == (w \in full) # (w \in seen.full)
     IN /\ changed \/ w \in also
        /\ IF running /\ w = listening /\ changed /\ w \notin also THEN PlanStateChanged(w)
           ELSE /\ mixed' = (mixed \/ (w = listening /\ changed /\ (w \in Players \/ activeSet)))
                /\ UNCHANGED <<plan, told, movie, missed>>
  /\ seen' = [seen EXCEPT !.full = (@ \ {w}) \cup ({w} \cap full)] /\ also' = also \ {w}
  /\ UNCHANGED <<running, limits, active, full, listening, wanted, planActs>>

\* A bug: the plan that films replaced is applied.
PlanChangedUser == told /\ told' = FALSE /\ limits' = userPlan /\ missed' = FALSE

\* deepin_power_using_current_plan: a plan that is not in the file changes nothing.
PlanChanged ==
  /\ told /\ told' = FALSE /\ limits' = IF plan \in Known THEN plan ELSE limits
  /\ missed' = FALSE

PlanHear ==
  /\ PlanChanged
  /\ UNCHANGED <<running, plan, active, full, also, seen, listening, movie, wanted,
                 mixed, planActs>>

PlanNext ==
  \/ PlanStart \/ PlanStop \/ SeeActive \/ PlanHear \/ UserSetsLimits
  \/ \E w \in Windows \cup {NoWindow} : Focus(w)
  \/ \E w \in Windows : SeeState(w) \/ \E another \in BOOLEAN : Toggle(w, another)
  \/ \E p \in Plans : UserSetsPlan(p)

PlanSpec == PlanInit /\ [][PlanNext]_planVars

-----------------------------------------------------------------------------
PlanTypeOK ==
  /\ {running, told, activeSet, hasSet, mixed, missed} \subseteq BOOLEAN
  /\ plan \in Plans /\ wanted \in Plans /\ {limits, userPlan} \subseteq Plans \cup {NoPlan}
  /\ {active, listening, seen.active} \subseteq Windows \cup {NoWindow}
  /\ full \cup also \cup seen.full \subseteq Windows /\ planActs \in 0..MaxPlanActs

Seen == seen = [active |-> active, full |-> full]

(* When the change of the plan was heard the limits are those of the plan,   *)
(* unless limits were set themselves since, or the plan was while the plugin *)
(* did not run: a start does not apply it (deepin_power_init,                *)
(* m_settings_current_plan_changed).                                         *)
PlanApplies == ~told /\ ~missed /\ plan \in Known => limits = plan

(* A film in full screen and in front has the plan for films, and behind a   *)
(* window that is not in full screen the user's plan is back, unless the     *)
(* focus moved from a window that was put in full screen while it was in     *)
(* front, one came to the front in full screen and then left it, a player    *)
(* was not recognised, two of its states changed at once, a film took the    *)
(* place of another whose plan was still in use, the plugin was stopped or   *)
(* the user chose a plan meanwhile (on_active_window_changed,                *)
(* on_state_changed).                                                        *)
FilmsArePlayed ==
  Seen /\ running /\ ~mixed /\ listening = active /\ active # NoWindow =>
    /\ active \in full \cap Players => plan = High
    /\ active \notin full => plan = wanted

-----------------------------------------------------------------------------
(* The brightness of the panel as it is set over D-Bus, and the keys that     *)
(* step it: the media-keys plugin asks for the percentage, then for the step. *)
CONSTANTS
  Panels,      \* [path: "xrandr" or "helper", min, max]
  Percents,    \* what a slider sets
  MaxBrightnessActs      \* bounds keys, the slider, dimming and failures

VARIABLES
  panel,       \* the machine's
  level,       \* of the panel
  power,       \* the power plugin runs
  calls,       \* to the power plugin: [ask, old], old is the percentage before
  answers,     \* to the media-keys plugin: [ask, old, value], -1 for an error
  osd,         \* the last percentage shown, 101 and -1 for more and less than there is
  brightness,  \* of Deepin's setting, in percent
  apart,       \* history: while keys were handled, or since, another set the level, or a call failed
  slid,        \* history: the level was set by a slider last
  hasty,       \* history: a key was pressed while another was handled
  panelActs

panelVars == <<panel, level, power, calls, answers, osd, brightness, apart, slid,
               hasty, panelActs>>

Unshown == -2

PanelInit ==
  /\ panel \in Panels /\ level = panel.max /\ power = TRUE /\ calls = <<>> /\ answers = <<>>
  /\ osd = Unshown /\ brightness = 100 /\ apart = FALSE /\ slid = FALSE
  /\ hasty = FALSE /\ panelActs = 0

PanelActs == panelActs < MaxBrightnessActs /\ panelActs' = panelActs + 1

Lesser(a, b) == IF a < b THEN a ELSE b
Greater(a, b) == IF a > b THEN a ELSE b

\* BRIGHTNESS_STEP_AMOUNT of the number of levels
Step == IF panel.max - panel.min + 1 < 20 THEN 1 ELSE (panel.max - panel.min + 1) \div 20

\* ABS_TO_PERCENTAGE, PERCENTAGE_TO_ABS
Percentage(v) ==
  IF v \in panel.min..panel.max THEN ((v - panel.min) * 100) \div (panel.max - panel.min)
      ELSE -1
Absolute(p) == panel.min + ((panel.max - panel.min) * p) \div 100

-----------------------------------------------------------------------------
\* backlight_step_up
Upper == Lesser(level + Step, panel.max)

\* A bug: nothing is added again.
LowerDark == Greater(level - Step, 0)

\* backlight_step_down: XRandR's panel is not switched off, one level is added.
Lower ==
  LET down == Greater(level - Step, 0)
  IN IF panel.path = "xrandr" /\ down < panel.max THEN down + 1 ELSE down

\* handle_method_call_screen: the helper's failure counts as success.
Answer(call, value) == answers' =
    Append(answers, [ask |-> call.ask, old |-> call.old, value |-> value])

Serve ==
  /\ calls # <<>> /\ calls' = Tail(calls)
  /\ LET call == Head(calls)
         to == CASE call.ask.step = "up" -> Upper [] call.ask.step = "down" -> Lower
     IN IF ~power
        THEN Answer(call, -1) /\ apart' = TRUE /\ UNCHANGED <<level, slid, panelActs>>
        ELSE IF ~call.ask.stepping
        THEN Answer(call, Percentage(level)) /\ UNCHANGED <<level, apart, slid,
                                                            panelActs>>
        ELSE \/ /\ level' = to /\ Answer(call, Percentage(to)) /\ UNCHANGED <<apart, panelActs>>
                /\ slid' = FALSE
             \/ /\ PanelActs /\ apart' = TRUE /\ UNCHANGED <<level, slid>>
                /\ Answer(call, IF panel.path = "helper" THEN Percentage(to) ELSE -1)
  /\ UNCHANGED <<panel, power, osd, brightness, hasty>>

\* A slider, or the idle policy, which sets a level.
SetPercentage(p) ==
  /\ PanelActs /\ power /\ level' = Absolute(p) /\ apart' = TRUE /\ slid' = TRUE
  /\ UNCHANGED <<panel, power, calls, answers, osd, brightness, hasty>>

\* A plugin that is stopped does not answer, and the call times out.
PowerSwitches ==
  /\ PanelActs /\ power' = ~power
  /\ UNCHANGED <<panel, level, calls, answers, osd, brightness, apart, slid, hasty>>

-----------------------------------------------------------------------------
\* do_screen_brightness_action
Key(step) ==
  /\ PanelActs /\ calls' = Append(calls,
         [ask |-> [step |-> step, stepping |-> FALSE], old |-> 0])
  /\ LET alone == calls = <<>> /\ answers = <<>>
     IN apart' = (apart /\ ~alone) /\ hasty' = ~alone
  /\ UNCHANGED <<panel, level, power, answers, osd, brightness, slid>>

\* do_screen_brightness_action_real
GotOld(a) ==
  /\ calls' = IF a.value < 0 THEN calls
              ELSE Append(calls, [ask |-> [a.ask EXCEPT !.stepping = TRUE],
                  old |-> a.value])
  /\ UNCHANGED <<osd, brightness>>

\* A bug: what there was before is shown.
ShownOld(a) == a.old

\* What is shown of an answer.
Shown(a) ==
  CASE a.old = 100 /\ a.ask.step = "up" -> 101
    [] a.old = 0 /\ a.ask.step = "down" -> -1
    [] OTHER -> a.value

\* update_screen_cb
UpdateScreen(a) ==
  /\ IF a.value < 0 THEN UNCHANGED <<osd, brightness>> ELSE osd' = Shown(a)
         /\ brightness' = a.value
  /\ UNCHANGED calls

PanelHear ==
  /\ answers # <<>> /\ answers' = Tail(answers)
  /\ IF Head(answers).ask.stepping THEN UpdateScreen(Head(answers))
         ELSE GotOld(Head(answers))
  /\ UNCHANGED <<panel, level, power, apart, slid, hasty, panelActs>>

PanelNext ==
  \/ Serve \/ PowerSwitches \/ PanelHear
  \/ \E p \in Percents : SetPercentage(p)
  \/ \E step \in {"up", "down"} : Key(step)

PanelSpec == PanelInit /\ [][PanelNext]_panelVars

-----------------------------------------------------------------------------
PanelTypeOK ==
  /\ panel \in Panels /\ level \in panel.min..panel.max
  /\ {power, apart, slid, hasty} \subseteq BOOLEAN
  /\ osd \in -2..101 /\ brightness \in 0..100 /\ panelActs \in 0..MaxBrightnessActs

(* When all keys were handled, what is shown and what Deepin's setting has   *)
(* is the panel's brightness, unless somebody else set it meanwhile or       *)
(* since, or a call failed: keys may be pressed faster than their two calls  *)
(* are answered, and only then is "more than full" shown of a panel that is   *)
(* not full (do_screen_brightness_action_real, update_screen_cb).            *)
ShownIsThere ==
  calls = <<>> /\ answers = <<>> /\ ~apart /\ osd # Unshown =>
    /\ brightness = Percentage(level)
    /\ osd = 101 /\ ~hasty => level = panel.max
    /\ osd \in 0..100 => osd = brightness

(* However often it is pressed, the key never puts a panel of XRandR's at    *)
(* level 0, which is black (backlight_step_down, the level that is added).   *)
NeverBlack == panel.path = "xrandr" /\ ~slid => level > 0

-----------------------------------------------------------------------------
(* The battery of a phone, as the phone manager tells of it: its name on the  *)
(* bus comes and goes, and its signals are heard by whoever has a proxy.      *)
CONSTANTS MaxNumber, MaxPhoneActs

VARIABLES
  phonePower,      \* the power plugin runs
  owned,      \* the manager's name is on the bus
  battery,    \* the phone has a battery, for the manager
  bus,        \* on the way to the plugin: "appeared", "vanished", "state", a number
  proxy, present,
  listed,     \* how many phones devices_array has
  early,      \* history: a state was heard before the number
  phoneActs

phone == <<proxy, present, listed, early>>
phoneVars == <<phonePower, owned, battery, bus, phone, phoneActs>>

PhoneInit ==
  /\ phonePower = FALSE /\ owned \in BOOLEAN /\ battery = FALSE /\ bus = <<>>
  /\ proxy = FALSE
  /\ present = FALSE /\ listed = 0 /\ early = FALSE /\ phoneActs = 0

PhoneActs == phoneActs < MaxPhoneActs /\ phoneActs' = phoneActs + 1
Msg(kind, n) == [kind |-> kind, n |-> n]

\* Heard by the watch of the name, and by a proxy that may not be there yet.
Tell(m) == bus' = IF phonePower THEN Append(bus, m) ELSE bus

-----------------------------------------------------------------------------
\* gpm_phone_init: the name is watched, so that coldplug finds no proxy.
PhoneStart ==
  /\ PhoneActs /\ ~phonePower /\ phonePower' = TRUE
         /\ bus' = <<Msg(IF owned THEN "appeared" ELSE "vanished", 0)>>
  /\ UNCHANGED <<owned, battery, phone>>

\* gpm_phone_finalize, and the devices' array that is freed
PhoneStop ==
  /\ PhoneActs /\ phonePower /\ phonePower' = FALSE /\ bus' = <<>> /\ proxy' = FALSE
  /\ present' = FALSE
  /\ listed' = 0 /\ early' = FALSE
  /\ UNCHANGED <<owned, battery>>

ManagerStarts ==
  /\ PhoneActs /\ ~owned /\ owned' = TRUE /\ Tell(Msg("appeared", 0))
  /\ UNCHANGED <<phonePower, battery, phone>>

ManagerExits ==
  /\ PhoneActs /\ owned /\ owned' = FALSE /\ battery' = FALSE /\ Tell(Msg("vanished", 0))
  /\ UNCHANGED <<phonePower, phone>>

ManagerCounts(n) ==
  /\ PhoneActs /\ owned /\ battery' = (n = 1) /\ Tell(Msg("number", n))
  /\ UNCHANGED <<phonePower, owned, phone>>

ManagerTells ==
  /\ PhoneActs /\ owned /\ battery /\ Tell(Msg("state", 1))
  /\ UNCHANGED <<phonePower, owned,
                                                                           battery, phone>>

-----------------------------------------------------------------------------
Forget == present' = FALSE /\ early' = FALSE

\* phone_device_removed_cb: the first phone, if any.
Removed == listed' = IF listed = 0 THEN 0 ELSE listed - 1

\* gpm_phone_service_appeared_cb: the manager may be gone before there is a proxy.
Appeared == proxy' \in {TRUE, proxy} /\ UNCHANGED <<present, listed, early>>

\* gpm_phone_service_vanished_cb.
Vanished ==
  /\ proxy' = FALSE
  /\ IF proxy /\ present THEN Forget /\ Removed ELSE UNCHANGED <<present, listed, early>>

\* gpm_phone_battery_state_changed: what it tells makes the phone present.
PhoneStateChanged ==
  /\ present' = TRUE /\ early' = (early \/ ~present)
  /\ UNCHANGED <<proxy, listed>>

\* A bug: a phone is listed again.
NumberChangedTwice(m) ==
  /\ IF m.n = 0 THEN Forget /\ Removed ELSE present' = TRUE /\ listed' = listed + 1
         /\ UNCHANGED early
  /\ UNCHANGED proxy

\* gpm_phone_num_batteries_changed, phone_device_added_cb: nothing is done of
\* several batteries, nor of one that is present already.
NumberChanged(m) ==
  /\ UNCHANGED proxy
  /\ CASE m.n = 0 -> Forget /\ Removed
       [] m.n > 1 \/ (m.n = 1 /\ present) -> UNCHANGED <<present, listed, early>>
       [] OTHER -> present' = TRUE /\ listed' = listed + 1 /\ UNCHANGED early

PhoneHear ==
  /\ bus # <<>> /\ bus' = Tail(bus)
  /\ LET m == Head(bus)
     IN \/ m.kind = "appeared" /\ Appeared
        \/ m.kind = "vanished" /\ Vanished
        \/ m.kind \in {"state", "number"} /\ ~proxy /\ UNCHANGED phone
        \/ m.kind = "state" /\ proxy /\ PhoneStateChanged
        \/ m.kind = "number" /\ proxy /\ NumberChanged(m)
  /\ UNCHANGED <<phonePower, owned, battery, phoneActs>>

PhoneNext ==
  \/ PhoneStart \/ PhoneStop \/ ManagerStarts \/ ManagerExits \/ ManagerTells \/ PhoneHear
  \/ \E n \in 0..MaxNumber : ManagerCounts(n)

PhoneSpec == PhoneInit /\ [][PhoneNext]_phoneVars

-----------------------------------------------------------------------------
PhoneTypeOK ==
  /\ {phonePower, owned, battery, proxy, present, early} \subseteq BOOLEAN
  /\ listed \in 0..MaxPhoneActs /\ phoneActs \in 0..MaxPhoneActs

(* Through counts that are repeated or wrong, and managers that leave, there *)
(* is one phone among the devices while one is present and none else: also   *)
(* none once its manager is gone.  A phone whose state is heard before its   *)
(* number is never listed (gpm_phone_num_batteries_changed).                 *)
PhoneListed ==
  /\ listed = IF present /\ ~early THEN 1 ELSE 0
  /\ bus = <<>> /\ ~owned => listed = 0 /\ ~present
=============================================================================
