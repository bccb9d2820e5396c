------------------------------- MODULE Screens -------------------------------
(***************************************************************************)
(* What is done with screens: the idle watcher, on whose word they are     *)
(* dimmed and switched off, the monitors that are on, the panel as it is   *)
(* turned and as it is dimmed, the plan for films, the panel's brightness  *)
(* as keys step it, and the phone among the batteries.  The parts share no *)
(* state, so that one moves in each behaviour: the one that focus names.   *)
(***************************************************************************)
EXTENDS IdleTime, FiniteSets

CONSTANTS
  Screen, Laptop, Modes, FrameBuffer, Boots, Allowed, MaxEvents, MaxMoves,
  Levels, MaxWire, MaxActs, ScreenWindows, Players, Plans, High, FiledPlans,
  NoFocus, NoPlan, MaxPlanActs, Panels, Percents, MaxBrightnessActs,
  MaxBatteries, MaxPhoneActs

\* The plan for films is a plan, and what stands for none is none; XRandR's
\* panels have levels from 0 or 1, the helper's from 0, and more than one.
PlanConstants ==
  High \in Plans /\ NoPlan \notin Plans /\ NoFocus \notin ScreenWindows
PanelConstants ==
  /\ \A p \in Panels :
       /\ p.min \in Nat /\ p.max \in Nat /\ p.min < p.max
       /\ p.min = 0 \/ (p.min = 1 /\ p.path = "xrandr")
  /\ Percents \subseteq 0..100
ASSUME ScreensAssumption ==
  Boots \subseteq {"nothing", "lid", "clone", "dock"} /\ PlanConstants /\ PanelConstants

VARIABLES focus,
  boot, connected, lid, shown, stored, fn, current, madeFor, excused,
  allowed, sensor, uevents, lock, prev, ready, call, panel, touch, dropped,
  lost, refused, moves,
  idle, wire, idleNotice, dim, setting, calls, lit, late, garbled, left, acts,
  powerRuns, plan, planTold, limits, activeWindow, fullScreen, also, seen,
  listening, userPlan, activeSet, hasSet, wanted, planMixed, planMissed,
  planActs,
  backlit, panelLevel, power, powerCalls, answers, osd, brightness, apart,
  slid, hasty, panelActs,
  phonePower, phoneManaged, battery, bus, proxy, present, listed, early,
  phoneActs

XS == INSTANCE XrandrSetups
OR == INSTANCE Orientation WITH
  events <- uevents
ID == INSTANCE IdleDelay
PW == INSTANCE PowerParts WITH
  running <- powerRuns, told <- planTold, active <- activeWindow, full <-
  fullScreen, mixed <- planMixed, missed <- planMissed, Windows <-
  ScreenWindows, Known <- FiledPlans, NoWindow <- NoFocus, panel <- backlit,
  level <- panelLevel, calls <- powerCalls, owned <- phoneManaged, MaxNumber
  <- MaxBatteries

setupsVars ==
  <<boot, connected, lid, shown, stored, fn, current, madeFor, excused>>
orientationVars ==
  <<allowed, sensor, uevents, lock, prev, ready, call, panel, touch, dropped,
    lost, refused, moves>>
delayVars ==
  <<idle, wire, idleNotice, dim, setting, calls, lit, late, garbled, left,
    acts>>
planVars ==
  <<powerRuns, plan, planTold, limits, activeWindow, fullScreen, also, seen,
    listening, userPlan, activeSet, hasSet, wanted, planMixed, planMissed,
    planActs>>
panelVars ==
  <<backlit, panelLevel, power, powerCalls, answers, osd, brightness, apart,
    slid, hasty, panelActs>>
phoneVars ==
  <<phonePower, phoneManaged, battery, bus, proxy, present, listed, early,
    phoneActs>>
screenVars ==
  <<vars, setupsVars, orientationVars, delayVars, planVars, panelVars,
    phoneVars>>

ScreensInit ==
  /\ Init /\ (focus # "idletime" => counter = 0)
  /\ XS!Init
  /\ focus # "setups" =>
       boot = "nothing" /\ connected = {Laptop} /\ lid = "open"
  /\ OR!Init
  /\ focus # "orientation" =>
       allowed = (CHOOSE a \in Allowed : 0 \in a) /\ sensor = 0 /\ ~lock
  /\ ID!Init
  /\ focus # "delay" =>
       ~idle /\ dim = (CHOOSE n \in Levels : TRUE) /\ setting = dim
  /\ PW!PlanInit /\ (focus # "plan" => plan = High)
  /\ PW!PanelInit
  /\ focus # "panel" => backlit = CHOOSE p \in Panels : TRUE
  /\ PW!PhoneInit /\ (focus # "phone" => ~phoneManaged)

ScreensNext ==
  \/ focus = "idletime" /\ Next /\ UNCHANGED
       <<setupsVars, orientationVars, delayVars, planVars, panelVars, phoneVars>>
  \/ focus = "setups" /\ XS!Next /\ UNCHANGED
       <<vars, orientationVars, delayVars, planVars, panelVars, phoneVars>>
  \/ focus = "orientation" /\ OR!Next /\ UNCHANGED
       <<vars, setupsVars, delayVars, planVars, panelVars, phoneVars>>
  \/ focus = "delay" /\ ID!Next /\ UNCHANGED
       <<vars, setupsVars, orientationVars, planVars, panelVars, phoneVars>>
  \/ focus = "plan" /\ PW!PlanNext /\ UNCHANGED
       <<vars, setupsVars, orientationVars, delayVars, panelVars, phoneVars>>
  \/ focus = "panel" /\ PW!PanelNext /\ UNCHANGED
       <<vars, setupsVars, orientationVars, delayVars, planVars, phoneVars>>
  \/ focus = "phone" /\ PW!PhoneNext /\ UNCHANGED
       <<vars, setupsVars, orientationVars, delayVars, planVars, panelVars>>

\* As part of the group that MC_Display has, where another part may move.
ScreensSpec ==
  ScreensInit /\ [][UNCHANGED focus /\ ScreensNext]_<<focus, screenVars>>

-----------------------------------------------------------------------------
(* Whatever comes, goes or is stored the right monitors are on, and once   *)
(* all is quiet screens are as device, session, plan, keys and the phone's *)
(* battery want them.                                                      *)
ScreensFollow ==
  /\ focus = "setups" => XS!NeverBlack /\ XS!LidFollowed
  /\ focus = "orientation" => OR!Upright /\ OR!TouchTurned
  /\ focus = "delay" => ID!Brightened
  /\ focus = "plan" => PW!PlanApplies /\ PW!FilmsArePlayed
  /\ focus = "panel" => PW!NeverBlack /\ PW!ShownIsThere
  /\ focus = "phone" => PW!PhoneListed
==============================================================================
