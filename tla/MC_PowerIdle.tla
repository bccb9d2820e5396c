---------------------------- MODULE MC_PowerIdle ----------------------------
(***************************************************************************)
(* Small instances of PowerIdle: the sets of settings the runs choose from.*)
(***************************************************************************)
EXTENDS PowerIdle

\* Everything on for both power sources.
FullConfig == [dim |-> Sources, blank |-> Sources, sleep |-> Sources]

\* No dimming on battery, so that the source decides; no sleeping on battery.
AcDimConfig == [FullConfig EXCEPT !.dim = {"ac"}]
AcSleepConfig == [FullConfig EXCEPT !.sleep = {"ac"}]

LevelConfigs == {FullConfig, AcDimConfig}
SleepConfigs == {FullConfig, AcSleepConfig}
=============================================================================
