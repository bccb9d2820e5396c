-------------------------- MODULE MC_PowerBattery --------------------------
(***************************************************************************)
(* Small instances of PowerBattery: the devices of a machine.              *)
(***************************************************************************)
EXTENDS PowerBattery, TLC

OneBattery == [d \in {"bat0"} |-> "BATTERY"]
BatteryAndUps == [bat0 |-> "BATTERY", ups |-> "UPS"]
WithMouse == [bat0 |-> "BATTERY", bat1 |-> "BATTERY", mouse |-> "MOUSE"]
=============================================================================
