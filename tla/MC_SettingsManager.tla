------------------------- MODULE MC_SettingsManager -------------------------
(***************************************************************************)
(* A small instance of SettingsManager: two plugins, one of which has two  *)
(* files in the directory, and a file whose module has no schema.          *)
(***************************************************************************)
EXTENDS SettingsManager

MCFiles == {"power", "power2", "mouse", "other"}
MCLocations == {"power", "mouse", "other"}
MCLocation == [power |-> "power", power2 |-> "power", mouse |-> "mouse",
               other |-> "other"]
MCPriority == [power |-> 3, power2 |-> 1, mouse |-> 2, other |-> 1]
=============================================================================
