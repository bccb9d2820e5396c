---------------------------- MODULE MC_Smartcard ----------------------------
(***************************************************************************)
(* A small instance of Smartcard: its constants are all in the .cfg files. *)
(***************************************************************************)
EXTENDS Smartcard
=============================================================================
