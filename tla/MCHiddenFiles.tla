---------------------------- MODULE MCHiddenFiles ----------------------------
(* Users and chains of HiddenFiles for TLC.                                *)
EXTENDS HiddenFiles

CONSTANTS alice, bob, carol

=============================================================================
