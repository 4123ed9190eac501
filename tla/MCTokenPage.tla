----------------------------- MODULE MCTokenPage -----------------------------
(* TokenPage for TLC: model values only.                                   *)
EXTENDS TokenPage

=============================================================================
