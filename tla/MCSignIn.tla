------------------------------- MODULE MCSignIn -------------------------------
(* Devices and pages of SignIn for TLC.                                    *)
EXTENDS SignIn

CONSTANTS desktop, phone

\* One page on each device.
Alone == [p \in Pages |-> p]

=============================================================================
