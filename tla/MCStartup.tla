----------------------------- MODULE MCStartup -----------------------------
(* Values of the constants of Startup for TLC. *)
EXTENDS Startup

Anywhere  == States
Switch    == {TRUE, FALSE}
AnyAction == Actions
AfterTimer == BootPoints \ {"timer"}

=============================================================================
