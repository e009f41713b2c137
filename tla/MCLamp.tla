------------------------------- MODULE MCLamp -------------------------------
(* Values of the constants of Lamp for TLC. *)
EXTENDS Lamp

Nowhere   == {}
OnlyRest  == AtRest
OneLevel  == {254}

=============================================================================
