--------------------------- MODULE MCLightingRace ---------------------------
(* Values of the constants of LightingRace for TLC. *)
EXTENDS LightingRace

CHIPAbove == [t \in Tasks |-> IF t = "CHIP" THEN 2 ELSE 1]
BetweenEvents == {"idle"}
Nowhere   == {}
OnlyRest  == AtRest
AnyAction == Actions

=============================================================================
