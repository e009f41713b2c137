------------------------- MODULE MCLightingManager -------------------------
(* Values of the constants of LightingManager for TLC. *)
EXTENDS LightingManager

Nowhere  == {}
OnlyRest == AtRest                          \* effects obey the discipline
MovingOn == {"OnInitiated"}                 \* an effect overtakes the movement
Switch   == {TRUE, FALSE}
AnyAction == Actions

=============================================================================
