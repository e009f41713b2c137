------------------------- MODULE MCStripController -------------------------
(* Values of the constants of StripController for TLC. *)
EXTENDS StripController

NoCalls         == {}
SomeLevels      == {0, 254}
WarmHue         == {20}
WarmSaturation  == {161}
WarmTemperature == {370}     \* sets the hue to 20 and the saturation to 161
OneHue          == {170}
FullSaturation  == {254}

=============================================================================
