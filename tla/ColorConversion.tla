-------------------------- MODULE ColorConversion --------------------------
(***************************************************************************)
(* How src/StripController.cpp turns hue and saturation into RGB           *)
(* (convertHStoRGB) and a colour temperature into hue and saturation       *)
(* (setColorTemperature).                                                  *)
(***************************************************************************)
EXTENDS Integers, Sequences

RGB(r, g, b) == [R |-> r, G |-> g, B |-> b]
RGB_WHITE == RGB(127, 127, 127)

(* Division of C: towards zero. *)
Quotient(a, b) == IF a >= 0 THEN a \div b ELSE -((-a) \div b)

MaxHue        == 254
NumbOfSectors == 3
HueSectorSize == (MaxHue + 1) \div NumbOfSectors

RGB_nodes == <<RGB(255, 0, 0), RGB(0, 255, 0), RGB(0, 0, 255), RGB(255, 0, 0)>>

ComponentReversed(from, to, hueSect, saturation) ==      \* mutant: nodes swapped
  LET pure == to + Quotient((from - to) * hueSect, HueSectorSize)
  IN  (Quotient(pure * saturation, 255) + (255 - saturation) \div 2) % 256

(* One component at position hueSect between two nodes; the cast keeps 8 bits. *)
Component(from, to, hueSect, saturation) ==
  LET pure == from + Quotient((to - from) * hueSect, HueSectorSize)
      saturationFloor == (255 - saturation) \div 2
  IN  (Quotient(pure * saturation, 255) + saturationFloor) % 256

ClampedHue(hue) == IF hue > MaxHue THEN MaxHue ELSE hue

convertHStoRGB(colorHS) ==
  LET hue     == ClampedHue(colorHS.hue)
      idx     == 1 + (hue \div HueSectorSize)
      hueSect == hue % HueSectorSize
      from    == RGB_nodes[idx]
      to      == RGB_nodes[idx + 1]
      s       == colorHS.saturation
  IN RGB(Component(from.R, to.R, hueSect, s), Component(from.G, to.G, hueSect, s),
         Component(from.B, to.B, hueSect, s))

(***************************************************************************)
(* The saturation a colour temperature (in mireds) stands for, in          *)
(* millionths: 0.666105 * mireds - 85.42327.  The float arithmetic of the  *)
(* code gives the same hue and the same truncated saturation for all       *)
(* 2^16 arguments.                                                         *)
(***************************************************************************)
MicroSaturation(colorTemperature) == 666105 * colorTemperature - 85423270

SaturationCut(colorTemperature) ==            \* mutant: not clamped, cast to 8 bits
  LET sat == MicroSaturation(colorTemperature)
  IN ((IF sat < 0 THEN -sat ELSE sat) \div 1000000) % 256

TemperatureSaturation(colorTemperature) ==
  LET sat  == MicroSaturation(colorTemperature)
      fabs == IF sat < 0 THEN -sat ELSE sat
  IN  IF fabs > 255000000 THEN 255 ELSE fabs \div 1000000

(* Hue 147 for cold white, hue 20 for warm white. *)
TemperatureHS(colorTemperature) ==
  [hue        |-> IF MicroSaturation(colorTemperature) < 0 THEN 147 ELSE 20,
   saturation |-> TemperatureSaturation(colorTemperature)]

=============================================================================
