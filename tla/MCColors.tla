------------------------------ MODULE MCColors ------------------------------
(***************************************************************************)
(* The pure functions over all their arguments: every component at every   *)
(* level, every hue at every saturation, and the colour temperatures up to *)
(* 1023 mireds; and the timer's lengths, for every effect and for the      *)
(* countdowns around the limits of their width.  A state is a pair of      *)
(* bytes; the pulses are checked against what a WS2812 device makes of     *)
(* them.                                                                   *)
(***************************************************************************)
EXTENDS ColorConversion, PulseCoding, Durations

VARIABLES first, second

Init == first = 0 /\ second \in Byte
Next == first < 255 /\ first' = first + 1 /\ UNCHANGED second
Spec == Init /\ [][Next]_<<first, second>>

value      == first    \* of a colour component, at a level
level      == second
hue        == first
saturation == second

-----------------------------------------------------------------------------
(* The device: bits of the received bytes, in threes; the middle one counts. *)
Received(pulses, n) == (pulses[1 + (n \div 8)] \div 2^(7 - (n % 8))) % 2
Decoded(pulses) ==
  LET data[n \in 0..8] == IF n = 0 THEN 0 ELSE 2 * data[n - 1] + Received(pulses, 3 * n - 2)
  IN  data[8]

(* The device reads back the byte that was coded, and every symbol starts   *)
(* with a high and ends with a low third, for every byte (byteToPulses).    *)
DeviceReadsByte ==
  LET pulses == byteToPulses(value) IN
    /\ \A i \in 1..3 : pulses[i] \in Byte
    /\ \A n \in 0..7 : Received(pulses, 3 * n) = 1 /\ Received(pulses, 3 * n + 2) = 0
    /\ Decoded(pulses) = value

(* A light that is on never looks off: at every level but 0 each component  *)
(* of the colour that is present stays present, and at level 0 all go dark  *)
(* (the last line of gammaCorrection).                                      *)
NeverDark ==
  gammaCorrection(value, level) = 0 <=> value = 0 \/ level = 0

(* The corrected value is the quadratic value * (level / 255)^2 to within   *)
(* one and a half steps, and fits the byte it is cast to: the width of the  *)
(* intermediate types never cuts anything off.                              *)
QuadraticInLevel ==
  LET exact == value * level * level
      error == 65025 * gammaCorrection(value, level) - exact
  IN 2 * error <= 3 * 65025 /\ 2 * error >= -3 * 65025

(* A brighter setting never shows darker, and the full level shows the      *)
(* colour unchanged.                                                        *)
Monotone ==
  /\ level < 255 => gammaCorrection(value, level) <= gammaCorrection(value, level + 1)
  /\ value < 255 => gammaCorrection(value, level) <= gammaCorrection(value + 1, level)
  /\ gammaCorrection(value, 255) = value

-----------------------------------------------------------------------------
Shown == convertHStoRGB([hue |-> hue, saturation |-> saturation])
Near(a, b, d) == a - b \in -d..d

(* The colour at exact hue h in thirds of the circle, before any rounding:  *)
(* 255 * 85 times the mixture of white and the pure hue.                    *)
Weight(node) ==
  LET h == IF hue > 254 THEN 254 ELSE hue
      d == (h - 85 * node + 255) % 255
  IN  IF d <= 85 THEN 85 - d ELSE IF d >= 170 THEN d - 170 ELSE 0
Exact(node) == 2 * Weight(node) * saturation + 85 * (255 - saturation)

(* Each component is the mixture of white and of its share of the hue       *)
(* circle to within two steps: no sector boundary, truncation or cast to a  *)
(* byte (hue 255, negative differences) makes a colour jump, the circle     *)
(* closes, no colour is black, and without saturation all hues are white.   *)
MixesHueAndWhite ==
  /\ Near(170 * Shown.R, Exact(0), 340)
  /\ Near(170 * Shown.G, Exact(1), 340)
  /\ Near(170 * Shown.B, Exact(2), 340)

(* Away from neutral white a temperature is never shown less saturated than *)
(* one nearer to it, and warm is warm and cold is cold: red over blue above *)
(* neutral, blue over red below.                                            *)
Mireds == 256 * (saturation % 4) + hue
TemperatureOrder ==
  LET at == TemperatureHS(Mireds)
      next == TemperatureHS(Mireds + 1)
      rgb == convertHStoRGB(at)
  IN /\ at.hue = 20 => next.hue = 20 /\ next.saturation >= at.saturation
     /\ at.hue = 147 => rgb.B >= rgb.R
     /\ next.hue = 147 => next.saturation <= at.saturation
     /\ at.hue = 20 => rgb.R >= rgb.B

-----------------------------------------------------------------------------
(* Of all the pairs of an identifier and a variant that may arrive, exactly *)
(* the four of the cluster start the timer, for their time to within a      *)
(* tick; the others ask osTimerStart for 0 ticks, which it refuses, and     *)
(* StartTimer stops the device.  A dying light has one variant where a      *)
(* delayed one has three (OnTriggerOffWithEffect).                          *)
effectId == first
variant  == second
EffectsTimed ==
  LET ms == CASE effectId = 0 /\ variant < 2 -> 800
              [] effectId = 0 /\ variant = 2 -> 12800
              [] effectId = 1 /\ variant = 0 -> 1500
              [] OTHER -> 0
      ticks == EffectTicks(effectId, variant)
  IN  /\ ticks * 1000 <= ms * 1024 /\ ms * 1024 < (ticks + 1) * 1000
      /\ (ticks > 0) = (ms > 0)

(* A countdown lasts as long as it was set for exactly up to 4194 seconds;  *)
(* a longer one always ends early, the product with the tick rate having    *)
(* wrapped, and one of a multiple of 2^19 seconds is refused like one of 0  *)
(* (ActuatorMovementTimerEventHandler, StartTimer).                         *)
CountdownLasts ==
  \A high \in {0, 1, 8} :
    LET low == 256 * second + first
        seconds == 2^16 * high + low
        ticks == AutoTurnOffTicks(<<high, low>>)
    IN  /\ ticks <= 1024 * seconds
        /\ (ticks = 1024 * seconds) = (seconds <= 4194)
        /\ (ticks = 0) = (low = 0 /\ high % 8 = 0)

=============================================================================
