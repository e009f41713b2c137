---------------------------- MODULE PulseCoding ----------------------------
(***************************************************************************)
(* How src/StripController.cpp codes a colour for the WS2812 devices:      *)
(* RGBToPulses applies the level with a gamma correction, byteToPulses     *)
(* turns each component into 24 bits for the SPI.  Divisions are those of  *)
(* C on non-negative integers, and casts keep their width.                 *)
(***************************************************************************)
EXTENDS Integers, Sequences

Byte == 0..255

(* The symbols of the bits 0 and 1: 100 (duty 33%) and 110 (duty 66%). *)
Zero == 4
One  == 6

Bit(colorData, bit) == (colorData \div 2^(7 - bit)) % 2

OneFromSecondBit(colorData) ==                \* mutant: the shift is one bit off
  LET pulseBuffer[n \in 0..8] ==
        IF n = 0 THEN 0
        ELSE pulseBuffer[n - 1] * 8 + (IF Bit((2 * colorData) % 256, n - 1) = 0 THEN Zero ELSE One)
  IN <<(pulseBuffer[8] \div 2^16) % 256, (pulseBuffer[8] \div 2^8) % 256, pulseBuffer[8] % 256>>

(* Three bytes, big endian, of the symbols of one byte, high bit first. *)
byteToPulses(colorData) ==
  LET pulseBuffer[n \in 0..8] ==
        IF n = 0 THEN 0
        ELSE pulseBuffer[n - 1] * 8 + (IF Bit(colorData, n - 1) = 0 THEN Zero ELSE One)
  IN <<(pulseBuffer[8] \div 2^16) % 256, (pulseBuffer[8] \div 2^8) % 256, pulseBuffer[8] % 256>>

LinearLevel(level) == level                   \* mutant: no gamma
correctedLevel(level) == ((level * level) \div 255) % 2^16

CorrectionWithoutFloor(colorValue, level) ==  \* mutant: small values vanish
  ((colorValue * correctedLevel(level) + 127) \div 255) % 256

CorrectionRoundedUp(colorValue, level) ==     \* mutant: 255 is added, not half of it
  LET corrected == ((colorValue * correctedLevel(level) + 255) \div 255) % 256
  IN  IF corrected = 0 /\ colorValue > 0 /\ level > 0 THEN 1 ELSE corrected

gammaCorrection(colorValue, level) ==
  LET corrected == ((colorValue * correctedLevel(level) + 127) \div 255) % 256
  IN  IF corrected = 0 /\ colorValue > 0 /\ level > 0 THEN 1 ELSE corrected

BytePulses == [byte \in Byte |-> byteToPulses(byte)]

(* The device wants G-R-B order. *)
RGBToPulses(RGB_data, level) ==
  BytePulses[gammaCorrection(RGB_data.G, level)]
    \o BytePulses[gammaCorrection(RGB_data.R, level)]
    \o BytePulses[gammaCorrection(RGB_data.B, level)]

=============================================================================
