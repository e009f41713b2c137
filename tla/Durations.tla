----------------------------- MODULE Durations -----------------------------
(***************************************************************************)
(* The lengths the light's timer is started with (src/LightingManager.cpp):*)
(* the milliseconds of an off effect, and of the automatic turning off, as *)
(* FreeRTOS counts them.  A 32 bit unsigned number is the pair of its      *)
(* halves, the high one first, so that every product keeps its width.      *)
(***************************************************************************)
EXTENDS Integers

Word(n) == <<n \div 2^16, n % 2^16>>

(* The product and the quotient with a factor below 2^15. *)
Times(w, k) ==
  <<(w[1] * k + (w[2] * k) \div 2^16) % 2^16, (w[2] * k) % 2^16>>
Over(w, k) == (w[1] \div k) * 2^16 + ((w[1] % k) * 2^16 + w[2]) \div k

configTICK_RATE_HZ == 1024

TicksOf16Bits(ms) ==                       \* mutant: configUSE_16_BIT_TICKS is 1
  Over(<<0, Times(ms, configTICK_RATE_HZ)[2]>>, 1000)
pdMS_TO_TICKS(ms) == Over(Times(ms, configTICK_RATE_HZ), 1000)

kDelayedAllOff == [kDelayedOffFastFade |-> 0, kNoFade |-> 1, kDelayedOffSlowFade |-> 2]
kDyingLight    == [kDyingLightFadeOff |-> 0]
EffectIdentifier == [kDelayedAllOff |-> 0, kDyingLight |-> 1]

DurationByVariant(effectId, variant) ==    \* mutant: the identifier is not looked at
  IF variant \in {kDelayedAllOff.kDelayedOffFastFade, kDelayedAllOff.kNoFade} THEN 800
  ELSE IF variant = kDelayedAllOff.kDelayedOffSlowFade THEN 12800
  ELSE 0

(* Any other identifier or variant leaves the 0 it starts with. *)
offEffectDuration(effectId, variant) ==
  IF effectId = EffectIdentifier.kDelayedAllOff
  THEN IF variant \in {kDelayedAllOff.kDelayedOffFastFade, kDelayedAllOff.kNoFade} THEN 800
       ELSE IF variant = kDelayedAllOff.kDelayedOffSlowFade THEN 12800
       ELSE 0
  ELSE IF effectId = EffectIdentifier.kDyingLight /\ variant = kDyingLight.kDyingLightFadeOff
       THEN 1500
       ELSE 0

EffectTicks(effectId, variant) == pdMS_TO_TICKS(Word(offEffectDuration(effectId, variant)))
AutoTurnOffTicks(mAutoTurnOffDuration) == pdMS_TO_TICKS(Times(mAutoTurnOffDuration, 1000))

=============================================================================
