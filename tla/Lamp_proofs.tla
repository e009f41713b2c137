---------------------------- MODULE Lamp_proofs ----------------------------
(***************************************************************************)
(* The lamp is the application and the strip put together: each of them    *)
(* behaves as it does alone, so what is proved of them holds in the lamp.  *)
(***************************************************************************)
EXTENDS Lamp, AppTask_proofs

SP == INSTANCE StripController_proofs

LEMMA LampSimulatesApplication == [LampNext]_lampVars => [SysNext]_sysVars
BY DEF LampNext, ApplicationStep, SettingsCommand, StripTaskStep, lampVars, SysNext

(* The composition implements the application of AppTask.                   *)
THEOREM LampImplementsApplication == SafeLampSpec => SafeSysSpec
BY LampSimulatesApplication, PTL DEF SafeLampSpec, SafeSysSpec, LampInit

-----------------------------------------------------------------------------
(* S of Lamp and SP, which brings the strip's theorems, are instances of    *)
(* one module with the same parameters: their definitions agree.            *)

LEMMA SamePulses == \A rgb, level : S!RGBToPulses(rgb, level) = SP!RGBToPulses(rgb, level)
<1>1. \A byte : S!byteToPulses(byte) = SP!byteToPulses(byte)
  BY SMT DEF S!byteToPulses, SP!byteToPulses, S!Bit, SP!Bit, S!Zero, SP!Zero,
       S!One, SP!One
<1>3. S!BytePulses = SP!BytePulses
  BY <1>1, SMT DEF S!BytePulses, SP!BytePulses, S!Byte, SP!Byte
<1>2. \A value, level : S!gammaCorrection(value, level) = SP!gammaCorrection(value, level)
  BY SMT DEF S!gammaCorrection, SP!gammaCorrection, S!correctedLevel,
       SP!correctedLevel
<1> QED
  BY <1>2, <1>3, Zenon DEF S!RGBToPulses, SP!RGBToPulses

LEMMA SameColors == \A hs : S!convertHStoRGB(hs) = SP!convertHStoRGB(hs)
<1>1. S!RGB_nodes = SP!RGB_nodes
  BY SMT DEF S!RGB_nodes, SP!RGB_nodes, S!RGB, SP!RGB
<1>2. \A a, b : S!Quotient(a, b) = SP!Quotient(a, b)
  BY SMT DEF S!Quotient, SP!Quotient
<1>3. S!HueSectorSize = SP!HueSectorSize /\ S!MaxHue = SP!MaxHue
  BY SMT DEF S!HueSectorSize, SP!HueSectorSize, S!MaxHue, SP!MaxHue,
       S!NumbOfSectors, SP!NumbOfSectors
<1>4. \A from, to, hue, sat : S!Component(from, to, hue, sat) = SP!Component(from, to, hue, sat)
  BY <1>2, <1>3, SMT DEF S!Component, SP!Component
<1>5. \A hue : S!ClampedHue(hue) = SP!ClampedHue(hue)
  BY <1>3, SMT DEF S!ClampedHue, SP!ClampedHue
<1> QED
  BY <1>1, <1>3, <1>4, <1>5, SMT DEF S!convertHStoRGB, SP!convertHStoRGB, S!RGB, SP!RGB

LEMMA SameFrames == \A rgb, level : S!Frame(rgb, level) = SP!Frame(rgb, level)
BY SamePulses DEF S!Frame, SP!Frame, S!Devices, SP!Devices

LEMMA SameTask == S!stripControllerHandler => SP!stripControllerHandler
<1>1. S!verifyLevel => SP!verifyLevel
  BY DEF S!verifyLevel, SP!verifyLevel, S!RequestLevel, SP!RequestLevel, S!settings,
       SP!settings, S!history, SP!history
<1>2. S!TestRequest => SP!TestRequest
  BY DEF S!TestRequest, SP!TestRequest, S!settings, SP!settings
<1>3. S!dataTransmit => SP!dataTransmit
  BY SamePulses DEF S!dataTransmit, SP!dataTransmit, S!settings, SP!settings,
       S!history, SP!history
<1>4. S!ClearRequest => SP!ClearRequest
  BY DEF S!ClearRequest, SP!ClearRequest, S!settings, SP!settings, S!history, SP!history
<1>5. S!Delay => SP!Delay
  BY DEF S!Delay, SP!Delay, S!settings, SP!settings, S!history, SP!history
<1> QED
  BY <1>1, <1>2, <1>3, <1>4, <1>5 DEF S!stripControllerHandler, SP!stripControllerHandler

LEMMA SameOvertakes == S!Overtakes => SP!Overtakes
BY DEF S!Overtakes, SP!Overtakes, S!Coded, SP!Coded

LEMMA SameSetters == SettingsCommand => SP!Setters
<1>1. \A level : S!setLevel(level) => SP!setLevel(level)
  BY SameOvertakes DEF S!setLevel, SP!setLevel, S!NewOnLevel, SP!NewOnLevel,
       S!LevelWhenTurned, SP!LevelWhenTurned, S!taskVars, SP!taskVars
<1>2. \A hs : S!SetColor(hs) => SP!SetColor(hs)
  BY SameColors, SameOvertakes DEF S!SetColor, SP!SetColor, S!setFixedColor,
       SP!setFixedColor, S!Devices, SP!Devices, S!taskVars, SP!taskVars
<1>3. \A mireds : S!TemperatureHS(mireds) = SP!TemperatureHS(mireds)
  BY SMT DEF S!TemperatureHS, SP!TemperatureHS, S!MicroSaturation,
       SP!MicroSaturation, S!TemperatureSaturation,
       SP!TemperatureSaturation
<1> QED
  BY <1>1, <1>2, <1>3 DEF SettingsCommand, SP!Setters,
       S!setHue, SP!setHue, S!setSaturation, SP!setSaturation,
       S!setColorTemperature, SP!setColorTemperature

LEMMA SameInit == S!StripInit => SP!StripInit
<1>1. S!RGB_WHITE = SP!RGB_WHITE
  BY DEF S!RGB_WHITE, SP!RGB_WHITE, S!RGB, SP!RGB
<1> QED
  BY <1>1, SameFrames DEF S!StripInit, SP!StripInit, S!WhiteBuffer, SP!WhiteBuffer,
       S!Devices, SP!Devices

-----------------------------------------------------------------------------
LEMMA LampSimulatesStrip ==
  ASSUME SysTypeOK', [LampNext]_lampVars PROVE [SP!StripNext]_(SP!stripVars)
<1>1. CASE ApplicationStep
  <2>1. CASE turnedOn' = turnedOn
    BY <1>1, <2>1 DEF ApplicationStep, SwitchFollows, stripOnly, SP!stripVars,
       SP!settings, SP!taskVars, SP!history
  <2>2. CASE turnedOn' # turnedOn
    <3>1. S!turnOnOff(turnedOn') /\ turnedOn' \in BOOLEAN
      BY <1>1, <2>2 DEF ApplicationStep, SwitchFollows, SysTypeOK
    <3>2. SP!turnOnOff(turnedOn')
      BY <3>1, SameOvertakes DEF S!turnOnOff, S!Switched, S!taskVars, SP!turnOnOff,
         SP!Switched, SP!taskVars
    <3> QED
      BY <3>1, <3>2 DEF SP!StripNext, SP!Setters
  <2> QED
    BY <2>1, <2>2
<1>2. CASE StripTaskStep
  BY <1>2, SameTask DEF StripTaskStep, SP!StripNext
<1>3. CASE SettingsCommand
  BY <1>3, SameSetters DEF SP!StripNext
<1>4. CASE UNCHANGED lampVars
  BY <1>4 DEF lampVars, sysVars, appVars, outputVars, stripOnly, SP!stripVars,
     SP!settings, SP!taskVars, SP!history
<1> QED
  BY <1>1, <1>2, <1>3, <1>4 DEF LampNext

(* And it implements the strip of StripController.                          *)
THEOREM LampImplementsStrip == SafeLampSpec => SP!SafeStripSpec
<1>1. SysTypeOK' /\ [LampNext]_lampVars => [SP!StripNext]_(SP!stripVars)
  BY LampSimulatesStrip
<1>2. LampInit => SP!StripInit
  BY SameInit DEF LampInit
<1> QED
  BY <1>1, <1>2, LampImplementsApplication, SysTypeCorrect, PTL DEF SafeLampSpec, SP!SafeStripSpec

LEMMA LampStripInv == SafeLampSpec => []SP!StripInv
<1>1. SP!SafeStripSpec => []SP!StripInv
  BY LampAssumption, SP!StripInvHolds DEF S!StripAssumption, S!Byte, SP!Byte
<1> QED
  BY <1>1, LampImplementsStrip, PTL

(* Wherever the light is turned on or off and the settings are changed, a   *)
(* strip task with nothing left to do shows the light.  Only a frame        *)
(* overtaken by a change of what it shows, or a switch-off undone inside    *)
(* verifyLevel, is excused, for as long as it lasts.                        *)
THEOREM LampShowsLight == SafeLampSpec => []ShowsLight
<1>1. SP!StripInv /\ OutputsFollowLight => ShowsLight
  BY SameFrames DEF SP!StripInv, SP!LevelFollowsPower, SP!NothingMissed,
     SP!LevelDiffers, S!LevelDiffers, OutputsFollowLight, ShowsLight, Unrequested,
     Disturbed, Shows
<1> QED
  BY <1>1, LampStripInv, LampImplementsApplication, OutputsCorrect, PTL

-----------------------------------------------------------------------------
(* What holds of the light holds in the lamp. *)

(* Under the discipline of the light the lamp, with its attribute, buttons, *)
(* write-back and strip, implements the abstract actuator.                  *)
THEOREM LampImplementsActuator == ASSUME Discipline PROVE SafeLampSpec => ImplementsActuator
BY LampImplementsApplication, ApplicationImplementsLight, LightImplementsActuator, PTL

(* Under that discipline an idle lamp shows what its attribute reports,     *)
(* with commands, buttons and settings at any point of the strip task: what *)
(* can set them apart is recorded, a stopped device included.               *)
THEOREM IdleLampCorrect == ASSUME Discipline PROVE SafeLampSpec => []IdleAsReported
<1>1. ASSUME ShowsLight, MovementBacked, SyncBelongsToMovement, AttributeFollowsLight
      PROVE  IdleAsReported
  <2> SUFFICES ASSUME Idle, parted = {}, ~lost PROVE  Shows(IF onOff THEN onLevel ELSE 0) \/ Disturbed
    BY DEF IdleAsReported
  <2>1. ~Pending("Actuator")
    BY DEF Idle, Pending
  <2>2. ~mSyncClusterToButtonAction
    BY <1>1, <2>1 DEF Idle, MovementBacked, SyncBelongsToMovement
  <2>3. onOff = Lit
    BY <1>1, <2>2 DEF Idle, AttributeFollowsLight
  <2> QED
    BY <1>1, <2>3 DEF Idle, ShowsLight
<1> QED
  BY <1>1, LampImplementsApplication, ApplicationImplementsLight, LampShowsLight,
     MovementsBacked, SyncCorrect, AttributeCorrect, PTL

=============================================================================
