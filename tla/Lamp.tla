-------------------------------- MODULE Lamp --------------------------------
(***************************************************************************)
(* The lamp as its user sees it: the application of AppTask and the strip  *)
(* of StripController running together.  They meet in turnedOn, which      *)
(* ActionInitiated writes through turnOnOff and the strip task reads.      *)
(***************************************************************************)
EXTENDS AppTask

CONSTANTS  \* those of StripController
  WS2812_NUMB_DEV, WS2812_START_LEVEL, Levels, Hues, Saturations, Temperatures

VARIABLES  \* those of StripController, but for turnedOn
  currentLevel, onLevel, transmitRequest, currentColorHS, bufferRGB, pBuffer,
  at, dev, strip, overtaken, undone

S == INSTANCE StripController

ASSUME LampAssumption == S!StripAssumption

stripOnly == <<currentLevel, onLevel, transmitRequest, currentColorHS, bufferRGB,
               pBuffer, at, dev, strip, overtaken, undone>>
lampVars == <<sysVars, stripOnly>>

LampInit == SysInit /\ S!StripInit

(***************************************************************************)
(* ActionInitiated calls turnOnOff.  As the strip always follows the light *)
(* (OutputsFollowLight), OFF is only ever initiated on a strip that is on, *)
(* and a repeated turnOnOff(TRUE) changes nothing: the calls that matter   *)
(* are those that change turnedOn.                                         *)
(***************************************************************************)
SwitchForgotten == UNCHANGED stripOnly  \* mutant: only the flag is written
SwitchFollows ==
  IF turnedOn' = turnedOn THEN UNCHANGED stripOnly ELSE S!turnOnOff(turnedOn')

ApplicationStep == SysRunning /\ SwitchFollows

(* The level and colour attributes of the cluster server. *)
SettingsCommand ==
  /\ ~halted
  /\ \/ \E newLevel \in Levels : S!setLevel(newLevel)
     \/ \E hue \in Hues : S!setHue(hue)
     \/ \E saturation \in Saturations : S!setSaturation(saturation)
     \/ \E mireds \in Temperatures : S!setColorTemperature(mireds)
  /\ UNCHANGED sysVars

(* A device without power, or stopped in appError with interrupts disabled, *)
(* runs no task.                                                            *)
StripTaskStep == ~halted /\ S!stripControllerHandler /\ UNCHANGED sysVars

LampNext == ApplicationStep \/ SettingsCommand \/ StripTaskStep

SafeLampSpec == LampInit /\ [][LampNext]_lampVars

(* The tasks of the application and the strip task loop for ever. *)
LampSpec ==
  /\ SafeLampSpec
  /\ WF_lampVars(~halted /\ TimerEventHandler /\ UNCHANGED appVars /\ SwitchFollows)
  /\ WF_lampVars(~halted /\ AppTaskLoop /\ SwitchFollows)
  /\ WF_lampVars(~halted /\ UpdateClusterState /\ SwitchFollows)
  /\ WF_lampVars(StripTaskStep)

-----------------------------------------------------------------------------
(* Properties *)

Shows(level) == strip = S!Frame(bufferRGB, level)

Unrequested == ~transmitRequest /\ ~S!LevelDiffers /\ at # "request"

(* What a setter did behind the strip task's back. *)
Disturbed == overtaken \/ undone

(* A strip task with nothing left to do shows the light: no device is lit   *)
(* on a light that is off or turning off, and every device has the set      *)
(* level and colour on one that is on or turning on.  Only a frame that a   *)
(* setter has overtaken, or a switch-off inside verifyLevel, is excused.    *)
ShowsLight ==
  Unrequested => Shows(IF Lit THEN onLevel ELSE 0) \/ Disturbed

(* A lamp with nothing left to do, in any of its tasks, shows what its      *)
(* OnOff attribute says, unless the two have come apart, a timer event was  *)
(* lost or a setter has disturbed the strip task: the attribute, the light, *)
(* the switch and the devices, each written by another task, agree whenever *)
(* all of them are idle.                                                    *)
Idle ==
  /\ queue = <<>> /\ ~mLightTimer /\ work = 0
  /\ Unrequested

IdleAsReported ==
  Idle => Shows(IF onOff THEN onLevel ELSE 0) \/ Disturbed \/ parted # {} \/ lost

(* Once nobody commands the lamp or presses a button any more, the devices  *)
(* end up showing what the OnOff attribute says: through the queue, the     *)
(* light, its callbacks, the write-back, the switch and the strip task.     *)
(* Only a lamp whose attribute and light have come apart, that has lost a   *)
(* timer event, or whose strip task was disturbed, is excused.  A command   *)
(* that changes nothing is no input: the strip task's steps look the same.  *)
UserInput ==
  \/ SettingsCommand
  \/ /\ ButtonEventHandler \/ \E value \in BOOLEAN : OnOffCommand(value)
     /\ sysVars' # sysVars

SettlesAsReported ==
  <>[][~UserInput]_lampVars =>
    <>[](Shows(IF onOff THEN onLevel ELSE 0) \/ Disturbed \/ parted # {} \/ lost \/ halted)

(* A light that stays on ends up lit on every device at its set level,      *)
(* even when turnOnOff(TRUE) preempts the strip task anywhere: verifyLevel  *)
(* makes up for the request that is left out or lost.                       *)
LightsUp == S!TurningOnLights

=============================================================================
