-------------------------- MODULE StripController --------------------------
(***************************************************************************)
(* The LED strip of src/StripController.cpp: the settings other tasks      *)
(* change by calling the setters, and the strip task that brings them to   *)
(* the devices.                                                            *)
(*                                                                         *)
(* The strip task has the priority osPriorityBelowNormal and takes no      *)
(* lock, so a setter of another task may run between any two of its steps. *)
(* Every condition the strip task tests and every assignment it makes is a *)
(* step of its own, at the point `at` of its loop; within one only the     *)
(* operands of a single expression are read together (the two levels       *)
(* verifyLevel compares, the colour and the level of the device that is    *)
(* coded).  A setter, which the strip task cannot preempt, is one step.    *)
(***************************************************************************)
EXTENDS ColorConversion, PulseCoding

CONSTANTS
  WS2812_NUMB_DEV,    \* number of devices in the strip
  WS2812_START_LEVEL, \* the level when the strip is first turned on
  Levels,             \* the levels, hues, saturations and colour temperatures
  Hues,               \*   the cluster server may report
  Saturations,
  Temperatures

Points == {"verify", "compare", "adopt", "request", "test", "encode", "send", "clear", "delay"}

ASSUME StripAssumption ==
  /\ WS2812_NUMB_DEV \in Nat \ {0}
  /\ WS2812_START_LEVEL \in 1..255
  /\ Levels \subseteq Byte
  /\ Hues \subseteq Byte
  /\ Saturations \subseteq Byte
  /\ Temperatures \subseteq Nat

VARIABLES
  turnedOn, currentLevel, onLevel, transmitRequest,  \* StripController members
  currentColorHS, bufferRGB,
  pBuffer,      \* the pulse buffer handed to the SPI
  at, dev,      \* where the strip task is, and its loop variable in dataTransmit
  strip,        \* the pulses each device received last
  overtaken,    \* history: was the last frame overtaken by a change of what it shows?
  undone        \* history: was the light last switched off inside verifyLevel?

settings == <<turnedOn, currentLevel, onLevel, currentColorHS, bufferRGB>>
taskVars == <<pBuffer, at, dev, strip>>
history  == <<overtaken, undone>>
stripVars == <<settings, transmitRequest, taskVars, history>>

Devices == 1..WS2812_NUMB_DEV

Frame(rgb, level) == [d \in Devices |-> RGBToPulses(rgb[d], level)]

-----------------------------------------------------------------------------
(* The constructor, and the turnOnOff of AppTask::Init before the task      *)
(* starts.  After a restart the devices may still be lit.                  *)

WhiteBuffer == [d \in Devices |-> RGB_WHITE]

StripInit ==
  /\ turnedOn \in BOOLEAN
  /\ currentLevel = 0
  /\ onLevel = WS2812_START_LEVEL
  /\ transmitRequest = ~turnedOn
  /\ currentColorHS = [hue |-> 0, saturation |-> 0]
  /\ bufferRGB = WhiteBuffer
  /\ pBuffer = [d \in Devices |-> <<0, 0, 0, 0, 0, 0, 0, 0, 0>>]
  /\ at = "verify"
  /\ dev = 1
  /\ \E level \in {0, WS2812_START_LEVEL} : strip = Frame(bufferRGB, level)
  /\ overtaken = FALSE
  /\ undone = FALSE

-----------------------------------------------------------------------------
(* The setters *)

(* Has the strip task coded a device, and not yet cleared the request?  A   *)
(* change of the colours or of the level in force then overtakes the frame. *)
Coded == (at = "encode" /\ dev > 1) \/ at \in {"send", "clear"}

Overtakes ==
  LET shows == <<currentLevel, bufferRGB>>
  IN overtaken' = (overtaken \/ (Coded /\ shows' # shows))

OffKeepsLevel(state) ==                \* mutant: currentLevel is not cleared
  /\ turnedOn' = state
  /\ transmitRequest' = (transmitRequest \/ ~state)
  /\ UNCHANGED currentLevel

Switched(state) ==
  /\ turnedOn' = state
  /\ currentLevel' = IF state THEN currentLevel ELSE 0
  /\ transmitRequest' = (transmitRequest \/ ~state)

turnOnOff(state) ==
  /\ Switched(state)
  /\ undone' = (~state /\ at \in {"compare", "adopt"})
  /\ UNCHANGED <<onLevel, currentColorHS, bufferRGB, taskVars>>
  /\ Overtakes

LevelWhileOff(onLevel_) == onLevel_    \* mutant: turnedOn is not looked at
LevelWhenTurned(onLevel_) == IF turnedOn THEN onLevel_ ELSE 0

ZeroIsALevel(newLevel) == newLevel     \* mutant: 0 is stored as well
NewOnLevel(newLevel) == IF newLevel > 0 THEN newLevel ELSE onLevel

setLevel(newLevel) ==
  /\ onLevel' = NewOnLevel(newLevel)
  /\ currentLevel' = LevelWhenTurned(onLevel')
  /\ transmitRequest' = TRUE
  /\ UNCHANGED <<turnedOn, currentColorHS, bufferRGB, taskVars, undone>>
  /\ Overtakes

FixedWithoutRequest(colorHS) ==        \* mutant: no transmission is requested
  /\ bufferRGB' = [d \in Devices |-> convertHStoRGB(colorHS)]
  /\ UNCHANGED transmitRequest

setFixedColor(colorHS) ==
  /\ bufferRGB' = [d \in Devices |-> convertHStoRGB(colorHS)]
  /\ transmitRequest' = TRUE

SetColor(colorHS) ==
  /\ currentColorHS' = colorHS
  /\ setFixedColor(colorHS)
  /\ UNCHANGED <<turnedOn, currentLevel, onLevel, taskVars, undone>>
  /\ Overtakes

setHue(hue) == SetColor([currentColorHS EXCEPT !.hue = hue])
setSaturation(saturation) == SetColor([currentColorHS EXCEPT !.saturation = saturation])
setColorTemperature(mireds) == SetColor(TemperatureHS(mireds))

-----------------------------------------------------------------------------
(* The strip task *)

LevelDiffers == turnedOn /\ currentLevel # onLevel

AdoptUnrequested ==                    \* mutant: no transmission is requested
  /\ at = "request"
  /\ at' = "test"
  /\ UNCHANGED <<settings, transmitRequest, pBuffer, dev, strip, history>>

RequestLevel ==
  /\ at = "request"
  /\ transmitRequest' = TRUE
  /\ at' = "test"
  /\ UNCHANGED <<settings, pBuffer, dev, strip, history>>

(* The two conditions, and the two assignments. *)
verifyLevel ==
  \/ /\ at = "verify"
     /\ at' = IF turnedOn THEN "compare" ELSE "test"
     /\ UNCHANGED <<settings, transmitRequest, pBuffer, dev, strip, history>>
  \/ /\ at = "compare"
     /\ at' = IF currentLevel # onLevel THEN "adopt" ELSE "test"
     /\ UNCHANGED <<settings, transmitRequest, pBuffer, dev, strip, history>>
  \/ /\ at = "adopt"
     /\ currentLevel' = onLevel
     /\ at' = "request"
     /\ UNCHANGED <<turnedOn, onLevel, currentColorHS, bufferRGB, transmitRequest,
                    pBuffer, dev, strip, history>>
  \/ RequestLevel

TestKeepsDevice ==                     \* mutant: the loop goes on where it ended
  /\ at = "test"
  /\ at' = IF transmitRequest THEN "encode" ELSE "delay"
  /\ overtaken' = (overtaken /\ ~transmitRequest)
  /\ UNCHANGED <<settings, transmitRequest, pBuffer, dev, strip, undone>>

TestRequest ==
  /\ at = "test"
  /\ at' = IF transmitRequest THEN "encode" ELSE "delay"
  /\ dev' = 1
  /\ overtaken' = (overtaken /\ ~transmitRequest)
  /\ UNCHANGED <<settings, transmitRequest, pBuffer, strip, undone>>

(* dataTransmit: one turn of its loop, and the transmission. *)
dataTransmit ==
  \/ /\ at = "encode"
     /\ pBuffer' = [pBuffer EXCEPT ![dev] = RGBToPulses(bufferRGB[dev], currentLevel)]
     /\ IF dev = WS2812_NUMB_DEV THEN at' = "send" /\ UNCHANGED dev
                                 ELSE dev' = dev + 1 /\ UNCHANGED at
     /\ UNCHANGED <<settings, transmitRequest, strip, history>>
  \/ /\ at = "send"
     /\ strip' = pBuffer
     /\ at' = "clear"
     /\ UNCHANGED <<settings, transmitRequest, pBuffer, dev, history>>

ClearRequest ==
  /\ at = "clear"
  /\ transmitRequest' = FALSE
  /\ at' = "delay"
  /\ UNCHANGED <<settings, pBuffer, dev, strip, history>>

Delay ==
  /\ at = "delay"
  /\ at' = "verify"
  /\ UNCHANGED <<settings, transmitRequest, pBuffer, dev, strip, history>>

stripControllerHandler ==
  verifyLevel \/ TestRequest \/ dataTransmit \/ ClearRequest \/ Delay

Setters ==
  \/ \E state \in BOOLEAN : turnOnOff(state)
  \/ \E newLevel \in Levels : setLevel(newLevel)
  \/ \E hue \in Hues : setHue(hue)
  \/ \E saturation \in Saturations : setSaturation(saturation)
  \/ \E mireds \in Temperatures : setColorTemperature(mireds)

StripNext == Setters \/ stripControllerHandler

SafeStripSpec == StripInit /\ [][StripNext]_stripVars

(* The strip task is never starved: the tasks above it sleep in between. *)
StripSpec == SafeStripSpec /\ WF_stripVars(stripControllerHandler)

-----------------------------------------------------------------------------
(* Properties *)

HueSats == [hue : Byte, saturation : Byte]
Colors == [R : Byte, G : Byte, B : Byte]

(* Colours and levels stay bytes through all conversions, and the level to  *)
(* turn on with is never 0 (setLevel).                                      *)
SettingsTypeOK ==
  /\ turnedOn \in BOOLEAN
  /\ currentLevel \in Byte
  /\ onLevel \in Byte \ {0}
  /\ transmitRequest \in BOOLEAN
  /\ currentColorHS \in HueSats
  /\ bufferRGB \in [Devices -> Colors]
  /\ at \in Points
  /\ dev \in Devices
  /\ DOMAIN pBuffer = Devices
  /\ overtaken \in BOOLEAN
  /\ undone \in BOOLEAN

(* The level in force is 0 or the set one, and 0 on a light that is off.    *)
(* Only a switch-off that comes between verifyLevel's look at turnedOn and  *)
(* its assignment of the level is undone by the latter, and stays so until  *)
(* the switch is used again.                                                *)
LevelFollowsPower ==
  /\ currentLevel \in {0, onLevel}
  /\ ~turnedOn => currentLevel = 0 \/ undone

(* With no transmission requested, and no level for verifyLevel to adopt or *)
(* to request, the devices show the colours at the level in force: the only *)
(* change that goes missing is one that comes after the coding of the frame *)
(* has begun and before its request is cleared.  The next frame makes up    *)
(* for it.                                                                  *)
NothingMissed ==
  transmitRequest \/ LevelDiffers \/ at = "request" \/ overtaken
    \/ strip = Frame(bufferRGB, currentLevel)

(* The pulses the strip task has coded so far are those of the settings     *)
(* unless these have overtaken the frame, so that a torn frame is sent only *)
(* in that case, and the request stays until the frame has been sent.       *)
CodedSoFar ==
  /\ at \in {"encode", "send", "clear"} => transmitRequest
  /\ overtaken \/
       /\ at = "encode" =>
            \A d \in 1..(dev - 1) : pBuffer[d] = RGBToPulses(bufferRGB[d], currentLevel)
       /\ at = "send" => pBuffer = Frame(bufferRGB, currentLevel)
       /\ at = "clear" => strip = Frame(bufferRGB, currentLevel)

(* verifyLevel goes on only on a light that is on, or was until just now.   *)
SwitchSeen == at \in {"compare", "adopt"} => turnedOn \/ undone

(* Inductive. *)
StripInv == LevelFollowsPower /\ NothingMissed /\ CodedSoFar /\ SwitchSeen

Wanted == Frame(bufferRGB, IF turnedOn THEN onLevel ELSE 0)

(* The strip task implements the promise of the abstract strip, but for the *)
(* two ways in which a setter can disturb it.                               *)
Promise == INSTANCE Strip WITH
  Pulses <- RGBToPulses,
  power <- turnedOn, level <- onLevel, colors <- bufferRGB, shown <- strip,
  disturbed <- overtaken \/ undone
ImplementsStrip == Promise!Spec

(* A light that stays on ends up lit on every device at its set level,      *)
(* whatever the switch did before: verifyLevel makes up for lost requests.  *)
(* Only a level or a colour set in the middle of a frame can be left out.   *)
TurningOnLights == turnedOn ~> (~turnedOn \/ strip = Wanted \/ overtaken)

(* "set fixed color and level to all devices": once nothing is set any      *)
(* more, all devices show what is wanted, unless the last switch-off was    *)
(* undone.                                                                  *)
SettingsReachDevices == <>[][FALSE]_settings => <>[](strip = Wanted \/ undone)

=============================================================================
