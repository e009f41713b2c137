----------------------- MODULE StripController_proofs -----------------------
(***************************************************************************)
(* Theorems about the strip for every number of devices, every level and   *)
(* every colour, with the setters running at any point of the strip task.  *)
(***************************************************************************)
EXTENDS StripController, TLAPS

-----------------------------------------------------------------------------
(* Types *)

(* A remainder of a division by 256 is a byte. *)
LEMMA ByteRemainder == \A x \in Int : x % 256 \in Byte
BY DEF Byte

(* C's division of integers gives an integer. *)
LEMMA QuotientInt == \A a \in Int, b \in Nat \ {0} : Quotient(a, b) \in Int
<1> SUFFICES ASSUME NEW a \in Int, NEW b \in Nat \ {0} PROVE Quotient(a, b) \in Int
  OBVIOUS
<1>1. a \div b \in Int /\ (-a) \div b \in Int
  OBVIOUS
<1> QED
  BY <1>1 DEF Quotient

LEMMA ComponentByte ==
  ASSUME NEW from \in Byte, NEW to \in Byte, NEW hueSect \in Nat, NEW saturation \in Byte
  PROVE  Component(from, to, hueSect, saturation) \in Byte
<1> DEFINE pure  == from + Quotient((to - from) * hueSect, HueSectorSize)
           floor == (255 - saturation) \div 2
<1>1. HueSectorSize \in Nat \ {0}
  BY DEF HueSectorSize, MaxHue, NumbOfSectors
<1>2. from \in Int /\ to \in Int /\ saturation \in Int /\ floor \in Int
  BY DEF Byte
<1>3. (to - from) * hueSect \in Int
  BY <1>2
<1>4. pure \in Int
  BY <1>1, <1>2, <1>3, QuotientInt
<1> HIDE DEF pure, floor
<1>5. pure * saturation \in Int
  BY <1>2, <1>4
<1>6. Quotient(pure * saturation, 255) \in Int
  BY <1>5, QuotientInt
<1>7. (Quotient(pure * saturation, 255) + floor) % 256 \in Byte
  BY <1>2, <1>6, ByteRemainder
<1> QED
  BY <1>7 DEF Component, pure, floor

(* Every hue and saturation gives a colour: the sector index stays within   *)
(* the node array, and every component within a byte.                       *)
LEMMA ConversionType ==
  ASSUME NEW hs \in HueSats PROVE convertHStoRGB(hs) \in Colors
<1> DEFINE hue     == ClampedHue(hs.hue)
           idx     == 1 + (hue \div HueSectorSize)
           hueSect == hue % HueSectorSize
<1>1. hue \in 0..254
  BY DEF HueSats, Byte, ClampedHue, MaxHue
<1>2. HueSectorSize = 85
  BY DEF HueSectorSize, MaxHue, NumbOfSectors
<1>3. idx \in 1..3 /\ hueSect \in Nat
  BY <1>1, <1>2
<1>4. \A i \in 1..4 : RGB_nodes[i] \in Colors
  BY DEF RGB_nodes, RGB, Colors, Byte
<1>5. RGB_nodes[idx] \in Colors /\ RGB_nodes[idx + 1] \in Colors
  BY <1>3, <1>4
<1>6. hs.saturation \in Byte
  BY DEF HueSats
<1> HIDE DEF idx, hueSect
<1>7. /\ Component(RGB_nodes[idx].R, RGB_nodes[idx + 1].R, hueSect, hs.saturation) \in Byte
      /\ Component(RGB_nodes[idx].G, RGB_nodes[idx + 1].G, hueSect, hs.saturation) \in Byte
      /\ Component(RGB_nodes[idx].B, RGB_nodes[idx + 1].B, hueSect, hs.saturation) \in Byte
  BY <1>3, <1>5, <1>6, ComponentByte DEF Colors
<1> QED
  BY <1>7 DEF convertHStoRGB, RGB, Colors, idx, hueSect

(* Every colour temperature gives a hue and a saturation that fit a byte.   *)
LEMMA TemperatureType ==
  ASSUME NEW mireds \in Nat PROVE TemperatureHS(mireds) \in HueSats
<1>1. MicroSaturation(mireds) \in Int
  BY DEF MicroSaturation
<1>2. TemperatureSaturation(mireds) \in Byte
  <2> DEFINE fabs == IF MicroSaturation(mireds) < 0 THEN -MicroSaturation(mireds)
                                                   ELSE MicroSaturation(mireds)
  <2>1. fabs \in Nat
    BY <1>1
  <2>2. CASE fabs > 255000000
    BY <2>2 DEF TemperatureSaturation, Byte
  <2>3. CASE ~(fabs > 255000000)
    <3> HIDE DEF fabs
    <3>1. fabs \div 1000000 \in 0..255
      BY <2>1, <2>3
    <3> USE DEF fabs
    <3> QED
      BY <2>3, <3>1 DEF TemperatureSaturation, Byte
  <2> QED
    BY <2>2, <2>3
<1> QED
  BY <1>2 DEF TemperatureHS, HueSats, Byte

LEMMA InitSettings == StripInit => SettingsTypeOK
<1> SUFFICES ASSUME StripInit PROVE SettingsTypeOK
  OBVIOUS
<1>1. RGB_WHITE \in Colors /\ [hue |-> 0, saturation |-> 0] \in HueSats
  BY DEF RGB_WHITE, RGB, Colors, HueSats, Byte
<1>2. 1 \in Devices /\ "verify" \in Points /\ 0 \in Byte
  BY StripAssumption DEF Devices, Points, Byte
<1>3. WS2812_START_LEVEL \in Byte \ {0}
  BY StripAssumption DEF Byte
<1> QED
  BY <1>1, <1>2, <1>3 DEF StripInit, WhiteBuffer, SettingsTypeOK

LEMMA SetColorType ==
  ASSUME SettingsTypeOK, NEW hs \in HueSats, SetColor(hs) PROVE SettingsTypeOK'
BY ConversionType DEF SettingsTypeOK, SetColor, setFixedColor, Overtakes, taskVars, Devices

LEMMA NextSettings == SettingsTypeOK /\ [StripNext]_stripVars => SettingsTypeOK'
<1> SUFFICES ASSUME SettingsTypeOK, [StripNext]_stripVars PROVE SettingsTypeOK'
  OBVIOUS
<1>1. ASSUME NEW state \in BOOLEAN, turnOnOff(state) PROVE SettingsTypeOK'
  BY <1>1 DEF turnOnOff, Switched, Overtakes, SettingsTypeOK, taskVars, Byte, Devices
<1>2. ASSUME NEW newLevel \in Levels, setLevel(newLevel) PROVE SettingsTypeOK'
  BY <1>2, StripAssumption
    DEF setLevel, NewOnLevel, LevelWhenTurned, Overtakes, SettingsTypeOK, taskVars, Byte, Devices
<1>3. ASSUME NEW hue \in Hues, setHue(hue) PROVE SettingsTypeOK'
  <2>1. [currentColorHS EXCEPT !.hue = hue] \in HueSats
    BY StripAssumption DEF SettingsTypeOK, HueSats
  <2> QED
    BY <1>3, <2>1, SetColorType DEF setHue
<1>4. ASSUME NEW saturation \in Saturations, setSaturation(saturation) PROVE SettingsTypeOK'
  <2>1. [currentColorHS EXCEPT !.saturation = saturation] \in HueSats
    BY StripAssumption DEF SettingsTypeOK, HueSats
  <2> QED
    BY <1>4, <2>1, SetColorType DEF setSaturation
<1>5. ASSUME NEW mireds \in Temperatures, setColorTemperature(mireds) PROVE SettingsTypeOK'
  BY <1>5, StripAssumption, TemperatureType, SetColorType DEF setColorTemperature
<1>6. CASE verifyLevel
  <2>1. /\ UNCHANGED <<turnedOn, onLevel, currentColorHS, bufferRGB, pBuffer, dev, overtaken, undone>>
        /\ currentLevel' \in {currentLevel, onLevel}
        /\ transmitRequest' \in {transmitRequest, TRUE}
        /\ at' \in {"compare", "adopt", "request", "test"}
    BY <1>6 DEF verifyLevel, RequestLevel, settings, history
  <2> QED
    BY <2>1 DEF SettingsTypeOK, Points, Devices
<1>7. CASE TestRequest
  BY <1>7, StripAssumption DEF TestRequest, SettingsTypeOK, settings, Points, Devices
<1>8. CASE dataTransmit
  BY <1>8, StripAssumption DEF dataTransmit, SettingsTypeOK, settings, history, Points, Devices
<1>9. CASE ClearRequest
  BY <1>9 DEF ClearRequest, SettingsTypeOK, settings, history, Points, Devices
<1>10. CASE Delay
  BY <1>10 DEF Delay, SettingsTypeOK, settings, history, Points, Devices
<1>11. CASE UNCHANGED stripVars
  BY <1>11 DEF stripVars, settings, taskVars, history, SettingsTypeOK, Devices
<1> HIDE DEF SettingsTypeOK
<1> QED
  BY <1>1, <1>2, <1>3, <1>4, <1>5, <1>6, <1>7, <1>8, <1>9, <1>10, <1>11
    DEF StripNext, Setters, stripControllerHandler

(* The settings are well-typed whenever the setters run: levels and colours *)
(* stay within a byte, and the level kept for turning on is never 0.        *)
THEOREM SettingsTypeCorrect == SafeStripSpec => []SettingsTypeOK
BY InitSettings, NextSettings, PTL DEF SafeStripSpec

-----------------------------------------------------------------------------
(* The invariant of setters and strip task *)

LEMMA InitStripInv == StripInit => StripInv
<1> SUFFICES ASSUME StripInit PROVE StripInv
  OBVIOUS
<1>1. NothingMissed
  BY StripAssumption DEF StripInit, NothingMissed, LevelDiffers
<1>2. LevelFollowsPower /\ CodedSoFar /\ SwitchSeen
  BY DEF StripInit, LevelFollowsPower, CodedSoFar, SwitchSeen
<1> QED
  BY <1>1, <1>2 DEF StripInv

(* A setter leaves the task alone and never withdraws a request: it         *)
(* overtakes the frame, or the frame stays what the settings say.           *)
LEMMA SetterCoded ==
  ASSUME SettingsTypeOK, StripInv, UNCHANGED taskVars, transmitRequest => transmitRequest',
         transmitRequest' \in BOOLEAN, Overtakes
  PROVE  CodedSoFar'
<1>1. UNCHANGED <<pBuffer, at, dev, strip>> /\ dev \in Nat
  BY DEF taskVars, SettingsTypeOK, Devices
<1>2. overtaken' = (overtaken \/ (Coded /\ <<currentLevel, bufferRGB>>' # <<currentLevel, bufferRGB>>))
  BY DEF Overtakes
<1>3. CASE overtaken'
  BY <1>1, <1>3 DEF StripInv, CodedSoFar
<1>4. CASE ~overtaken' /\ Coded
  BY <1>1, <1>2, <1>4 DEF StripInv, CodedSoFar, Frame, Devices
<1>5. CASE ~overtaken' /\ ~Coded
  <2>1. at \notin {"send", "clear"} /\ (at = "encode" => 1..(dev - 1) = {})
    BY <1>1, <1>5 DEF Coded
  <2> QED
    BY <1>1, <2>1 DEF StripInv, CodedSoFar
<1> QED
  BY <1>3, <1>4, <1>5

LEMMA NextStripInv ==
  ASSUME SettingsTypeOK, StripInv, [StripNext]_stripVars
  PROVE  StripInv'
<1>0. transmitRequest \in BOOLEAN /\ LevelFollowsPower /\ NothingMissed /\ CodedSoFar /\ SwitchSeen
  BY DEF SettingsTypeOK, StripInv
<1>1. ASSUME NEW state \in BOOLEAN, turnOnOff(state) PROVE StripInv'
  <2>1. /\ UNCHANGED <<onLevel, bufferRGB, taskVars>> /\ Switched(state) /\ Overtakes
        /\ undone' = (~state /\ at \in {"compare", "adopt"})
    BY <1>1 DEF turnOnOff
  <2>2. /\ turnedOn' = state
        /\ currentLevel' = IF state THEN currentLevel ELSE 0
        /\ transmitRequest' = (transmitRequest \/ ~state)
        /\ UNCHANGED <<at, strip>>
    BY <2>1 DEF Switched, taskVars
  <2>3. CodedSoFar'
    BY <1>0, <2>1, <2>2, SetterCoded
  <2>4. LevelFollowsPower' /\ SwitchSeen'
    BY <1>0, <2>1, <2>2 DEF LevelFollowsPower, SwitchSeen
  <2>5. NothingMissed'
    <3>1. CASE state
      <4>1. overtaken => overtaken'
        BY <2>1 DEF Overtakes
      <4>2. UNCHANGED <<bufferRGB, currentLevel, strip, at, transmitRequest>>
        BY <1>0, <2>1, <2>2, <3>1
      <4> QED
        BY <1>0, <2>1, <2>2, <3>1, <4>1, <4>2 DEF NothingMissed, LevelDiffers, Frame
    <3>2. CASE ~state
      BY <2>2, <3>2 DEF NothingMissed
    <3> QED
      BY <3>1, <3>2
  <2> QED
    BY <2>3, <2>4, <2>5 DEF StripInv
<1>2. ASSUME NEW newLevel \in Levels, setLevel(newLevel) PROVE StripInv'
  <2>1. /\ UNCHANGED <<turnedOn, bufferRGB, taskVars, undone>> /\ transmitRequest' = TRUE
        /\ Overtakes
        /\ currentLevel' = IF turnedOn THEN onLevel' ELSE 0
    BY <1>2 DEF setLevel, LevelWhenTurned
  <2>2. CodedSoFar'
    BY <1>0, <2>1, SetterCoded
  <2> QED
    BY <1>0, <2>1, <2>2 DEF StripInv, LevelFollowsPower, NothingMissed, SwitchSeen, taskVars
<1>3. ASSUME NEW hs, SetColor(hs) PROVE StripInv'
  <2>1. /\ UNCHANGED <<turnedOn, currentLevel, onLevel, taskVars, undone>> /\ transmitRequest' = TRUE
        /\ Overtakes
    BY <1>3 DEF SetColor, setFixedColor
  <2>2. CodedSoFar'
    BY <1>0, <2>1, SetterCoded
  <2> QED
    BY <1>0, <2>1, <2>2 DEF StripInv, LevelFollowsPower, NothingMissed, SwitchSeen, taskVars
<1>4. CASE verifyLevel
  <2>1. UNCHANGED <<turnedOn, onLevel, bufferRGB, strip, overtaken, undone>>
    BY <1>4 DEF verifyLevel, RequestLevel, settings, history
  <2>2. at' \notin {"encode", "send", "clear"}
    BY <1>4 DEF verifyLevel, RequestLevel
  <2>3. CodedSoFar'
    BY <2>2 DEF CodedSoFar
  <2>4. CASE at \in {"verify", "compare"}
    <3>1. UNCHANGED <<currentLevel, transmitRequest>> /\ at' \in {"compare", "adopt", "test"}
      BY <1>4, <2>4 DEF verifyLevel, RequestLevel, settings
    <3>2. at' \in {"compare", "adopt"} => turnedOn \/ at = "compare"
      BY <1>4, <2>4 DEF verifyLevel, RequestLevel
    <3>3. SwitchSeen'
      BY <1>0, <2>1, <3>2 DEF SwitchSeen
    <3>4. NothingMissed'
      BY <1>0, <2>1, <2>4, <3>1 DEF NothingMissed, LevelDiffers, Frame
    <3>5. LevelFollowsPower'
      BY <1>0, <2>1, <3>1 DEF LevelFollowsPower
    <3> QED
      BY <2>3, <3>3, <3>4, <3>5 DEF StripInv
  <2>5. CASE at = "adopt"
    <3>1. at' = "request" /\ currentLevel' = onLevel
      BY <1>4, <2>5 DEF verifyLevel, RequestLevel
    <3> QED
      BY <1>0, <2>1, <2>3, <2>5, <3>1
        DEF StripInv, LevelFollowsPower, NothingMissed, SwitchSeen
  <2>6. CASE at = "request"
    <3>1. at' = "test" /\ transmitRequest' = TRUE /\ UNCHANGED currentLevel
      BY <1>4, <2>6 DEF verifyLevel, RequestLevel, settings
    <3> QED
      BY <1>0, <2>1, <2>3, <3>1 DEF StripInv, LevelFollowsPower, NothingMissed, SwitchSeen
  <2> QED
    BY <1>4, <2>4, <2>5, <2>6 DEF verifyLevel, RequestLevel
<1>5. CASE TestRequest
  <2>1. /\ at = "test"
        /\ at' = IF transmitRequest THEN "encode" ELSE "delay"
        /\ dev' = 1
        /\ overtaken' = (overtaken /\ ~transmitRequest)
        /\ UNCHANGED <<turnedOn, currentLevel, onLevel, bufferRGB, transmitRequest, strip, undone>>
    BY <1>5 DEF TestRequest, settings
  <2>2. NothingMissed'
    BY <1>0, <2>1 DEF NothingMissed, LevelDiffers, Frame
  <2>3. CodedSoFar'
    BY <2>1 DEF CodedSoFar
  <2>4. LevelFollowsPower' /\ SwitchSeen'
    BY <1>0, <2>1 DEF LevelFollowsPower, SwitchSeen
  <2> QED
    BY <2>2, <2>3, <2>4 DEF StripInv
<1>6. CASE dataTransmit
  <2>1. /\ UNCHANGED <<turnedOn, currentLevel, onLevel, bufferRGB, transmitRequest, overtaken, undone>>
        /\ at' \in {"encode", "send", "clear"} /\ at \in {"encode", "send"}
    BY <1>6 DEF dataTransmit, settings, history
  <2>2. transmitRequest
    BY <1>0, <2>1 DEF CodedSoFar
  <2>3. NothingMissed' /\ LevelFollowsPower' /\ SwitchSeen'
    BY <1>0, <2>1, <2>2 DEF NothingMissed, LevelFollowsPower, SwitchSeen
  <2>4. CodedSoFar'
    <3>0. CASE overtaken
      BY <2>1, <2>2, <3>0 DEF CodedSoFar
    <3>1. CASE ~overtaken /\ at = "encode"
      <4>1. /\ pBuffer' = [pBuffer EXCEPT ![dev] = RGBToPulses(bufferRGB[dev], currentLevel)]
            /\ IF dev = WS2812_NUMB_DEV THEN at' = "send" /\ UNCHANGED dev
                                        ELSE dev' = dev + 1 /\ UNCHANGED at
        BY <1>6, <3>1 DEF dataTransmit
      <4>2. dev \in Nat /\ dev \in Devices /\ DOMAIN pBuffer = Devices /\ WS2812_NUMB_DEV \in Nat
        BY StripAssumption DEF SettingsTypeOK, Devices
      <4>3. \A d \in 1..dev : pBuffer'[d] = RGBToPulses(bufferRGB'[d], currentLevel')
        BY <1>0, <2>1, <3>1, <4>1, <4>2 DEF CodedSoFar, Devices
      <4>4. CASE dev = WS2812_NUMB_DEV
        <5>1. at' = "send"
          BY <4>1, <4>4
        <5>2. pBuffer' = [d \in Devices |-> pBuffer'[d]]
          BY <4>1, <4>2
        <5>3. pBuffer' = Frame(bufferRGB', currentLevel')
          BY <4>3, <4>4, <5>2 DEF Frame, Devices
        <5> QED
          BY <2>1, <2>2, <5>1, <5>3 DEF CodedSoFar
      <4>5. CASE dev # WS2812_NUMB_DEV
        <5>1. at' = "encode" /\ dev' = dev + 1
          BY <3>1, <4>1, <4>5
        <5>2. \A d \in 1..(dev' - 1) : pBuffer'[d] = RGBToPulses(bufferRGB'[d], currentLevel')
          BY <4>2, <4>3, <5>1
        <5> QED
          BY <2>1, <2>2, <5>1, <5>2 DEF CodedSoFar
      <4> QED
        BY <4>4, <4>5
    <3>2. CASE ~overtaken /\ at = "send"
      <4>1. at' = "clear" /\ strip' = pBuffer
        BY <1>6, <3>2 DEF dataTransmit
      <4>2. pBuffer = Frame(bufferRGB, currentLevel)
        BY <1>0, <3>2 DEF CodedSoFar
      <4>3. strip' = Frame(bufferRGB', currentLevel')
        BY <2>1, <4>1, <4>2
      <4> QED
        BY <2>1, <2>2, <4>1, <4>3 DEF CodedSoFar
    <3> QED
      BY <2>1, <3>0, <3>1, <3>2
  <2> QED
    BY <2>3, <2>4 DEF StripInv
<1>7. CASE ClearRequest
  <2>1. /\ at = "clear" /\ at' = "delay"
        /\ UNCHANGED <<turnedOn, currentLevel, onLevel, bufferRGB, strip, overtaken, undone>>
    BY <1>7 DEF ClearRequest, settings, history
  <2>2. overtaken \/ strip = Frame(bufferRGB, currentLevel)
    BY <1>0, <2>1 DEF CodedSoFar
  <2>3. overtaken' \/ strip' = Frame(bufferRGB', currentLevel')
    BY <2>1, <2>2
  <2> QED
    BY <1>0, <2>1, <2>3 DEF StripInv, LevelFollowsPower, NothingMissed, CodedSoFar, SwitchSeen
<1>8. CASE Delay
  <2>1. /\ at = "delay" /\ at' = "verify"
        /\ UNCHANGED <<turnedOn, currentLevel, onLevel, bufferRGB, transmitRequest, strip,
                       overtaken, undone>>
    BY <1>8 DEF Delay, settings, history
  <2> QED
    BY <1>0, <2>1
      DEF StripInv, LevelFollowsPower, NothingMissed, LevelDiffers, CodedSoFar, SwitchSeen, Frame
<1>9. CASE UNCHANGED stripVars
  BY <1>9 DEF stripVars, settings, taskVars, history, StripInv, LevelFollowsPower, NothingMissed,
     LevelDiffers, CodedSoFar, SwitchSeen
<1> QED
  BY <1>1, <1>2, <1>3, <1>4, <1>5, <1>6, <1>7, <1>8, <1>9
    DEF StripNext, Setters, stripControllerHandler, setHue, setSaturation, setColorTemperature

LEMMA StripInvHolds == SafeStripSpec => []StripInv
<1>1. SettingsTypeOK /\ StripInv /\ [StripNext]_stripVars => StripInv'
  BY NextStripInv
<1> QED
  BY <1>1, InitStripInv, SettingsTypeCorrect, PTL DEF SafeStripSpec

(* Wherever in the strip task the setters run, a change goes missing in one *)
(* case only: it comes after the first device of a frame has been coded and *)
(* before the request of that frame is cleared.  Any other change is shown  *)
(* by every device, or a transmission that will show it is requested, or    *)
(* verifyLevel will request one.                                            *)
THEOREM NothingGoesMissing == SafeStripSpec => []NothingMissed
<1>1. StripInv => NothingMissed
  BY DEF StripInv
<1> QED
  BY <1>1, StripInvHolds, PTL

(* A request stays until its frame has been sent, and a frame is that of    *)
(* the settings in force unless a setter has overtaken it: only then may it *)
(* be torn between old settings and new ones.                               *)
THEOREM CodingCorrect == SafeStripSpec => []CodedSoFar
<1>1. StripInv => CodedSoFar
  BY DEF StripInv
<1> QED
  BY <1>1, StripInvHolds, PTL

(* Wherever the setters run, the level in force is 0 or the set one, and a  *)
(* light that is off keeps a level in one case only: verifyLevel undoes a   *)
(* switch-off that comes inside it.                                         *)
THEOREM LevelCorrect == SafeStripSpec => []LevelFollowsPower
<1>1. StripInv => LevelFollowsPower
  BY DEF StripInv
<1> QED
  BY <1>1, StripInvHolds, PTL

(* The strip implements the safety of its promise with the setters running  *)
(* at any point: unless one has disturbed it, all devices are sent what is  *)
(* wanted at that moment, or darkness.                                      *)
THEOREM StripKeepsPromise == SafeStripSpec => Promise!SafeSpec
<1>1. ASSUME StripInv, [StripNext]_stripVars
      PROVE  Promise!Next
             \/ UNCHANGED <<turnedOn, onLevel, bufferRGB, strip, overtaken \/ undone>>
  <2>1. CASE at = "send" /\ dataTransmit
    <3>1. strip' = pBuffer /\ UNCHANGED <<turnedOn, onLevel, bufferRGB, overtaken, undone>>
      BY <2>1 DEF dataTransmit, settings, history
    <3>2. CASE overtaken \/ undone
      BY <3>1, <3>2 DEF Promise!Next, Promise!ShowDisturbed
    <3>3. CASE ~(overtaken \/ undone)
      <4>1. pBuffer = Frame(bufferRGB, currentLevel)
        BY <1>1, <2>1, <3>3 DEF StripInv, CodedSoFar
      <4>2. \A lv : Promise!Colored(lv) = Frame(bufferRGB, lv)
        BY DEF Promise!Colored, Frame
      <4>3. CASE currentLevel = 0
        <5>1. strip' = Promise!Colored(0)
          BY <3>1, <4>1, <4>2, <4>3
        <5> QED
          BY <3>1, <5>1 DEF Promise!Next, Promise!ShowDark, Promise!Write
      <4>4. CASE currentLevel # 0
        <5>1. turnedOn /\ currentLevel = onLevel
          BY <1>1, <3>3, <4>4 DEF StripInv, LevelFollowsPower
        <5>2. strip' = Promise!wanted
          BY <3>1, <4>1, <4>2, <5>1 DEF Promise!wanted
        <5> QED
          BY <3>1, <3>3, <5>2 DEF Promise!Next, Promise!Show, Promise!Write
      <4> QED
        BY <4>3, <4>4
    <3> QED
      BY <3>2, <3>3
  <2>2. CASE ~(at = "send" /\ dataTransmit)
    <3>1. UNCHANGED strip
      BY <1>1, <2>2 DEF StripNext, Setters, turnOnOff, setLevel, setHue, setSaturation,
         setColorTemperature, SetColor, stripControllerHandler, verifyLevel, RequestLevel, TestRequest,
         dataTransmit, ClearRequest, Delay, stripVars, taskVars
    <3> QED
      BY <3>1 DEF Promise!Next, Promise!Set
  <2> QED
    BY <2>1, <2>2
<1>2. StripInv /\ [StripNext]_stripVars =>
        [Promise!Next]_<<turnedOn, onLevel, bufferRGB, strip, overtaken \/ undone>>
  BY <1>1
<1> QED
  BY <1>2, StripInvHolds, PTL DEF SafeStripSpec, Promise!SafeSpec, Promise!promiseVars

=============================================================================
