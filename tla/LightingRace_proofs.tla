------------------------ MODULE LightingRace_proofs ------------------------
(***************************************************************************)
(* Theorems about the light when its handlers interleave, for every length *)
(* of the queue.  Type correctness holds under every schedule, the rest    *)
(* under Schedule.                                                         *)
(***************************************************************************)
EXTENDS LightingRace, LightingManager_proofs

-----------------------------------------------------------------------------
(* Types *)

LEMMA GotoPoint ==
  ASSUME at \in [Tasks -> Points], NEW t \in Tasks, NEW point \in Points, Goto(t, point)
  PROVE  /\ at' \in [Tasks -> Points]
         /\ at'[t] = point
         /\ \A u \in Tasks : u # t => at'[u] = at[u]
BY DEF Goto

LEMMA BeginCall ==
  ASSUME at \in [Tasks -> Points], call \in [Tasks -> Actions],
         NEW t \in Tasks, NEW point \in Points, NEW what \in Actions, Begin(t, point, what)
  PROVE  /\ at' \in [Tasks -> Points] /\ call' \in [Tasks -> Actions]
         /\ at'[t] = point /\ call'[t] = what
         /\ \A u \in Tasks : u # t => at'[u] = at[u] /\ call'[u] = call[u]
BY DEF Begin, Goto

LEMMA InitRaceType == RaceInit => RaceTypeOK
<1> SUFFICES ASSUME RaceInit PROVE RaceTypeOK
  OBVIOUS
<1>1. TypeOK
  BY InitTypeOK DEF RaceInit
<1> QED
  BY <1>1 DEF RaceInit, RaceTypeOK, IsLightOn, Tasks, Points, Actions

LEMMA InitiateActionStepsType ==
  ASSUME RaceTypeOK, NEW t \in Tasks, InitiateActionSteps(t)
  PROVE  RaceTypeOK'
<1> USE DEF RaceTypeOK, TypeOK
<1>1. CASE ReadState(t)
  BY <1>1 DEF ReadState, Goto, Points, vars, lightVars, outputVars
<1>2. CASE ReadFlag(t)
  BY <1>2 DEF ReadFlag, Goto, Points, vars, lightVars, outputVars
<1>3. CASE CancelTimer(t)
  BY <1>3 DEF CancelTimer, Goto, Points, flagVars, outputVars
<1>4. CASE DisarmEffect(t)
  BY <1>4 DEF DisarmEffect, Goto, Points, flagVars, outputVars
<1>5. CASE StartTimer(t)
  BY <1>5 DEF StartTimer, Goto, Points, flagVars, outputVars
<1>6. CASE UpdateState(t)
  BY <1>6 DEF UpdateState, Goto, Points, Initiated, States, flagVars, outputVars
<1>7. CASE SetLED(t)
  BY <1>7 DEF SetLED, Goto, Points, vars, lightVars
<1>8. CASE TurnOnOff(t)
  BY <1>8 DEF TurnOnOff, Goto, Points, vars, lightVars
<1>9. CASE TestPower(t)
  BY <1>9 DEF TestPower, Goto, Points, vars, lightVars, outputVars
<1>10. CASE Darken(t)
  BY <1>10 DEF Darken, Goto, Points, vars, lightVars
<1> QED
  BY <1>1, <1>2, <1>3, <1>4, <1>5, <1>6, <1>7, <1>8, <1>9, <1>10 DEF InitiateActionSteps

LEMMA TakeType ==
  ASSUME RaceTypeOK, NEW handler, Take(handler) PROVE TypeOK'
BY DispatchKeepsQueue DEF RaceTypeOK, TypeOK, Take, Dispatch, lightVars

LEMMA NextRaceType == ASSUME RaceTypeOK, [RaceNext]_raceVars PROVE RaceTypeOK'
<1>0. "CHIP" \in Tasks /\ "App" \in Tasks
  BY DEF Tasks
<1>1. ASSUME NEW t \in Tasks, InitiateActionSteps(t) PROVE RaceTypeOK'
  BY <1>1, InitiateActionStepsType
<1>2. CASE StartEffect
  BY <1>2 DEF RaceTypeOK, TypeOK, StartEffect, Goto, Points, flagVars, outputVars
<1>3. CASE SetLevel
  BY <1>3 DEF RaceTypeOK, TypeOK, SetLevel, Goto, Points, vars, lightVars
<1>4. ASSUME NEW action \in Actions, CommandOnOff(action) PROVE RaceTypeOK'
  BY <1>4 DEF RaceTypeOK, TypeOK, CommandOnOff, Begin, Goto, Points, vars, lightVars, outputVars
<1>5. CASE ArmEffect
  BY <1>5 DEF RaceTypeOK, TypeOK, ArmEffect, Goto, Points, flagVars, outputVars
<1>6. CASE ReadPower
  BY <1>6 DEF RaceTypeOK, TypeOK, ReadPower, OnOffAction, Begin, Goto, Points, Actions,
     vars, lightVars, outputVars
<1>7. CASE ClearEffect
  BY <1>7 DEF RaceTypeOK, TypeOK, ClearEffect, Begin, Goto, Points, Actions, flagVars, outputVars
<1>8. CASE CompleteMovement
  BY <1>8 DEF RaceTypeOK, TypeOK, CompleteMovement, RestState, States, Goto, Points, flagVars,
     outputVars
<1>9. CASE TakeLightAction
  <2>1. TypeOK' /\ UNCHANGED outputVars
    BY <1>9, TakeType DEF TakeLightAction, Take
  <2>2. RequestedAction(Head(queue)) \in Actions
    BY <1>9, RequestedActionType DEF TakeLightAction, Take, RaceTypeOK, TypeOK
  <2>3. "state" \in Points
    BY DEF Points
  <2>4. at' \in [Tasks -> Points] /\ call' \in [Tasks -> Actions]
    BY <1>0, <1>9, <2>2, <2>3, BeginCall DEF TakeLightAction, RaceTypeOK
  <2> QED
    BY <2>1, <2>4 DEF RaceTypeOK, outputVars
<1>10. CASE TakeFunction
  BY <1>10, TakeType DEF TakeFunction, Take, RaceTypeOK, outputVars
<1>11. CASE TakeOffEffect
  <2>1. TypeOK' /\ UNCHANGED <<outputVars, call>>
    BY <1>11, TakeType DEF TakeOffEffect, Take
  <2>2. at' \in [Tasks -> Points]
    BY <1>11 DEF TakeOffEffect, Goto, RaceTypeOK, Points
  <2> QED
    BY <2>1, <2>2 DEF RaceTypeOK, outputVars
<1>12. CASE TakeActuator
  <2>1. TypeOK' /\ UNCHANGED outputVars
    BY <1>12, TakeType DEF TakeActuator, Take
  <2>2. at' \in [Tasks -> Points] /\ call' \in [Tasks -> Actions]
    BY <1>12 DEF TakeActuator, Begin, Goto, OnOffAction, RaceTypeOK, Points, Actions
  <2> QED
    BY <2>1, <2>2 DEF RaceTypeOK, outputVars
<1>13. CASE TimerTask
  <2>1. TypeOK'
    BY <1>13, PostKeepsQueue, EventTypes DEF TimerTask, TimerEventHandler, RaceTypeOK, TypeOK
  <2> QED
    BY <1>13, <2>1 DEF TimerTask, RaceTypeOK, outputVars
<1>14. CASE PostEvents
  <2>1. UNCHANGED <<lightVars, halted, lost, at, call, outputVars>>
    BY <1>14 DEF PostEvents, ButtonEventHandler, PostLightActionRequest
  <2>2. PICK event \in Events : PostEvent(event)
    BY <1>14, EventTypes, ConstantsAssumption
      DEF PostEvents, ButtonEventHandler, PostLightActionRequest
  <2>3. TypeOK'
    BY <2>1, <2>2, PostKeepsQueue DEF RaceTypeOK, TypeOK, lightVars
  <2> QED
    BY <2>1, <2>3 DEF RaceTypeOK, outputVars
<1>15. CASE UNCHANGED raceVars
  BY <1>15 DEF raceVars, vars, lightVars, outputVars, RaceTypeOK, TypeOK
<1> QED
  BY <1>0, <1>1, <1>2, <1>3, <1>4, <1>5, <1>6, <1>7, <1>8, <1>9, <1>10, <1>11, <1>12, <1>13,
     <1>14, <1>15
    DEF RaceNext, CHIPRuns, CHIPStep, CHIPCall, AppRuns, AppStep

(* Under every schedule of the tasks the light, the queue and the outputs   *)
(* are well-typed.                                                          *)
THEOREM RaceTypeCorrect == SafeRaceSpec => []RaceTypeOK
BY InitRaceType, NextRaceType, PTL DEF SafeRaceSpec

-----------------------------------------------------------------------------
(* The light under Schedule *)

LEMMA AppAlone == ASSUME Schedule, MayRun("App") PROVE at["CHIP"] = "idle"
BY DEF Schedule, MayRun, Busy, Tasks

LEMMA SameQueue == ASSUME UNCHANGED queue PROVE \A h : Pending(h)' = Pending(h)
BY DEF Pending

LEMMA InitRaceInv == RaceInit => RaceInv
<1> SUFFICES ASSUME RaceInit PROVE RaceInv
  OBVIOUS
<1>1. PICK on \in BOOLEAN : InitLight(on)
  BY DEF RaceInit, Init
<1>2. at["CHIP"] = "idle" /\ at["App"] = "idle"
  BY DEF RaceInit, Tasks
<1>3. mState \in AtRest /\ ~InProgress /\ IsLightOn = Lit
  BY <1>1 DEF InitLight, RestState, AtRest, InProgress, IsLightOn, Lit
<1> QED
  BY <1>1, <1>2, <1>3 DEF RaceInit, InitLight, RaceInv, DisarmedInStep, MovementBackedInStep,
     CallsInStep, OutputsSettle, Tasks

(* A step of InitiateAction: of the CHIP task, or of the application task   *)
(* while the CHIP task is idle.                                             *)
LEMMA InitiateActionStepsInv ==
  ASSUME RaceTypeOK, RaceInv, NEW t \in Tasks, InitiateActionSteps(t),
         t = "App" => at["CHIP"] = "idle"
  PROVE  RaceInv'
<1> USE SameQueue DEF RaceTypeOK, TypeOK, Tasks, Actions, States, Goto, Initiated, InProgress, Lit,
      RaceInv, DisarmedInStep, MovementBackedInStep, CallsInStep, OutputsSettle
<1>1. CASE ReadState(t)
  BY <1>1 DEF ReadState, vars, lightVars, outputVars
<1>2. CASE ReadFlag(t)
  BY <1>2 DEF ReadFlag, vars, lightVars, outputVars
<1>3. CASE CancelTimer(t)
  BY <1>3 DEF CancelTimer, flagVars, outputVars
<1>4. CASE DisarmEffect(t)
  BY <1>4 DEF DisarmEffect, flagVars, outputVars
<1>5. CASE StartTimer(t)
  BY <1>5 DEF StartTimer, flagVars, outputVars
<1>6. CASE UpdateState(t)
  BY <1>6 DEF UpdateState, flagVars, outputVars
<1>7. CASE SetLED(t)
  BY <1>7 DEF SetLED, vars, lightVars
<1>8. CASE TurnOnOff(t)
  BY <1>8 DEF TurnOnOff, vars, lightVars
<1>9. CASE TestPower(t)
  BY <1>9 DEF TestPower, vars, lightVars, outputVars
<1>10. CASE Darken(t)
  BY <1>10 DEF Darken, vars, lightVars
<1> QED
  BY <1>1, <1>2, <1>3, <1>4, <1>5, <1>6, <1>7, <1>8, <1>9, <1>10 DEF InitiateActionSteps

(* An event taken from the queue: only taking the actuator event removes    *)
(* the completion a movement relies on.                                     *)
LEMMA TakePending ==
  ASSUME RaceTypeOK, NEW handler, handler # "Actuator", Take(handler)
  PROVE  Pending("Actuator") => Pending("Actuator")'
BY DispatchPending DEF RaceTypeOK, Take

LEMMA NextRaceInv ==
  ASSUME Schedule, RaceTypeOK, RaceInv, [RaceNext]_raceVars
  PROVE  RaceInv'
<1>0. \A t \in Tasks : t = "CHIP" \/ t = "App"
  BY DEF Tasks
<1> USE DEF RaceTypeOK, TypeOK, Tasks, Actions, Goto, Begin, InProgress, Lit,
      RaceInv, DisarmedInStep, MovementBackedInStep, CallsInStep, OutputsSettle
<1>1. ASSUME NEW t \in Tasks, MayRun(t), InitiateActionSteps(t) PROVE RaceInv'
  <2> HIDE DEF RaceTypeOK, RaceInv
  <2> QED
    BY <1>0, <1>1, AppAlone, InitiateActionStepsInv
<1>2. CASE StartEffect
  BY <1>2, SameQueue DEF StartEffect, flagVars, outputVars
<1>3. CASE SetLevel
  BY <1>3, SameQueue DEF SetLevel, vars, lightVars
<1>4. ASSUME NEW action \in Actions, CommandOnOff(action) PROVE RaceInv'
  BY <1>4, SameQueue DEF CommandOnOff, vars, lightVars, outputVars
<1>5. CASE ArmEffect
  BY <1>5, SameQueue DEF ArmEffect, Schedule, AtRest, flagVars, outputVars
<1>6. CASE ReadPower
  BY <1>6, SameQueue DEF ReadPower, OnOffAction, vars, lightVars, outputVars
<1>7. CASE MayRun("App") /\ ClearEffect
  BY <1>7, AppAlone, SameQueue DEF ClearEffect, flagVars, outputVars
<1>8. CASE MayRun("App") /\ CompleteMovement
  BY <1>8, AppAlone, SameQueue
    DEF CompleteMovement, RestState, Initiated, AtRest, flagVars, outputVars
<1>9. CASE MayRun("App") /\ TakeLightAction
  BY <1>9, AppAlone, TakePending DEF TakeLightAction, Take, Dispatch, lightVars, outputVars
<1>10. CASE MayRun("App") /\ TakeFunction
  BY <1>10, AppAlone, TakePending DEF TakeFunction, Take, Dispatch, lightVars, outputVars
<1>11. CASE MayRun("App") /\ TakeOffEffect
  BY <1>11, AppAlone, TakePending DEF TakeOffEffect, Take, Dispatch, lightVars, outputVars
<1>12. CASE MayRun("App") /\ TakeActuator
  BY <1>12, AppAlone
    DEF TakeActuator, Take, Dispatch, OnOffAction, Initiated, AtRest, lightVars, outputVars
<1>13. CASE TimerTask
  <2>1. UNCHANGED <<mState, flagVars, mOffEffectArmed, at, call, outputVars>> /\ (lost => lost')
    BY <1>13 DEF TimerTask, TimerEventHandler, flagVars
  <2>2. Pending("Actuator") => Pending("Actuator")'
    BY <1>13, PostPending, EventTypes DEF TimerTask, TimerEventHandler
  <2>3. ASSUME ~mOffEffectArmed PROVE lost' \/ Pending("Actuator")'
    <3>1. TimerEvent("Actuator") \in Events /\ TimerEvent("Actuator").handler = "Actuator"
      BY EventTypes DEF TimerHandlers
    <3>2. PostEvent(TimerEvent("Actuator"))
      BY <1>13, <2>3 DEF TimerTask, TimerEventHandler, ExpiryHandler
    <3>3. CASE Len(queue) < QueueLength
      BY <3>1, <3>2, <3>3, PostPending
    <3>4. CASE Len(queue) >= QueueLength
      BY <1>13, <3>4 DEF TimerTask, TimerEventHandler
    <3>5. Len(queue) \in Nat /\ QueueLength \in Nat
      BY ConstantsAssumption
    <3> QED
      BY <3>3, <3>4, <3>5
  <2> QED
    BY <2>1, <2>2, <2>3 DEF flagVars, outputVars, AtRest
<1>14. CASE PostEvents
  <2>1. UNCHANGED <<lightVars, lost, at, call, outputVars>>
    BY <1>14 DEF PostEvents, ButtonEventHandler, PostLightActionRequest
  <2>2. PICK event \in Events : PostEvent(event)
    BY <1>14, EventTypes, ConstantsAssumption
      DEF PostEvents, ButtonEventHandler, PostLightActionRequest
  <2>3. Pending("Actuator") => Pending("Actuator")'
    BY <2>2, PostPending
  <2> QED
    BY <2>1, <2>3 DEF lightVars, outputVars
<1>15. CASE UNCHANGED raceVars
  BY <1>15, SameQueue DEF raceVars, vars, lightVars, outputVars
<1> HIDE DEF RaceTypeOK, RaceInv
<1> QED
  BY <1>0, <1>1, <1>2, <1>3, <1>4, <1>5, <1>6, <1>7, <1>8, <1>9, <1>10, <1>11, <1>12, <1>13,
     <1>14, <1>15
    DEF RaceNext, CHIPRuns, CHIPStep, CHIPCall, AppRuns, AppStep

LEMMA RaceInvHolds == ASSUME Schedule PROVE SafeRaceSpec => []RaceInv
<1>1. RaceTypeOK /\ RaceInv /\ [RaceNext]_raceVars => RaceInv'
  BY NextRaceInv
<1> QED
  BY <1>1, InitRaceInv, RaceTypeCorrect, PTL DEF SafeRaceSpec

(* With the CHIP task above the application task, and effects triggered     *)
(* between two of its events, no interleaving of the two tasks and the      *)
(* timer leaves a movement without its completion.                          *)
THEOREM MovementsBackedInStep ==
  ASSUME Schedule PROVE SafeRaceSpec => []MovementBackedInStep
<1>1. RaceInv => MovementBackedInStep
  BY DEF RaceInv
<1> QED
  BY <1>1, RaceInvHolds, PTL

(* Nor does one leave the LED or the strip on the wrong side.               *)
THEOREM OutputsAgree == ASSUME Schedule PROVE SafeRaceSpec => []OutputsSettle
<1>1. RaceInv => OutputsSettle
  BY DEF RaceInv
<1> QED
  BY <1>1, RaceInvHolds, PTL

-----------------------------------------------------------------------------
(* Without effects a movement is never redirected *)

(* No effect is armed or handled, and nothing stops the device. *)
NoEffect ==
  /\ ~mOffEffectArmed /\ ~halted
  /\ \A t \in Tasks : at[t] \notin {"effect", "clear", "disarm"}

LEMMA NextAccepted ==
  ASSUME Schedule, EffectWhen = {}, RaceTypeOK, RaceInv, NoEffect, AcceptedInStep,
         [RaceNext]_raceVars
  PROVE  NoEffect' /\ AcceptedInStep'
<1> USE DEF RaceTypeOK, TypeOK, Tasks, Actions, States, Goto, Begin, NoEffect, AcceptedInStep, Initiated
<1>1. ASSUME NEW t \in Tasks, MayRun(t), InitiateActionSteps(t)
      PROVE  NoEffect' /\ AcceptedInStep'
  BY <1>1, AppAlone DEF InitiateActionSteps, ReadState, ReadFlag, CancelTimer, DisarmEffect, StartTimer,
     UpdateState, SetLED, TurnOnOff, TestPower, Darken, vars, lightVars, flagVars
<1>2. CASE CHIPCall \/ StartEffect \/ SetLevel
  BY <1>2 DEF CHIPCall, StartEffect, SetLevel, CommandOnOff, ArmEffect, ReadPower, vars, lightVars,
     flagVars
<1>3. CASE MayRun("App") /\ (ClearEffect \/ CompleteMovement)
  BY <1>3, AppAlone DEF ClearEffect, CompleteMovement, flagVars
<1>4. CASE TakeLightAction \/ TakeFunction \/ TakeOffEffect \/ TakeActuator
  BY <1>4 DEF TakeLightAction, TakeFunction, TakeOffEffect, TakeActuator, Take, lightVars
<1>5. CASE TimerTask \/ PostEvents \/ UNCHANGED raceVars
  BY <1>5 DEF TimerTask, TimerEventHandler, PostEvents, ButtonEventHandler,
     PostLightActionRequest, raceVars, vars, lightVars
<1> HIDE DEF RaceTypeOK, NoEffect, AcceptedInStep
<1> QED
  BY <1>1, <1>2, <1>3, <1>4, <1>5 DEF RaceNext, CHIPRuns, CHIPStep, AppRuns, AppStep, Tasks

(* A step of the race is a step of the actuator, or leaves it alone.        *)
LEMMA RaceStepPromise ==
  ASSUME RaceTypeOK, RaceInv, NoEffect, NoEffect', AcceptedInStep, [RaceNext]_raceVars
  PROVE  [RacePromise!Next]_<<IF Lit THEN "On" ELSE "Off", InProgress, halted>>
<1> USE DEF RacePromise!Next, RacePromise!Initiate, RacePromise!Complete, Lit, InProgress
<1>0. halted = FALSE /\ halted' = FALSE
  BY NextRaceType DEF RaceTypeOK, TypeOK, NoEffect
<1>1. ASSUME NEW t \in Tasks, UpdateState(t)
      PROVE  [RacePromise!Next]_<<IF Lit THEN "On" ELSE "Off", InProgress, halted>>
  BY <1>0, <1>1 DEF UpdateState, AcceptedInStep, Initiated, RaceTypeOK, Tasks, Actions
<1>2. CASE CompleteMovement
  <2>1. /\ mState \in {"OnInitiated", "OffInitiated"}
        /\ mState' = IF mState = "OnInitiated" THEN "OnCompleted" ELSE "OffCompleted"
    BY <1>2 DEF CompleteMovement, RestState, RaceInv, CallsInStep, Initiated, RaceTypeOK, Tasks,
       Actions
  <2>2. InProgress /\ InProgress' = FALSE
    BY <2>1
  <2>3. Lit' = Lit
    BY <2>1
  <2>4. RacePromise!Complete
    BY <1>0, <2>2, <2>3
  <2> QED
    BY <2>4
<1>3. CASE UNCHANGED mState
  BY <1>0, <1>3
<1>4. (\E t \in Tasks : UpdateState(t)) \/ CompleteMovement \/ UNCHANGED mState
  BY DEF RaceNext, CHIPRuns, CHIPStep, CHIPCall, AppRuns, AppStep, InitiateActionSteps, ReadState,
     ReadFlag, CancelTimer, DisarmEffect, StartTimer, SetLED, TurnOnOff, TestPower, Darken, StartEffect,
     SetLevel, CommandOnOff, ArmEffect, ReadPower, ClearEffect, TakeLightAction, TakeFunction,
     TakeOffEffect, TakeActuator, Take, TimerTask, TimerEventHandler, PostEvents,
     ButtonEventHandler, PostLightActionRequest, raceVars, vars, lightVars, Tasks
<1> QED
  BY <1>1, <1>2, <1>3, <1>4

(* Where no effects are used, the light whose handlers interleave still     *)
(* keeps the actuator's promise: no movement is started over another one.   *)
THEOREM RaceKeepsPromise ==
  ASSUME Schedule, EffectWhen = {} PROVE SafeRaceSpec => RaceImplementsActuator
<1>1. RaceInit => NoEffect /\ AcceptedInStep /\ RacePromise!Init
  BY DEF RaceInit, Init, InitLight, RestState, NoEffect, AcceptedInStep, Lit, InProgress, RacePromise!Init,
     Tasks
<1>2. RaceTypeOK /\ RaceInv /\ NoEffect /\ AcceptedInStep /\ [RaceNext]_raceVars
        => NoEffect' /\ AcceptedInStep'
  BY NextAccepted
<1>3. RaceTypeOK /\ RaceInv /\ NoEffect /\ NoEffect' /\ AcceptedInStep /\ [RaceNext]_raceVars
        => [RacePromise!Next]_<<IF Lit THEN "On" ELSE "Off", InProgress, halted>>
  BY RaceStepPromise
<1> QED
  BY <1>1, <1>2, <1>3, RaceInvHolds, RaceTypeCorrect, PTL
     DEF SafeRaceSpec, RaceImplementsActuator, RacePromise!Spec

(* So even then a movement is initiated only when the previous one is       *)
(* complete, though the state is read, the timer started and the state      *)
(* written in three steps.                                                  *)
THEOREM RaceMovementsWait ==
  ASSUME Schedule, EffectWhen = {} PROVE SafeRaceSpec => OnlyWhenComplete
<1> DEFINE pos == IF Lit THEN "On" ELSE "Off"
<1>1. RaceTypeOK /\ RaceTypeOK' /\ [RacePromise!Next]_<<pos, InProgress, halted>>
        => [mState' # mState /\ mState' \notin AtRest => mState \in AtRest]_vars
  <2> SUFFICES ASSUME RaceTypeOK, RaceTypeOK', [RacePromise!Next]_<<pos, InProgress, halted>>,
                      mState' # mState, mState' \notin AtRest, mState \notin AtRest
               PROVE  FALSE
    OBVIOUS
  <2>1. InProgress /\ InProgress'
    BY DEF RaceTypeOK, TypeOK, States, AtRest, InProgress
  <2>2. pos' # pos
    BY <2>1 DEF InProgress, Lit
  <2> QED
    BY <2>1, <2>2 DEF RacePromise!Next, RacePromise!Initiate, RacePromise!Complete, RacePromise!Restart,
       RacePromise!GoDown
<1>2. SafeRaceSpec => [][RacePromise!Next]_<<pos, InProgress, halted>>
  BY RaceKeepsPromise, PTL DEF RaceImplementsActuator, RacePromise!Spec
<1> QED
  BY <1>1, <1>2, RaceTypeCorrect, PTL DEF OnlyWhenComplete

=============================================================================
