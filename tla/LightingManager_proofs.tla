----------------------- MODULE LightingManager_proofs -----------------------
(***************************************************************************)
(* Theorems about the light state machine, for every queue length and      *)
(* every choice of what the environment may do.                            *)
(***************************************************************************)
EXTENDS LightingManager, TLAPS, SequenceTheorems

-----------------------------------------------------------------------------
(* The queue *)

(* An event is appended or dropped: the queue keeps its type and its bound, *)
(* and its earlier events stay where they were.                             *)
LEMMA PostKeepsQueue ==
  ASSUME queue \in Seq(Events), Len(queue) <= QueueLength,
         NEW event \in Events, PostEvent(event)
  PROVE  /\ queue' \in Seq(Events)
         /\ Len(queue') <= QueueLength
         /\ Len(queue') \in {Len(queue), Len(queue) + 1}
         /\ \A i \in 1..Len(queue) : queue'[i] = queue[i]
         /\ Len(queue') # Len(queue) => queue'[Len(queue) + 1] = event
         /\ Len(queue) < QueueLength => Len(queue') = Len(queue) + 1
BY ConstantsAssumption DEF PostEvent

(* Dispatching takes the head: every other event moves up one place. *)
LEMMA DispatchKeepsQueue ==
  ASSUME queue \in Seq(Events), Len(queue) <= QueueLength,
         NEW handler, Dispatch(handler)
  PROVE  /\ queue' \in Seq(Events)
         /\ Len(queue') = Len(queue) - 1
         /\ Len(queue') <= QueueLength
         /\ Head(queue) \in Events
         /\ queue[1].handler = handler
         /\ \A i \in 1..Len(queue') : queue'[i] = queue[i + 1]
BY ConstantsAssumption DEF Dispatch

LEMMA EventTypes ==
  /\ \A h \in TimerHandlers : TimerEvent(h) \in Events /\ TimerEvent(h).handler = h
  /\ ButtonEvent \in Events /\ ButtonEvent.handler = "LightAction"
  /\ FunctionEvent \in Events /\ FunctionEvent.handler = "Function"
  /\ \A a \in Actions : LightEvent(a) \in Events /\ LightEvent(a).handler = "LightAction"
  /\ ExpiryHandler \in TimerHandlers
BY DEF Events, TimerEvent, ButtonEvent, FunctionEvent, LightEvent, ExpiryHandler, TimerHandlers

(* A light action asks for ON or OFF. *)
LEMMA RequestedActionType ==
  ASSUME queue \in Seq(Events), Dispatch("LightAction")
  PROVE  RequestedAction(Head(queue)) \in Actions
<1>1. Head(queue) \in Events /\ Head(queue).handler = "LightAction"
  BY DEF Dispatch
<1>2. Head(queue).type = "Light" => Head(queue).action \in Actions
  BY <1>1 DEF Events, TimerEvent, ButtonEvent, FunctionEvent, LightEvent, Actions
<1> QED
  BY <1>2 DEF RequestedAction, Actions

-----------------------------------------------------------------------------
(* Type correctness *)

LEMMA InitTypeOK == Init => TypeOK
<1> SUFFICES ASSUME Init PROVE TypeOK
  OBVIOUS
<1>1. PICK on \in BOOLEAN : InitLight(on)
  BY DEF Init
<1>2. mState \in States
  BY <1>1 DEF InitLight, RestState, States
<1>3. queue \in Seq(Events) /\ Len(queue) <= QueueLength
  BY ConstantsAssumption DEF Init
<1> QED
  BY <1>1, <1>2, <1>3 DEF Init, InitLight, TypeOK

(* InitiateAction keeps the light well-typed whatever it decides. *)
LEMMA InitiateActionType ==
  ASSUME TypeOK, NEW action \in Actions, NEW autoArmed \in BOOLEAN,
         NEW effArmed \in BOOLEAN, InitiateAction(action, autoArmed, effArmed)
  PROVE  /\ mState' \in States
         /\ mAutoTurnOff' \in BOOLEAN
         /\ mAutoTurnOffTimerArmed' \in BOOLEAN
         /\ mOffEffectArmed' \in BOOLEAN
         /\ mLightTimer' \in BOOLEAN
         /\ halted' \in BOOLEAN
BY DEF TypeOK, InitiateAction, Initiate, Refuse, Cancels, TimerStarts, appError, Initiated,
   AutoArmedAfter, EffectArmedAfter, States

LEMMA NextTypeOK == TypeOK /\ [Next]_vars => TypeOK'
<1> SUFFICES ASSUME TypeOK, [Next]_vars PROVE TypeOK'
  OBVIOUS
<1> USE DEF TypeOK
<1>1. ASSUME NEW action \in Actions, ClusterOnOff(action) PROVE TypeOK'
  BY <1>1, InitiateActionType DEF ClusterOnOff
<1>2. CASE OnTriggerOffWithEffect
  BY <1>2 DEF OnTriggerOffWithEffect, TimerStarts, appError
<1>3. ASSUME NEW on \in AutoTurnOffCalls, EnableAutoTurnOff(on) PROVE TypeOK'
  BY <1>3, ConstantsAssumption DEF EnableAutoTurnOff
<1>4. CASE TimerEventHandler
  BY <1>4, PostKeepsQueue, EventTypes DEF TimerEventHandler
<1>5. CASE ButtonEventHandler
  BY <1>5, PostKeepsQueue, EventTypes DEF ButtonEventHandler, lightVars
<1>6. ASSUME NEW action \in Requests, PostLightActionRequest(action) PROVE TypeOK'
  BY <1>6, PostKeepsQueue, EventTypes, ConstantsAssumption DEF PostLightActionRequest, lightVars
<1>7. CASE LightActionEventHandler
  <2>1. Dispatch("LightAction")
    BY <1>7 DEF LightActionEventHandler
  <2>2. RequestedAction(Head(queue)) \in Actions
    BY <2>1, RequestedActionType
  <2>3. InitiateAction(RequestedAction(Head(queue)), mAutoTurnOffTimerArmed, mOffEffectArmed)
    BY <1>7 DEF LightActionEventHandler
  <2> QED
    BY <2>1, <2>2, <2>3, InitiateActionType, DispatchKeepsQueue DEF Dispatch
<1>8. CASE ButtonHandler
  BY <1>8, DispatchKeepsQueue DEF ButtonHandler, Dispatch, lightVars
<1>9. CASE AutoTurnOffTimerEventHandler
  BY <1>9, InitiateActionType, DispatchKeepsQueue
    DEF AutoTurnOffTimerEventHandler, Dispatch, lightVars, Actions
<1>10. CASE OffEffectTimerEventHandler
  BY <1>10, InitiateActionType, DispatchKeepsQueue
    DEF OffEffectTimerEventHandler, Dispatch, lightVars, Actions
<1>11. CASE ActuatorMovementTimerEventHandler
  BY <1>11, DispatchKeepsQueue
    DEF ActuatorMovementTimerEventHandler, Dispatch, TimerStarts, appError, Completed, States
<1>12. CASE PowerLoss
  BY <1>12 DEF PowerLoss, lightVars
<1>13. ASSUME NEW on \in BOOLEAN, PowerCycle(on) PROVE TypeOK'
  <2>1. queue' \in Seq(Events) /\ Len(queue') <= QueueLength
    BY <1>13, ConstantsAssumption DEF PowerCycle
  <2>2. mState' \in States
    BY <1>13 DEF PowerCycle, RestState, States
  <2> QED
    BY <1>13, <2>1, <2>2 DEF PowerCycle
<1>14. CASE UNCHANGED vars
  BY <1>14 DEF vars, lightVars
<1> HIDE DEF TypeOK
<1> QED
  BY <1>1, <1>2, <1>3, <1>4, <1>5, <1>6, <1>7, <1>8, <1>9, <1>10, <1>11, <1>12, <1>13, <1>14
    DEF Next, Running, AppTaskMain

(* Every state the light and its queue reach is well-typed, and the queue   *)
(* never holds more than QueueLength events.                                *)
THEOREM TypeCorrect == SafeSpec => []TypeOK
BY InitTypeOK, NextTypeOK, PTL DEF SafeSpec

-----------------------------------------------------------------------------
(* What a movement, an effect and the automatic turning off rely on *)

(* How pending events change with the queue. *)
LEMMA PostPending ==
  ASSUME TypeOK, NEW event \in Events, PostEvent(event)
  PROVE  /\ \A h : Pending(h) => Pending(h)'
         /\ Len(queue) < QueueLength => Pending(event.handler)'
<1>1. ASSUME NEW h, Pending(h) PROVE Pending(h)'
  <2>1. PICK i \in 1..Len(queue) : queue[i].handler = h
    BY <1>1 DEF Pending
  <2>2. i \in 1..Len(queue') /\ queue'[i].handler = h
    BY <2>1, PostKeepsQueue DEF TypeOK
  <2> QED
    BY <2>2 DEF Pending
<1>2. ASSUME Len(queue) < QueueLength PROVE Pending(event.handler)'
  <2>1. Len(queue') = Len(queue) + 1 /\ queue'[Len(queue) + 1] = event
    BY <1>2, PostKeepsQueue DEF TypeOK
  <2>2. Len(queue') \in 1..Len(queue') /\ queue'[Len(queue')] = event
    BY <2>1 DEF TypeOK
  <2> QED
    BY <2>2 DEF Pending
<1> QED
  BY <1>1, <1>2

LEMMA DispatchPending ==
  ASSUME TypeOK, NEW handler, Dispatch(handler), NEW h, h # handler, Pending(h)
  PROVE  Pending(h)'
<1>1. PICK i \in 1..Len(queue) : queue[i].handler = h
  BY DEF Pending
<1>2. i # 1
  BY <1>1, DispatchKeepsQueue DEF TypeOK
<1>3. i - 1 \in 1..Len(queue') /\ queue'[i - 1].handler = h
  BY <1>1, <1>2, DispatchKeepsQueue DEF TypeOK
<1> QED
  BY <1>3 DEF Pending

(* An action is accepted only at rest.  It is refused, or a movement starts *)
(* with the timer to itself, or the device stops at rest.                   *)
LEMMA InitiateActionKeeps ==
  ASSUME Discipline, TypeOK, OneUse, ArmedAtRest,
         NEW action \in Actions,
         NEW autoArmed \in BOOLEAN, autoArmed => mAutoTurnOffTimerArmed,
         NEW effArmed \in BOOLEAN, effArmed => mOffEffectArmed,
         ~halted, InitiateAction(action, autoArmed, effArmed)
  PROVE  /\ OneUse'
         /\ ArmedAtRest'
         /\ \/ /\ Accepts(action, effArmed)
               /\ mState \in AtRest
               /\ mState' = Initiated(action)
               /\ mLightTimer'
               /\ ~mAutoTurnOffTimerArmed'
               /\ ~mOffEffectArmed'
               /\ ~halted'
            \/ /\ Accepts(action, effArmed)
               /\ mState \in AtRest
               /\ mState' = mState
               /\ ~mAutoTurnOffTimerArmed'
               /\ halted'
            \/ /\ ~Accepts(action, effArmed)
               /\ mAutoTurnOffTimerArmed' = autoArmed
               /\ mOffEffectArmed' = effArmed
               /\ UNCHANGED <<mState, mLightTimer, halted>>
<1>1. CASE ~Accepts(action, effArmed)
  BY <1>1 DEF InitiateAction, Refuse, OneUse, ArmedAtRest
<1>2. CASE Accepts(action, effArmed)
  <2>1. mState \in AtRest
    BY <1>2 DEF Accepts, ArmedAtRest, AtRest
  <2>2. /\ mAutoTurnOffTimerArmed' = AutoArmedAfter(action, autoArmed)
        /\ mAutoTurnOff' = mAutoTurnOff
        /\ \/ /\ mOffEffectArmed' = EffectArmedAfter(action, effArmed)
              /\ mState' = Initiated(action)
              /\ mLightTimer' /\ ~halted'
           \/ /\ mOffEffectArmed' => effArmed
              /\ mState' = mState
              /\ halted'
    BY <1>2 DEF InitiateAction, Initiate, TimerStarts, appError, EffectArmedAfter
  <2>3. halted' \/ ~mOffEffectArmed'
    BY <1>2, <2>2 DEF EffectArmedAfter, Accepts, Actions
  <2>4. ~mAutoTurnOffTimerArmed'
    <3>1. CASE action = "OFF"
      BY <3>1, <2>2 DEF AutoArmedAfter
    <3>2. CASE action = "ON"
      <4>1. mState = "OffCompleted" \/ mOffEffectArmed
        BY <1>2, <3>2 DEF Accepts
      <4>2. ~mAutoTurnOffTimerArmed
        BY <4>1 DEF Discipline, OneUse, ArmedAtRest
      <4> QED
        BY <4>2, <2>2 DEF AutoArmedAfter
    <3> QED
      BY <3>1, <3>2 DEF Actions
  <2>5. OneUse'
    BY <2>2, <2>4 DEF OneUse, EffectArmedAfter
  <2>6. ArmedAtRest'
    BY <2>1, <2>2, <2>3, <2>4 DEF ArmedAtRest
  <2> QED
    BY <1>2, <2>1, <2>2, <2>3, <2>4, <2>5, <2>6
<1> QED
  BY <1>1, <1>2

LEMMA InitLightInv == Init => LightInv
<1> SUFFICES ASSUME Init PROVE LightInv
  OBVIOUS
<1>1. PICK on \in BOOLEAN : InitLight(on)
  BY DEF Init
<1>2. ~InProgress
  BY <1>1 DEF InitLight, RestState, InProgress
<1> QED
  BY <1>1, <1>2 DEF InitLight, LightInv, OneUse, ArmedAtRest, MovementBacked, EffectBacked

(* An action carried out while the queue is kept, or shortened by an event  *)
(* that is neither of the two the invariant counts on.                      *)
LEMMA InitiateActionLightInv ==
  ASSUME Discipline, TypeOK, LightInv,
         NEW action \in Actions,
         NEW autoArmed \in BOOLEAN, autoArmed => mAutoTurnOffTimerArmed,
         ~halted, InitiateAction(action, autoArmed, mOffEffectArmed),
         Pending("Actuator") => Pending("Actuator")',
         Pending("OffEffect") => Pending("OffEffect")',
         UNCHANGED lost
  PROVE  LightInv'
<1> USE DEF LightInv
<1>1. mOffEffectArmed \in BOOLEAN
  BY DEF TypeOK
<1>2. OneUse' /\ ArmedAtRest'
  BY <1>1, InitiateActionKeeps
<1>3. MovementBacked'
  <2>1. CASE Accepts(action, mOffEffectArmed)
    BY <2>1, <1>1, InitiateActionKeeps DEF MovementBacked, InProgress, AtRest
  <2>2. CASE ~Accepts(action, mOffEffectArmed)
    <3>1. InProgress' => InProgress
      BY <2>2, <1>1, InitiateActionKeeps DEF InProgress
    <3>2. /\ mLightTimer' = mLightTimer
          /\ mOffEffectArmed' = mOffEffectArmed
          /\ mAutoTurnOffTimerArmed' => mAutoTurnOffTimerArmed
      BY <2>2, <1>1, InitiateActionKeeps
    <3> QED
      BY <3>1, <3>2 DEF MovementBacked
  <2> QED
    BY <2>1, <2>2
<1>4. EffectBacked'
  BY <1>1, InitiateActionKeeps DEF EffectBacked
<1> QED
  BY <1>2, <1>3, <1>4

LEMMA NextLightInv ==
  ASSUME Discipline, TypeOK, LightInv, [Next]_vars
  PROVE  LightInv'
<1> USE DEF LightInv
<1>0. mAutoTurnOffTimerArmed \in BOOLEAN /\ mOffEffectArmed \in BOOLEAN
  BY DEF TypeOK
<1>1. ASSUME NEW action \in Actions, ~halted, ClusterOnOff(action) PROVE LightInv'
  <2>1. \A h : Pending(h) => Pending(h)'
    BY <1>1 DEF ClusterOnOff, Pending
  <2>2. InitiateAction(action, mAutoTurnOffTimerArmed, mOffEffectArmed) /\ UNCHANGED lost
    BY <1>1 DEF ClusterOnOff
  <2> QED
    BY <1>0, <1>1, <2>1, <2>2, InitiateActionLightInv
<1>2. CASE OnTriggerOffWithEffect
  <2>1. mState \in AtRest /\ mState' = mState
    BY <1>2 DEF OnTriggerOffWithEffect, Discipline
  <2>2. ~InProgress'
    BY <2>1 DEF InProgress, AtRest
  <2> QED
    BY <1>2, <2>1, <2>2
      DEF OnTriggerOffWithEffect, TimerStarts, appError, OneUse, ArmedAtRest, MovementBacked,
          EffectBacked
<1>3. ASSUME NEW on \in AutoTurnOffCalls, EnableAutoTurnOff(on) PROVE LightInv'
  BY <1>3, ConstantsAssumption
    DEF EnableAutoTurnOff, OneUse, ArmedAtRest, MovementBacked, EffectBacked, Pending, InProgress
<1>4. CASE TimerEventHandler
  <2>0. PICK e \in TimerHandlers : e = ExpiryHandler
    BY EventTypes
  <2>1. TimerEvent(e) \in Events /\ TimerEvent(e).handler = e /\ PostEvent(TimerEvent(e))
    BY <1>4, <2>0, EventTypes DEF TimerEventHandler
  <2>2. lost' \/ Pending(e)'
    <3>1. CASE Len(queue) < QueueLength
      BY <2>1, <3>1, PostPending
    <3>2. CASE ~(Len(queue) < QueueLength)
      <4>1. Len(queue) >= QueueLength
        BY <3>2, ConstantsAssumption DEF TypeOK
      <4> QED
        BY <1>4, <4>1 DEF TimerEventHandler
    <3> QED
      BY <3>1, <3>2
  <2>3. \A h : Pending(h) => Pending(h)'
    BY <1>4, <2>1, PostPending DEF TimerEventHandler
  <2>4. OneUse' /\ ArmedAtRest'
    BY <1>4 DEF TimerEventHandler, OneUse, ArmedAtRest
  <2>5. UNCHANGED <<mState, mAutoTurnOffTimerArmed, mOffEffectArmed>>
    BY <1>4 DEF TimerEventHandler
  <2>6. InProgress => e = "Actuator"
    BY <2>0 DEF InProgress, ArmedAtRest, AtRest, ExpiryHandler
  <2>7. MovementBacked'
    BY <2>2, <2>5, <2>6 DEF MovementBacked, InProgress
  <2>8. mOffEffectArmed => e = "OffEffect"
    BY <2>0 DEF ExpiryHandler, OneUse, Discipline
  <2>9. EffectBacked'
    BY <2>2, <2>5, <2>8 DEF EffectBacked
  <2> QED
    BY <2>4, <2>7, <2>9
<1>5. ASSUME NEW event \in Events, PostEvent(event), UNCHANGED <<lightVars, halted, lost>>
      PROVE  LightInv'
  <2>1. \A h : Pending(h) => Pending(h)'
    BY <1>5, PostPending
  <2> QED
    BY <1>5, <2>1
      DEF lightVars, OneUse, ArmedAtRest, MovementBacked, EffectBacked, InProgress
<1>6. CASE ~halted /\ LightActionEventHandler
  <2>1. Dispatch("LightAction") /\ UNCHANGED lost
    BY <1>6 DEF LightActionEventHandler, Dispatch
  <2>2. \A h : h # "LightAction" /\ Pending(h) => Pending(h)'
    BY <2>1, DispatchPending
  <2>3. RequestedAction(Head(queue)) \in Actions
    BY <2>1, RequestedActionType DEF TypeOK
  <2>4. InitiateAction(RequestedAction(Head(queue)), mAutoTurnOffTimerArmed, mOffEffectArmed)
    BY <1>6 DEF LightActionEventHandler
  <2> QED
    BY <1>0, <1>6, <2>1, <2>2, <2>3, <2>4, InitiateActionLightInv
<1>7. CASE ButtonHandler
  <2>1. \A h : h # "Function" /\ Pending(h) => Pending(h)'
    BY <1>7, DispatchPending DEF ButtonHandler
  <2> QED
    BY <1>7, <2>1
      DEF ButtonHandler, Dispatch, lightVars, OneUse, ArmedAtRest, MovementBacked, EffectBacked, InProgress
<1>8. CASE ~halted /\ AutoTurnOffTimerEventHandler
  <2>1. Dispatch("AutoTurnOff") /\ UNCHANGED lost
    BY <1>8 DEF AutoTurnOffTimerEventHandler, Dispatch
  <2>2. \A h : h # "AutoTurnOff" /\ Pending(h) => Pending(h)'
    BY <2>1, DispatchPending
  <2>3. CASE mAutoTurnOffTimerArmed
    <3>1. InitiateAction("OFF", FALSE, mOffEffectArmed)
      BY <1>8, <2>3 DEF AutoTurnOffTimerEventHandler
    <3>2. "OFF" \in Actions
      BY DEF Actions
    <3> QED
      BY <1>8, <2>1, <2>2, <3>1, <3>2, InitiateActionLightInv
  <2>4. CASE ~mAutoTurnOffTimerArmed
    BY <1>8, <2>1, <2>2, <2>4 DEF AutoTurnOffTimerEventHandler, lightVars, OneUse,
       ArmedAtRest, MovementBacked, EffectBacked, InProgress
  <2> QED
    BY <2>3, <2>4
<1>9. CASE ~halted /\ OffEffectTimerEventHandler
  <2>1. Dispatch("OffEffect") /\ UNCHANGED lost
    BY <1>9 DEF OffEffectTimerEventHandler, Dispatch
  <2>2. \A h : h # "OffEffect" /\ Pending(h) => Pending(h)'
    BY <2>1, DispatchPending
  <2>3. CASE mOffEffectArmed
    <3>1. InitiateAction("OFF", mAutoTurnOffTimerArmed, FALSE) /\ "OFF" \in Actions
      BY <1>9, <2>3 DEF OffEffectTimerEventHandler, Actions
    <3>2. OneUse' /\ ArmedAtRest' /\ (halted' \/ ~mOffEffectArmed')
      BY <1>0, <1>9, <3>1, InitiateActionKeeps
    <3>3. MovementBacked'
      BY <1>0, <1>9, <2>1, <2>2, <2>3, <3>1, InitiateActionKeeps DEF MovementBacked, InProgress, ArmedAtRest, AtRest
    <3> QED
      BY <3>2, <3>3 DEF EffectBacked
  <2>4. CASE ~mOffEffectArmed
    BY <1>9, <2>1, <2>2, <2>4 DEF OffEffectTimerEventHandler, lightVars, OneUse,
       ArmedAtRest, MovementBacked, EffectBacked, InProgress
  <2> QED
    BY <2>3, <2>4
<1>10. CASE ActuatorMovementTimerEventHandler
  <2>1. Dispatch("Actuator") /\ UNCHANGED <<lost, mAutoTurnOff, mOffEffectArmed>>
    BY <1>10 DEF ActuatorMovementTimerEventHandler, Dispatch
  <2>2. \A h : h # "Actuator" /\ Pending(h) => Pending(h)'
    BY <2>1, DispatchPending
  <2>3. mState' \in AtRest
    BY <1>10 DEF ActuatorMovementTimerEventHandler, Completed, InProgress, AtRest, TypeOK, States
  <2>4. /\ \/ UNCHANGED mAutoTurnOffTimerArmed
           \/ mAutoTurnOff /\ mAutoTurnOffTimerArmed' /\ mState' = "OnCompleted"
        /\ mLightTimer => mLightTimer'
        /\ halted => halted'
    BY <1>10 DEF ActuatorMovementTimerEventHandler, TimerStarts, appError, Completed, InProgress, TypeOK
  <2>5. OneUse'
    <3>1. mAutoTurnOff' = mAutoTurnOff /\ mOffEffectArmed' = mOffEffectArmed
      BY <2>1
    <3>2. CASE UNCHANGED mAutoTurnOffTimerArmed
      BY <3>1, <3>2 DEF OneUse
    <3>3. CASE mAutoTurnOff
      BY <3>1, <3>3 DEF OneUse
    <3> QED
      BY <2>4, <3>2, <3>3
  <2>6. mState = "OnCompleted" => mState' = "OnCompleted"
    BY <1>10 DEF ActuatorMovementTimerEventHandler, Completed, InProgress
  <2>7. ArmedAtRest'
    BY <2>1, <2>3, <2>4, <2>6 DEF ArmedAtRest
  <2>8. MovementBacked'
    BY <2>3 DEF MovementBacked, InProgress, AtRest
  <2>9. EffectBacked'
    BY <2>1, <2>2, <2>4 DEF EffectBacked
  <2> QED
    BY <2>5, <2>7, <2>8, <2>9
<1>11. CASE PowerLoss
  BY <1>11 DEF PowerLoss, lightVars, OneUse, ArmedAtRest, MovementBacked, EffectBacked,
     InProgress, Pending
<1>12. ASSUME NEW on \in BOOLEAN, PowerCycle(on) PROVE LightInv'
  BY <1>12 DEF PowerCycle, RestState, OneUse, ArmedAtRest, MovementBacked, EffectBacked, InProgress
<1>13. CASE UNCHANGED vars
  BY <1>13 DEF vars, lightVars, OneUse, ArmedAtRest, MovementBacked, EffectBacked,
     InProgress, Pending
<1>14. ButtonEventHandler => LightInv'
  BY <1>5, EventTypes DEF ButtonEventHandler
<1>15. ASSUME NEW action \in Requests, PostLightActionRequest(action) PROVE LightInv'
  BY <1>5, <1>15, EventTypes, ConstantsAssumption DEF PostLightActionRequest
<1> HIDE DEF LightInv
<1> QED
  BY <1>1, <1>2, <1>3, <1>4, <1>6, <1>7, <1>8, <1>9, <1>10, <1>11, <1>12, <1>13, <1>14, <1>15
    DEF Next, Running, AppTaskMain

LEMMA LightInvHolds == ASSUME Discipline PROVE SafeSpec => []LightInv
<1>1. TypeOK /\ LightInv /\ [Next]_vars => LightInv'
  BY NextLightInv
<1> QED
  BY <1>1, InitLightInv, TypeCorrect, PTL DEF SafeSpec

(* Under the discipline, whatever the interleaving of commands, events,     *)
(* effects and restarts, a movement under way always has its completion on  *)
(* the way: the shared timer is never taken from it.                        *)
THEOREM MovementsBacked == ASSUME Discipline PROVE SafeSpec => []MovementBacked
<1>1. LightInv => MovementBacked
  BY DEF LightInv
<1> QED
  BY <1>1, LightInvHolds, PTL

(* Under the discipline, and with a timer service that may fail at any      *)
(* start: on a device that has not stopped, an armed effect always has its  *)
(* end on the way.                                                          *)
THEOREM EffectsBacked == ASSUME Discipline PROVE SafeSpec => []EffectBacked
<1>1. LightInv => EffectBacked
  BY DEF LightInv
<1> QED
  BY <1>1, LightInvHolds, PTL

-----------------------------------------------------------------------------
(* Automatic turning off, on a device that uses no effects *)

(* Where an event of the new queue comes from. *)
LEMMA PostOrigin ==
  ASSUME TypeOK, NEW event \in Events, PostEvent(event),
         NEW i \in 1..Len(queue')
  PROVE  \/ i \in 1..Len(queue) /\ queue'[i] = queue[i]
         \/ i = Len(queue) + 1 /\ queue'[i] = event
BY PostKeepsQueue DEF TypeOK

LEMMA PostPendingOnly ==
  ASSUME TypeOK, NEW event \in Events, PostEvent(event),
         NEW h, h # event.handler, Pending(h)'
  PROVE  Pending(h)
<1>1. PICK i \in 1..Len(queue') : queue'[i].handler = h
  BY DEF Pending
<1>2. i \in 1..Len(queue) /\ queue[i].handler = h
  BY <1>1, PostOrigin
<1> QED
  BY <1>2 DEF Pending

LEMMA DispatchPendingOnly ==
  ASSUME TypeOK, NEW handler, Dispatch(handler), NEW h, Pending(h)'
  PROVE  Pending(h)
<1>1. PICK i \in 1..Len(queue') : queue'[i].handler = h
  BY DEF Pending
<1>2. i + 1 \in 1..Len(queue) /\ queue[i + 1].handler = h
  BY <1>1, DispatchKeepsQueue DEF TypeOK
<1> QED
  BY <1>2 DEF Pending

(* Actuator events come last, whatever else is posted or taken. *)
ActuatorLast ==
  \A i, j \in 1..Len(queue) :
    queue[i].handler = "Actuator" /\ queue[j].handler \in {"Actuator", "AutoTurnOff"}
      => j <= i

LEMMA DispatchActuatorLast ==
  ASSUME TypeOK, ActuatorLast, NEW handler, Dispatch(handler)
  PROVE  ActuatorLast'
<1> SUFFICES ASSUME NEW i \in 1..Len(queue'), NEW j \in 1..Len(queue'),
                    queue'[i].handler = "Actuator",
                    queue'[j].handler \in {"Actuator", "AutoTurnOff"}
             PROVE  j <= i
  BY DEF ActuatorLast
<1>1. i + 1 \in 1..Len(queue) /\ queue[i + 1] = queue'[i]
  BY DispatchKeepsQueue DEF TypeOK
<1>2. j + 1 \in 1..Len(queue) /\ queue[j + 1] = queue'[j]
  BY DispatchKeepsQueue DEF TypeOK
<1>3. j + 1 <= i + 1
  BY <1>1, <1>2 DEF ActuatorLast
<1> QED
  BY <1>3

LEMMA PostActuatorLast ==
  ASSUME TypeOK, ActuatorLast, NEW event \in Events, PostEvent(event),
         event.handler \in {"Actuator", "AutoTurnOff"} => ~Pending("Actuator")
  PROVE  ActuatorLast'
<1> SUFFICES ASSUME NEW i \in 1..Len(queue'), NEW j \in 1..Len(queue'),
                    queue'[i].handler = "Actuator",
                    queue'[j].handler \in {"Actuator", "AutoTurnOff"},
                    ~(j <= i)
             PROVE  FALSE
  BY DEF ActuatorLast
<1>1. i \in 1..Len(queue) /\ queue[i].handler = "Actuator"
  BY PostOrigin, PostKeepsQueue DEF TypeOK
<1>2. Pending("Actuator")
  BY <1>1 DEF Pending
<1>3. j \in 1..Len(queue) /\ queue[j] = queue'[j]
  BY <1>2, PostOrigin
<1> QED
  BY <1>1, <1>3 DEF ActuatorLast, TypeOK

LEMMA InitAutoInv == Init => AutoInv
<1> SUFFICES ASSUME Init PROVE AutoInv
  OBVIOUS
<1>1. PICK on \in BOOLEAN : InitLight(on)
  BY DEF Init
<1>2. Len(queue) = 0
  BY DEF Init
<1>3. \A i \in 1..Len(queue) : FALSE
  BY <1>2
<1>4. OneExpiry
  BY <1>1, <1>3 DEF OneExpiry, Pending, InitLight
<1> QED
  BY <1>1, <1>4 DEF InitLight, AutoInv, OneUse, ArmedAtRest, AutoTurnOffBacked

LEMMA InitiateActionAutoInv ==
  ASSUME EffectWhen = {}, TypeOK, AutoInv,
         NEW action \in Actions,
         NEW autoArmed \in BOOLEAN, autoArmed => mAutoTurnOffTimerArmed,
         autoArmed = mAutoTurnOffTimerArmed \/ Accepts(action, mOffEffectArmed),
         ~halted, InitiateAction(action, autoArmed, mOffEffectArmed),
         ActuatorLast',
         Pending("Actuator")' => Pending("Actuator"),
         autoArmed => (Pending("AutoTurnOff")' <=> Pending("AutoTurnOff")),
         UNCHANGED lost
  PROVE  AutoInv'
<1>1. mOffEffectArmed \in BOOLEAN /\ Discipline /\ OneUse /\ ArmedAtRest
  BY DEF TypeOK, Discipline, AutoInv
<1>2. OneUse' /\ ArmedAtRest'
  BY <1>1, InitiateActionKeeps
<1>3. CASE Accepts(action, mOffEffectArmed)
  <2>1. /\ mState \in AtRest /\ ~mAutoTurnOffTimerArmed'
        /\ mState' = Initiated(action) \/ halted'
    BY <1>1, <1>3, InitiateActionKeeps
  <2>2. ~InProgress /\ (InProgress' \/ halted')
    BY <2>1 DEF InProgress, Initiated, AtRest
  <2>3. ~Pending("Actuator")'
    BY <2>2 DEF AutoInv, OneExpiry
  <2>4. OneExpiry'
    BY <2>2, <2>3 DEF OneExpiry, ActuatorLast
  <2>5. AutoTurnOffBacked'
    BY <2>1 DEF AutoTurnOffBacked
  <2> QED
    BY <1>2, <2>4, <2>5 DEF AutoInv
<1>4. CASE ~Accepts(action, mOffEffectArmed)
  <2>1. mAutoTurnOffTimerArmed' = mAutoTurnOffTimerArmed /\ UNCHANGED <<mState, mLightTimer, halted>>
    BY <1>1, <1>4, InitiateActionKeeps
  <2>2. OneExpiry'
    BY <2>1 DEF AutoInv, OneExpiry, ActuatorLast, InProgress
  <2>3. AutoTurnOffBacked'
    BY <1>4, <2>1 DEF AutoInv, AutoTurnOffBacked
  <2> QED
    BY <1>2, <2>2, <2>3 DEF AutoInv
<1> QED
  BY <1>3, <1>4

LEMMA NextAutoInv ==
  ASSUME EffectWhen = {}, TypeOK, AutoInv, [Next]_vars
  PROVE  AutoInv'
<1>0. /\ mAutoTurnOffTimerArmed \in BOOLEAN
      /\ mOffEffectArmed = FALSE
      /\ ActuatorLast
  BY DEF TypeOK, AutoInv, OneUse, OneExpiry, ActuatorLast
<1>1. ASSUME NEW action \in Actions, ~halted, ClusterOnOff(action) PROVE AutoInv'
  <2>1. ActuatorLast' /\ \A h : Pending(h)' <=> Pending(h)
    BY <1>0, <1>1 DEF ClusterOnOff, Pending, ActuatorLast
  <2>2. InitiateAction(action, mAutoTurnOffTimerArmed, mOffEffectArmed) /\ UNCHANGED lost
    BY <1>1 DEF ClusterOnOff
  <2> QED
    BY <1>0, <1>1, <2>1, <2>2, InitiateActionAutoInv
<1>2. CASE OnTriggerOffWithEffect
  BY <1>2 DEF OnTriggerOffWithEffect
<1>3. ASSUME NEW on \in AutoTurnOffCalls, EnableAutoTurnOff(on) PROVE AutoInv'
  BY <1>3, ConstantsAssumption
    DEF EnableAutoTurnOff, AutoInv, OneUse, ArmedAtRest, OneExpiry, AutoTurnOffBacked, Pending, InProgress
<1>4. CASE ~halted /\ TimerEventHandler
  <2>0. PICK e \in TimerHandlers : e = ExpiryHandler
    BY EventTypes
  <2>1. TimerEvent(e) \in Events /\ TimerEvent(e).handler = e /\ PostEvent(TimerEvent(e))
    BY <1>4, <2>0, EventTypes DEF TimerEventHandler
  <2>2. lost' \/ Pending(e)'
    <3>1. CASE Len(queue) < QueueLength
      BY <2>1, <3>1, PostPending
    <3>2. CASE ~(Len(queue) < QueueLength)
      <4>1. Len(queue) >= QueueLength
        BY <3>2, ConstantsAssumption DEF TypeOK
      <4> QED
        BY <1>4, <4>1 DEF TimerEventHandler
    <3> QED
      BY <3>1, <3>2
  <2>3. mLightTimer /\ ~mLightTimer' /\ UNCHANGED <<mState, mAutoTurnOff, mAutoTurnOffTimerArmed, mOffEffectArmed>>
    BY <1>4 DEF TimerEventHandler
  <2>4. OneUse' /\ ArmedAtRest'
    BY <2>3 DEF AutoInv, OneUse, ArmedAtRest
  <2>5. ~Pending("Actuator")
    BY <2>3 DEF AutoInv, OneExpiry
  <2>6. ActuatorLast'
    BY <1>0, <2>1, <2>5, PostActuatorLast
  <2>7. CASE mAutoTurnOffTimerArmed
    <3>1. e = "AutoTurnOff"
      BY <2>0, <2>7 DEF ExpiryHandler
    <3>2. ~Pending("Actuator")'
      BY <2>1, <2>5, <3>1, PostPendingOnly
    <3>3. OneExpiry'
      BY <2>3, <2>6, <3>2 DEF OneExpiry, ActuatorLast
    <3>4. AutoTurnOffBacked'
      BY <2>2, <2>3, <2>7, <3>1 DEF AutoInv, ArmedAtRest, AutoTurnOffBacked
    <3> QED
      BY <2>4, <3>3, <3>4 DEF AutoInv
  <2>8. CASE ~mAutoTurnOffTimerArmed
    <3>1. InProgress
      BY <1>4, <2>3, <2>8 DEF AutoInv, OneExpiry
    <3>2. InProgress'
      BY <2>3, <3>1 DEF InProgress
    <3>3. OneExpiry'
      BY <2>3, <2>6, <3>2 DEF OneExpiry, ActuatorLast
    <3>4. AutoTurnOffBacked'
      BY <2>3, <2>8 DEF AutoTurnOffBacked
    <3> QED
      BY <2>4, <3>3, <3>4 DEF AutoInv
  <2> QED
    BY <2>7, <2>8
<1>5. ASSUME NEW event \in Events, event.handler \in {"LightAction", "Function"},
             PostEvent(event), UNCHANGED <<lightVars, halted, lost>>
      PROVE  AutoInv'
  <2>1. ActuatorLast'
    BY <1>0, <1>5, PostActuatorLast
  <2>2. /\ Pending("Actuator")' <=> Pending("Actuator")
        /\ Pending("AutoTurnOff")' <=> Pending("AutoTurnOff")
    BY <1>5, PostPending, PostPendingOnly
  <2> QED
    BY <1>5, <2>1, <2>2 DEF lightVars, AutoInv, OneUse, ArmedAtRest, OneExpiry, ActuatorLast,
       AutoTurnOffBacked, InProgress
<1>6. CASE ~halted /\ LightActionEventHandler
  <2>1. Dispatch("LightAction") /\ UNCHANGED lost
    BY <1>6 DEF LightActionEventHandler, Dispatch
  <2>2. /\ Pending("Actuator")' <=> Pending("Actuator")
        /\ Pending("AutoTurnOff")' <=> Pending("AutoTurnOff")
    BY <2>1, DispatchPending, DispatchPendingOnly
  <2>3. RequestedAction(Head(queue)) \in Actions
    BY <2>1, RequestedActionType DEF TypeOK
  <2>4. InitiateAction(RequestedAction(Head(queue)), mAutoTurnOffTimerArmed, mOffEffectArmed)
    BY <1>6 DEF LightActionEventHandler
  <2>5. ActuatorLast'
    BY <1>0, <2>1, DispatchActuatorLast
  <2> QED
    BY <1>0, <1>6, <2>1, <2>2, <2>3, <2>4, <2>5, InitiateActionAutoInv
<1>7. ASSUME NEW handler, Dispatch(handler), handler \notin {"Actuator", "AutoTurnOff"},
             UNCHANGED <<lightVars, halted>>
      PROVE  AutoInv'
  <2>1. /\ Pending("Actuator")' <=> Pending("Actuator")
        /\ Pending("AutoTurnOff")' <=> Pending("AutoTurnOff")
    BY <1>7, DispatchPending, DispatchPendingOnly
  <2>2. ActuatorLast' /\ UNCHANGED lost
    BY <1>0, <1>7, DispatchActuatorLast DEF Dispatch
  <2> QED
    BY <1>7, <2>1, <2>2 DEF lightVars, AutoInv, OneUse, ArmedAtRest, OneExpiry, ActuatorLast,
       AutoTurnOffBacked, InProgress
<1>8. CASE ~halted /\ AutoTurnOffTimerEventHandler
  <2>1. Dispatch("AutoTurnOff") /\ UNCHANGED lost
    BY <1>8 DEF AutoTurnOffTimerEventHandler, Dispatch
  <2>2. Pending("Actuator")' <=> Pending("Actuator")
    BY <2>1, DispatchPending, DispatchPendingOnly
  <2>3. ActuatorLast'
    BY <1>0, <2>1, DispatchActuatorLast
  <2>4. CASE mAutoTurnOffTimerArmed
    <3>1. InitiateAction("OFF", FALSE, mOffEffectArmed) /\ "OFF" \in Actions
      BY <1>8, <2>4 DEF AutoTurnOffTimerEventHandler, Actions
    <3>2. Accepts("OFF", mOffEffectArmed)
      BY <1>0, <2>4 DEF Accepts, AutoInv, ArmedAtRest
    <3> QED
      BY <1>8, <2>1, <2>2, <2>3, <3>1, <3>2, InitiateActionAutoInv
  <2>5. CASE ~mAutoTurnOffTimerArmed
    <3>1. UNCHANGED <<lightVars, halted>>
      BY <1>8, <2>5 DEF AutoTurnOffTimerEventHandler
    <3> QED
      BY <2>1, <2>2, <2>3, <2>5, <3>1 DEF lightVars, AutoInv, OneUse, ArmedAtRest, OneExpiry,
         ActuatorLast, AutoTurnOffBacked, InProgress
  <2> QED
    BY <2>4, <2>5
<1>9. CASE OffEffectTimerEventHandler
  BY <1>0, <1>7, <1>9 DEF OffEffectTimerEventHandler
<1>10. CASE ActuatorMovementTimerEventHandler
  <2>1. Dispatch("Actuator") /\ UNCHANGED <<lost, mAutoTurnOff, mOffEffectArmed>>
    BY <1>10 DEF ActuatorMovementTimerEventHandler, Dispatch
  <2>2. 1 \in 1..Len(queue) /\ queue[1].handler = "Actuator"
    BY <2>1, DispatchKeepsQueue DEF TypeOK
  <2>3. InProgress /\ ~mLightTimer
    BY <2>2 DEF AutoInv, OneExpiry, Pending
  <2>4. \A h \in {"Actuator", "AutoTurnOff"} : ~Pending(h)'
    <3>1. SUFFICES ASSUME NEW i \in 1..Len(queue'),
                          queue'[i].handler \in {"Actuator", "AutoTurnOff"}
                   PROVE  FALSE
      BY DEF Pending
    <3>2. i + 1 \in 1..Len(queue) /\ queue[i + 1] = queue'[i]
      BY <2>1, DispatchKeepsQueue DEF TypeOK
    <3>3. i + 1 <= 1
      BY <1>0, <2>2, <3>1, <3>2 DEF ActuatorLast
    <3> QED
      BY <3>3
  <2>5. ~mAutoTurnOffTimerArmed
    BY <2>3 DEF AutoInv, ArmedAtRest, InProgress
  <2>6. mState' \in AtRest
    BY <1>10 DEF ActuatorMovementTimerEventHandler, Completed, InProgress, AtRest, TypeOK, States
  <2>7. \/ UNCHANGED <<mLightTimer, mAutoTurnOffTimerArmed>>
        \/ /\ mState = "OnInitiated" /\ mAutoTurnOff
           /\ mLightTimer' /\ mAutoTurnOffTimerArmed' /\ mState' = "OnCompleted"
        \/ halted' /\ UNCHANGED mAutoTurnOffTimerArmed
    BY <1>0, <1>10, <2>5
      DEF ActuatorMovementTimerEventHandler, TimerStarts, appError, Completed, InProgress
  <2>8. OneUse'
    <3>1. CASE UNCHANGED mAutoTurnOffTimerArmed
      BY <2>1, <3>1 DEF AutoInv, OneUse
    <3>2. CASE mAutoTurnOff
      BY <2>1, <3>2 DEF AutoInv, OneUse
    <3> QED
      BY <2>7, <3>1, <3>2
  <2>9. ArmedAtRest'
    BY <1>0, <2>1, <2>5, <2>7 DEF ArmedAtRest
  <2>10. OneExpiry'
    BY <2>3, <2>4, <2>7 DEF OneExpiry, Pending
  <2>11. AutoTurnOffBacked'
    BY <2>4, <2>5, <2>7 DEF AutoTurnOffBacked
  <2> QED
    BY <2>8, <2>9, <2>10, <2>11 DEF AutoInv
<1>11. CASE PowerLoss
  BY <1>11 DEF PowerLoss, lightVars, AutoInv, OneUse, ArmedAtRest, OneExpiry, AutoTurnOffBacked,
     InProgress, Pending
<1>12. ASSUME NEW on \in BOOLEAN, PowerCycle(on) PROVE AutoInv'
  <2>1. Len(queue') = 0
    BY <1>12 DEF PowerCycle
  <2>2. \A i \in 1..Len(queue') : FALSE
    BY <2>1
  <2>3. OneExpiry'
    BY <1>12, <2>2 DEF OneExpiry, Pending, PowerCycle
  <2> QED
    BY <1>12, <2>3 DEF PowerCycle, AutoInv, OneUse, ArmedAtRest, AutoTurnOffBacked
<1>13. CASE UNCHANGED vars
  BY <1>13 DEF vars, lightVars, AutoInv, OneUse, ArmedAtRest, OneExpiry, AutoTurnOffBacked,
     InProgress, Pending
<1>14. ButtonEventHandler => AutoInv'
  BY <1>5, EventTypes DEF ButtonEventHandler
<1>15. ASSUME NEW action \in Requests, PostLightActionRequest(action) PROVE AutoInv'
  BY <1>5, <1>15, EventTypes, ConstantsAssumption DEF PostLightActionRequest
<1>16. ButtonHandler => AutoInv'
  BY <1>7 DEF ButtonHandler
<1> QED
  BY <1>1, <1>2, <1>3, <1>4, <1>6, <1>8, <1>9, <1>10, <1>11, <1>12, <1>13, <1>14, <1>15, <1>16
    DEF Next, Running, AppTaskMain

(* Under the discipline, automatic turning off is armed only on a light     *)
(* that is on, and exactly one of its timer and its event will turn it off. *)
THEOREM AutoTurnOffsBacked == ASSUME Discipline PROVE SafeSpec => []AutoTurnOffBacked
<1>1. CASE EffectWhen = {}
  <2>1. TypeOK /\ AutoInv /\ [Next]_vars => AutoInv'
    BY <1>1, NextAutoInv
  <2>2. AutoInv => AutoTurnOffBacked
    BY DEF AutoInv
  <2> QED
    BY <2>1, <2>2, InitAutoInv, TypeCorrect, PTL DEF SafeSpec
<1>2. CASE EffectWhen # {}
  <2>1. LightInv => AutoTurnOffBacked
    BY <1>2 DEF Discipline, LightInv, OneUse, AutoTurnOffBacked
  <2> QED
    BY <2>1, LightInvHolds, PTL
<1> QED
  BY <1>1, <1>2

(* Without effects, whatever the timer service reports: an actuator event   *)
(* is queued at most once, only during its movement and with the timer      *)
(* stopped, and no event of an automatic turning off is behind it; only an  *)
(* armed countdown runs on a light at rest.                                 *)
THEOREM ExpiriesInOrder == ASSUME EffectWhen = {} PROVE SafeSpec => []OneExpiry
<1>1. TypeOK /\ AutoInv /\ [Next]_vars => AutoInv'
  BY NextAutoInv
<1>2. AutoInv => OneExpiry
  BY DEF AutoInv
<1> QED
  BY <1>1, <1>2, InitAutoInv, TypeCorrect, PTL DEF SafeSpec

-----------------------------------------------------------------------------
(* Room for the expiry *)

AutoTurnOffOnce ==
  \A i, j \in 1..Len(queue) :
    queue[i].handler = "AutoTurnOff" /\ queue[j].handler = "AutoTurnOff" => i = j

(* An automatic turn-off event is in the queue at most once, and gone when  *)
(* the countdown is started anew.                                           *)
RoomInv ==
  /\ ~Pending("OffEffect")
  /\ AutoTurnOffOnce
  /\ mLightTimer /\ mAutoTurnOffTimerArmed => ~Pending("AutoTurnOff")

LEMMA DispatchOnce ==
  ASSUME TypeOK, AutoTurnOffOnce, NEW handler, Dispatch(handler) PROVE AutoTurnOffOnce'
<1> SUFFICES ASSUME NEW i \in 1..Len(queue'), NEW j \in 1..Len(queue'),
                    queue'[i].handler = "AutoTurnOff", queue'[j].handler = "AutoTurnOff"
             PROVE  i = j
  BY DEF AutoTurnOffOnce
<1>1. i + 1 \in 1..Len(queue) /\ queue[i + 1] = queue'[i]
  BY DispatchKeepsQueue DEF TypeOK
<1>2. j + 1 \in 1..Len(queue) /\ queue[j + 1] = queue'[j]
  BY DispatchKeepsQueue DEF TypeOK
<1>3. i + 1 = j + 1
  BY <1>1, <1>2 DEF AutoTurnOffOnce
<1> QED
  BY <1>3

LEMMA PostOnce ==
  ASSUME TypeOK, AutoTurnOffOnce, NEW event \in Events, PostEvent(event),
         event.handler = "AutoTurnOff" => ~Pending("AutoTurnOff")
  PROVE  AutoTurnOffOnce'
<1> SUFFICES ASSUME NEW i \in 1..Len(queue'), NEW j \in 1..Len(queue'),
                    queue'[i].handler = "AutoTurnOff", queue'[j].handler = "AutoTurnOff"
             PROVE  i = j
  BY DEF AutoTurnOffOnce
<1>1. \A k \in 1..Len(queue') :
        \/ k \in 1..Len(queue) /\ queue'[k] = queue[k]
        \/ k = Len(queue) + 1 /\ queue'[k] = event
  BY PostOrigin
<1>2. CASE event.handler = "AutoTurnOff"
  BY <1>1, <1>2 DEF Pending
<1>3. CASE event.handler # "AutoTurnOff"
  BY <1>1, <1>3 DEF AutoTurnOffOnce
<1> QED
  BY <1>2, <1>3

LEMMA InitRoomInv == Init => RoomInv
<1> SUFFICES ASSUME Init PROVE RoomInv
  OBVIOUS
<1>1. Len(queue) = 0
  BY DEF Init
<1>2. \A i \in 1..Len(queue) : FALSE
  BY <1>1
<1> QED
  BY <1>2 DEF RoomInv, AutoTurnOffOnce, Pending

(* A decision of InitiateAction leaves no countdown running that was not.   *)
LEMMA InitiateActionRoomInv ==
  ASSUME TypeOK, AutoInv, RoomInv, NEW action \in Actions, NEW autoArmed \in BOOLEAN,
         autoArmed => mAutoTurnOffTimerArmed,
         mOffEffectArmed = FALSE, InitiateAction(action, autoArmed, mOffEffectArmed),
         AutoTurnOffOnce', \A h : Pending(h)' => Pending(h)
  PROVE  RoomInv'
<1>1. CASE Accepts(action, mOffEffectArmed)
  <2>1. ~mAutoTurnOffTimerArmed'
    BY <1>1 DEF InitiateAction, Initiate, Accepts, AutoArmedAfter, AutoInv, ArmedAtRest, TypeOK
  <2> QED
    BY <2>1 DEF RoomInv
<1>2. CASE ~Accepts(action, mOffEffectArmed)
  BY <1>2 DEF InitiateAction, Refuse, RoomInv
<1> QED
  BY <1>1, <1>2

LEMMA NextRoomInv ==
  ASSUME EffectWhen = {}, TypeOK, AutoInv, RoomInv, [Next]_vars
  PROVE  RoomInv'
<1>0. /\ mAutoTurnOffTimerArmed \in BOOLEAN /\ mOffEffectArmed = FALSE
      /\ AutoTurnOffOnce /\ "OFF" \in Actions
  BY DEF TypeOK, AutoInv, OneUse, RoomInv, Actions
<1>1. ASSUME NEW handler, Dispatch(handler) PROVE AutoTurnOffOnce' /\ \A h : Pending(h)' => Pending(h)
  BY <1>0, <1>1, DispatchOnce, DispatchPendingOnly
<1>2. ASSUME NEW action \in Actions, ClusterOnOff(action) PROVE RoomInv'
  <2>1. AutoTurnOffOnce' /\ \A h : Pending(h)' => Pending(h)
    BY <1>0, <1>2 DEF ClusterOnOff, AutoTurnOffOnce, Pending
  <2> QED
    BY <1>0, <1>2, <2>1, InitiateActionRoomInv DEF ClusterOnOff
<1>3. CASE LightActionEventHandler
  <2>1. RequestedAction(Head(queue)) \in Actions
    BY <1>3, RequestedActionType DEF TypeOK, LightActionEventHandler
  <2> QED
    BY <1>0, <1>1, <1>3, <2>1, InitiateActionRoomInv DEF LightActionEventHandler
<1>4. CASE AutoTurnOffTimerEventHandler
  <2>1. CASE mAutoTurnOffTimerArmed
    BY <1>0, <1>1, <1>4, <2>1, InitiateActionRoomInv DEF AutoTurnOffTimerEventHandler
  <2>2. CASE ~mAutoTurnOffTimerArmed
    BY <1>1, <1>4, <2>2 DEF AutoTurnOffTimerEventHandler, lightVars, RoomInv
  <2> QED
    BY <2>1, <2>2
<1>5. CASE ButtonHandler \/ OffEffectTimerEventHandler
  BY <1>0, <1>1, <1>5 DEF ButtonHandler, OffEffectTimerEventHandler, lightVars, RoomInv
<1>6. CASE ActuatorMovementTimerEventHandler
  <2>1. Dispatch("Actuator")
    BY <1>6 DEF ActuatorMovementTimerEventHandler
  <2>2. 1 \in 1..Len(queue) /\ queue[1].handler = "Actuator"
    BY <2>1, DispatchKeepsQueue DEF TypeOK
  <2>3. ~Pending("AutoTurnOff")'
    <3>1. SUFFICES ASSUME NEW i \in 1..Len(queue'), queue'[i].handler = "AutoTurnOff"
                   PROVE  FALSE
      BY DEF Pending
    <3>2. i + 1 \in 1..Len(queue) /\ queue[i + 1] = queue'[i]
      BY <2>1, DispatchKeepsQueue DEF TypeOK
    <3>3. i + 1 <= 1
      BY <2>2, <3>1, <3>2 DEF AutoInv, OneExpiry
    <3> QED
      BY <3>3
  <2> QED
    BY <1>1, <2>1, <2>3 DEF RoomInv
<1>7. ASSUME NEW event \in Events, PostEvent(event), UNCHANGED lightVars,
             event.handler \in {"LightAction", "Function"}
      PROVE  RoomInv'
  <2>1. AutoTurnOffOnce'
    BY <1>0, <1>7, PostOnce
  <2>2. \A h \in {"OffEffect", "AutoTurnOff"} : Pending(h)' => Pending(h)
    BY <1>7, PostPendingOnly
  <2> QED
    BY <1>7, <2>1, <2>2 DEF RoomInv, lightVars
<1>8. CASE TimerEventHandler
  <2>0. PICK e \in TimerHandlers : e = ExpiryHandler
    BY EventTypes
  <2>1. TimerEvent(e) \in Events /\ TimerEvent(e).handler = e /\ PostEvent(TimerEvent(e))
    BY <1>8, <2>0, EventTypes DEF TimerEventHandler
  <2>2. e # "OffEffect" /\ (e = "AutoTurnOff" => mAutoTurnOffTimerArmed)
    BY <1>0, <2>0 DEF ExpiryHandler
  <2>3. AutoTurnOffOnce'
    BY <1>0, <1>8, <2>1, <2>2, PostOnce DEF RoomInv, TimerEventHandler
  <2>4. ~Pending("OffEffect")'
    BY <2>1, <2>2, PostPendingOnly DEF RoomInv
  <2> QED
    BY <1>8, <2>3, <2>4 DEF RoomInv, TimerEventHandler
<1>9. CASE PowerLoss \/ UNCHANGED vars \/ \E on \in AutoTurnOffCalls : EnableAutoTurnOff(on)
  BY <1>9 DEF PowerLoss, EnableAutoTurnOff, vars, lightVars, RoomInv, AutoTurnOffOnce, Pending
<1>10. ASSUME NEW on \in BOOLEAN, PowerCycle(on) PROVE RoomInv'
  <2>1. Len(queue') = 0
    BY <1>10 DEF PowerCycle
  <2>2. \A i \in 1..Len(queue') : FALSE
    BY <2>1
  <2> QED
    BY <2>2 DEF RoomInv, AutoTurnOffOnce, Pending
<1>11. ButtonEventHandler => RoomInv'
  BY <1>7, EventTypes DEF ButtonEventHandler
<1>12. ASSUME NEW action \in Requests, PostLightActionRequest(action) PROVE RoomInv'
  BY <1>7, <1>12, EventTypes, ConstantsAssumption DEF PostLightActionRequest
<1>13. OnTriggerOffWithEffect => FALSE
  BY DEF OnTriggerOffWithEffect
<1> QED
  BY <1>2, <1>3, <1>4, <1>5, <1>6, <1>8, <1>9, <1>10, <1>11, <1>12, <1>13
    DEF Next, Running, AppTaskMain

(* Without effects the timer leaves room for its own expiry.                *)
THEOREM TimerLeavesRoom == ASSUME EffectWhen = {} PROVE SafeSpec => []RoomForExpiry
<1>1. TypeOK /\ AutoInv /\ [Next]_vars => AutoInv'
  BY NextAutoInv
<1>2. TypeOK /\ AutoInv /\ RoomInv /\ [Next]_vars => RoomInv'
  BY NextRoomInv
<1>3. AutoInv /\ RoomInv => RoomForExpiry
  BY DEF AutoInv, OneExpiry, RoomInv, AutoTurnOffOnce, RoomForExpiry, Pending, TimerHandlers
<1> QED
  BY <1>1, <1>2, <1>3, InitAutoInv, InitRoomInv, TypeCorrect, PTL DEF SafeSpec

-----------------------------------------------------------------------------
(* Effects *)

(* Under the discipline a flag is armed only on a light at rest.            *)
THEOREM FlagsArmedAtRest == ASSUME Discipline PROVE SafeSpec => []ArmedAtRest
<1>1. LightInv => ArmedAtRest
  BY DEF LightInv
<1> QED
  BY <1>1, LightInvHolds, PTL

(* For all constants, with or without the discipline, while the device does *)
(* not stop: the event of an armed effect turns the light off if it is on   *)
(* and leaves it alone otherwise, and nothing else ends an effect but ON.   *)
THEOREM EffectsTurnLight == SafeSpec => EffectTurnsLight
<1> DEFINE Turns ==
      mOffEffectArmed /\ ~halted /\ ~halted' =>
        IF Dispatch("OffEffect")
          THEN /\ ~mOffEffectArmed'
               /\ mState' = IF IsLightOn THEN "OffInitiated" ELSE mState
          ELSE mOffEffectArmed' \/ mState' = "OnInitiated"
<1>1. ASSUME NEW action, NEW autoArmed, mOffEffectArmed, ~halted', NEW effArmed,
             effArmed = mOffEffectArmed, InitiateAction(action, autoArmed, effArmed)
      PROVE  mOffEffectArmed' \/ mState' = "OnInitiated"
  BY <1>1 DEF InitiateAction, Initiate, Refuse, TimerStarts, appError, EffectArmedAfter, Initiated
<1>2. ASSUME TypeOK PROVE ~UNCHANGED queue \/ ~Dispatch("OffEffect")
  BY <1>2, DispatchKeepsQueue DEF TypeOK
<1>3. ASSUME TypeOK, NEW event \in Events, PostEvent(event) PROVE ~Dispatch("OffEffect")
  <2>1. Dispatch("OffEffect") => Len(queue') = Len(queue) - 1
    BY <1>3, DispatchKeepsQueue DEF TypeOK
  <2> QED
    BY <1>3, <2>1, PostKeepsQueue DEF TypeOK
<1>4. ASSUME NEW handler, handler # "OffEffect", Dispatch(handler) PROVE ~Dispatch("OffEffect")
  BY <1>4 DEF Dispatch
<1>5. ASSUME NEW action \in Actions, ClusterOnOff(action), TypeOK PROVE Turns
  BY <1>1, <1>2, <1>5 DEF ClusterOnOff
<1>6. ASSUME LightActionEventHandler PROVE Turns
  BY <1>1, <1>4, <1>6 DEF LightActionEventHandler
<1>7. ASSUME AutoTurnOffTimerEventHandler PROVE Turns
  BY <1>1, <1>4, <1>7 DEF AutoTurnOffTimerEventHandler, lightVars
<1>8. ASSUME TypeOK, OffEffectTimerEventHandler PROVE Turns
  <2> SUFFICES ASSUME mOffEffectArmed, ~halted'
               PROVE  ~mOffEffectArmed' /\ mState' = IF IsLightOn THEN "OffInitiated" ELSE mState
    BY <1>8 DEF OffEffectTimerEventHandler
  <2>1. InitiateAction("OFF", mAutoTurnOffTimerArmed, FALSE)
    BY <1>8 DEF OffEffectTimerEventHandler
  <2>2. Accepts("OFF", FALSE) <=> IsLightOn
    BY DEF Accepts, IsLightOn
  <2>3. CASE IsLightOn
    BY <2>1, <2>2, <2>3 DEF InitiateAction, Initiate, TimerStarts, appError, EffectArmedAfter, Initiated
  <2>4. CASE ~IsLightOn
    BY <2>1, <2>2, <2>4 DEF InitiateAction, Refuse
  <2> QED
    BY <2>3, <2>4
<1>9. ASSUME ButtonHandler \/ ActuatorMovementTimerEventHandler PROVE Turns
  BY <1>4, <1>9 DEF ButtonHandler, ActuatorMovementTimerEventHandler, lightVars
<1>10. ASSUME TypeOK,
              \/ TimerEventHandler
              \/ ButtonEventHandler
              \/ \E action \in Requests : PostLightActionRequest(action)
       PROVE  Turns
  <2>1. UNCHANGED mOffEffectArmed
    BY <1>10 DEF TimerEventHandler, ButtonEventHandler, PostLightActionRequest, lightVars
  <2>2. \E event \in Events : PostEvent(event)
    BY <1>10, EventTypes, ConstantsAssumption
      DEF TimerEventHandler, ButtonEventHandler, PostLightActionRequest
  <2> QED
    BY <1>3, <1>10, <2>1, <2>2
<1>11. ASSUME TypeOK,
              \/ OnTriggerOffWithEffect
              \/ \E on \in AutoTurnOffCalls : EnableAutoTurnOff(on)
              \/ PowerLoss
              \/ UNCHANGED vars
       PROVE  Turns
  <2>1. UNCHANGED queue /\ (mOffEffectArmed => mOffEffectArmed')
    BY <1>11 DEF OnTriggerOffWithEffect, EnableAutoTurnOff, PowerLoss, lightVars, vars
  <2> QED
    BY <1>2, <1>11, <2>1
<1>12. ASSUME NEW on \in BOOLEAN, PowerCycle(on) PROVE Turns
  BY <1>12 DEF PowerCycle
<1>13. TypeOK /\ [Next]_vars => [Turns]_vars
  <2> HIDE DEF Turns
  <2> QED
    BY <1>5, <1>6, <1>7, <1>8, <1>9, <1>10, <1>11, <1>12 DEF Next, Running, AppTaskMain
<1> QED
  BY <1>13, TypeCorrect, PTL DEF SafeSpec, EffectTurnsLight

-----------------------------------------------------------------------------
(* The light implements the actuator *)

(* Under the discipline the light keeps its promise: a movement is started  *)
(* only at rest, is never redirected, and ends where it was going.          *)
THEOREM LightImplementsActuator ==
  ASSUME Discipline PROVE SafeSpec => ImplementsActuator
<1> DEFINE pos  == IF mState \in {"OnInitiated", "OnCompleted"} THEN "On" ELSE "Off"
           seen == <<pos, InProgress, halted>>
<1>1. Init => Promise!Init
  BY DEF Init, InitLight, RestState, Promise!Init, InProgress
<1>2. ASSUME NEW action \in Actions, NEW autoArmed \in BOOLEAN, NEW effArmed \in BOOLEAN,
             autoArmed => mAutoTurnOffTimerArmed, effArmed => mOffEffectArmed,
             TypeOK, LightInv, ~halted, InitiateAction(action, autoArmed, effArmed)
      PROVE  Promise!Next \/ UNCHANGED seen
  <2>0. Discipline /\ OneUse /\ ArmedAtRest
    BY <1>2 DEF LightInv
  <2>1. CASE mState \in AtRest /\ mState' = Initiated(action) /\ ~halted'
    <3>1. ~InProgress /\ InProgress' /\ pos' \in {"On", "Off"}
      BY <2>1 DEF InProgress, AtRest, Initiated
    <3>2. UNCHANGED halted
      BY <1>2, <2>1, InitiateActionType DEF TypeOK
    <3> QED
      BY <1>2, <3>1, <3>2 DEF Promise!Next, Promise!Initiate, InProgress
  <2>2. CASE UNCHANGED mState /\ halted'
    <3>1. halted' = TRUE
      BY <1>2, <2>2, InitiateActionType
    <3> QED
      BY <2>2, <3>1 DEF Promise!Next, Promise!GoDown, InProgress
  <2>3. CASE UNCHANGED <<mState, halted>>
    BY <2>3 DEF InProgress
  <2> QED
    BY <1>2, <2>0, <2>1, <2>2, <2>3, InitiateActionKeeps
<1>3. ASSUME TypeOK, LightInv, [Next]_vars
      PROVE  Promise!Next \/ UNCHANGED seen
  <2>0. mAutoTurnOffTimerArmed \in BOOLEAN /\ mOffEffectArmed \in BOOLEAN /\ "OFF" \in Actions
    BY <1>3 DEF TypeOK, Actions
  <2>1. ASSUME UNCHANGED <<mState, halted>> PROVE UNCHANGED seen
    BY <2>1 DEF InProgress
  <2>2. ASSUME UNCHANGED mState, halted' = TRUE PROVE Promise!Next
    BY <2>2 DEF Promise!Next, Promise!GoDown, InProgress
  <2>3. ASSUME ~halted, NEW action \in Actions, ClusterOnOff(action)
        PROVE  Promise!Next \/ UNCHANGED seen
    BY <1>2, <1>3, <2>0, <2>3 DEF ClusterOnOff
  <2>4. CASE ~halted /\ LightActionEventHandler
    <3>1. RequestedAction(Head(queue)) \in Actions
      BY <1>3, <2>4, RequestedActionType DEF TypeOK, LightActionEventHandler
    <3> QED
      BY <1>2, <1>3, <2>0, <2>4, <3>1 DEF LightActionEventHandler
  <2>5. CASE ~halted /\ AutoTurnOffTimerEventHandler
    BY <1>2, <1>3, <2>0, <2>1, <2>5 DEF AutoTurnOffTimerEventHandler, lightVars
  <2>6. CASE ~halted /\ OffEffectTimerEventHandler
    BY <1>2, <1>3, <2>0, <2>1, <2>6 DEF OffEffectTimerEventHandler, lightVars
  <2>7. CASE ~halted /\ ActuatorMovementTimerEventHandler
    <3>1. /\ mState' = IF InProgress THEN Completed ELSE mState
          /\ halted' = halted \/ halted' = TRUE
      BY <2>7 DEF ActuatorMovementTimerEventHandler, TimerStarts, appError
    <3>2. CASE InProgress
      <4>1. halted' \in BOOLEAN
        BY <1>3, <3>1 DEF TypeOK
      <4>2. ~InProgress' /\ pos' = pos
        BY <3>1, <3>2 DEF Completed, InProgress
      <4> QED
        BY <2>7, <3>2, <4>1, <4>2 DEF InProgress, Promise!Next, Promise!Complete
    <3>3. CASE ~InProgress
      BY <2>1, <2>2, <3>1, <3>3
    <3> QED
      BY <3>2, <3>3
  <2>8. ASSUME NEW on \in BOOLEAN, PowerCycle(on) PROVE Promise!Next
    BY <2>8 DEF PowerCycle, RestState, InProgress, Promise!Next, Promise!Restart
  <2>9. ASSUME \/ OnTriggerOffWithEffect
               \/ \E on \in AutoTurnOffCalls : EnableAutoTurnOff(on)
               \/ TimerEventHandler
               \/ ButtonEventHandler
               \/ \E action \in Requests : PostLightActionRequest(action)
               \/ ButtonHandler
               \/ PowerLoss
               \/ UNCHANGED vars
        PROVE  UNCHANGED mState /\ (UNCHANGED halted \/ halted' = TRUE)
    BY <2>9 DEF OnTriggerOffWithEffect, TimerStarts, appError, EnableAutoTurnOff,
       TimerEventHandler, ButtonEventHandler, PostLightActionRequest, ButtonHandler, PowerLoss,
       lightVars, vars
  <2> HIDE DEF seen
  <2> QED
    BY <1>3, <2>1, <2>2, <2>3, <2>4, <2>5, <2>6, <2>7, <2>8, <2>9 DEF Next, Running, AppTaskMain
<1>4. TypeOK /\ LightInv /\ [Next]_vars => [Promise!Next]_<<pos, InProgress, halted>>
  BY <1>3
<1> QED
  BY <1>1, <1>4, TypeCorrect, LightInvHolds, PTL DEF SafeSpec, ImplementsActuator, Promise!Spec

(* Under the discipline a movement is initiated only when the previous one  *)
(* is complete, as the comment on InitiateAction's first condition says;    *)
(* an effect triggered during a movement breaks it.                         *)
THEOREM MovementsWait == ASSUME Discipline PROVE SafeSpec => OnlyWhenComplete
<1> DEFINE pos == IF mState \in {"OnInitiated", "OnCompleted"} THEN "On" ELSE "Off"
<1>1. TypeOK /\ TypeOK' /\ [Promise!Next]_<<pos, InProgress, halted>>
        => [mState' # mState /\ mState' \notin AtRest => mState \in AtRest]_vars
  <2> SUFFICES ASSUME TypeOK, TypeOK', [Promise!Next]_<<pos, InProgress, halted>>,
                      mState' # mState, mState' \notin AtRest, mState \notin AtRest
               PROVE  FALSE
    OBVIOUS
  <2>1. InProgress /\ InProgress'
    BY DEF TypeOK, States, AtRest, InProgress
  <2>2. pos' # pos
    BY <2>1 DEF InProgress
  <2> QED
    BY <2>1, <2>2 DEF Promise!Next, Promise!Initiate, Promise!Complete, Promise!GoDown,
                      Promise!Restart
<1>2. SafeSpec => [][Promise!Next]_<<pos, InProgress, halted>>
  BY LightImplementsActuator, PTL DEF ImplementsActuator, Promise!Spec
<1> QED
  BY <1>1, <1>2, TypeCorrect, PTL DEF OnlyWhenComplete

=============================================================================
