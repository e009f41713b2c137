-------------------------- MODULE LightingManager --------------------------
(***************************************************************************)
(* The light state machine of src/LightingManager.cpp together with the    *)
(* one-shot timer it owns and the application event queue through which    *)
(* its timer events travel.                                                *)
(*                                                                         *)
(* Four tasks touch this state.  The CHIP task calls InitiateAction and    *)
(* OnTriggerOffWithEffect directly; the timer task runs TimerEventHandler; *)
(* the button callback posts an event; the application task ("Lit")        *)
(* dequeues events and runs their handlers.  Here a handler runs to        *)
(* completion before another one starts: the interleaving is that of whole *)
(* handlers, which is what the event queue of the code is there for.       *)
(***************************************************************************)
EXTENDS Naturals, Sequences

CONSTANTS
  QueueLength,      \* capacity of the application event queue
  EffectWhen,       \* the light states in which an OffWithEffect may arrive
  AutoTurnOffCalls, \* the arguments EnableAutoTurnOff is called with
  Buttons,          \* are the push buttons fitted?
  Requests,         \* the actions PostLightActionRequest is called with
  TimerFaults,      \* can osTimerStart / osTimerStop report an error?
  PowerCycles       \* can the device lose its power and get it back?

States  == {"OffInitiated", "OffCompleted", "OnInitiated", "OnCompleted"}
Actions == {"ON", "OFF"}

(***************************************************************************)
(* An event of the queue.  The handler is the function pointer AppEvent    *)
(* carries, type tells a light request from a button press, and action is  *)
(* the payload of a light request.                                         *)
(***************************************************************************)
TimerHandlers == {"AutoTurnOff", "OffEffect", "Actuator"}

TimerEvent(h)     == [type |-> "Timer",  handler |-> h,             action |-> "NONE"]
ButtonEvent       == [type |-> "Button", handler |-> "LightAction", action |-> "NONE"]
FunctionEvent     == [type |-> "Button", handler |-> "Function",    action |-> "NONE"]
LightEvent(a)     == [type |-> "Light",  handler |-> "LightAction", action |-> a]
Events == {TimerEvent(h) : h \in TimerHandlers} \cup {ButtonEvent, FunctionEvent}
             \cup {LightEvent(a) : a \in Actions}

ASSUME ConstantsAssumption ==
  /\ QueueLength \in Nat \ {0}
  /\ EffectWhen \subseteq States
  /\ AutoTurnOffCalls \subseteq BOOLEAN
  /\ Buttons \in BOOLEAN
  /\ Requests \subseteq Actions
  /\ TimerFaults \in BOOLEAN
  /\ PowerCycles \in BOOLEAN

VARIABLES
  mState,                 \* the state of the light
  mAutoTurnOff,           \* is turning off automatically enabled?
  mAutoTurnOffTimerArmed, \* does mLightTimer count down to turning off?
  mOffEffectArmed,        \* does mLightTimer count down to the end of an effect?
  mLightTimer,            \* is the one-shot timer running?
  queue,                  \* the application event queue
  halted,                 \* has appError or a loss of power stopped the device?
  lost                    \* history: has a timer event found the queue full?

lightVars == <<mState, mAutoTurnOff, mAutoTurnOffTimerArmed, mOffEffectArmed,
               mLightTimer>>
vars == <<lightVars, queue, halted, lost>>

-----------------------------------------------------------------------------
(* LightingManager::Init, with the stored on/off value it reads back. *)

RestState(on) == IF on THEN "OnCompleted" ELSE "OffCompleted"

InitLight(on) ==
  /\ mState = RestState(on)
  /\ mAutoTurnOff = FALSE
  /\ mAutoTurnOffTimerArmed = FALSE
  /\ mOffEffectArmed = FALSE
  /\ mLightTimer = FALSE

Init ==
  /\ \E on \in BOOLEAN : InitLight(on)
  /\ queue = <<>>
  /\ halted = FALSE
  /\ lost = FALSE

InProgress == mState \in {"OffInitiated", "OnInitiated"}  \* IsActionInProgress
IsLightOn  == mState = "OnCompleted"

-----------------------------------------------------------------------------
(***************************************************************************)
(* InitiateAction.  The two timer handlers clear their flag before they    *)
(* call it, so the flags it reads are parameters: autoArmed and effArmed   *)
(* are their values at the call.                                           *)
(***************************************************************************)
AcceptsEarly(action, effArmed) ==      \* mutant: ON does not wait for OffCompleted
  \/ action = "ON" /\ mState # "OnCompleted"
  \/ action = "OFF" /\ mState = "OnCompleted" /\ ~effArmed

AcceptsStale(action, effArmed) ==      \* mutant: the flag is cleared after the call
  \/ action = "ON" /\ (mState = "OffCompleted" \/ mOffEffectArmed)
  \/ action = "OFF" /\ mState = "OnCompleted" /\ ~mOffEffectArmed

Accepts(action, effArmed) ==
  \/ /\ action = "ON"
     /\ mState = "OffCompleted" \/ effArmed
  \/ /\ action = "OFF"
     /\ mState = "OnCompleted"
     /\ ~effArmed

Initiated(action) == IF action = "ON" THEN "OnInitiated" ELSE "OffInitiated"

(* What an accepted action leaves armed: OFF cancels the automatic turning  *)
(* off, ON cancels the effect.                                             *)
AutoStaysArmed(action, autoArmed) == autoArmed               \* mutant: not reset
AutoArmedAfter(action, autoArmed) == autoArmed /\ action # "OFF"
EffectStaysArmed(action, effArmed) == effArmed               \* mutant: not reset
EffectArmedAfter(action, effArmed) == effArmed /\ action # "ON"

(* OFF cancels the timer of the automatic turning off, ON that of the effect. *)
Cancels(action, autoArmed, effArmed) == IF action = "OFF" THEN autoArmed ELSE effArmed

(***************************************************************************)
(* appError does not return: the device stops in the middle of the handler *)
(* that called it.  What the handler did before is done, a flag it has     *)
(* cleared stays cleared; what was to follow is left out.  A timer service *)
(* that reports an error leaves the timer as it was.  TimerFaults covers   *)
(* an effect of unknown variant too, whose duration of 0 ticks the timer   *)
(* service refuses.                                                        *)
(***************************************************************************)
appError == TimerFaults /\ halted' = TRUE

(* StartTimer, for a timer that runs or does not. *)
TimerStarts(runs) ==
  \/ mLightTimer' = TRUE /\ UNCHANGED halted
  \/ mLightTimer' = runs /\ appError

Refuse(autoArmed, effArmed) ==
  /\ mAutoTurnOffTimerArmed' = autoArmed
  /\ mOffEffectArmed' = effArmed
  /\ UNCHANGED <<mState, mLightTimer, halted>>

(* CancelTimer comes after the flag of the automatic turning off is cleared *)
(* and before that of the effect; the state only changes, and the callback  *)
(* only comes, once the timer has started.                                  *)
Initiate(action, autoArmed, effArmed) ==
  /\ mAutoTurnOffTimerArmed' = AutoArmedAfter(action, autoArmed)
  /\ \/ /\ Cancels(action, autoArmed, effArmed)
        /\ appError
        /\ mOffEffectArmed' = effArmed
        /\ UNCHANGED <<mState, mLightTimer>>
     \/ /\ TimerStarts(mLightTimer /\ ~Cancels(action, autoArmed, effArmed))
        /\ mOffEffectArmed' = EffectArmedAfter(action, effArmed)
        /\ mState' = IF halted' THEN mState ELSE Initiated(action)

InitiateAction(action, autoArmed, effArmed) ==
  /\ IF Accepts(action, effArmed) THEN Initiate(action, autoArmed, effArmed)
                                  ELSE Refuse(autoArmed, effArmed)
  /\ UNCHANGED mAutoTurnOff

(* BaseApplication::PostEvent: an event that finds the queue full is dropped. *)
PostUnbounded(event) == queue' = Append(queue, event)        \* mutant: no capacity

PostEvent(event) ==
  queue' = IF Len(queue) < QueueLength THEN Append(queue, event) ELSE queue

-----------------------------------------------------------------------------
(* The CHIP task. *)

(* A write of the OnOff attribute reaches MatterPostAttributeChangeCallback. *)
ClusterOnOff(action) ==
  /\ InitiateAction(action, mAutoTurnOffTimerArmed, mOffEffectArmed)
  /\ UNCHANGED <<queue, lost>>

EffectWithoutTimer ==                  \* mutant: StartTimer is left out
  /\ mState \in EffectWhen
  /\ mOffEffectArmed' = TRUE
  /\ UNCHANGED <<mState, mAutoTurnOff, mAutoTurnOffTimerArmed, mLightTimer,
                 queue, halted, lost>>

OnTriggerOffWithEffect ==
  /\ mState \in EffectWhen
  /\ mOffEffectArmed' = TRUE
  /\ TimerStarts(mLightTimer)
  /\ UNCHANGED <<mState, mAutoTurnOff, mAutoTurnOffTimerArmed, queue, lost>>

EnableAutoTurnOff(on) ==
  /\ mAutoTurnOff' = on
  /\ UNCHANGED <<mState, mAutoTurnOffTimerArmed, mOffEffectArmed, mLightTimer,
                 queue, halted, lost>>

-----------------------------------------------------------------------------
(* The timer task: the one-shot timer expires. *)

ExpiryWithoutAuto ==                   \* mutant: the automatic turning off is forgotten
  IF mOffEffectArmed THEN "OffEffect" ELSE "Actuator"

ExpiryHandler ==
  IF mAutoTurnOffTimerArmed THEN "AutoTurnOff"
  ELSE IF mOffEffectArmed THEN "OffEffect" ELSE "Actuator"

PeriodicTimer ==                       \* mutant: the timer is not one-shot
  /\ mLightTimer
  /\ PostEvent(TimerEvent(ExpiryHandler))
  /\ lost' = (lost \/ Len(queue) >= QueueLength)
  /\ UNCHANGED <<mState, mAutoTurnOff, mAutoTurnOffTimerArmed, mOffEffectArmed,
                 mLightTimer, halted>>

TimerEventHandler ==
  /\ mLightTimer
  /\ mLightTimer' = FALSE
  /\ PostEvent(TimerEvent(ExpiryHandler))
  /\ lost' = (lost \/ Len(queue) >= QueueLength)
  /\ UNCHANGED <<mState, mAutoTurnOff, mAutoTurnOffTimerArmed, mOffEffectArmed, halted>>

-----------------------------------------------------------------------------
(* The button callback and the public request function post events. *)

ButtonEventHandler ==
  /\ \E event \in {ButtonEvent, FunctionEvent} : PostEvent(event)
  /\ UNCHANGED <<lightVars, halted, lost>>

PostLightActionRequest(action) ==
  /\ PostEvent(LightEvent(action))
  /\ UNCHANGED <<lightVars, halted, lost>>

-----------------------------------------------------------------------------
(* The application task: dequeue one event and run its handler. *)

Dispatch(handler) ==
  /\ queue # <<>>
  /\ Head(queue).handler = handler
  /\ queue' = Tail(queue)
  /\ UNCHANGED lost

(* The action a light event asks for; a button press asks for the opposite of IsLightOn. *)
RequestedAction(event) ==
  IF event.type = "Light" THEN event.action
  ELSE IF IsLightOn THEN "OFF" ELSE "ON"

LightActionEventHandler ==
  /\ Dispatch("LightAction")
  /\ InitiateAction(RequestedAction(Head(queue)), mAutoTurnOffTimerArmed, mOffEffectArmed)

(* BaseApplication::ButtonHandler, the function button: nothing of the light changes. *)
ButtonHandler == Dispatch("Function") /\ UNCHANGED <<lightVars, halted>>

AutoTurnOffTimerEventHandler ==
  /\ Dispatch("AutoTurnOff")
  /\ IF mAutoTurnOffTimerArmed
       THEN InitiateAction("OFF", FALSE, mOffEffectArmed)
       ELSE UNCHANGED <<lightVars, halted>>

OffEffectKeepsFlag ==                  \* mutant: mOffEffectArmed is not cleared first
  /\ Dispatch("OffEffect")
  /\ IF mOffEffectArmed
       THEN InitiateAction("OFF", mAutoTurnOffTimerArmed, TRUE)
       ELSE UNCHANGED <<lightVars, halted>>

OffEffectTimerEventHandler ==
  /\ Dispatch("OffEffect")
  /\ IF mOffEffectArmed
       THEN InitiateAction("OFF", mAutoTurnOffTimerArmed, FALSE)
       ELSE UNCHANGED <<lightVars, halted>>

CompletedOff == IF mState = "OffInitiated" THEN "OffCompleted" ELSE mState  \* mutant: ON is forgotten

Completed == IF mState = "OnInitiated" THEN "OnCompleted" ELSE "OffCompleted"

ActuatorMovementTimerEventHandler ==
  /\ Dispatch("Actuator")
  /\ mState' = IF InProgress THEN Completed ELSE mState
  /\ IF mState = "OnInitiated" /\ mAutoTurnOff
       THEN /\ TimerStarts(mLightTimer)
            /\ mAutoTurnOffTimerArmed' = (mAutoTurnOffTimerArmed \/ ~halted')
       ELSE UNCHANGED <<mLightTimer, mAutoTurnOffTimerArmed, halted>>
  /\ UNCHANGED <<mAutoTurnOff, mOffEffectArmed>>

AppTaskMain ==
  \/ LightActionEventHandler
  \/ ButtonHandler
  \/ AutoTurnOffTimerEventHandler
  \/ OffEffectTimerEventHandler
  \/ ActuatorMovementTimerEventHandler

-----------------------------------------------------------------------------
(* The power may go at any time.  When a stopped device starts again, all   *)
(* but the stored on/off value is lost.                                     *)
PowerLoss ==
  /\ PowerCycles
  /\ halted' = TRUE
  /\ UNCHANGED <<lightVars, queue, lost>>

PowerCycle(on) ==
  /\ PowerCycles /\ halted
  /\ mState' = RestState(on)
  /\ mAutoTurnOff' = FALSE
  /\ mAutoTurnOffTimerArmed' = FALSE
  /\ mOffEffectArmed' = FALSE
  /\ mLightTimer' = FALSE
  /\ queue' = <<>>
  /\ halted' = FALSE
  /\ lost' = FALSE

Running ==
  /\ ~halted
  /\ \/ \E action \in Actions : ClusterOnOff(action)
     \/ OnTriggerOffWithEffect
     \/ \E on \in AutoTurnOffCalls : EnableAutoTurnOff(on)
     \/ TimerEventHandler
     \/ Buttons /\ ButtonEventHandler
     \/ \E action \in Requests : PostLightActionRequest(action)
     \/ AppTaskMain
     \/ PowerLoss

Next == Running \/ \E on \in BOOLEAN : PowerCycle(on)

SafeSpec == Init /\ [][Next]_vars

(* The timer task and the application task loop forever; nobody owes a command. *)
Fairness ==
  /\ WF_vars(~halted /\ TimerEventHandler)
  /\ WF_vars(~halted /\ AppTaskMain)

Spec == SafeSpec /\ Fairness

-----------------------------------------------------------------------------
(* Properties *)

(* The states of the light, events with a known handler, and a queue that   *)
(* PostEvent keeps within its capacity.                                     *)
TypeOK ==
  /\ mState \in States
  /\ mAutoTurnOff \in BOOLEAN
  /\ mAutoTurnOffTimerArmed \in BOOLEAN
  /\ mOffEffectArmed \in BOOLEAN
  /\ mLightTimer \in BOOLEAN
  /\ queue \in Seq(Events)
  /\ Len(queue) <= QueueLength
  /\ halted \in BOOLEAN
  /\ lost \in BOOLEAN

Pending(handler) == \E i \in 1..Len(queue) : queue[i].handler = handler

AtRest == {"OffCompleted", "OnCompleted"}

(***************************************************************************)
(* The discipline under which one timer is enough for its three uses:      *)
(* effects are triggered only while no movement is under way, and a device *)
(* that uses effects does not use automatic turning off.                   *)
(***************************************************************************)
Discipline ==
  /\ EffectWhen \subseteq AtRest
  /\ EffectWhen = {} \/ TRUE \notin AutoTurnOffCalls

(* Whenever a movement is in progress, its completion is on its way: the    *)
(* running timer will post the actuator event, or that event is queued.     *)
(* (StartTimer in InitiateAction, the choice of handler in                  *)
(* TimerEventHandler, and every handler that could take the timer away.)    *)
MovementBacked ==
  InProgress /\ ~lost =>
    \/ mLightTimer /\ ~mAutoTurnOffTimerArmed /\ ~mOffEffectArmed
    \/ Pending("Actuator")

(* Automatic turning off is armed only for a light that is on, and then     *)
(* either its timer still runs or its event is queued, never both: an       *)
(* event left over from an earlier arming cannot turn the light off early.  *)
AutoTurnOffBacked ==
  mAutoTurnOffTimerArmed /\ ~lost =>
    /\ mState = "OnCompleted"
    /\ mLightTimer <=> ~Pending("AutoTurnOff")

(* An armed effect can still end: while mOffEffectArmed refuses every OFF,  *)
(* the timer that will clear it runs, or the clearing event is queued.  The *)
(* flag is set before the timer is started, and no handler between may see  *)
(* the one without the other: only a device that StartTimer has stopped     *)
(* keeps the flag without its timer.                                        *)
EffectBacked ==
  mOffEffectArmed /\ ~lost /\ ~halted => mLightTimer \/ Pending("OffEffect")

(* The use of the timer the discipline rules out never shows. *)
OneUse ==
  /\ EffectWhen = {} => ~mOffEffectArmed
  /\ TRUE \notin AutoTurnOffCalls => ~mAutoTurnOff /\ ~mAutoTurnOffTimerArmed

(* A flag is armed only on a light at rest, and automatic turning off only  *)
(* on one that is on: InitiateAction has reset them before a movement.      *)
ArmedAtRest ==
  /\ mOffEffectArmed => mState \in AtRest
  /\ mAutoTurnOffTimerArmed => mState = "OnCompleted"

(* Inductive under the discipline. *)
LightInv == OneUse /\ ArmedAtRest /\ MovementBacked /\ EffectBacked

(* Without effects every expiry has one reader: an actuator event is queued *)
(* at most once, during its movement and with the timer stopped, after any  *)
(* event of an earlier automatic turning off; and on a light at rest only   *)
(* the armed countdown runs, unless the countdown could not be cancelled    *)
(* and the device has stopped.                                              *)
OneExpiry ==
  /\ \A i, j \in 1..Len(queue) :
       queue[i].handler = "Actuator" /\ queue[j].handler \in {"Actuator", "AutoTurnOff"}
         => j <= i
  /\ Pending("Actuator") => InProgress /\ ~mLightTimer
  /\ mLightTimer /\ ~InProgress /\ ~halted => mAutoTurnOffTimerArmed

(* Without effects, no more than one timer event waits in the queue while   *)
(* the timer runs, whatever is pressed, requested or lost meanwhile: an     *)
(* expiry is dropped only when presses and requests have taken all places   *)
(* but one, and the timer never floods the queue by itself.                 *)
RoomForExpiry ==
  mLightTimer =>
    \A i, j \in 1..Len(queue) :
      queue[i].handler \in TimerHandlers /\ queue[j].handler \in TimerHandlers => i = j

AutoInv == OneUse /\ ArmedAtRest /\ OneExpiry /\ AutoTurnOffBacked

(* A movement is initiated only when the previous one is complete           *)
(* (the comment on the first condition of InitiateAction).                  *)
OnlyWhenComplete ==
  [][mState' # mState /\ mState' \notin AtRest => mState \in AtRest]_vars

(* The light implements the actuator its comments describe. *)
Promise == INSTANCE Actuator WITH
  position <- IF mState \in {"OnInitiated", "OnCompleted"} THEN "On" ELSE "Off",
  moving   <- InProgress,
  down     <- halted
ImplementsActuator == Promise!Spec

(* Every initiated movement completes (ACTUATOR_MOVEMENT_PERIOS_MS is "the  *)
(* time it takes ... to move from one state to another"), unless its timer  *)
(* event was dropped or the device stopped in appError.                     *)
MovementCompletes == InProgress ~> (mState \in AtRest \/ lost \/ halted)

(* An armed effect ends: it never refuses OFF for ever. *)
EffectEnds == mOffEffectArmed ~> (~mOffEffectArmed \/ lost \/ halted)

(* The event that ends an armed effect turns the light off if it is on, and *)
(* nothing else ends an effect but a new ON, unless the device stops on the *)
(* way (the order of the assignments and the call in                        *)
(* OffEffectTimerEventHandler: InitiateAction refuses OFF while the flag is *)
(* set, and a restart forgets it).                                          *)
EffectTurnsLight ==
  [][mOffEffectArmed /\ ~halted /\ ~halted' =>
       IF Dispatch("OffEffect")
         THEN /\ ~mOffEffectArmed'
              /\ mState' = IF IsLightOn THEN "OffInitiated" ELSE mState
         ELSE mOffEffectArmed' \/ mState' = "OnInitiated"]_vars

(* A light for which automatic turning off is armed is turned off. *)
AutoTurnOffHappens ==
  mAutoTurnOffTimerArmed ~> (mState = "OffInitiated" \/ lost \/ halted)

=============================================================================
