------------------------------ MODULE AppTask ------------------------------
(***************************************************************************)
(* The whole lighting application of src/AppTask.cpp and                   *)
(* src/ZclCallbacks.cpp around the light state machine: the OnOff          *)
(* attribute kept by the cluster server, the LED and the on/off state of   *)
(* the strip driven by the light's callbacks, and the work item through    *)
(* which a button action is written back to the attribute.                 *)
(*                                                                         *)
(* Every action conjoins the handler of LightingManager with what the      *)
(* application's callbacks do while that handler runs.                     *)
(***************************************************************************)
EXTENDS LightingManager

CONSTANTS
  WorkQueueLength,  \* work items the CHIP task's queue holds
  ClusterWhen,      \* the light states in which an OnOff command may arrive
  WriteFaults       \* can setOnOffValue report an error?

ASSUME AppTaskAssumption ==
  /\ WorkQueueLength \in Nat \ {0}
  /\ ClusterWhen \subseteq States
  /\ WriteFaults \in BOOLEAN

VARIABLES
  onOff,                      \* the OnOff attribute, kept over a restart
  sLightLED,                  \* is the light LED lit?
  turnedOn,                   \* stripController.turnedOn
  mSyncClusterToButtonAction, \* must the attribute follow the running movement?
  work,                       \* UpdateClusterState items scheduled and not yet run
  parted                      \* history: how attribute and light came apart since they last met

Actors == {"Button", "Timer", "Light"}
Causes == {"refused", "stopped", "unsynced", "stale", "unwritten", "forgotten"}

outputVars == <<sLightLED, turnedOn>>
appVars == <<onOff, outputVars, mSyncClusterToButtonAction, work, parted>>
sysVars == <<vars, appVars>>

(* Where the light is, or where it is moving to. *)
Lit == mState \in {"OnInitiated", "OnCompleted"}

-----------------------------------------------------------------------------
(* AppTask::Init: the light takes the stored value, the outputs follow it. *)

SysInit ==
  /\ onOff \in BOOLEAN
  /\ InitLight(onOff)
  /\ queue = <<>>
  /\ halted = FALSE
  /\ lost = FALSE
  /\ sLightLED = onOff
  /\ turnedOn = onOff
  /\ mSyncClusterToButtonAction = FALSE
  /\ work = 0
  /\ parted = {}

Reboot ==
  /\ PowerCycle(onOff)
  /\ sLightLED' = onOff
  /\ turnedOn' = onOff
  /\ mSyncClusterToButtonAction' = FALSE
  /\ work' = 0
  /\ parted' = {}
  /\ UNCHANGED onOff

-----------------------------------------------------------------------------
(* The light's callbacks. *)

InitiatedUnsynced(action, actor) ==    \* mutant: the button is not remembered
  /\ sLightLED' = (action = "ON")
  /\ turnedOn' = (action = "ON")
  /\ UNCHANGED mSyncClusterToButtonAction

ActionInitiated(action, actor) ==
  /\ sLightLED' = (action = "ON")
  /\ turnedOn' = (action = "ON")
  /\ mSyncClusterToButtonAction' = (mSyncClusterToButtonAction \/ actor = "Button")

(* InitiateAction calls ActionInitiated when it has accepted the action and *)
(* the timer has started.                                                   *)
OutcomeAlways(accepted, action, actor) == ActionInitiated(action, actor)  \* mutant: called before the test

Outcome(accepted, action, actor) ==
  IF accepted /\ ~halted' THEN ActionInitiated(action, actor)
                          ELSE UNCHANGED <<outputVars, mSyncClusterToButtonAction>>

(* ScheduleWork: the result is not looked at, so a full queue drops the item. *)
ScheduleUnbounded == work' = work + 1  \* mutant: no capacity

ScheduleWork == work' = IF work < WorkQueueLength THEN work + 1 ELSE work

CompletedUnscheduled ==                \* mutant: cleared before it is tested
  /\ UNCHANGED work
  /\ mSyncClusterToButtonAction' = FALSE

ActionCompleted ==
  /\ IF mSyncClusterToButtonAction THEN ScheduleWork ELSE UNCHANGED work
  /\ mSyncClusterToButtonAction' = FALSE

(* A step that moves the light on its own account, or fails to write the    *)
(* attribute, makes the two part; one that sets the attribute to a value    *)
(* brings them together unless the light is elsewhere.                      *)
Part(cause, apart) == parted' = IF apart THEN parted \cup {cause} ELSE parted
Meet(cause, value) == parted' = IF value = Lit' THEN {} ELSE parted \cup {cause}

-----------------------------------------------------------------------------
(* The CHIP task. *)

OnOffAction(value) == IF value THEN "ON" ELSE "OFF"

(* The attribute changes and the light is asked to follow it. *)
MatterPostAttributeChangeCallback(value) ==
  LET action == OnOffAction(value) IN
    /\ onOff' = value
    /\ ClusterOnOff(action)
    /\ Outcome(Accepts(action, mOffEffectArmed), action, "Light")

OnOffCommand(value) ==
  /\ mState \in ClusterWhen
  /\ MatterPostAttributeChangeCallback(value)
  /\ Meet(IF Accepts(OnOffAction(value), mOffEffectArmed) THEN "stopped" ELSE "refused", value)
  /\ UNCHANGED work

WrittenToggle == ~onOff                \* mutant: the attribute is toggled instead
WrittenValue == IsLightOn

(***************************************************************************)
(* UpdateClusterState writes IsLightOn() to the attribute.  Writing it     *)
(* calls MatterPostAttributeChangeCallback in turn; the server may leave   *)
(* out a write that changes nothing.                                       *)
(***************************************************************************)
UpdateClusterState ==
  /\ work > 0
  /\ work' = work - 1
  /\ \/ /\ MatterPostAttributeChangeCallback(WrittenValue)
        /\ Meet("stale", WrittenValue)
     \/ /\ WrittenValue = onOff
        /\ UNCHANGED <<vars, onOff, outputVars, mSyncClusterToButtonAction>>
        /\ Meet("stale", WrittenValue)
     \/ /\ WriteFaults
        /\ Part("unwritten", TRUE)
        /\ UNCHANGED <<vars, onOff, outputVars, mSyncClusterToButtonAction>>

OffWithEffectCommand == OnTriggerOffWithEffect /\ UNCHANGED appVars

-----------------------------------------------------------------------------
(* The application task. *)

LightAction(actor) ==
  LET action   == RequestedAction(Head(queue))
      accepted == Accepts(action, mOffEffectArmed)
  IN /\ LightActionEventHandler
     /\ Head(queue).type = "Button" => actor = "Button"
     /\ Outcome(accepted, action, actor)
     /\ Part("unsynced", accepted /\ ~halted' /\ actor # "Button")
     /\ UNCHANGED <<onOff, work>>

AutoTurnOffEvent ==
  LET accepted == mAutoTurnOffTimerArmed /\ Accepts("OFF", mOffEffectArmed) IN
    /\ AutoTurnOffTimerEventHandler
    /\ Outcome(accepted, "OFF", "Timer")
    /\ Part("unsynced", accepted /\ ~halted')
    /\ UNCHANGED <<onOff, work>>

OffEffectEvent ==
  LET accepted == mOffEffectArmed /\ Accepts("OFF", FALSE) IN
    /\ OffEffectTimerEventHandler
    /\ Outcome(accepted, "OFF", "Timer")
    /\ Part("unsynced", accepted /\ ~halted' /\ onOff)
    /\ UNCHANGED <<onOff, work>>

ActuatorEvent ==
  /\ ActuatorMovementTimerEventHandler
  /\ IF InProgress THEN ActionCompleted
                   ELSE UNCHANGED <<mSyncClusterToButtonAction, work>>
  /\ UNCHANGED <<onOff, outputVars, parted>>

AppTaskLoop ==
  \/ \E actor \in Actors : LightAction(actor)
  \/ ButtonHandler /\ UNCHANGED appVars
  \/ AutoTurnOffEvent
  \/ OffEffectEvent
  \/ ActuatorEvent

-----------------------------------------------------------------------------
SysRunning ==
  /\ ~halted
  /\ \/ \E value \in BOOLEAN : OnOffCommand(value)
     \/ OffWithEffectCommand
     \/ UpdateClusterState
     \/ \E on \in AutoTurnOffCalls : EnableAutoTurnOff(on) /\ UNCHANGED appVars
     \/ TimerEventHandler /\ UNCHANGED appVars
     \/ Buttons /\ ButtonEventHandler /\ UNCHANGED appVars
     \/ \E action \in Requests : PostLightActionRequest(action) /\ UNCHANGED appVars
     \/ AppTaskLoop
     \/ PowerLoss /\ UNCHANGED appVars

SysNext == SysRunning \/ Reboot

SafeSysSpec == SysInit /\ [][SysNext]_sysVars

SysFairness ==
  /\ WF_sysVars(~halted /\ TimerEventHandler /\ UNCHANGED appVars)
  /\ WF_sysVars(~halted /\ AppTaskLoop)
  /\ WF_sysVars(~halted /\ UpdateClusterState)

SysSpec == SafeSysSpec /\ SysFairness

-----------------------------------------------------------------------------
(* Properties *)

(* The types of the application's state; ScheduleWork keeps the work items  *)
(* within the capacity of their queue.                                      *)
SysTypeOK ==
  /\ TypeOK
  /\ onOff \in BOOLEAN
  /\ sLightLED \in BOOLEAN
  /\ turnedOn \in BOOLEAN
  /\ mSyncClusterToButtonAction \in BOOLEAN
  /\ work \in 0..WorkQueueLength
  /\ parted \subseteq Causes

(* The LED and the strip always show where the light is or is moving to:    *)
(* no path through commands, events, effects and restarts moves the light   *)
(* without ActionInitiated, or calls it for a movement that did not start.  *)
OutputsFollowLight == sLightLED = Lit /\ turnedOn = Lit

(* A pending button synchronisation always belongs to a movement that is    *)
(* under way, so that ActionCompleted will come to consume it.              *)
SyncBelongsToMovement == mSyncClusterToButtonAction => InProgress

(* The attribute and the light agree whenever the device is quiet, unless   *)
(* one of five things happened since they last met: a command was refused   *)
(* because a movement or an effect was under way, the timer failed under a  *)
(* command and stopped the device, a timer or a request moved the light, a  *)
(* scheduled update ran while the light was moving, or its write failed.    *)
(* The next command that the light obeys brings them together again.        *)
AttributeFollowsLight ==
  onOff = Lit \/ mSyncClusterToButtonAction \/ work > 0 \/ parted # {}

(* Each of the five has its source: without effects, commands that come to  *)
(* a light at rest are not refused; only a failing timer stops the device;  *)
(* without effects, automatic turning off and requests nothing moves the    *)
(* light behind the attribute's back; and only a button or a request lets   *)
(* an update be scheduled that can be stale or fail.  (Startup adds a sixth,*)
(* "forgotten".)                                                            *)
PartedHasSource ==
  /\ "refused" \in parted => EffectWhen # {} \/ ~(ClusterWhen \subseteq AtRest)
  /\ "stopped" \in parted => TimerFaults /\ halted
  /\ "unsynced" \in parted => EffectWhen # {} \/ TRUE \in AutoTurnOffCalls \/ Requests # {}
  /\ "stale" \in parted => Buttons \/ Requests # {}
  /\ "unwritten" \in parted => WriteFaults /\ (Buttons \/ Requests # {})

(* Writing the attribute back after a button action never moves the light:  *)
(* the write re-enters InitiateAction through the attribute callback, which *)
(* must then find nothing to do.                                            *)
UpdateMovesNothing == [][UpdateClusterState => UNCHANGED mState]_sysVars

(* What a button did to the light reaches the attribute. *)
ButtonReachesCluster ==
  mSyncClusterToButtonAction ~> (onOff = Lit \/ parted # {} \/ lost \/ halted)

(* "It can be controlled by a Chip controller": once the device is quiet,   *)
(* the light is what the OnOff attribute, which the controller reads and    *)
(* writes, says.                                                            *)
Controllable ==
  mState \in AtRest /\ work = 0 /\ queue = <<>> /\ ~mLightTimer => onOff = Lit

=============================================================================
