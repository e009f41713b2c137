--------------------------- MODULE AppTask_proofs ---------------------------
(***************************************************************************)
(* Theorems about the whole lighting application.  They assume nothing of  *)
(* when commands, effects, requests and restarts come.                     *)
(***************************************************************************)
EXTENDS AppTask, LightingManager_proofs

CoreInv ==
  /\ SysTypeOK
  /\ SyncBelongsToMovement
  /\ AttributeFollowsLight

SysInv == CoreInv /\ OutputsFollowLight

(* The outputs stay in step, and a new movement brings them into step       *)
(* wherever they were.                                                      *)
OutputsKept ==
  OutputsFollowLight \/ (mState' # mState /\ InProgress') => OutputsFollowLight'

(* What an action does to the light that the application can see. *)
LEMMA InitiateActionLit ==
  ASSUME NEW action \in Actions, NEW autoArmed, NEW effArmed,
         InitiateAction(action, autoArmed, effArmed)
  PROVE  /\ Accepts(action, effArmed) /\ ~halted' => Lit' = (action = "ON") /\ InProgress'
         /\ ~Accepts(action, effArmed) \/ halted' => UNCHANGED mState
BY DEF InitiateAction, Initiate, Refuse, TimerStarts, appError, Initiated, Lit, InProgress, Actions

-----------------------------------------------------------------------------
(* The application runs the light state machine and nothing else moves it. *)

LEMMA SysInitLight == SysInit => Init
BY DEF SysInit, Init

LEMMA SysNextLight ==
  ASSUME SysTypeOK, [SysNext]_sysVars PROVE [Next]_vars
<1>1. ASSUME NEW value \in BOOLEAN, OnOffCommand(value) PROVE ClusterOnOff(OnOffAction(value))
  BY <1>1 DEF OnOffCommand, MatterPostAttributeChangeCallback
<1>2. \A value \in BOOLEAN : OnOffAction(value) \in Actions
  BY DEF OnOffAction, Actions
<1>3. UpdateClusterState => UNCHANGED vars \/ \E action \in Actions : ClusterOnOff(action)
  <2>1. WrittenValue \in BOOLEAN
    BY DEF WrittenValue, IsLightOn
  <2> QED
    BY <1>2, <2>1 DEF UpdateClusterState, MatterPostAttributeChangeCallback
<1>4. AppTaskLoop => AppTaskMain
  BY DEF AppTaskLoop, AppTaskMain, LightAction, AutoTurnOffEvent, OffEffectEvent, ActuatorEvent
<1>5. Reboot => \E on \in BOOLEAN : PowerCycle(on)
  BY DEF Reboot, SysTypeOK
<1>6. OffWithEffectCommand => OnTriggerOffWithEffect
  BY DEF OffWithEffectCommand
<1> QED
  BY <1>1, <1>2, <1>3, <1>4, <1>5, <1>6 DEF SysNext, SysRunning, Next, Running, sysVars

-----------------------------------------------------------------------------
(* The inductive invariant of the application *)

LEMMA InitSysInv == SysInit => SysInv
<1> SUFFICES ASSUME SysInit PROVE SysInv
  OBVIOUS
<1>1. TypeOK
  BY SysInitLight, InitTypeOK
<1>2. Lit = onOff
  BY DEF SysInit, InitLight, RestState, Lit
<1>3. SysTypeOK
  <2>1. work \in 0..WorkQueueLength
    BY AppTaskAssumption DEF SysInit
  <2>2. parted \subseteq Causes
    BY DEF SysInit
  <2> QED
    BY <1>1, <2>1, <2>2 DEF SysInit, SysTypeOK
<1>4. OutputsFollowLight /\ SyncBelongsToMovement
  BY <1>2 DEF SysInit, OutputsFollowLight, SyncBelongsToMovement
<1>5. AttributeFollowsLight
  BY <1>2 DEF AttributeFollowsLight
<1> QED
  BY <1>3, <1>4, <1>5 DEF SysInv, CoreInv

(* A handler has decided on an action: InitiateAction did, or it was not called. *)
Decided(action, accepted) ==
  \/ \E autoArmed, effArmed \in BOOLEAN :
       /\ InitiateAction(action, autoArmed, effArmed)
       /\ accepted = Accepts(action, effArmed)
  \/ ~accepted /\ UNCHANGED lightVars

(* What a decision and its callback leave. *)
LEMMA OutcomeKeeps ==
  ASSUME CoreInv, NEW action \in Actions, NEW actor \in Actors,
         NEW accepted \in BOOLEAN, Decided(action, accepted),
         Outcome(accepted, action, actor)
  PROVE  /\ sLightLED' \in BOOLEAN /\ turnedOn' \in BOOLEAN
         /\ mSyncClusterToButtonAction' \in BOOLEAN
         /\ OutputsKept
         /\ SyncBelongsToMovement'
         /\ mSyncClusterToButtonAction => mSyncClusterToButtonAction'
         /\ accepted /\ ~halted' => Lit' = (action = "ON")
         /\ accepted /\ ~halted' /\ actor = "Button" => mSyncClusterToButtonAction'
         /\ ~accepted \/ halted' => Lit' = Lit
<1>1. CASE accepted /\ ~halted'
  <2>1. Lit' = (action = "ON") /\ InProgress'
    BY <1>1, InitiateActionLit DEF Decided
  <2>2. /\ sLightLED' = (action = "ON") /\ turnedOn' = (action = "ON")
        /\ mSyncClusterToButtonAction' = (mSyncClusterToButtonAction \/ actor = "Button")
    BY <1>1 DEF Outcome, ActionInitiated
  <2> QED
    BY <1>1, <2>1, <2>2 DEF OutputsKept, OutputsFollowLight, SyncBelongsToMovement
<1>2. CASE ~accepted \/ halted'
  <2>1. UNCHANGED mState
    BY <1>2, InitiateActionLit DEF Decided, lightVars
  <2>2. UNCHANGED <<sLightLED, turnedOn, mSyncClusterToButtonAction>>
    BY <1>2 DEF Outcome, outputVars
  <2> QED
    BY <1>2, <2>1, <2>2 DEF CoreInv, SysTypeOK, OutputsKept, OutputsFollowLight,
       SyncBelongsToMovement, Lit, InProgress
<1> QED
  BY <1>1, <1>2

LEMMA PartType ==
  ASSUME SysTypeOK, NEW cause \in Causes, NEW apart, Part(cause, apart)
  PROVE  /\ parted' \subseteq Causes
         /\ parted # {} \/ apart => parted' # {}
BY DEF SysTypeOK, Part

LEMMA MeetType ==
  ASSUME SysTypeOK, NEW cause \in Causes, NEW value, Meet(cause, value)
  PROVE  /\ parted' \subseteq Causes
         /\ value = Lit' \/ parted' # {}
BY DEF SysTypeOK, Meet

(* The attribute takes a value and the light is asked to follow: if it does *)
(* not, because it refuses or because the device stops, they have parted.   *)
LEMMA MatterPostKeeps ==
  ASSUME CoreInv, TypeOK', NEW value \in BOOLEAN, MatterPostAttributeChangeCallback(value),
         NEW cause \in Causes, Meet(cause, value),
         work' \in 0..WorkQueueLength
  PROVE  CoreInv' /\ OutputsKept
<1> DEFINE action == OnOffAction(value)
<1>1. action \in Actions /\ "Light" \in Actors
  BY DEF OnOffAction, Actions, Actors
<1>2. /\ onOff' = value
      /\ InitiateAction(action, mAutoTurnOffTimerArmed, mOffEffectArmed)
      /\ Outcome(Accepts(action, mOffEffectArmed), action, "Light")
  BY DEF MatterPostAttributeChangeCallback, ClusterOnOff
<1>3. Accepts(action, mOffEffectArmed) \in BOOLEAN
  BY DEF Accepts
<1>4. Decided(action, Accepts(action, mOffEffectArmed))
  BY <1>2 DEF Decided, CoreInv, SysTypeOK, TypeOK
<1> HIDE DEF action
<1>5. /\ sLightLED' \in BOOLEAN /\ turnedOn' \in BOOLEAN
      /\ mSyncClusterToButtonAction' \in BOOLEAN
      /\ OutputsKept
      /\ SyncBelongsToMovement'
  BY <1>1, <1>2, <1>3, <1>4, OutcomeKeeps
<1>6. parted' \subseteq Causes /\ (onOff' = Lit' \/ parted' # {})
  BY <1>2, MeetType DEF CoreInv
<1> QED
  BY <1>2, <1>5, <1>6 DEF CoreInv, SysTypeOK, AttributeFollowsLight

(* An event whose handler may initiate an action, with its outcome. *)
LEMMA EventKeeps ==
  ASSUME CoreInv, TypeOK', NEW action \in Actions,
         NEW actor \in Actors, NEW accepted \in BOOLEAN, Decided(action, accepted),
         Outcome(accepted, action, actor),
         NEW cause \in Causes, NEW apart, Part(cause, apart),
         accepted /\ ~halted' /\ actor # "Button" => apart \/ onOff = (action = "ON"),
         UNCHANGED <<onOff, work>>
  PROVE  CoreInv' /\ OutputsKept
<1>1. /\ sLightLED' \in BOOLEAN /\ turnedOn' \in BOOLEAN
      /\ mSyncClusterToButtonAction' \in BOOLEAN
      /\ OutputsKept
      /\ SyncBelongsToMovement'
      /\ mSyncClusterToButtonAction => mSyncClusterToButtonAction'
      /\ accepted /\ ~halted' => Lit' = (action = "ON")
      /\ accepted /\ ~halted' /\ actor = "Button" => mSyncClusterToButtonAction'
      /\ ~accepted \/ halted' => Lit' = Lit
  BY OutcomeKeeps
<1>2. parted' \subseteq Causes /\ (parted # {} \/ apart => parted' # {})
  BY PartType DEF CoreInv
<1>3. AttributeFollowsLight'
  <2>1. CASE accepted /\ ~halted'
    BY <1>1, <1>2, <2>1 DEF AttributeFollowsLight
  <2>2. CASE ~accepted \/ halted'
    BY <1>1, <1>2, <2>2 DEF CoreInv, AttributeFollowsLight
  <2> QED
    BY <2>1, <2>2
<1> QED
  BY <1>1, <1>2, <1>3 DEF CoreInv, SysTypeOK

LEMMA NextCoreInv == ASSUME CoreInv, [SysNext]_sysVars PROVE CoreInv' /\ OutputsKept
<1>0. SysTypeOK /\ TypeOK /\ TypeOK'
  BY SysNextLight, NextTypeOK DEF CoreInv, SysTypeOK
<1>1. ASSUME NEW value \in BOOLEAN, OnOffCommand(value) PROVE CoreInv' /\ OutputsKept
  <2>1. work' \in 0..WorkQueueLength
    BY <1>0, <1>1 DEF OnOffCommand, SysTypeOK
  <2>2. \E cause \in Causes : Meet(cause, value)
    BY <1>1 DEF OnOffCommand, Causes
  <2> QED
    BY <1>0, <1>1, <2>1, <2>2, MatterPostKeeps DEF OnOffCommand
<1>2. ASSUME UNCHANGED <<mState, appVars>> PROVE CoreInv' /\ OutputsKept
  BY <1>0, <1>2 DEF appVars, outputVars, CoreInv, SysTypeOK, OutputsKept, OutputsFollowLight,
     SyncBelongsToMovement, AttributeFollowsLight, Lit, InProgress
<1>3. CASE UpdateClusterState
  <2>1. work' \in 0..WorkQueueLength /\ WrittenValue \in BOOLEAN
    BY <1>0, <1>3, AppTaskAssumption DEF UpdateClusterState, SysTypeOK, WrittenValue, IsLightOn
  <2>2. CASE MatterPostAttributeChangeCallback(WrittenValue) /\ Meet("stale", WrittenValue)
    BY <1>0, <2>1, <2>2, MatterPostKeeps DEF Causes
  <2>3. ASSUME UNCHANGED <<vars, onOff, outputVars, mSyncClusterToButtonAction>>,
               parted' \subseteq Causes, onOff' = Lit' \/ parted' # {}
        PROVE  CoreInv' /\ OutputsKept
    BY <1>0, <2>1, <2>3 DEF CoreInv, SysTypeOK, vars, lightVars, outputVars,
       OutputsKept, OutputsFollowLight, SyncBelongsToMovement, AttributeFollowsLight, Lit, InProgress
  <2>4. "stale" \in Causes /\ "unwritten" \in Causes
    BY DEF Causes
  <2>5. ASSUME WrittenValue = onOff, UNCHANGED onOff, Meet("stale", WrittenValue)
        PROVE  parted' \subseteq Causes /\ (onOff' = Lit' \/ parted' # {})
    BY <1>0, <2>4, <2>5, MeetType
  <2>6. ASSUME Part("unwritten", TRUE)
        PROVE  parted' \subseteq Causes /\ parted' # {}
    BY <1>0, <2>4, <2>6, PartType
  <2> QED
    BY <1>3, <2>2, <2>3, <2>5, <2>6 DEF UpdateClusterState
<1>4. ASSUME NEW actor \in Actors, LightAction(actor) PROVE CoreInv' /\ OutputsKept
  <2> DEFINE action   == RequestedAction(Head(queue))
             accepted == Accepts(action, mOffEffectArmed)
  <2>1. action \in Actions
    BY <1>0, <1>4, RequestedActionType DEF LightAction, LightActionEventHandler, TypeOK
  <2>2. Decided(action, accepted)
    BY <1>0, <1>4 DEF LightAction, LightActionEventHandler, Decided, TypeOK
  <2>3. /\ Outcome(accepted, action, actor)
        /\ Part("unsynced", accepted /\ ~halted' /\ actor # "Button")
        /\ UNCHANGED <<onOff, work>>
    BY <1>4 DEF LightAction
  <2>4. accepted \in BOOLEAN /\ "unsynced" \in Causes
    BY DEF Accepts, Causes
  <2> HIDE DEF accepted, action
  <2> QED
    BY <1>0, <2>1, <2>2, <2>3, <2>4, EventKeeps
<1>5. CASE AutoTurnOffEvent
  <2> DEFINE accepted == mAutoTurnOffTimerArmed /\ Accepts("OFF", mOffEffectArmed)
  <2>1. Decided("OFF", accepted)
    <3>1. CASE mAutoTurnOffTimerArmed
      <4>1. InitiateAction("OFF", FALSE, mOffEffectArmed)
        BY <1>5, <3>1 DEF AutoTurnOffEvent, AutoTurnOffTimerEventHandler
      <4>2. accepted = Accepts("OFF", mOffEffectArmed)
        BY <3>1 DEF Accepts
      <4> HIDE DEF accepted
      <4> QED
        BY <1>0, <4>1, <4>2 DEF Decided, TypeOK
    <3>2. CASE ~mAutoTurnOffTimerArmed
      BY <1>5, <3>2 DEF AutoTurnOffEvent, AutoTurnOffTimerEventHandler, Decided
    <3> QED
      BY <3>1, <3>2
  <2>2. /\ Outcome(accepted, "OFF", "Timer")
        /\ Part("unsynced", accepted /\ ~halted')
        /\ UNCHANGED <<onOff, work>>
    BY <1>5 DEF AutoTurnOffEvent
  <2>3. /\ accepted \in BOOLEAN /\ "unsynced" \in Causes
        /\ "OFF" \in Actions /\ "Timer" \in Actors
    BY DEF Accepts, Causes, Actions, Actors
  <2> HIDE DEF accepted
  <2> QED
    BY <1>0, <2>1, <2>2, <2>3, EventKeeps
<1>6. CASE OffEffectEvent
  <2> DEFINE accepted == mOffEffectArmed /\ Accepts("OFF", FALSE)
  <2>1. Decided("OFF", accepted)
    <3>1. CASE mOffEffectArmed
      <4>1. InitiateAction("OFF", mAutoTurnOffTimerArmed, FALSE)
        BY <1>6, <3>1 DEF OffEffectEvent, OffEffectTimerEventHandler
      <4>2. accepted = Accepts("OFF", FALSE)
        BY <3>1 DEF Accepts
      <4> HIDE DEF accepted
      <4> QED
        BY <1>0, <4>1, <4>2 DEF Decided, TypeOK
    <3>2. CASE ~mOffEffectArmed
      BY <1>6, <3>2 DEF OffEffectEvent, OffEffectTimerEventHandler, Decided
    <3> QED
      BY <3>1, <3>2
  <2>2. /\ Outcome(accepted, "OFF", "Timer")
        /\ Part("unsynced", accepted /\ ~halted' /\ onOff)
        /\ UNCHANGED <<onOff, work>>
    BY <1>6 DEF OffEffectEvent
  <2>3. /\ accepted \in BOOLEAN /\ "unsynced" \in Causes
        /\ "OFF" \in Actions /\ "Timer" \in Actors
    BY DEF Accepts, Causes, Actions, Actors
  <2> DEFINE apart == accepted /\ ~halted' /\ onOff
  <2>4. accepted /\ ~halted' => apart \/ onOff = ("OFF" = "ON")
    BY <1>0 DEF SysTypeOK
  <2>5. Part("unsynced", apart)
    BY <2>2
  <2> HIDE DEF accepted, apart
  <2> QED
    BY <1>0, <2>1, <2>2, <2>3, <2>4, <2>5, EventKeeps
<1>7. CASE ActuatorEvent
  <2>1. /\ mState' = IF InProgress THEN Completed ELSE mState
        /\ UNCHANGED <<onOff, sLightLED, turnedOn, parted>>
    BY <1>7 DEF ActuatorEvent, ActuatorMovementTimerEventHandler, outputVars
  <2>2. Lit' = Lit
    BY <2>1 DEF Lit, InProgress, Completed
  <2>3. OutputsKept
    BY <2>1, <2>2 DEF OutputsKept, OutputsFollowLight, InProgress, Completed
  <2>4. CASE InProgress
    <3>1. /\ mSyncClusterToButtonAction' = FALSE
          /\ work' \in 0..WorkQueueLength
          /\ work > 0 \/ mSyncClusterToButtonAction => work' > 0
      BY <1>0, <1>7, <2>4, AppTaskAssumption
        DEF ActuatorEvent, ActionCompleted, ScheduleWork, SysTypeOK
    <3> QED
      BY <1>0, <2>1, <2>2, <2>3, <3>1
        DEF CoreInv, SysTypeOK, SyncBelongsToMovement, AttributeFollowsLight
  <2>5. CASE ~InProgress
    BY <1>2, <1>7, <2>5, <2>1 DEF ActuatorEvent, appVars, outputVars
  <2> QED
    BY <2>4, <2>5
<1>8. CASE Reboot
  <2>1. Lit' = onOff' /\ onOff' \in BOOLEAN
    BY <1>0, <1>8 DEF Reboot, PowerCycle, RestState, Lit, SysTypeOK
  <2>2. SysTypeOK'
    <3>1. work' \in 0..WorkQueueLength
      BY <1>8, AppTaskAssumption DEF Reboot
    <3>2. parted' \subseteq Causes
      BY <1>8 DEF Reboot
    <3> QED
      BY <1>0, <1>8, <2>1, <3>1, <3>2 DEF Reboot, SysTypeOK
  <2>3. OutputsKept /\ SyncBelongsToMovement'
    BY <1>8, <2>1 DEF Reboot, OutputsKept, OutputsFollowLight, SyncBelongsToMovement
  <2>4. AttributeFollowsLight'
    BY <2>1 DEF AttributeFollowsLight
  <2> QED
    BY <2>2, <2>3, <2>4 DEF CoreInv
<1>9. CASE OffWithEffectCommand
  BY <1>2, <1>9 DEF OffWithEffectCommand, OnTriggerOffWithEffect
<1>10. ASSUME \/ \E on \in AutoTurnOffCalls : EnableAutoTurnOff(on)
              \/ TimerEventHandler
              \/ ButtonEventHandler
              \/ \E action \in Requests : PostLightActionRequest(action)
              \/ ButtonHandler
              \/ PowerLoss
       PROVE UNCHANGED mState
  BY <1>10 DEF EnableAutoTurnOff, TimerEventHandler, ButtonEventHandler, PostLightActionRequest,
     ButtonHandler, PowerLoss, lightVars
<1>11. CASE UNCHANGED sysVars
  BY <1>2, <1>11 DEF sysVars, vars, lightVars
<1>12. CASE AppTaskLoop
  BY <1>2, <1>4, <1>5, <1>6, <1>7, <1>10, <1>12 DEF AppTaskLoop
<1> QED
  BY <1>1, <1>2, <1>3, <1>8, <1>9, <1>10, <1>11, <1>12 DEF SysNext, SysRunning

LEMMA NextSysInv == ASSUME SysInv, [SysNext]_sysVars PROVE SysInv'
BY NextCoreInv DEF SysInv, OutputsKept

(* The types need nothing of the rest: each step keeps them by itself. *)
LEMMA SysNextType == ASSUME SysTypeOK, [SysNext]_sysVars PROVE SysTypeOK'
<1> DEFINE AppTypeOK ==
      /\ onOff \in BOOLEAN /\ sLightLED \in BOOLEAN /\ turnedOn \in BOOLEAN
      /\ mSyncClusterToButtonAction \in BOOLEAN
      /\ work \in 0..WorkQueueLength /\ parted \subseteq Causes
<1>0. AppTypeOK /\ TypeOK'
  BY SysNextLight, NextTypeOK DEF SysTypeOK
<1>1. SUFFICES AppTypeOK'
  BY <1>0 DEF SysTypeOK
<1>2. \A accepted, action, actor : Outcome(accepted, action, actor) =>
        sLightLED' \in BOOLEAN /\ turnedOn' \in BOOLEAN /\ mSyncClusterToButtonAction' \in BOOLEAN
  BY <1>0 DEF Outcome, ActionInitiated, outputVars
<1>3. \A cause \in Causes : \A apart : Part(cause, apart) => parted' \subseteq Causes
  BY PartType
<1>4. {"refused", "unsynced", "stale", "unwritten"} \subseteq Causes
  BY DEF Causes
<1>5. ASSUME NEW on \in BOOLEAN, OnOffCommand(on) PROVE AppTypeOK'
  <2>1. \E cause \in Causes : Meet(cause, on)
    BY <1>5 DEF OnOffCommand, Causes
  <2>2. parted' \subseteq Causes
    BY <2>1, MeetType
  <2> QED
    BY <1>0, <1>2, <1>5, <2>2 DEF OnOffCommand, MatterPostAttributeChangeCallback
<1>6. CASE UpdateClusterState
  <2>1. work' \in 0..WorkQueueLength
    BY <1>0, <1>6, AppTaskAssumption DEF UpdateClusterState
  <2>12. parted' \subseteq Causes
    BY <1>0, <1>4, <1>6 DEF UpdateClusterState, Meet, Part
  <2>2. WrittenValue \in BOOLEAN
    BY DEF WrittenValue, IsLightOn
  <2> QED
    BY <1>0, <1>2, <1>6, <2>1, <2>12, <2>2
      DEF UpdateClusterState, MatterPostAttributeChangeCallback, outputVars
<1>7. ASSUME NEW actor, LightAction(actor) PROVE AppTypeOK'
  BY <1>0, <1>2, <1>3, <1>4, <1>7 DEF LightAction
<1>8. CASE AutoTurnOffEvent \/ OffEffectEvent
  BY <1>0, <1>2, <1>3, <1>4, <1>8 DEF AutoTurnOffEvent, OffEffectEvent
<1>9. CASE ActuatorEvent
  <2>1. UNCHANGED <<onOff, sLightLED, turnedOn, parted>>
    BY <1>9 DEF ActuatorEvent, outputVars
  <2>2. work' \in 0..WorkQueueLength
    BY <1>0, <1>9, AppTaskAssumption DEF ActuatorEvent, ActionCompleted, ScheduleWork
  <2>3. mSyncClusterToButtonAction' \in BOOLEAN
    BY <1>0, <1>9 DEF ActuatorEvent, ActionCompleted
  <2> QED
    BY <1>0, <2>1, <2>2, <2>3
<1>10. CASE Reboot
  <2>1. work' \in 0..WorkQueueLength /\ parted' \subseteq Causes
    <3>1. 0 \in 0..WorkQueueLength
      BY AppTaskAssumption
    <3> QED
      BY <1>10, <3>1 DEF Reboot
  <2> QED
    BY <1>0, <1>10, <2>1 DEF Reboot
<1>11. CASE UNCHANGED appVars
  BY <1>0, <1>11 DEF appVars, outputVars
<1> QED
  BY <1>5, <1>6, <1>7, <1>8, <1>9, <1>10, <1>11
    DEF SysNext, SysRunning, AppTaskLoop, OffWithEffectCommand, sysVars

LEMMA SysInvHolds == SafeSysSpec => []SysInv
BY InitSysInv, NextSysInv, PTL DEF SafeSysSpec

(* Every state of the application is well-typed; neither queue overflows.   *)
THEOREM SysTypeCorrect == SafeSysSpec => []SysTypeOK
<1>1. SysInv => SysTypeOK
  BY DEF SysInv, CoreInv
<1> QED
  BY <1>1, SysInvHolds, PTL

(* The application implements the light state machine: the callbacks and    *)
(* the cluster around it never move the light behind its back.              *)
THEOREM ApplicationImplementsLight == SafeSysSpec => SafeSpec
<1>1. SysInv /\ [SysNext]_sysVars => [Next]_vars
  BY SysNextLight DEF SysInv, CoreInv
<1> QED
  BY <1>1, SysInitLight, SysInvHolds, PTL DEF SafeSysSpec, SafeSpec

(* The LED and the strip's on/off state always show where the light is or   *)
(* is moving to.                                                            *)
THEOREM OutputsCorrect == SafeSysSpec => []OutputsFollowLight
<1>1. SysInv => OutputsFollowLight
  BY DEF SysInv
<1> QED
  BY <1>1, SysInvHolds, PTL

(* A button action waiting to be written back always has a movement under   *)
(* way whose completion will write it back.                                 *)
THEOREM SyncCorrect == SafeSysSpec => []SyncBelongsToMovement
<1>1. SysInv => SyncBelongsToMovement
  BY DEF SysInv, CoreInv
<1> QED
  BY <1>1, SysInvHolds, PTL

(* The attribute and the light part in the five recorded ways and no other, *)
(* a command under which the timer fails among them.                        *)
THEOREM AttributeCorrect == SafeSysSpec => []AttributeFollowsLight
<1>1. SysInv => AttributeFollowsLight
  BY DEF SysInv, CoreInv
<1> QED
  BY <1>1, SysInvHolds, PTL

(* Without effects the write-back of a button action never moves the light. *)
THEOREM WriteBackMovesNothing ==
  ASSUME EffectWhen = {} PROVE SafeSysSpec => UpdateMovesNothing
<1>1. TypeOK /\ AutoInv /\ [Next]_vars => AutoInv'
  BY NextAutoInv
<1>2. SafeSpec => []AutoInv
  BY <1>1, InitAutoInv, TypeCorrect, PTL DEF SafeSpec
<1>3. AutoInv => [UpdateClusterState => UNCHANGED mState]_sysVars
  <2> SUFFICES ASSUME AutoInv, UpdateClusterState PROVE UNCHANGED mState
    OBVIOUS
  <2>1. ~mOffEffectArmed
    BY DEF AutoInv, OneUse
  <2>2. ~Accepts(OnOffAction(WrittenValue), mOffEffectArmed)
    BY <2>1 DEF Accepts, OnOffAction, WrittenValue, IsLightOn
  <2> QED
    BY <2>2 DEF UpdateClusterState, MatterPostAttributeChangeCallback, ClusterOnOff,
       InitiateAction, Refuse, vars, lightVars
<1> QED
  BY <1>2, <1>3, ApplicationImplementsLight, PTL DEF UpdateMovesNothing

-----------------------------------------------------------------------------
(* Where the attribute and the light can part *)

(* Without requests every light action in the queue is that of a button.    *)
QueuedByButton ==
  \A i \in 1..Len(queue) : queue[i].handler = "LightAction" => queue[i].type = "Button"

SourceInv ==
  /\ OneUse
  /\ PartedHasSource
  /\ Requests = {} => QueuedByButton
  /\ ~Buttons /\ Requests = {} =>
       ~Pending("LightAction") /\ ~mSyncClusterToButtonAction /\ work = 0

(* The uses of the timer that are ruled out stay ruled out. *)
LEMMA InitiateActionOneUse ==
  ASSUME OneUse, NEW action, NEW autoArmed \in BOOLEAN, NEW effArmed \in BOOLEAN,
         autoArmed => mAutoTurnOffTimerArmed, effArmed => mOffEffectArmed,
         InitiateAction(action, autoArmed, effArmed)
  PROVE  OneUse'
BY DEF OneUse, InitiateAction, Initiate, Refuse, AutoArmedAfter, EffectArmedAfter

LEMMA NextOneUse == ASSUME TypeOK, OneUse, [Next]_vars PROVE OneUse'
<1>0. mAutoTurnOff \in BOOLEAN /\ mAutoTurnOffTimerArmed \in BOOLEAN /\ mOffEffectArmed \in BOOLEAN
  BY DEF TypeOK
<1>1. ASSUME NEW action \in Actions, ClusterOnOff(action) PROVE OneUse'
  BY <1>0, <1>1, InitiateActionOneUse DEF ClusterOnOff
<1>2. ASSUME UNCHANGED lightVars PROVE OneUse'
  <2>1. UNCHANGED <<mAutoTurnOff, mAutoTurnOffTimerArmed, mOffEffectArmed>>
    BY <1>2 DEF lightVars
  <2> QED
    BY <2>1 DEF OneUse
<1>3. CASE LightActionEventHandler
  BY <1>0, <1>3, InitiateActionOneUse DEF LightActionEventHandler
<1>4. CASE AutoTurnOffTimerEventHandler \/ OffEffectTimerEventHandler
  BY <1>0, <1>2, <1>4, InitiateActionOneUse DEF AutoTurnOffTimerEventHandler, OffEffectTimerEventHandler
<1>5. CASE ActuatorMovementTimerEventHandler
  BY <1>0, <1>5 DEF ActuatorMovementTimerEventHandler, OneUse
<1>6. CASE OnTriggerOffWithEffect
  BY <1>6 DEF OnTriggerOffWithEffect, OneUse
<1>7. ASSUME NEW on \in AutoTurnOffCalls, EnableAutoTurnOff(on) PROVE OneUse'
  BY <1>7, ConstantsAssumption DEF EnableAutoTurnOff, OneUse
<1>8. CASE TimerEventHandler
  BY <1>8 DEF TimerEventHandler, OneUse
<1>9. CASE \/ ButtonEventHandler \/ ButtonHandler \/ PowerLoss
           \/ (\E action \in Requests : PostLightActionRequest(action)) \/ UNCHANGED vars
  BY <1>2, <1>9 DEF ButtonEventHandler, ButtonHandler, PowerLoss, PostLightActionRequest, vars
<1>10. CASE \E on \in BOOLEAN : PowerCycle(on)
  BY <1>10 DEF PowerCycle, OneUse
<1> QED
  BY <1>1, <1>3, <1>4, <1>5, <1>6, <1>7, <1>8, <1>9, <1>10 DEF Next, Running, AppTaskMain

(* A queue grows by the one event that is posted. *)
LEMMA PostByButton ==
  ASSUME TypeOK, QueuedByButton, NEW event \in Events, PostEvent(event),
         event.handler = "LightAction" => event.type = "Button"
  PROVE  QueuedByButton'
<1> SUFFICES ASSUME NEW i \in 1..Len(queue'), queue'[i].handler = "LightAction"
             PROVE  queue'[i].type = "Button"
  BY DEF QueuedByButton
<1> QED
  BY PostOrigin DEF QueuedByButton

LEMMA DispatchByButton ==
  ASSUME TypeOK, QueuedByButton, NEW handler, Dispatch(handler) PROVE QueuedByButton'
<1> SUFFICES ASSUME NEW i \in 1..Len(queue'), queue'[i].handler = "LightAction"
             PROVE  queue'[i].type = "Button"
  BY DEF QueuedByButton
<1>1. i + 1 \in 1..Len(queue) /\ queue[i + 1] = queue'[i]
  BY DispatchKeepsQueue DEF TypeOK
<1> QED
  BY <1>1 DEF QueuedByButton

(* Without requests only the button callback posts light actions, and it    *)
(* posts those of a button.                                                 *)
LEMMA NextQueue ==
  ASSUME TypeOK, [Next]_vars, Requests = {}
  PROVE  /\ QueuedByButton => QueuedByButton'
         /\ ~Buttons /\ ~Pending("LightAction") => ~Pending("LightAction")'
<1>1. ASSUME UNCHANGED queue
      PROVE  (QueuedByButton' = QueuedByButton) /\ Pending("LightAction")' = Pending("LightAction")
  BY <1>1 DEF QueuedByButton, Pending
<1>2. CASE TimerEventHandler
  <2>1. ExpiryHandler \in TimerHandlers
    BY DEF ExpiryHandler, TimerHandlers
  <2>2. /\ TimerEvent(ExpiryHandler) \in Events
        /\ TimerEvent(ExpiryHandler).handler # "LightAction"
    BY <2>1 DEF TimerEvent, Events, TimerHandlers
  <2> QED
    BY <1>2, <2>2, PostByButton, PostPendingOnly DEF TimerEventHandler
<1>3. CASE Buttons /\ ButtonEventHandler
  <2>1. ButtonEvent \in Events /\ ButtonEvent.type = "Button"
        /\ FunctionEvent \in Events /\ FunctionEvent.type = "Button"
    BY DEF ButtonEvent, FunctionEvent, Events
  <2> QED
    BY <1>3, <2>1, PostByButton DEF ButtonEventHandler
<1>4. CASE AppTaskMain
  <2>1. PICK handler : Dispatch(handler)
    BY <1>4 DEF AppTaskMain, LightActionEventHandler, ButtonHandler, AutoTurnOffTimerEventHandler,
       OffEffectTimerEventHandler, ActuatorMovementTimerEventHandler
  <2> QED
    BY <2>1, DispatchByButton, DispatchPendingOnly
<1>5. CASE \E on \in BOOLEAN : PowerCycle(on)
  <2>1. queue' = <<>>
    BY <1>5 DEF PowerCycle
  <2>2. Len(queue') = 0
    BY <2>1
  <2> QED
    BY <2>2 DEF QueuedByButton, Pending
<1>6. CASE \/ \E action \in Actions : ClusterOnOff(action)
           \/ OnTriggerOffWithEffect \/ PowerLoss \/ UNCHANGED vars
           \/ \E on \in AutoTurnOffCalls : EnableAutoTurnOff(on)
  BY <1>1, <1>6 DEF ClusterOnOff, OnTriggerOffWithEffect, PowerLoss, EnableAutoTurnOff, vars
<1> QED
  BY <1>2, <1>3, <1>4, <1>5, <1>6 DEF Next, Running

LEMMA NextParted ==
  ASSUME SysTypeOK, SourceInv, [SysNext]_sysVars PROVE PartedHasSource'
<1>0. TypeOK /\ OneUse /\ PartedHasSource
  BY DEF SysTypeOK, SourceInv
<1>1. ASSUME UNCHANGED parted, ~halted \/ UNCHANGED halted PROVE PartedHasSource'
  BY <1>0, <1>1 DEF PartedHasSource
<1>2. ASSUME NEW value \in BOOLEAN, ~halted, OnOffCommand(value) PROVE PartedHasSource'
  <2> DEFINE accepted == Accepts(OnOffAction(value), mOffEffectArmed)
  <2>1. OnOffAction(value) \in Actions /\ (OnOffAction(value) = "ON") = value
    BY DEF OnOffAction, Actions
  <2>2. InitiateAction(OnOffAction(value), mAutoTurnOffTimerArmed, mOffEffectArmed)
    BY <1>2 DEF OnOffCommand, MatterPostAttributeChangeCallback, ClusterOnOff
  <2>3. CASE ~accepted
    <3>1. UNCHANGED mState
      BY <2>1, <2>2, <2>3, InitiateActionLit
    <3>2. Meet("refused", value)
      BY <1>2, <2>3 DEF OnOffCommand
    <3>3. EffectWhen = {} /\ ClusterWhen \subseteq AtRest => value = Lit'
      BY <1>0, <1>2, <2>3, <3>1 DEF OneUse, OnOffCommand, AtRest, Lit, Accepts, OnOffAction
    <3> QED
      BY <1>0, <1>2, <3>2, <3>3 DEF Meet, PartedHasSource
  <2>4. CASE accepted
    <3>1. Meet("stopped", value)
      BY <1>2, <2>4 DEF OnOffCommand
    <3>2. halted' => TimerFaults
      BY <1>2, <2>2, <2>4 DEF InitiateAction, Initiate, TimerStarts, appError
    <3>3. ~halted' => value = Lit'
      BY <2>1, <2>2, <2>4, InitiateActionLit
    <3> QED
      BY <1>0, <1>2, <3>1, <3>2, <3>3 DEF Meet, PartedHasSource
  <2> QED
    BY <2>3, <2>4
<1>3. CASE ~halted /\ UpdateClusterState
  <2>1. Buttons \/ Requests # {}
    BY <1>3 DEF UpdateClusterState, SourceInv
  <2> QED
    BY <1>0, <1>3, <2>1 DEF UpdateClusterState, Part, Meet, PartedHasSource
<1>4. ASSUME NEW actor \in Actors, ~halted, LightAction(actor) PROVE PartedHasSource'
  <2>1. Requests = {} => actor = "Button"
    <3>1. Len(queue) > 0 /\ Head(queue) = queue[1] /\ queue[1].handler = "LightAction"
      BY <1>0, <1>4 DEF LightAction, LightActionEventHandler, Dispatch, TypeOK
    <3>2. Len(queue) \in Nat
      BY <1>0 DEF TypeOK
    <3> QED
      BY <1>4, <3>1, <3>2 DEF LightAction, SourceInv, QueuedByButton
  <2> QED
    BY <1>0, <1>4, <2>1 DEF LightAction, Part, PartedHasSource
<1>5. CASE ~halted /\ (AutoTurnOffEvent \/ OffEffectEvent)
  BY <1>0, <1>5 DEF AutoTurnOffEvent, OffEffectEvent, OneUse, Part, PartedHasSource
<1>6. CASE Reboot
  BY <1>6 DEF Reboot, PartedHasSource
<1>7. CASE ~halted /\ (ActuatorEvent \/ OffWithEffectCommand \/ UNCHANGED appVars)
  BY <1>1, <1>7 DEF ActuatorEvent, OffWithEffectCommand, appVars
<1>8. CASE UNCHANGED sysVars
  BY <1>1, <1>8 DEF sysVars, vars, appVars
<1> QED
  BY <1>2, <1>3, <1>4, <1>5, <1>6, <1>7, <1>8 DEF SysNext, SysRunning, AppTaskLoop

(* Without buttons and requests there is never anything to write back.      *)
LEMMA NextNothingToWrite ==
  ASSUME SysTypeOK, ~Buttons, Requests = {}, [SysNext]_sysVars,
         ~Pending("LightAction") /\ ~mSyncClusterToButtonAction /\ work = 0
  PROVE  ~mSyncClusterToButtonAction' /\ work' = 0
<1>1. ~UpdateClusterState
  BY DEF UpdateClusterState
<1>2. \A actor : ~LightAction(actor)
  <2>1. ~Dispatch("LightAction")
    <3> SUFFICES ASSUME Dispatch("LightAction") PROVE FALSE
      OBVIOUS
    <3>1. queue \in Seq(Events) /\ queue # <<>> /\ Head(queue).handler = "LightAction"
      BY DEF Dispatch, SysTypeOK, TypeOK
    <3>2. 1 \in 1..Len(queue) /\ Head(queue) = queue[1]
      BY <3>1
    <3> QED
      BY <3>1, <3>2 DEF Pending
  <2> QED
    BY <2>1 DEF LightAction, LightActionEventHandler
<1>3. \A accepted, action : \A actor \in {"Light", "Timer"} :
        Outcome(accepted, action, actor) => ~mSyncClusterToButtonAction'
  BY DEF Outcome, ActionInitiated, SysTypeOK
<1>4. ASSUME NEW value \in BOOLEAN, OnOffCommand(value)
      PROVE  ~mSyncClusterToButtonAction' /\ work' = 0
  BY <1>3, <1>4 DEF OnOffCommand, MatterPostAttributeChangeCallback
<1>5. CASE AutoTurnOffEvent \/ OffEffectEvent
  BY <1>3, <1>5 DEF AutoTurnOffEvent, OffEffectEvent
<1>6. CASE ActuatorEvent
  BY <1>6 DEF ActuatorEvent, ActionCompleted
<1>7. CASE Reboot
  BY <1>7 DEF Reboot
<1>8. CASE UNCHANGED appVars
  BY <1>8 DEF appVars
<1> QED
  BY <1>1, <1>2, <1>4, <1>5, <1>6, <1>7, <1>8
    DEF SysNext, SysRunning, AppTaskLoop, OffWithEffectCommand, sysVars

LEMMA SourceInvHolds == SafeSysSpec => []SourceInv
<1>1. SysInit => SourceInv
  <2> SUFFICES ASSUME SysInit PROVE SourceInv
    OBVIOUS
  <2>1. Len(queue) = 0
    BY DEF SysInit
  <2>2. QueuedByButton /\ ~Pending("LightAction")
    BY <2>1 DEF QueuedByButton, Pending
  <2>3. OneUse
    BY DEF SysInit, InitLight, OneUse
  <2>4. PartedHasSource /\ ~mSyncClusterToButtonAction /\ work = 0
    BY DEF SysInit, PartedHasSource
  <2> QED
    BY <2>2, <2>3, <2>4 DEF SourceInv
<1>2. ASSUME SysTypeOK, SourceInv, [SysNext]_sysVars PROVE SourceInv'
  <2>1. TypeOK /\ [Next]_vars
    BY <1>2, SysNextLight DEF SysTypeOK
  <2>2. OneUse'
    BY <1>2, <2>1, NextOneUse DEF SourceInv
  <2>3. PartedHasSource'
    BY <1>2, NextParted
  <2>4. Requests = {} => QueuedByButton'
    BY <1>2, <2>1, NextQueue DEF SourceInv
  <2>5. ~Buttons /\ Requests = {} => ~Pending("LightAction")'
    BY <1>2, <2>1, NextQueue DEF SourceInv
  <2>6. ~Buttons /\ Requests = {} => ~mSyncClusterToButtonAction' /\ work' = 0
    BY <1>2, NextNothingToWrite DEF SourceInv
  <2> QED
    BY <2>2, <2>3, <2>4, <2>5, <2>6 DEF SourceInv
<1> QED
  BY <1>1, <1>2, SysTypeCorrect, PTL DEF SafeSysSpec

(* Each way in which the attribute and the light can part needs its source: *)
(* a command or an effect at a bad moment, a failing timer, a timer or a    *)
(* request, a button pressed again before the update ran, a failing write.  *)
THEOREM PartingHasSource == SafeSysSpec => []PartedHasSource
<1>1. SourceInv => PartedHasSource
  BY DEF SourceInv
<1> QED
  BY <1>1, SourceInvHolds, PTL

=============================================================================
