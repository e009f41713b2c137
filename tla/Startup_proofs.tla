--------------------------- MODULE Startup_proofs ---------------------------
(***************************************************************************)
(* Theorems about the start of the application, for every queue, fault,    *)
(* button and restart and wherever commands and effects come.  The start   *)
(* ends in a state from which AppTask's own invariant takes over, but for  *)
(* the outputs a late command has left behind.                             *)
(***************************************************************************)
EXTENDS Startup, AppTask_proofs

-----------------------------------------------------------------------------
(* Types *)

LEMMA PowerUpType == PowerUp => SysTypeOK
<1> SUFFICES ASSUME PowerUp PROVE SysTypeOK
  OBVIOUS
<1>1. queue \in Seq(Events) /\ Len(queue) <= QueueLength
  BY ConstantsAssumption DEF PowerUp
<1>2. TypeOK
  BY <1>1 DEF PowerUp, PowerUpState, States, TypeOK
<1> QED
  <2>1. work \in 0..WorkQueueLength
    BY AppTaskAssumption DEF PowerUp
  <2>2. parted \subseteq Causes
    BY DEF PowerUp
  <2> QED
    BY <1>2, <2>1, <2>2 DEF PowerUp, SysTypeOK

LEMMA RestartType == ASSUME SysTypeOK, Restart PROVE SysTypeOK'
<1>1. queue' \in Seq(Events) /\ Len(queue') <= QueueLength
  BY ConstantsAssumption DEF Restart
<1>2. TypeOK'
  BY <1>1 DEF Restart, PowerUpState, States, TypeOK
<1> QED
  <2>1. work' \in 0..WorkQueueLength
    BY AppTaskAssumption DEF Restart
  <2>2. parted' \subseteq Causes
    BY DEF Restart
  <2> QED
    BY <1>2, <2>1, <2>2 DEF Restart, SysTypeOK

LEMMA BootStepType == ASSUME SysTypeOK, value \in BOOLEAN, BootStep PROVE SysTypeOK'
<1>1. CASE UNCHANGED sysVars
  BY <1>1 DEF sysVars, vars, lightVars, appVars, outputVars, SysTypeOK, TypeOK
<1>2. CASE TakeState
  <2>1. RestState(value) \in States
    BY DEF RestState, States
  <2>2. parted' \subseteq Causes
    BY <1>2, MeetType DEF TakeState, Causes
  <2> QED
    BY <1>2, <2>1, <2>2 DEF TakeState, appVars, outputVars, SysTypeOK, TypeOK
<1>3. CASE ClearFlags
  BY <1>3 DEF ClearFlags, appVars, outputVars, SysTypeOK, TypeOK
<1>4. CASE InitLED \/ SwitchStrip
  BY <1>4 DEF InitLED, SwitchStrip, IsLightOn, vars, lightVars, SysTypeOK, TypeOK
<1> QED
  BY <1>1, <1>2, <1>3, <1>4
    DEF BootStep, CreateTimer, ReadOnOff, SetCallbacks, PassState

LEMMA EarlyType ==
  ASSUME SysTypeOK, ~halted, Early PROVE SysTypeOK'
<1>0. TypeOK
  BY DEF SysTypeOK
<1>1. \A armed \in BOOLEAN : NoTimer(armed) => TypeOK'
  BY <1>0 DEF NoTimer, TypeOK
<1>2. ASSUME NEW on \in BOOLEAN, EarlyOnOff(on) PROVE SysTypeOK'
  <2>1. ClusterOnOff(OnOffAction(on)) => TypeOK'
    <3>1. OnOffAction(on) \in Actions
      BY DEF OnOffAction, Actions
    <3> QED
      BY <1>0, <3>1, NextTypeOK DEF Next, Running
  <2>2. TypeOK'
    BY <1>0, <1>1, <1>2, <2>1 DEF EarlyOnOff, TypeOK
  <2>3. parted' \subseteq Causes
    <3>1. (\E cause \in Causes : Meet(cause, on)) \/ UNCHANGED parted
      BY <1>2 DEF EarlyOnOff, Causes
    <3> QED
      BY <3>1, MeetType DEF SysTypeOK
  <2> QED
    BY <1>2, <2>2, <2>3 DEF EarlyOnOff, Outcome, ActionInitiated, outputVars, SysTypeOK
<1>3. OnTriggerOffWithEffect => TypeOK'
  BY <1>0, NextTypeOK DEF Next, Running
<1>4. EarlyEvent => TypeOK'
  BY <1>0, NextTypeOK DEF EarlyEvent, Next, Running
<1>5. ASSUME TypeOK', UNCHANGED appVars PROVE SysTypeOK'
  BY <1>5 DEF appVars, outputVars, SysTypeOK
<1> QED
  BY <1>1, <1>2, <1>3, <1>4, <1>5 DEF Early, EarlyEffect, EarlyEvent

LEMMA NextBootType == ASSUME BootTypeOK, [StartupNext]_bootVars PROVE BootTypeOK'
<1> USE DEF BootTypeOK
<1>0. onOff \in BOOLEAN
  BY DEF SysTypeOK
<1>1. CASE Starting /\ BootStep /\ UNCHANGED late
  <2>1. SysTypeOK'
    BY <1>1, BootStepType
  <2> QED
    BY <1>0, <1>1, <2>1 DEF BootStep, CreateTimer, ReadOnOff, TakeState, ClearFlags,
       SetCallbacks, InitLED, PassState, SwitchStrip, IsLightOn, BootPoints
<1>2. CASE Starting /\ Early /\ UNCHANGED <<boot, value>>
  <2>1. late' \in BOOLEAN
    BY <1>2 DEF Early, EarlyOnOff, EarlyEffect, EarlyEvent
  <2> QED
    BY <1>2, <2>1, EarlyType DEF Starting
<1>3. CASE Started
  BY <1>3, SysNextType DEF Started, SysNext
<1>4. CASE Restart
  BY <1>4, RestartType DEF Restart, BootPoints
<1>5. CASE UNCHANGED bootVars
  BY <1>5, SysNextType DEF bootVars
<1> QED
  BY <1>1, <1>2, <1>3, <1>4, <1>5 DEF StartupNext, Starting

(* The types, over start, operation and restart, at whatever points of the  *)
(* start commands and effects arrive.                                       *)
THEOREM BootTypeCorrect == StartupSpec => []BootTypeOK
<1>1. PowerUp => BootTypeOK
  BY PowerUpType DEF PowerUp, BootTypeOK, BootPoints
<1> QED
  BY <1>1, NextBootType, PTL DEF StartupSpec

-----------------------------------------------------------------------------
(* What the start has achieved at each point: it runs with no               *)
(* synchronisation and no work item; once the state is taken, the attribute *)
(* differs from it for a recorded cause only; and unless a late command     *)
(* moves the light it rests, and LED and strip take its state over one      *)
(* after the other.                                                         *)
StartInv ==
  /\ ~mSyncClusterToButtonAction /\ work = 0
  /\ StateTaken /\ boot # "failed" => AttributeFollowsLight
  /\ StateTaken /\ boot # "failed" /\ ~late => mState \in AtRest
  /\ boot \in {"pass", "strip"} => sLightLED = Lit \/ late
  /\ boot = "strip" => value = Lit \/ late

BootInv ==
  /\ BootTypeOK
  /\ boot = "run" => CoreInv /\ (OutputsFollowLight \/ late)
  /\ boot # "run" => StartInv

LEMMA InitBootInv == PowerUp => BootInv
BY PowerUpType DEF PowerUp, PowerUpState, BootInv, StartInv, StateTaken, BootTypeOK, BootPoints

(* A command during the start: refused, it moves nothing; obeyed once the   *)
(* state is taken, it is late.                                              *)
LEMMA EarlyOnOffInv ==
  ASSUME BootInv, ~halted, boot \in BootPoints, NEW on \in BOOLEAN, EarlyOnOff(on),
         UNCHANGED <<boot, value>>
  PROVE  StartInv'
<1> DEFINE action   == OnOffAction(on)
           accepted == Accepts(action, mOffEffectArmed)
<1>0. boot # "run" /\ boot # "failed" /\ SysTypeOK /\ StartInv /\ late \in BOOLEAN
  BY DEF BootInv, BootTypeOK, BootPoints
<1>1. action \in Actions
  BY DEF OnOffAction, Actions
<1>2. /\ ~mSyncClusterToButtonAction' /\ work' = 0
  BY <1>0 DEF EarlyOnOff, Outcome, ActionInitiated, StartInv
<1>3. CASE ~StateTaken
  BY <1>0, <1>2, <1>3 DEF StartInv, StateTaken
<1>4. CASE StateTaken
  <2>1. /\ InitiateAction(action, mAutoTurnOffTimerArmed, mOffEffectArmed)
        /\ Outcome(accepted /\ CallbacksSet, action, "Light")
        /\ late' = (late \/ (accepted /\ ~halted'))
        /\ onOff' = on
    BY <1>4 DEF EarlyOnOff, ClusterOnOff, StateTaken
  <2>2. \E cause \in Causes : Meet(cause, on)
    BY <1>4 DEF EarlyOnOff, Causes
  <2>3. AttributeFollowsLight'
    BY <1>0, <2>1, <2>2, MeetType DEF AttributeFollowsLight
  <2>4. CASE accepted /\ ~halted'
    BY <1>2, <2>1, <2>3, <2>4 DEF StartInv
  <2>5. CASE ~(accepted /\ ~halted')
    <3>1. UNCHANGED <<mState, late, sLightLED>>
      BY <1>0, <1>1, <2>1, <2>5, InitiateActionLit DEF Outcome, outputVars
    <3> QED
      BY <1>0, <1>2, <2>3, <3>1 DEF StartInv, StateTaken, Lit
  <2> QED
    BY <2>4, <2>5
<1> QED
  BY <1>3, <1>4

LEMMA EarlyBootInv ==
  ASSUME BootInv, ~halted, boot \in BootPoints, Early, UNCHANGED <<boot, value>>
  PROVE  StartInv'
<1>1. CASE EarlyEffect \/ EarlyEvent
  <2>1. UNCHANGED <<mState, appVars, late>>
    BY <1>1 DEF EarlyEffect, NoTimer, OnTriggerOffWithEffect, EarlyEvent, TimerEventHandler,
       ButtonEventHandler, PostLightActionRequest, lightVars
  <2> QED
    BY <2>1 DEF BootInv, BootPoints, StartInv, StateTaken, AttributeFollowsLight, Lit, appVars,
       outputVars
<1> QED
  BY <1>1, EarlyOnOffInv DEF Early

(* Every step of the start itself. *)
LEMMA BootStepInv ==
  ASSUME BootInv, BootTypeOK', boot # "run", BootStep, UNCHANGED late
  PROVE  BootInv'
<1>0. SysTypeOK /\ value \in BOOLEAN /\ onOff \in BOOLEAN /\ StartInv
  BY DEF BootInv, BootTypeOK, SysTypeOK
<1> USE <1>0 DEF BootInv, StartInv, StateTaken
<1>1. ASSUME UNCHANGED <<mState, appVars>>
      PROVE  /\ Lit' = Lit /\ AttributeFollowsLight' = AttributeFollowsLight
             /\ UNCHANGED <<sLightLED, mSyncClusterToButtonAction, work>>
  BY <1>1 DEF appVars, outputVars, Lit, AttributeFollowsLight
<1>2. UNCHANGED sysVars => UNCHANGED <<mState, appVars>>
  BY DEF sysVars, vars, lightVars
<1>3. CASE CreateTimer \/ ReadOnOff \/ SetCallbacks
  BY <1>1, <1>2, <1>3 DEF CreateTimer, ReadOnOff, SetCallbacks
<1>4. CASE TakeState
  <2>1. AttributeFollowsLight'
    BY <1>4, MeetType DEF TakeState, Causes, AttributeFollowsLight
  <2>2. mState' \in AtRest
    BY <1>4 DEF TakeState, RestState, AtRest
  <2> QED
    BY <1>4, <2>1, <2>2 DEF TakeState
<1>5. CASE ClearFlags
  BY <1>1, <1>5 DEF ClearFlags
<1>6. CASE InitLED
  <2>1. Lit' = Lit /\ AttributeFollowsLight' = AttributeFollowsLight /\ UNCHANGED mState
    BY <1>6 DEF InitLED, vars, lightVars, Lit, AttributeFollowsLight
  <2>2. mState \in AtRest => IsLightOn = Lit
    BY DEF AtRest, IsLightOn, Lit
  <2> QED
    BY <1>6, <2>1, <2>2 DEF InitLED
<1>7. CASE PassState
  <2>1. mState \in AtRest => IsLightOn = Lit
    BY DEF AtRest, IsLightOn, Lit
  <2> QED
    BY <1>1, <1>2, <1>7, <2>1 DEF PassState
<1>8. CASE SwitchStrip
  <2>1. Lit' = Lit /\ AttributeFollowsLight' = AttributeFollowsLight
    BY <1>8 DEF SwitchStrip, vars, lightVars, Lit, AttributeFollowsLight
  <2>2. OutputsFollowLight' \/ late'
    BY <1>8, <2>1 DEF SwitchStrip, OutputsFollowLight
  <2>3. SyncBelongsToMovement' /\ AttributeFollowsLight' /\ SysTypeOK'
    BY <1>8, <2>1 DEF SwitchStrip, SyncBelongsToMovement, BootTypeOK
  <2> QED
    BY <1>8, <2>2, <2>3 DEF SwitchStrip, CoreInv
<1> QED
  BY <1>3, <1>4, <1>5, <1>6, <1>7, <1>8 DEF BootStep

LEMMA NextBootInv == ASSUME BootInv, [StartupNext]_bootVars PROVE BootInv'
<1>0. BootTypeOK'
  BY NextBootType DEF BootInv
<1>1. CASE Starting /\ BootStep /\ UNCHANGED late
  BY <1>0, <1>1, BootStepInv DEF Starting, BootPoints
<1>2. CASE Starting /\ Early /\ UNCHANGED <<boot, value>>
  BY <1>0, <1>2, EarlyBootInv DEF Starting, BootInv, BootPoints
<1>3. CASE Started
  <2>1. CoreInv' /\ OutputsKept
    BY <1>3, NextCoreInv DEF Started, SysNext, BootInv
  <2>2. OutputsFollowLight' \/ late'
    BY <1>3, <2>1 DEF Started, BootInv, OutputsKept
  <2> QED
    BY <1>0, <1>3, <2>1, <2>2 DEF Started, BootInv
<1>4. CASE Restart
  BY <1>0, <1>4 DEF Restart, BootInv, StartInv, StateTaken
<1>5. CASE UNCHANGED bootVars
  BY <1>5 DEF bootVars, sysVars, vars, lightVars, appVars, outputVars, BootInv, StartInv,
     StateTaken, CoreInv, BootTypeOK, SysTypeOK, TypeOK, OutputsFollowLight,
     SyncBelongsToMovement, AttributeFollowsLight, Lit, InProgress
<1> QED
  BY <1>1, <1>2, <1>3, <1>4, <1>5 DEF StartupNext, Starting

LEMMA BootInvHolds == StartupSpec => []BootInv
<1>1. BootInv /\ [StartupNext]_bootVars => BootInv'
  BY NextBootInv
<1> QED
  BY <1>1, InitBootInv, PTL DEF StartupSpec

(* Wherever commands, effects, buttons and requests come and whatever the   *)
(* timer service reports: once the start is over, LED and strip show where  *)
(* the light is, but for a command that moved the light during the rest of  *)
(* the start, until the next movement; and the attribute differs from the   *)
(* light for a recorded cause only, a command forgotten by the start among  *)
(* them.                                                                    *)
THEOREM StartCorrect == StartupSpec => []StartsInStep
<1>1. BootInv => StartsInStep
  BY DEF BootInv, StartsInStep, CoreInv
<1> QED
  BY <1>1, BootInvHolds, PTL

-----------------------------------------------------------------------------
(* The timer *)

(* Memory of zeros is a light in a movement with no effect armed: it accepts *)
(* nothing.                                                                  *)
TimerInv == TimerInTime /\ (boot = "timer" => mState = "OffInitiated" /\ ~mOffEffectArmed)

LEMMA NextTimerInv ==
  ASSUME EffectsAfterTimer, BootTypeOK, TimerInv, [StartupNext]_bootVars PROVE TimerInv'
<1> USE DEF TimerInv, TimerInTime, BootTypeOK
<1>1. CASE Starting /\ BootStep
  <2>1. boot' # "timer" /\ UNCHANGED halted
    BY <1>1 DEF BootStep, CreateTimer, ReadOnOff, TakeState, ClearFlags, SetCallbacks, InitLED,
       PassState, SwitchStrip, sysVars, vars
  <2> QED
    BY <1>1, <2>1 DEF Starting
<1>2. CASE Starting /\ Early /\ UNCHANGED <<boot, value>>
  <2>1. ASSUME NEW on \in BOOLEAN, EarlyOnOff(on) PROVE TimerInv'
    <3>1. CASE boot = "timer"
      <4>1. ~Accepts(OnOffAction(on), mOffEffectArmed)
        BY <3>1 DEF Accepts
      <4> QED
        BY <1>2, <2>1, <3>1, <4>1 DEF EarlyOnOff, ClusterOnOff, InitiateAction, Refuse
    <3>2. CASE boot # "timer"
      BY <1>2, <2>1, <3>2 DEF EarlyOnOff, ClusterOnOff
    <3> QED
      BY <3>1, <3>2
  <2>2. CASE EarlyEffect
    BY <1>2, <2>2 DEF EarlyEffect, EffectsAfterTimer, NoTimer, OnTriggerOffWithEffect
  <2>3. CASE EarlyEvent
    BY <1>2, <2>3 DEF EarlyEvent, TimerEventHandler, ButtonEventHandler, PostLightActionRequest,
       lightVars
  <2> QED
    BY <1>2, <2>1, <2>2, <2>3 DEF Early
<1>3. CASE Started
  BY <1>3 DEF Started
<1>4. CASE Restart
  BY <1>4 DEF Restart, PowerUpState
<1>5. CASE UNCHANGED bootVars
  BY <1>5 DEF bootVars, sysVars, vars, lightVars
<1> QED
  BY <1>1, <1>2, <1>3, <1>4, <1>5 DEF StartupNext, Starting

(* At whatever points commands arrive, the start never uses the light's     *)
(* timer before it exists, if no effect arrives before it does.             *)
THEOREM TimerBeforeUse == ASSUME EffectsAfterTimer PROVE StartupSpec => []TimerInTime
<1>1. PowerUp => TimerInv
  BY DEF PowerUp, PowerUpState, TimerInv, TimerInTime
<1>2. BootTypeOK /\ TimerInv /\ [StartupNext]_bootVars => TimerInv'
  BY NextTimerInv
<1>3. TimerInv => TimerInTime
  BY DEF TimerInv
<1> QED
  BY <1>1, <1>2, <1>3, BootTypeCorrect, PTL DEF StartupSpec

=============================================================================
