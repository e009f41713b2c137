------------------------------ MODULE Startup ------------------------------
(***************************************************************************)
(* The application task's start, step by step, before the application of   *)
(* AppTask runs.  The cluster server may run before AppTask::Init has      *)
(* finished, so commands, effects and buttons may find a light without a   *)
(* timer, without a state or without callbacks.  Memory is zero when the   *)
(* device powers up, which makes the light's state the first of its        *)
(* enumeration, OffInitiated.                                              *)
(***************************************************************************)
EXTENDS AppTask

CONSTANTS
  EarlyAt,       \* the points of the start at which an OnOff command may arrive
  EarlyEffectAt  \* and an OffWithEffect

(* What Init is about to do: create the timer, read the stored value, take  *)
(* it as the state, clear the flags, set the callbacks, set the LED, read   *)
(* the light for the strip, switch the strip.                               *)
BootPoints == {"timer", "read", "state", "flags", "callbacks", "LED", "pass", "strip"}

ASSUME StartupAssumption ==
  /\ EarlyAt \subseteq BootPoints
  /\ EarlyEffectAt \subseteq BootPoints

VARIABLES
  boot,   \* where the start is: "run" when it has finished, "failed" without a timer
  value,  \* the on/off value Init holds
  late    \* history: has a command moved the light during the rest of the start,
          \* after it took its state, and nothing moved it since?

bootVars == <<sysVars, boot, value, late>>

StateTaken   == boot \notin {"timer", "read", "state"}
CallbacksSet == StateTaken /\ boot \notin {"flags", "callbacks"}

-----------------------------------------------------------------------------
(* Power-up: zeroed memory and the stored attribute. *)

PowerUpAsOff == "OffCompleted"         \* mutant: the first state accepts ON
PowerUpState == "OffInitiated"

PowerUp ==
  /\ onOff \in BOOLEAN
  /\ mState = PowerUpState
  /\ mAutoTurnOff = FALSE /\ mAutoTurnOffTimerArmed = FALSE /\ mOffEffectArmed = FALSE
  /\ mLightTimer = FALSE
  /\ queue = <<>>
  /\ halted = FALSE /\ lost = FALSE
  /\ sLightLED = FALSE /\ turnedOn = FALSE
  /\ mSyncClusterToButtonAction = FALSE /\ work = 0 /\ parted = {}
  /\ boot = "timer" /\ value = FALSE /\ late = FALSE

Restart ==
  /\ PowerCycles
  /\ mState' = PowerUpState
  /\ mAutoTurnOff' = FALSE /\ mAutoTurnOffTimerArmed' = FALSE /\ mOffEffectArmed' = FALSE
  /\ mLightTimer' = FALSE
  /\ queue' = <<>>
  /\ halted' = FALSE /\ lost' = FALSE
  /\ sLightLED' = FALSE /\ turnedOn' = FALSE
  /\ mSyncClusterToButtonAction' = FALSE /\ work' = 0 /\ parted' = {}
  /\ boot' = "timer" /\ value' = FALSE /\ late' = FALSE
  /\ UNCHANGED onOff

-----------------------------------------------------------------------------
(* AppTask::Init *)

CreateTimer ==
  /\ boot = "timer"
  /\ boot' \in {"read"} \cup (IF TimerFaults THEN {"failed"} ELSE {})
  /\ UNCHANGED <<sysVars, value>>

(* getOnOffValue, with the stack locked. *)
ReadOnOff ==
  /\ boot = "read" /\ boot' = "state"
  /\ value' = onOff
  /\ UNCHANGED sysVars

(* A command that has come since is forgotten. *)
TakeState ==
  /\ boot = "state" /\ boot' = "flags"
  /\ mState' = RestState(value)
  /\ Meet("forgotten", onOff)
  /\ UNCHANGED <<mAutoTurnOff, mAutoTurnOffTimerArmed, mOffEffectArmed, mLightTimer,
                 queue, halted, lost, onOff, outputVars, mSyncClusterToButtonAction, work,
                 value>>

ClearFlags ==
  /\ boot = "flags" /\ boot' = "callbacks"
  /\ mAutoTurnOff' = FALSE /\ mAutoTurnOffTimerArmed' = FALSE /\ mOffEffectArmed' = FALSE
  /\ UNCHANGED <<mState, mLightTimer, queue, halted, lost, appVars, value>>

SetCallbacks ==
  /\ boot = "callbacks" /\ boot' = "LED"
  /\ UNCHANGED <<sysVars, value>>

InitLED ==
  /\ boot = "LED" /\ boot' = "pass"
  /\ sLightLED' = IsLightOn
  /\ UNCHANGED <<vars, onOff, turnedOn, mSyncClusterToButtonAction, work, parted, value>>

PassState ==
  /\ boot = "pass" /\ boot' = "strip"
  /\ value' = IsLightOn
  /\ UNCHANGED sysVars

SwitchStrip ==
  /\ boot = "strip" /\ boot' = "run"
  /\ turnedOn' = value /\ value' = FALSE
  /\ UNCHANGED <<vars, onOff, sLightLED, mSyncClusterToButtonAction, work, parted>>

BootStep ==
  \/ CreateTimer \/ ReadOnOff \/ TakeState \/ ClearFlags
  \/ SetCallbacks \/ InitLED \/ PassState \/ SwitchStrip

-----------------------------------------------------------------------------
(* What may happen meanwhile *)

(* StartTimer with no timer ends in appError, faults or not. *)
NoTimer(armed) ==
  /\ boot = "timer"
  /\ mOffEffectArmed' = armed
  /\ halted' = TRUE
  /\ UNCHANGED <<mState, mAutoTurnOff, mAutoTurnOffTimerArmed, mLightTimer, queue, lost>>

(* What a command finds before the light has taken its state is not kept    *)
(* track of: TakeState compares the attribute with the value read.          *)
EarlyOnOff(on) ==
  LET action   == OnOffAction(on)
      accepted == Accepts(action, mOffEffectArmed)
  IN /\ boot \in EarlyAt
     /\ onOff' = on
     /\ IF accepted /\ boot = "timer" THEN NoTimer(mOffEffectArmed) ELSE ClusterOnOff(action)
     /\ Outcome(accepted /\ CallbacksSet, action, "Light")
     /\ IF StateTaken
          THEN /\ Meet(IF accepted THEN "stopped" ELSE "refused", on)
               /\ late' = (late \/ (accepted /\ ~halted'))
          ELSE UNCHANGED <<parted, late>>
     /\ UNCHANGED work

EarlyEffect ==
  /\ boot \in EarlyEffectAt
  /\ IF boot = "timer" THEN mState \in EffectWhen /\ NoTimer(TRUE) ELSE OnTriggerOffWithEffect
  /\ UNCHANGED <<appVars, late>>

EarlyEvent ==
  /\ \/ TimerEventHandler
     \/ Buttons /\ ButtonEventHandler
     \/ \E action \in Requests : PostLightActionRequest(action)
  /\ UNCHANGED <<appVars, late>>

Early == (\E on \in BOOLEAN : EarlyOnOff(on)) \/ EarlyEffect \/ EarlyEvent

Starting ==
  /\ boot \in BootPoints /\ ~halted
  /\ \/ BootStep /\ UNCHANGED late
     \/ Early /\ UNCHANGED <<boot, value>>

(* The next movement sets the outputs anew. *)
Started ==
  /\ boot = "run"
  /\ SysRunning
  /\ late' = (late /\ (mState' = mState \/ ~InProgress'))
  /\ UNCHANGED <<boot, value>>

StartupNext == Starting \/ Started \/ Restart

StartupSpec == PowerUp /\ [][StartupNext]_bootVars

-----------------------------------------------------------------------------
(* Properties *)

(* The points at which the start copes with an effect. *)
EffectsAfterTimer == "timer" \notin EarlyEffectAt

BootTypeOK ==
  /\ SysTypeOK
  /\ boot \in BootPoints \cup {"run", "failed"}
  /\ value \in BOOLEAN
  /\ late \in BOOLEAN

(* However commands, effects, buttons, failing timers and restarts fall     *)
(* into the start, once it is over LED, strip and attribute are in step     *)
(* with the light, and stay in step as in AppTask.  Two things only can go  *)
(* wrong: a command between the reading of the attribute and the taking of  *)
(* the state is forgotten, and one that moves the light later may leave the *)
(* outputs behind, until the light moves again.                             *)
StartsInStep ==
  boot = "run" =>
    /\ OutputsFollowLight \/ late
    /\ SyncBelongsToMovement
    /\ AttributeFollowsLight

(* The light's timer is not used before it exists: the state of a device    *)
(* that has just powered up refuses every command.                          *)
TimerInTime == ~(boot = "timer" /\ halted)

=============================================================================
