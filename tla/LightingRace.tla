---------------------------- MODULE LightingRace ----------------------------
(***************************************************************************)
(* The handlers of LightingManager taken apart.  The CHIP task and the     *)
(* application task both run InitiateAction, without a lock; under the     *)
(* preemptive scheduler of the build one may be stopped between any two    *)
(* accesses of the shared state while the other runs.  Here every such     *)
(* access is a step, at the point `at` of its task.  The timer task, the   *)
(* highest of all, runs its handler in one step.                           *)
(*                                                                         *)
(* Automatic turning off, which nothing in this build enables, and errors  *)
(* of the timer service are left to LightingManager.                       *)
(***************************************************************************)
EXTENDS LightingManager

CONSTANTS
  Priority,  \* of each task
  EffectAt   \* the points of the application task at which an effect may be triggered

Tasks  == {"CHIP", "App"}
Points == {"idle", "state", "flag", "cancel", "disarm", "start", "update",
           "LED", "power", "branch", "dark", "effect", "level", "clear", "complete"}

ASSUME RaceAssumption ==
  /\ Priority \in [Tasks -> Nat]
  /\ EffectAt \subseteq Points

VARIABLES
  at,            \* where each task is
  call,          \* what it is doing there: an action, or a value it has read
  sLightLED,     \* is the light LED lit?
  turnedOn,      \* stripController.turnedOn
  currentLevel   \* is stripController.currentLevel above 0?

flagVars   == <<mAutoTurnOff, mAutoTurnOffTimerArmed, halted>>
outputVars == <<sLightLED, turnedOn, currentLevel>>
raceVars   == <<vars, at, call, outputVars>>

(* Where the light is, or where it is moving to. *)
Lit == mState \in {"OnInitiated", "OnCompleted"}

-----------------------------------------------------------------------------
(* AppTask::Init has run; the strip has not yet adopted its level. *)

RaceInit ==
  /\ Init
  /\ at = [t \in Tasks |-> "idle"]
  /\ call = [t \in Tasks |-> "OFF"]
  /\ sLightLED = IsLightOn
  /\ turnedOn = IsLightOn
  /\ currentLevel = FALSE

-----------------------------------------------------------------------------
(* The scheduler: a task runs only while no task above it has work. *)

Busy(t) == at[t] # "idle" \/ (t = "App" /\ queue # <<>>)

AnyOrder(t) == TRUE                    \* mutant: priorities are not observed
MayRun(t) == \A above \in Tasks : Priority[above] > Priority[t] => ~Busy(above)

Goto(t, point) == at' = [at EXCEPT ![t] = point]

Begin(t, point, what) ==
  /\ Goto(t, point)
  /\ call' = [call EXCEPT ![t] = what]

OnOffAction(on) == IF on THEN "ON" ELSE "OFF"

-----------------------------------------------------------------------------
(* InitiateAction, access by access. *)

(* The first halves of its two conditions ... *)
ReadState(t) ==
  /\ at[t] = "state"
  /\ Goto(t, IF call[t] = "ON" THEN IF mState = "OffCompleted" THEN "cancel" ELSE "flag"
                               ELSE IF mState = "OnCompleted" THEN "flag" ELSE "idle")
  /\ UNCHANGED <<vars, call, outputVars>>

(* ... and the second: ON needs the effect armed, OFF needs it not armed. *)
ReadFlag(t) ==
  /\ at[t] = "flag"
  /\ Goto(t, IF mOffEffectArmed <=> call[t] = "ON" THEN "cancel" ELSE "idle")
  /\ UNCHANGED <<vars, call, outputVars>>

CancelTimer(t) ==
  /\ at[t] = "cancel"
  /\ IF mOffEffectArmed /\ call[t] = "ON"
       THEN mLightTimer' = FALSE /\ Goto(t, "disarm")
       ELSE UNCHANGED mLightTimer /\ Goto(t, "start")
  /\ UNCHANGED <<mState, flagVars, mOffEffectArmed, queue, lost, call, outputVars>>

DisarmEffect(t) ==
  /\ at[t] = "disarm"
  /\ mOffEffectArmed' = FALSE
  /\ Goto(t, "start")
  /\ UNCHANGED <<mState, flagVars, mLightTimer, queue, lost, call, outputVars>>

StartLate(t) ==                        \* mutant: the state is updated first
  /\ at[t] = "start"
  /\ mState' = Initiated(call[t])
  /\ Goto(t, "update")
  /\ UNCHANGED <<flagVars, mOffEffectArmed, mLightTimer, queue, lost, call, outputVars>>

StartTimer(t) ==
  /\ at[t] = "start"
  /\ mLightTimer' = TRUE
  /\ Goto(t, "update")
  /\ UNCHANGED <<mState, flagVars, mOffEffectArmed, queue, lost, call, outputVars>>

UpdateState(t) ==
  /\ at[t] = "update"
  /\ mState' = Initiated(call[t])
  /\ Goto(t, "LED")
  /\ UNCHANGED <<flagVars, mOffEffectArmed, mLightTimer, queue, lost, call, outputVars>>

(* The callback ActionInitiated: the LED, and StripController::turnOnOff. *)
SetLED(t) ==
  /\ at[t] = "LED"
  /\ sLightLED' = (call[t] = "ON")
  /\ Goto(t, "power")
  /\ UNCHANGED <<vars, call, turnedOn, currentLevel>>

PowerFromState(t) ==                   \* mutant: the light is read again
  /\ at[t] = "power"
  /\ turnedOn' = IsLightOn
  /\ Goto(t, "branch")
  /\ UNCHANGED <<vars, call, sLightLED, currentLevel>>

(* turnOnOff writes turnedOn, and then looks at it, not at its argument. *)
TurnOnOff(t) ==
  /\ at[t] = "power"
  /\ turnedOn' = (call[t] = "ON")
  /\ Goto(t, "branch")
  /\ UNCHANGED <<vars, call, sLightLED, currentLevel>>

TestPower(t) ==
  /\ at[t] = "branch"
  /\ Goto(t, IF turnedOn THEN "idle" ELSE "dark")
  /\ UNCHANGED <<vars, call, outputVars>>

Darken(t) ==
  /\ at[t] = "dark"
  /\ currentLevel' = FALSE
  /\ Goto(t, "idle")
  /\ UNCHANGED <<vars, call, sLightLED, turnedOn>>

InitiateActionSteps(t) ==
  \/ ReadState(t) \/ ReadFlag(t) \/ CancelTimer(t) \/ DisarmEffect(t) \/ StartTimer(t)
  \/ UpdateState(t) \/ SetLED(t) \/ TurnOnOff(t) \/ TestPower(t) \/ Darken(t)

-----------------------------------------------------------------------------
(* The CHIP task: a command, an effect or a level arrives. *)

CommandOnOff(action) ==
  /\ at["CHIP"] = "idle"
  /\ Begin("CHIP", "state", action)
  /\ UNCHANGED <<vars, outputVars>>

ArmEffect ==
  /\ at["CHIP"] = "idle"
  /\ mState \in EffectWhen
  /\ at["App"] \in EffectAt
  /\ mOffEffectArmed' = TRUE
  /\ Goto("CHIP", "effect")
  /\ UNCHANGED <<mState, flagVars, mLightTimer, queue, lost, call, outputVars>>

StartEffect ==
  /\ at["CHIP"] = "effect"
  /\ mLightTimer' = TRUE
  /\ Goto("CHIP", "idle")
  /\ UNCHANGED <<mState, flagVars, mOffEffectArmed, queue, lost, call, outputVars>>

(* StripController::setLevel: turnedOn is read, then currentLevel written. *)
ReadPower ==
  /\ at["CHIP"] = "idle"
  /\ Begin("CHIP", "level", OnOffAction(turnedOn))
  /\ UNCHANGED <<vars, outputVars>>

SetLevel ==
  /\ at["CHIP"] = "level"
  /\ currentLevel' = (call["CHIP"] = "ON")
  /\ Goto("CHIP", "idle")
  /\ UNCHANGED <<vars, call, sLightLED, turnedOn>>

CHIPStep == InitiateActionSteps("CHIP") \/ StartEffect \/ SetLevel
CHIPCall == (\E action \in Actions : CommandOnOff(action)) \/ ArmEffect \/ ReadPower

-----------------------------------------------------------------------------
(* The application task: it takes an event when it is idle. *)

Take(handler) ==
  /\ at["App"] = "idle"
  /\ Dispatch(handler)
  /\ UNCHANGED <<lightVars, halted, outputVars>>

TakeLightAction ==
  /\ Take("LightAction")
  /\ Begin("App", "state", RequestedAction(Head(queue)))

TakeFunction == Take("Function") /\ UNCHANGED <<at, call>>

TakeOffEffect ==
  /\ Take("OffEffect")
  /\ Goto("App", IF mOffEffectArmed THEN "clear" ELSE "idle")
  /\ UNCHANGED call

ClearEffect ==
  /\ at["App"] = "clear"
  /\ mOffEffectArmed' = FALSE
  /\ Begin("App", "state", "OFF")
  /\ UNCHANGED <<mState, flagVars, mLightTimer, queue, lost, outputVars>>

TakeActuator ==
  /\ Take("Actuator")
  /\ IF InProgress THEN Begin("App", "complete", OnOffAction(mState = "OnInitiated"))
                   ELSE UNCHANGED <<at, call>>

CompleteMovement ==
  /\ at["App"] = "complete"
  /\ mState' = RestState(call["App"] = "ON")
  /\ Goto("App", "idle")
  /\ UNCHANGED <<flagVars, mOffEffectArmed, mLightTimer, queue, lost, call, outputVars>>

AppStep ==
  \/ InitiateActionSteps("App") \/ ClearEffect \/ CompleteMovement
  \/ TakeLightAction \/ TakeFunction \/ TakeOffEffect \/ TakeActuator

-----------------------------------------------------------------------------
TimerTask  == TimerEventHandler /\ UNCHANGED <<at, call, outputVars>>
PostEvents ==
  /\ \/ Buttons /\ ButtonEventHandler
     \/ \E action \in Requests : PostLightActionRequest(action)
  /\ UNCHANGED <<at, call, outputVars>>

CHIPRuns == MayRun("CHIP") /\ CHIPStep
AppRuns  == MayRun("App") /\ AppStep

RaceNext ==
  \/ CHIPRuns
  \/ MayRun("CHIP") /\ CHIPCall
  \/ AppRuns
  \/ TimerTask
  \/ PostEvents

SafeRaceSpec == RaceInit /\ [][RaceNext]_raceVars

(* No task is starved: the tasks above it sleep again and again. *)
RaceSpec ==
  /\ SafeRaceSpec
  /\ SF_raceVars(CHIPRuns)
  /\ SF_raceVars(AppRuns)
  /\ WF_raceVars(TimerTask)

-----------------------------------------------------------------------------
(* Properties *)

RaceTypeOK ==
  /\ TypeOK
  /\ at \in [Tasks -> Points]
  /\ call \in [Tasks -> Actions]
  /\ sLightLED \in BOOLEAN
  /\ turnedOn \in BOOLEAN
  /\ currentLevel \in BOOLEAN

(* The schedule under which the two tasks may share the light without a     *)
(* lock: a handler of the CHIP task is not preempted by the application     *)
(* task, and an effect is triggered only while the latter is between two    *)
(* events and the light at rest.                                            *)
Schedule ==
  /\ Priority["CHIP"] > Priority["App"]
  /\ EffectAt \subseteq {"idle"}
  /\ EffectWhen \subseteq AtRest

(* However the steps of the two tasks and the timer interleave, a movement  *)
(* in progress will be completed: the completion is being written, queued,  *)
(* or the timer runs, with no flag that would give its expiry to another    *)
(* handler.                                                                 *)
MovementBackedInStep ==
  InProgress /\ ~lost =>
    \/ mLightTimer /\ ~mOffEffectArmed
    \/ Pending("Actuator")
    \/ at["App"] = "complete"

(* Two callbacks at once never leave LED or strip on the wrong side: once   *)
(* both tasks are past their callbacks, the outputs show the light, and a   *)
(* light that is off has level 0 (turnOnOff against setLevel).              *)
OutputsSettle ==
  /\ at["CHIP"] \notin {"LED", "power"} /\ at["App"] \notin {"LED", "power"}
       => sLightLED = Lit /\ turnedOn = Lit
  /\ at["CHIP"] \notin {"branch", "dark", "level"} /\ at["App"] \notin {"branch", "dark"} /\ ~turnedOn
       => ~currentLevel

(* What the three above rest on: between the acceptance of an action and    *)
(* the end of its callbacks no effect is armed, so that nobody else is      *)
(* accepted and the expiry keeps its handler; while the application task is *)
(* in its callbacks or in a completion, the CHIP task is refused.           *)
DisarmedInStep ==
  /\ ~mAutoTurnOffTimerArmed
  /\ mOffEffectArmed => mState \in AtRest
  /\ \A t \in Tasks :
       /\ at[t] \in {"start", "update", "LED", "power", "branch", "complete"} => ~mOffEffectArmed
       /\ at[t] = "cancel" /\ call[t] = "OFF" => ~mOffEffectArmed
       /\ at[t] = "update" => lost \/ mLightTimer \/ Pending("Actuator")

CallsInStep ==
  /\ \A t \in Tasks :
       /\ at[t] \in {"LED", "power", "branch", "complete"} => mState = Initiated(call[t])
       /\ at[t] \in {"power", "branch"} => sLightLED = (call[t] = "ON")
       /\ at[t] = "branch" => turnedOn = (call[t] = "ON")
  /\ at["App"] \in {"LED", "power", "branch", "complete"}
       => at["CHIP"] \notin {"cancel", "disarm", "start", "update", "LED", "power", "branch"}
  /\ at["CHIP"] = "flag" /\ call["CHIP"] = "OFF" => mState = "OnCompleted"
  /\ at["CHIP"] = "level" => (call["CHIP"] = "ON") = turnedOn

RaceInv == DisarmedInStep /\ MovementBackedInStep /\ CallsInStep /\ OutputsSettle

(* Without effects an action under way is one the state it read allows,     *)
(* or one the other task has initiated since.                               *)
AcceptedInStep ==
  \A t \in Tasks :
    /\ at[t] \in {"cancel", "disarm", "start", "update"} =>
         mState \in {IF call[t] = "ON" THEN "OffCompleted" ELSE "OnCompleted", Initiated(call[t])}
    /\ at[t] = "flag" /\ call[t] = "OFF" => mState \in {"OnCompleted", "OffInitiated"}

(* Without effects the light still implements the actuator when its         *)
(* handlers interleave.                                                     *)
RacePromise == INSTANCE Actuator WITH
  position <- IF Lit THEN "On" ELSE "Off",
  moving   <- InProgress,
  down     <- halted
RaceImplementsActuator == RacePromise!Spec

(* Every movement completes, though two tasks start and restart the timer.  *)
RaceCompletes == InProgress ~> (mState \in AtRest \/ lost)

=============================================================================
