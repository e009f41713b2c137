# A verification project for strip_controller

The program is the firmware of a Matter light on a Silicon Labs EFR32: a light
switched by on/off commands over Thread (and by push buttons where they are
fitted), shown by an LED and by a strip of eight WS2812 devices behind an SPI
line. This directory holds TLA+ modules translated from its source, the TLC
configurations that check them, and proofs for TLAPS.

Contents: [the system](#the-system), [hard behaviours](#what-is-hard-here),
[the modules](#the-modules), [the runs](#the-runs), [fairness](#fairness),
[the proofs](#the-proofs), [what the checks show](#what-the-checks-show),
[what is not modelled](#what-is-not-modelled), [the plan](#the-plan).

## The system

The application's own code is `src/*.cpp` and `include/*.h`, about 1500 lines;
`autogen/` and `config/` are generated. The Matter stack, FreeRTOS and the
Gecko SDK are libraries outside the repository. There are no tests.

| component | state it keeps | operations | called by |
|---|---|---|---|
| Lighting manager (`LightingManager.cpp`) | `mState` (on/off, initiated/completed), the flags `mAutoTurnOff`, `mAutoTurnOffTimerArmed`, `mOffEffectArmed`, **one** one-shot timer | `InitiateAction`, `OnTriggerOffWithEffect`, `EnableAutoTurnOff`, `TimerEventHandler` and three timer event handlers | CHIP task, application task, timer task |
| Application task (`AppTask.cpp`) | the event queue, `mSyncClusterToButtonAction`, the LED | event loop, button and request posting, the callbacks `ActionInitiated` / `ActionCompleted`, `UpdateClusterState` | its own loop, the light, the CHIP task |
| Cluster callbacks (`ZclCallbacks.cpp`) | none; the attributes are the server's | `MatterPostAttributeChangeCallback` | CHIP task |
| Strip controller (`StripController.cpp`) | on/off, current and on level, colour, RGB buffer, `transmitRequest`, pulse buffer | the setters; the strip task's loop `verifyLevel` / `dataTransmit` / clear / `osDelay` | setters from the CHIP and the application task |
| Pulse coding, colour conversion (same file) | none | `byteToPulses`, `RGBToPulses`, `convertHStoRGB`, the formula of `setColorTemperature` | the strip controller |
| Device configuration (`DevConfig.cpp`) | two names in non-volatile memory | `VerifyAndConfigure` | nobody in the repository |
| Startup (`main.cpp`, `AppTask::Init`) | | initialisation order | |

How they interact:

* An on/off command changes the OnOff attribute; the server then calls
  `MatterPostAttributeChangeCallback`, which calls `InitiateAction` directly, in
  the CHIP task.
* A button press or a request is posted to the application's event queue and
  handled in the application task, which calls the same `InitiateAction`.
* `InitiateAction` starts the timer for a movement of 10 ms. The timer task
  chooses, from the flags, one of three handlers and posts it to the event queue.
* The light calls back into the application, which sets the LED and switches the
  strip, and, after a button action, schedules `UpdateClusterState` in the CHIP
  task, which writes the attribute and so re-enters the light.
* Level and colour attributes go straight to the strip's setters. The strip task
  has the lowest priority of these, polls every 40 ms, and shares its state with
  the setters without a lock.

What makes each correct: a movement always ends and is not redirected; one timer
serves all its users; LED and strip follow the light; the attribute follows the
light, except where it provably cannot; the strip shows what was asked for, in
whole frames, in the end; the codings are exact to within rounding.

## What is hard here

`PROJECT.json` lists every hazard with its line. In short:

1. **One timer, three uses, and a delay between expiry and handler.** The
   handler is chosen by the flags at the expiry and runs after whatever is
   already in the queue.
2. **The off effect.** `mOffEffectArmed` opens `InitiateAction` for ON in any
   state and closes it for OFF.
3. **The way back from the light to the attribute** goes through a flag, a
   completion, a work item and a write that re-enters the light; each may be
   dropped, and each reads state that may have moved on.
4. **The strip task's unlocked loop**, above all the clearing of
   `transmitRequest` after the transmission and the check-then-write of
   `verifyLevel`.
5. **Two tasks inside `InitiateAction`, or inside two setters, at once**, with the
   timer above both.
6. **The start**: commands, effects and buttons may arrive before the timer, the
   state or the callbacks are there.
7. **Arithmetic in narrow types**, of colours and of timer lengths.
8. **Two names in one buffer**, read and written with failures and restarts in between.

## The modules

| module | models | granularity |
|---|---|---|
| `LightingManager` | the light, its timer, the event queue | one action per handler |
| `Actuator` | what the light promises (abstract) | |
| `LightingRace` | the light's handlers in two tasks, with LED and switch; EXTENDS `LightingManager` | one action per access of shared state |
| `AppTask` | the application around the light; EXTENDS `LightingManager` | one action per handler, each conjoining the light's handler with the application's callbacks |
| `Startup` | power-up and `AppTask::Init`, then the application; EXTENDS `AppTask` | one action per step of the start |
| `ColorConversion`, `PulseCoding`, `Durations` | pure functions | |
| `StripController` | settings, setters, the strip task; EXTENDS the first two above | a setter is one step; each access of the strip task to shared state is a step |
| `Strip` | what the strip promises (abstract) | |
| `Lamp` | `AppTask` and `StripController` together | as in the two |
| `DevConfig` | the two names in non-volatile memory | one action per read and compare, and per write |
| `MC*` | values of the constants for TLC | |
| `*_proofs` | theorems and proofs, one module per component; `Colors_proofs` is about the pure functions | |

**LightingManager.** The variables carry the names of the members; `queue` is
the event queue and `mLightTimer` says whether the one-shot timer runs (time is
abstracted: a running timer may expire at any moment, so every order of an expiry
and any other event is explored). An event is a record of type, handler and
action. `InitiateAction` is an operator whose parameters are the two flags,
because two of its callers clear a flag just before the call. `appError`, which does
not return, stops the device (`halted`) in the middle of the handler that called it: what
the handler did before `StartTimer` or `CancelTimer` is done, a flag it has set or cleared
included, and what follows is left out. `PowerLoss` stops it between handlers, and only a
stopped device comes up again (`PowerCycle`). `TimerFaults` covers the effect of unknown
variant, whose 0 ticks the timer service refuses. `lost` is a history variable recording
that `PostEvent` dropped a timer event. Constants say what the environment does: when
effects arrive (`EffectWhen`), whether automatic turning off is enabled, whether
buttons, requests, timer errors and losses of power occur. Buttons and the auto turn-off
switches have no caller in this build; they are the component's interface and are
modelled as such.

**LightingRace.** `at[t]` is the program counter of the CHIP or the application
task inside a handler, `call[t]` the action or the value it holds. `Priority` and
`MayRun` are the preemptive scheduler: a task runs while no task above it has
work; the timer task, above both, runs its handler in one step. Priorities are a
constant because they are set in library code. Taking an event is one step with the first
test of its handler, and `CancelTimer` one with the test of the effect before it.
Automatic turning off and timer errors are left to `LightingManager`.

**AppTask.** `onOff` is the server's attribute and survives a restart. The server
is external; what is used of it is that a write calls back, and that a write of
the same value need not. An `OffWithEffect` command is the effect trigger,
followed or not, at any time, by an attribute change: the server does both, and
the model leaves their distance open. `parted` is a history variable: the reasons
for which the attribute and the light have come apart since they last met (a command the
light obeys, or a write-back of its state, brings them together and empties it).

**Startup.** `boot` is what `Init` is about to do, `value` the local it holds.
Memory is zero at power-up, so the light's state is the first of its enumeration,
`OffInitiated`. `EarlyAt` and `EarlyEffectAt` say at which steps a command or an
effect may arrive; timer, buttons and requests may run at any. Two history marks record
what a command in the wrong place does: `"forgotten"` in `parted` that the state `Init`
takes is not the attribute's any more, `late` that a command moved the light after it took
its state, while `Init` had still to set callbacks, LED and strip.

**StripController.** `at` is the strip task's program counter: `verify` and `compare` (the
two tests of `verifyLevel`), `adopt` and `request` (its two assignments), `test` (of
`transmitRequest`), `encode` (one device per step; its colour and the level are read
together), `send`, `clear`, `delay` (asleep). A setter may run at every one of them. Two
history variables record what it can disturb: `overtaken`, that the colours or the level
in force changed after the coding of a frame had begun and before its request was cleared,
until the next frame begins; `undone`, that the light was switched off inside
`verifyLevel`, which then assigns the level all the same, until the switch is used again. The SPI transfer is one
step: 72 bytes at 2.5 Mbit/s take a fraction of the loop period of 40 ms. The
colour temperature formula is in floats in the code; the scaled-integer form here
gives the same hue and saturation for every 16-bit argument (compared outside TLC,
by evaluating both for all of them in single precision).

**Lamp.** The two parts share `turnedOn`. A step of the application that changes it
is at the same time a call of the strip's `turnOnOff`; level and colour commands and
the strip task's steps leave the application alone. A stopped device runs neither.

**Durations.** A 32-bit number is the pair of its halves, so that the products of
seconds, milliseconds and the tick rate wrap where they do in the code.

**DevConfig.** `strBuf` stands for the buffer with its length; at the entry of a call
it holds whatever the stack holds. `err` keeps the results of the call's reads,
`unwritten` the keys whose write failed (the code drops that result). The class
has no caller in the repository; a device is taken to call it when it starts, so only a
`Restart` repeats the call.

## The runs

| run | question | bounds |
|---|---|---|
| `light_effects` | can a movement or an effect be left without its expiry, does an effect turn the light off, and does the light implement `Actuator`? | queue of 3; effects at rest; buttons, requests, timer errors in any handler, losses of power (10 399 states) |
| `light_autooff` | is a light turned off by its own countdown and by no other, and does its expiry find room in the queue? | queue of 3; no effects; countdown switched on and off at will; buttons, timer errors, losses of power (1 576 states) |
| `light_race` | do movements complete, and do the outputs settle, when two tasks and the timer interleave? | queue of 2; CHIP task above the application task; effects at rest and between events (130 515 states) |
| `app_full` | does the start bring LED, strip and attribute in step, and do they stay so, whatever happens? | queue of 2, two work items; everything, in any state; during the start, commands at every step and effects at every step after the timer exists (1.8 million states) |
| `lamp` | do the devices end up showing what the attribute says, and show it whenever the lamp is idle? | queue of 2, one work item; commands at rest; one device, one level besides the start level; setters and switch at any point of the strip task (85 277 states) |
| `strip_unlocked` | does the strip implement `Strip`, whatever the setters interrupt? | 2 devices; the switch; levels 0, 254 and the start level; a hue, a saturation and a temperature that sets both; setters at any point (15 716 states) |
| `color_coding` | are pulses, gamma correction, colours and timer lengths right? | every byte at every level, every hue and saturation, every effect and variant; temperatures up to 1023 mireds; countdowns around 0, 2^16 and 2^19 s |
| `devconfig` | does a right name stay right, and when may a call return with a wrong one? | one foreign name; any read, any write may fail, a restart anywhere (546 states) |
| `effect_wedges_movement` | does every movement complete? **violated** | effects while turning on |
| `race_redirects` | is an action initiated only when the previous one is complete? **violated** | as `light_race` |
| `command_refused` | is the quiet light what the attribute says? **violated** | commands at any time |
| `strip_change_lost` | does what is set reach all devices? **violated** | 2 devices; the switch, a hue and a saturation, at any point |

Why the bounds are enough. A queue of 3 holds a stale event, a fresh one and a
button between them, and overflows, as one of 2 does; the light itself has finitely
many states, and its invariants are proved for every length. Two devices tell a torn
frame from a whole one, and the strip's invariants are proved for every number; in
`lamp` a torn frame is not in question, only one that is out of date, so one device does.
The levels include 0, the start level and another; values of colour matter only through the pure
functions, which are checked, and proved, for every argument. `DevConfig` compares names only
for equality, so one name that is neither is enough, and its proofs hold for any.

The properties that are conjunctions: `StartsInStep` contains the application's
`OutputsFollowLight`, `SyncBelongsToMovement` and `AttributeFollowsLight`,
`BootTypeOK` the type invariants of `AppTask` and `LightingManager`, so that
`app_full` checks them in every state the application can reach.

## Fairness

* `TimerEventHandler`, `TimerTask` (weak): a started one-shot timer of a running
  RTOS expires.
* The application task's dispatch (weak): it waits on its queue and its loop has
  no other exit.
* `UpdateClusterState` (weak): the CHIP task runs the work it was given.
* `CHIPRuns`, `AppRuns` (strong, in `light_race`): a task that is preempted gets
  the processor back; the tasks above it sleep again and again.
* The strip task (weak): it is the lowest of these, but the tasks above it block
  on their queues.
* Nothing is assumed of commands, buttons, effects, requests, setters, faults,
  losses of power or restarts, nor of `VerifyAndConfigure`, which nobody in the repository
  calls. Fairness ends when `appError` or a loss of power has stopped the device.

Liveness of the light is stated up to `lost` and `halted`; `SettlesAsReported`
also up to `parted` and to what a setter has disturbed (`Disturbed`), and only for a user
who stops: one who keeps pressing a button can keep the strip from showing either state.

## The proofs

`tlapm` checks every step. The theorems hold for every value of the constants
that satisfies the named assumptions of the modules.

**Light** (`LightingManager_proofs`). `TypeCorrect` needs nothing. The rest assumes
`Discipline`: effects are triggered only while no movement is under way, and a
device that uses effects does not use automatic turning off. The code does not
enforce it; two of the violated runs show what happens without its first half, so the
discipline is what a caller must keep, not a description of this one. Under it,
`MovementBacked` and `EffectBacked` need `LightInv`: besides the two, that the use
ruled out never shows (`OneUse`) and that a flag is armed only at rest
(`ArmedAtRest`), since otherwise a step could hand a movement's expiry to another
handler. `AutoTurnOffBacked` needs `AutoInv`, whose core is `OneExpiry`: an actuator
event is in the queue at most once, behind any automatic turn-off event, and only
with the timer stopped; without it, a step that arms the countdown could find an
old event of the same kind in the queue. `LightImplementsActuator` maps each step
to `Initiate`, `Complete`, `GoDown`, `Restart` or a stutter, using `ArmedAtRest`. `Restart`
of `Actuator` needs a device that is down, so a step that merely ends at rest is a step of
the promise only if it completes the movement in its own direction.

`MovementsWait` adds that under the discipline an
action is initiated only at rest (`OnlyWhenComplete`), the comment of `InitiateAction` that
`race_redirects` shows violated: it takes an effect during a movement, or two tasks, to break.

Timer errors are not excluded. A handler that stops the device has changed a flag and not
yet the state, so what holds of flag and timer together is claimed of a device that has
not stopped: an armed effect has its timer or its event (`EffectBacked`), and a countdown
that could not be cancelled may run on with its flag cleared (`OneExpiry`).

`ExpiriesInOrder` and `TimerLeavesRoom` rest on the same invariant, for devices without
effects: the first is `OneExpiry` as above, the second adds that an automatic turn-off event
is queued at most once (`RoomInv`). `EffectsTurnLight` needs no assumption: the event that
ends an armed effect turns the light off if it is on, and nothing else disarms an effect but
a new ON, unless the device stops on the way.

**Light in two tasks** (`LightingRace_proofs`). `Schedule` is the assumption: the
CHIP task above the application task, effects at rest and between two events of
the application task. `RaceInv` adds to the two checked invariants what holds between
an acceptance and the end of its callbacks: no effect is armed (`DisarmedInStep`),
and while the application task is in its callbacks the CHIP task is in none
(`CallsInStep`). With no effects at all, `AcceptedInStep` says that an action under
way is still one its state allows, and `RaceKeepsPromise` maps the interleaved steps to
the abstract actuator; `RaceMovementsWait` says `OnlyWhenComplete` of them, so the run that
violates it does so by its effects and not by the two tasks alone. With the application
task above the CHIP task `MovementBackedInStep` fails.

**Application** (`AppTask_proofs`). No assumption on the environment: the
invariant is the conjunction of the checked ones with type correctness.
`ApplicationImplementsLight` shows that every step is a step of the light or leaves
it alone, so the light's theorems hold in the application; `WriteBackMovesNothing`
uses one of them, and assumes no effects. `AttributeCorrect` includes the device that
stops under a command: the attribute has changed by then, the light has not, and the command
is recorded as `"stopped"`.

`PartingHasSource` says of each of the five ways in which attribute and light part what it
takes (`PartedHasSource`). Its invariant `SourceInv` adds two things: that without requests
every light action in the queue is a button's (`QueuedByButton`), so that it is synchronised,
and that without buttons and requests nothing is left to be written back, so that no write
can be stale or fail. `OneUse` of the light makes the step to the timer: without effects and
countdowns an expiry only ends a movement.

**Start** (`Startup_proofs`). `StartCorrect` and `BootTypeCorrect` assume nothing: commands,
effects and everything else may arrive at any step. `TimerBeforeUse` assumes
`EffectsAfterTimer` (no effect before the timer is created): commands cannot use the timer
before it exists, because the light that has just powered up refuses them. `BootInv` says what
each step of the start has established: once the state is taken, attribute and light are
equal or their parting is recorded; once LED and strip are set they show the light, or a
command came late; after the last step the application's invariant holds, which its own
lemmas then preserve, but for the outputs a late command left behind.

**Strip** (`StripController_proofs`). No assumption on the setters: they run at any point of
the strip task. `SettingsTypeCorrect`: colours and levels are bytes through all conversions.
`StripInv` is inductive: the level follows the switch unless a switch-off was undone inside
`verifyLevel` (`LevelFollowsPower`, with `SwitchSeen` for the points inside it); with no
request and no level to adopt the devices show the settings, unless they were overtaken
(`NothingMissed`); and what has been coded so far is what is set, unless overtaken
(`CodedSoFar`). `LevelCorrect`, `NothingGoesMissing` and `CodingCorrect` are its parts, and
`StripKeepsPromise` maps `send` to the promise's `Show`, to `ShowDark` when the light has just
been switched on with its level still 0, or to `ShowDisturbed`, and everything else to `Set`.

**Lamp** (`Lamp_proofs`). The lamp implements the application and the strip, so the
invariants of both hold in it, and under `Discipline` it implements the abstract actuator
(`LampImplementsActuator`). `LampShowsLight` puts `OutputsFollowLight`, `NothingMissed` and
`LevelFollowsPower` together, for setters and switch at any point. `IdleLampCorrect` goes from one end of the lamp to the other with
four invariants and no induction of its own: an empty queue and a stopped timer leave no
movement (`MovementBacked`), hence no pending synchronisation (`SyncBelongsToMovement`), hence
the attribute is the light (`AttributeFollowsLight`), the switch is the light and the devices
are the switch (`ShowsLight`).

**Pure functions** (`Colors_proofs`). Each property of `color_coding` is a theorem, and two
go beyond what TLC can enumerate: `TemperatureOfAnyMireds` for every number of mireds and
`CountdownOfAnyLength` for every 32-bit number of seconds (exact up to 4194, too short beyond, 0 ticks
just for the multiples of 2^19). The recursive functions `byteToPulses` and `Decoded` have a
small fixed domain, so no induction is needed: the proof exhibits the function their
definitions ask for, which makes the recursion an equation, and unfolds that equation to the
last argument. A byte is the sum of its eight bits (`BitsOfByte`), a pulse byte the
sum of its own, and the device's reading undoes them one at a time. The gamma correction never reaches the
casts to a byte (`GammaUncut`), nor does the mixture of a sector (`ComponentUncut`,
`InSector`). The products of halves are the 32-bit products (`TimesCutsTo32Bits`), and the
long division by halves the quotient (`OverDivides`).

**DevConfig** (`DevConfig_proofs`). `ConfigInv` says what the results so far imply for the
store and the buffer at each point of a call; both theorems need nothing else.

Only model-checked: all liveness (`MovementCompletes`, `EffectEnds`,
`AutoTurnOffHappens`, `RaceCompletes`, `ButtonReachesCluster`, `SettlesAsReported`,
`LightsUp`, the fairness half of `ImplementsStrip`), which is out of the
prover's reach. Every invariant of a passing run, and every property of a step, is a theorem or a conjunct
of one.

## What the checks show

What holds: in every behaviour the LED and the strip's switch follow the light, a
write-back belongs to the movement that caused it, and the attribute and the light
part in five ways and no other: a refused command, a command whose timer fails and stops
the device, a movement made by a timer or a request, a write-back that ran during a
movement, a failed write. The start adds a sixth, a command between the reading of the
attribute and the taking of the state, and one way in which LED and strip are left behind
until the light moves again: a command after that. The CHIP task may preempt the application
task anywhere inside `InitiateAction`: LED and strip still settle on the light's side and the
movement completes. The strip loses a change only when it overtakes a frame already begun, and
keeps a level after a switch-off only when that came inside `verifyLevel`; a switch-on survives
every interleaving (`LightsUp`), which is what `verifyLevel` achieves. A lamp left alone shows
what its attribute says.

What does not (the findings of `PROJECT.json`, each with its run): an off effect
during a movement takes its timer and wedges the light. An OFF preempted between its two
tests redirects a movement. A command during a movement is lost to the light and not to
the attribute. In the strip, a colour set while a frame is under way, before the clearing of
`transmitRequest`, is lost.

Relatives of these need only another value of a constant.

* A write-back during a movement overwrites a command that is being carried out
  (`command_refused` with buttons, and commands at rest only).
* An effect on a light whose automatic turning off is armed leaves it on
  (`light_autooff` with `EffectWhen` containing `OnCompleted`).
* An ON while the light is turning off and an effect is armed starts a movement before the
  previous one is complete, in one task alone (`OnlyWhenComplete` under the constants of
  `effect_wedges_movement`, with `EffectWhen` containing `OffInitiated`).
* Effects triggered again and again fill the queue with their expiries (`RoomForExpiry`
  under the constants of `light_effects`).
* A switch-off inside `verifyLevel`, or between transmission and clearing, leaves the strip
  lit: the cases `undone` and `overtaken` record (`strip_unlocked` with either excuse taken out
  of the property).
* A command between the reading of the attribute and the taking of the state is forgotten, one
  between that and the end of `Init` may leave LED or strip behind: the cases `"forgotten"`
  and `late` record. An effect before the timer is created stops the device
  (`TimerInTime` in `app_full` with `EarlyEffectAt` containing `timer`).
* A countdown of more than 4194 s ends early, and an effect with an unknown variant stops
  the device: `CountdownLasts` and `EffectsTimed` state exactly which.

## What is not modelled

* **The generated code.** Of the repository's 165000 lines, 160000 are what the ZAP tool
  generates for every cluster of Matter (`autogen/zap-generated`): typed accessors,
  attribute identifiers, enumerations, encoders of structures this application never
  sends. They have no state and no control of their own, one function differs from the next
  by a name and a type, and the program calls a handful of them. A model of one accessor
  would be faithful to its ten lines and no others, so the share of the lines these modules
  map stays below one per cent; of the application's own 1500 lines they map almost
  every one that is not a comment, a declaration, a log or the display.
* The display and logs: output only. The status LED and the function button's
  work belong to the library's `BaseApplication`.
* The OnOff, level and colour servers, the network, commissioning: library code. The
  attribute changes they make are the environment's actions.
* The order of the drivers' and the kernel's initialisation (`main.cpp`,
  `sl_event_handler.c`): straight-line calls into libraries.
* A refused or slow SPI transfer: its result is dropped and nothing reacts to it.
* Time itself: a running timer may expire at any moment. What it is started with is
  checked in `Durations`, how long 10 ms are next to a task's work is not.
* Two colour setters interleaved (both run in the CHIP task, one after the other), and
  automatic turning off in two tasks.

## The plan

Done: everything above, in this order: the light, the application, the pure functions,
the strip, their invariants and refinements; then the light in two tasks, the start,
the lamp as a whole, `DevConfig`, the lengths of the timer, and their theorems.

Then the proofs: the start and the strip without assumptions on when commands and setters
come, the sources of a parted attribute, the idle lamp, and the pure functions.

Worth doing next:

1. Automatic turning off in `LightingRace`, should a build enable it.
2. The devices as an implementation of one abstract lamp, whose safety would be
   `LampImplementsActuator` with `IdleLampCorrect`.
3. The light in two tasks with effects anywhere: which of the outputs still settle.
