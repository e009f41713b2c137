------------------------------- MODULE Strip -------------------------------
(***************************************************************************)
(* What the strip promises: the devices show only what is wanted at the    *)
(* moment they are written, the colours at the set level when the power is *)
(* on and darkness when it is off, and what stays wanted is shown in the   *)
(* end.  Darkness may still be written to a light that has just been       *)
(* switched on.  When a setter disturbs the writing of the devices, what   *)
(* they show is not promised, until they are written undisturbed.          *)
(***************************************************************************)

CONSTANTS
  Devices,
  Pulses(_, _)   \* the pulses of a colour at a level

VARIABLES
  power,     \* is the light switched on?
  level,     \* its level
  colors,    \* the colour of every device
  shown,     \* the pulses every device received last
  disturbed  \* has a setter disturbed the writing of the devices?

Colored(lv) == [d \in Devices |-> Pulses(colors[d], lv)]

wanted == Colored(IF power THEN level ELSE 0)

Set == UNCHANGED shown   \* the switch, the level or the colours change

(* The devices are written. *)
Write(frame) == shown' = frame /\ UNCHANGED <<power, level, colors, disturbed>>

Show == ~disturbed /\ Write(wanted)
ShowDark == Write(Colored(0))
ShowDisturbed == disturbed /\ UNCHANGED <<power, level, colors, disturbed>>

Next == Set \/ Show \/ ShowDark \/ ShowDisturbed

promiseVars == <<power, level, colors, shown, disturbed>>

SafeSpec == [][Next]_promiseVars
Spec == SafeSpec /\ WF_promiseVars(Show)

=============================================================================
