------------------------------ MODULE Actuator ------------------------------
(***************************************************************************)
(* What the light promises to its callers, as the comments of the source   *)
(* state it: a movement towards On or Off is initiated only when the       *)
(* previous one is complete, and then runs to completion without changing  *)
(* its direction, unless the device goes down.  Only when it comes up      *)
(* again may it be found anywhere, at rest.                                *)
(***************************************************************************)
VARIABLES
  position,  \* where the actuator is, or where it is moving to
  moving,    \* is a movement under way?
  down       \* has the device stopped?

Init ==
  /\ position \in {"On", "Off"}
  /\ moving = FALSE
  /\ down = FALSE

Initiate(p) ==
  /\ ~moving /\ ~down
  /\ position' = p
  /\ moving' = TRUE
  /\ UNCHANGED down

(* The device may go down on completing a movement, and at any other time. *)
Complete ==
  /\ moving /\ ~down
  /\ moving' = FALSE
  /\ down' \in BOOLEAN
  /\ UNCHANGED position

GoDown ==
  /\ down' = TRUE
  /\ UNCHANGED <<position, moving>>

Restart ==
  /\ down
  /\ position' \in {"On", "Off"}
  /\ moving' = FALSE
  /\ down' = FALSE

Next == (\E p \in {"On", "Off"} : Initiate(p)) \/ Complete \/ GoDown \/ Restart

Spec == Init /\ [][Next]_<<position, moving, down>>

=============================================================================
