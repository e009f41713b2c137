----------------------------- MODULE MCAppTask -----------------------------
(* Values of the constants of AppTask for TLC. *)
EXTENDS AppTask

Nowhere  == {}
Anywhere == States

=============================================================================
