---------------------------- MODULE MCDevConfig ----------------------------
(* Values of the constants of DevConfig for TLC. *)
EXTENDS DevConfig

CONSTANTS vendor, product, other, none

Others == {other}

=============================================================================
