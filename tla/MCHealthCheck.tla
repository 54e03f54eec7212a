---------------------------- MODULE MCHealthCheck ----------------------------
(* HealthCheck with an honest log of one or two entries, for TLC. *)
EXTENDS HealthCheck

CONSTANTS a, b

Leaves == {a, b}
Log1 == <<a>>
Log2 == <<a, b>>
NoHeads == {}

=============================================================================
