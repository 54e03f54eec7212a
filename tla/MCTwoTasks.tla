----------------------------- MODULE MCTwoTasks -----------------------------
(* TwoTasks on a small honest log, for TLC. *)
EXTENDS TwoTasks

CONSTANTS a, b

Leaves == {a, b}
Log2 == <<a, b>>
NoHeads == {}
=============================================================================
