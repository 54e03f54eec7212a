------------------------------ MODULE MCDaemon ------------------------------
(* Daemon with two logs for TLC. *)
EXTENDS Daemon, TLC

CONSTANTS l1, l2, u

TwoLogs == {l1, l2}

\* Lists that add, drop and swap logs.
SmallLists == {l1 :> u, l2 :> u, (l1 :> u) @@ (l2 :> u)}

=============================================================================
