----------------------------- MODULE MCLogMonitor -----------------------------
(* LogMonitor on small logs, for TLC. *)
EXTENDS LogMonitor

CONSTANTS a, b, x

Leaves == {a, b, x}

Log2 == <<a, b>>

\* A log that forks: another tree of size 2, and a size without a matching root.
ForkedHeads ==
  {[TreeSize |-> 2, SHA256RootHash |-> <<a, x>>, Timestamp |-> 1],
   [TreeSize |-> 1, SHA256RootHash |-> <<>>, Timestamp |-> 1]}

NoHeads == {}

=============================================================================
