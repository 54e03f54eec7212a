------------------------------- MODULE Prefixes -------------------------------
(* The prefix order on sequences, in the form the provers handle best. *)
EXTENDS Integers, Sequences

IsPrefixOf(s, t) == Len(s) <= Len(t) /\ \A i \in 1..Len(s) : s[i] = t[i]

=============================================================================
