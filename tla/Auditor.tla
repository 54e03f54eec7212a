------------------------------- MODULE Auditor -------------------------------
(***************************************************************************)
(* What monitoring a log promises, without the how: the tree head the      *)
(* monitor trusts is one the log signed, each one extends the one before   *)
(* it, and by the time a tree head is trusted every entry below it (from   *)
(* where monitoring began) has been looked at.  LogMonitor implements it.  *)
(***************************************************************************)
EXTENDS Integers, Sequences, Prefixes

CONSTANTS
  Leaf,    \* leaf hashes
  Signed   \* the trees whose roots the log has signed

VARIABLES
  began,    \* monitoring of this log has begun ...
  first,    \* ... after this many entries
  trusted,  \* the tree of the last trusted tree head
  detected  \* the set of all <<index, leaf>> looked at

avars == <<began, first, trusted, detected>>

AInit ==
  /\ began = FALSE /\ first = 0
  /\ trusted = <<>> /\ detected = {}

\* Monitoring begins with an empty tree or with a tree the log signed.
Begin ==
  /\ ~began /\ began'
  /\ trusted' \in Signed \cup {<<>>}
  /\ first' = Len(trusted')
  /\ UNCHANGED detected

Detect ==
  /\ detected \subseteq detected' /\ detected' \subseteq Nat \X Leaf
  /\ UNCHANGED <<began, first, trusted>>

Trust ==
  /\ began
  /\ trusted' \in Signed
  /\ IsPrefixOf(trusted, trusted')
  /\ \A i \in (first + 1)..Len(trusted') : <<i, trusted'[i]>> \in detected
  /\ UNCHANGED <<began, first, detected>>

ANext == Begin \/ Detect \/ Trust

ASpec == AInit /\ [][ANext]_avars

=============================================================================
