------------------------------ MODULE MCParts -------------------------------
(***************************************************************************)
(* Four parts of the repository that share no state, in one instance: the  *)
(* Merkle trees, the processing of an entry, submitct, and the preparation *)
(* of the state directory.  A behaviour is a behaviour of one of them,     *)
(* while the others keep an initial state.                                 *)
(***************************************************************************)
EXTENDS MCMerkleTree, MCLogEntry, MCSubmitCT, StateDir

VARIABLE part

partVars == <<part, treeVars, entryVars, submitVars, dirVars>>

AnEntry == CHOOSE e \in Issuances : TRUE
AnInput == CHOOSE i \in Inputs : TRUE

PartInit ==
  /\ part \in {"tree", "entry", "submit", "directory"}
  /\ IF part = "entry" THEN TRUE ELSE entry = AnEntry
  /\ IF part = "submit" THEN TRUE ELSE stdin = AnInput
  /\ IF part = "directory" THEN TRUE ELSE version = 3 /\ state = [l \in Log |-> None]
  /\ TreeInit /\ EntryInit /\ SubmitInit /\ DirInit

TreePart == part = "tree" /\ TreeNext /\ UNCHANGED <<part, entryVars, submitVars, dirVars>>
EntryPart == part = "entry" /\ EntryNext /\ UNCHANGED <<part, treeVars, submitVars, dirVars>>
SubmitPart(A) == part = "submit" /\ A /\ UNCHANGED <<part, treeVars, entryVars, dirVars>>
DirPart(A) == part = "directory" /\ A /\ UNCHANGED <<part, treeVars, entryVars, submitVars>>

PartNext == TreePart \/ EntryPart \/ SubmitPart(SubmitNext) \/ DirPart(DirNext)

\* The fairness of SubmitCT and StateDir.
PartSpec ==
  /\ PartInit /\ [][PartNext]_partVars
  /\ WF_partVars(SubmitPart(Running))
  /\ WF_partVars(DirPart(Prepare)) /\ WF_partVars(DirPart(RemoveLock))
=============================================================================
