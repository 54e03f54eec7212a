----------------------------- MODULE MerkleTree -----------------------------
(***************************************************************************)
(* The Merkle trees of package merkletree: CollapsedTree keeps the roots   *)
(* of the perfect subtrees of a range of leaves, FragmentedCollapsedTree a *)
(* sorted sequence of such ranges.  The operations are compared with the   *)
(* tree hash of RFC 6962, written down as a definition of its own, and the *)
(* set of leaves the callers have put in.                                  *)
(*                                                                         *)
(* SHA-256 is taken to be injective: a leaf hash is <<data>> and an inner  *)
(* hash the prefix notation <<Inner>> \o left \o right.  Every call gets a *)
(* tree of its own; the sharing of Go slices by copies of a CollapsedTree  *)
(* is left out.                                                            *)
(***************************************************************************)
EXTENDS Integers, FiniteSets, Sequences, SequencesExt

CONSTANTS
  Width,        \* bits of the unsigned integers, 64 in the code
  NumLeaves,    \* bound: positions are 0..NumLeaves-1
  MaxOther,     \* bound: leaves in the tree that is merged
  Data          \* Data[p] is the content of the leaf at position p

ASSUME MerkleTreeAssumption ==
  NumLeaves \in 1..(2^Width - 1) /\ Data \in [0..NumLeaves-1 -> Nat]

VARIABLES
  tree,         \* FragmentedCollapsedTree.subtrees
  other,        \* a second one, the argument of Merge
  leaves,       \* positions that the callers have put into tree
  otherLeaves,  \* positions that the callers have put into other
  err           \* the last call on tree returned an error

treeVars == <<tree, other, leaves, otherLeaves, err>>

Positions == 0..NumLeaves-1

Uint(n) == n % 2^Width

-----------------------------------------------------------------------------
(* CollapsedTree. *)

Inner == -1

HashNothing == <<>>

HashLeaf(data) == <<data>>

HashChildren(left, right) == <<Inner>> \o left \o right

calculateNumNodes[size \in 0..2^Width-1] ==
  IF size = 0 THEN 0 ELSE (size % 2) + calculateNumNodes[size \div 2]

\* 1 << bits.TrailingZeros64(n), for n > 0
LowestBit[n \in 1..2^Width-1] == IF (n % 2) = 1 THEN 1 ELSE 2 * LowestBit[n \div 2]

\* The last nodes are combined from the right, as CalculateRoot does.
CalculateRoot(nodes) ==
  IF nodes = <<>> THEN HashNothing ELSE FoldRight(HashChildren, Front(nodes), Last(nodes))

collapse(t) ==
  LET k == calculateNumNodes[t.size] IN
  IF Len(t.nodes) <= k THEN t
  ELSE [t EXCEPT !.nodes = SubSeq(t.nodes, 1, k - 1)
                             \o <<CalculateRoot(SubSeq(t.nodes, k, Len(t.nodes)))>>]

FitsOffset(offset, size) == offset > 0 => size <= LowestBit[offset]

Init_(offset, nodes, size) == [offset |-> offset, nodes |-> nodes, size |-> size]

InitSubtreeOK(offset, nodes, size) ==
  FitsOffset(offset, size) /\ Len(nodes) = calculateNumNodes[size]

AddOK(t) == FitsOffset(t.offset, Uint(t.size + 1))

Add(t, hash) ==
  collapse([t EXCEPT !.nodes = Append(t.nodes, hash), !.size = Uint(t.size + 1)])

AppendOK(t, o) ==
  /\ Uint(t.offset + t.size) = o.offset
  /\ FitsOffset(t.offset, Uint(t.size + o.size))
  /\ t.size > 0 => o.size <= LowestBit[t.size]

AppendTree(t, o) ==
  collapse([t EXCEPT !.nodes = t.nodes \o o.nodes, !.size = Uint(t.size + o.size)])

-----------------------------------------------------------------------------
(* FragmentedCollapsedTree. *)

EndOf(t) == Uint(t.offset + t.size)

\* The subtree before index i absorbs those that follow, up to the first it cannot.
Absorb(ts, i) ==
  LET step(acc, t) == IF acc.rest = <<>> /\ AppendOK(acc.left, t)
                      THEN [acc EXCEPT !.left = AppendTree(acc.left, t)]
                      ELSE [acc EXCEPT !.rest = Append(acc.rest, t)]
      end == FoldLeft(step, [left |-> ts[i-1], rest |-> <<>>], SubSeq(ts, i, Len(ts)))
  IN SubSeq(ts, 1, i - 2) \o <<end.left>> \o end.rest

\* The index of the first subtree that starts after offset.
InsertionPoint(ts, offset) == 1 + Cardinality({k \in DOMAIN ts : ts[k].offset <= offset})

Overlaps(ts, t) ==
  LET i == InsertionPoint(ts, t.offset) IN
  \/ i > 1 /\ EndOf(ts[i-1]) > t.offset
  \/ i <= Len(ts) /\ EndOf(t) > ts[i].offset

AddSubtree(ts, t) ==
  LET i == InsertionPoint(ts, t.offset) IN
  IF t.size = 0 \/ Overlaps(ts, t) THEN ts
  ELSE IF i > 1 /\ AppendOK(ts[i-1], t)
       THEN Absorb(ReplaceAt(ts, i - 1, AppendTree(ts[i-1], t)), i)
       ELSE Absorb(InsertAt(ts, i, t), i + 1)

AddSubtreeOK(ts, t) == t.size = 0 \/ ~Overlaps(ts, t)

LeafTree(p) == [offset |-> p, nodes |-> <<HashLeaf(Data[p])>>, size |-> 1]

\* Mutant: Merge skips a subtree that overlaps and goes on.
Mut_MergeStepsSkip(ts, os) ==
  FoldLeft(LAMBDA acc, t : IF AddSubtreeOK(acc.ts, t)
                           THEN [ok |-> TRUE, ts |-> AddSubtree(acc.ts, t)]
                           ELSE [acc EXCEPT !.ok = FALSE],
           [ok |-> TRUE, ts |-> ts], os)

\* Mutant: Merge stops at a subtree that overlaps, and the error is lost.
Mut_MergeStepsSilent(ts, os) ==
  LET r == FoldLeft(LAMBDA acc, t : IF acc.ok /\ AddSubtreeOK(acc.ts, t)
                                    THEN [acc EXCEPT !.ts = AddSubtree(acc.ts, t)]
                                    ELSE [acc EXCEPT !.ok = FALSE],
                    [ok |-> TRUE, ts |-> ts], os)
  IN [r EXCEPT !.ok = TRUE]

\* Merge stops at the first subtree that overlaps.
MergeSteps(ts, os) ==
  FoldLeft(LAMBDA acc, t : IF acc.ok /\ AddSubtreeOK(acc.ts, t)
                           THEN [ok |-> TRUE, ts |-> AddSubtree(acc.ts, t)]
                           ELSE [acc EXCEPT !.ok = FALSE],
           [ok |-> TRUE, ts |-> ts], os)

\* Mutant: the end of the subtree before is taken to be its offset.
Mut_GapsFromOffset(ts) ==
  LET prevEnd(i) == IF i = 1 THEN 0 ELSE ts[i-1].offset
      before(i)  == IF i <= Len(ts) /\ prevEnd(i) = ts[i].offset THEN <<>>
                    ELSE <<<<prevEnd(i), IF i <= Len(ts) THEN ts[i].offset ELSE 0>>>>
  IN FlattenSeq([i \in 1..Len(ts)+1 |-> before(i)])

Gaps(ts) ==
  LET prevEnd(i) == IF i = 1 THEN 0 ELSE EndOf(ts[i-1])
      before(i)  == IF i <= Len(ts) /\ prevEnd(i) = ts[i].offset THEN <<>>
                    ELSE <<<<prevEnd(i), IF i <= Len(ts) THEN ts[i].offset ELSE 0>>>>
  IN FlattenSeq([i \in 1..Len(ts)+1 |-> before(i)])

IsComplete(ts, size) == Len(ts) = 1 /\ ts[1].offset = 0 /\ ts[1].size = size

\* UnmarshalJSON accepts the subtrees: each by InitSubtree, all by Init.
UnmarshalOK(ts) ==
  /\ \A i \in DOMAIN ts : InitSubtreeOK(ts[i].offset, ts[i].nodes, ts[i].size)
  /\ \A i \in 2..Len(ts) : EndOf(ts[i-1]) <= ts[i].offset

-----------------------------------------------------------------------------
(* The calls. *)

TreeInit == tree = <<>> /\ other = <<>> /\ leaves = {} /\ otherLeaves = {} /\ err = FALSE

AddHash(p) ==
  /\ tree' = AddSubtree(tree, LeafTree(p))
  /\ err' = ~AddSubtreeOK(tree, LeafTree(p))
  /\ leaves' = leaves \cup {p}
  /\ UNCHANGED <<other, otherLeaves>>

\* A CollapsedTree at offset, grown by size calls of Add.
Grown[offset \in 0..NumLeaves, size \in 0..NumLeaves] ==
  IF size = 0 THEN Init_(offset, <<>>, 0)
  ELSE LET t == Grown[offset, size - 1] IN
       IF AddOK(t) THEN Add(t, HashLeaf(Data[offset + size - 1])) ELSE t

AddGrown(offset, size) ==
  LET t == Grown[offset, size]
      ps == offset..offset + t.size - 1 IN
  /\ tree' = AddSubtree(tree, t)
  /\ err' = ~AddSubtreeOK(tree, t)
  /\ leaves' = IF ps \cap leaves = {} THEN leaves \cup ps ELSE leaves
  /\ UNCHANGED <<other, otherLeaves>>

OtherAddHash(p) ==
  /\ Cardinality(otherLeaves) < MaxOther
  /\ other' = AddSubtree(other, LeafTree(p))
  /\ otherLeaves' = otherLeaves \cup {p}
  /\ UNCHANGED <<tree, leaves, err>>

\* The caller goes on with an empty second tree.
Merge ==
  /\ other # <<>>
  /\ tree' = MergeSteps(tree, other).ts
  /\ err' = ~MergeSteps(tree, other).ok
  /\ leaves' = LET clash == {p \in otherLeaves : p \in leaves}
                   first(t) == \A q \in clash : t.offset + t.size <= q
                   done == {t \in {other[i] : i \in DOMAIN other} : first(t)}
               IN leaves \cup UNION {t.offset..t.offset + t.size - 1 : t \in done}
  /\ other' = <<>> /\ otherLeaves' = {}

\* MarshalJSON and UnmarshalJSON into a fresh tree.
Reload ==
  /\ tree' = IF UnmarshalOK(tree) THEN tree ELSE <<>>
  /\ err' = ~UnmarshalOK(tree)
  /\ UNCHANGED <<other, leaves, otherLeaves>>

TreeNext ==
  \/ \E p \in Positions : AddHash(p)
  \/ \E o, s \in 0..NumLeaves : o + s <= NumLeaves /\ AddGrown(o, s)
  \/ \E p \in Positions : OtherAddHash(p)
  \/ Merge
  \/ Reload

TreeSpec == TreeInit /\ [][TreeNext]_treeVars

-----------------------------------------------------------------------------
(* The tree hash and the audit path of RFC 6962, section 2.1. *)

Powers == {2^k : k \in 0..Width-1}

LargestPower(S) == CHOOSE x \in S : \A y \in S : y <= x

SplitPoint(n) == LargestPower({x \in Powers : x < n})

MTH[a \in 0..NumLeaves, n \in 0..NumLeaves] ==
  IF n = 0 THEN HashNothing
  ELSE IF n = 1 THEN HashLeaf(Data[a])
  ELSE LET k == SplitPoint(n) IN HashChildren(MTH[a, k], MTH[a + k, n - k])

AuditPath[m \in 0..NumLeaves, a \in 0..NumLeaves, n \in 0..NumLeaves] ==
  IF n <= 1 THEN <<>>
  ELSE LET k == SplitPoint(n) IN
       IF m < k THEN Append(AuditPath[m, a, k], MTH[a + k, n - k])
       ELSE Append(AuditPath[m - k, a + k, n - k], MTH[a, k])

\* Mutant: the root is not compared with the STH.
Mut_reconstructTreeUnchecked(size, leafHash, auditPath, root) ==
  LET t0 == Init_(0, Reverse(auditPath), size - 1)
  IN IF InitSubtreeOK(0, t0.nodes, size - 1) THEN <<Add(t0, leafHash)>> ELSE <<>>

\* What reconstructTree makes of a leaf and an audit path; <<>> stands for an error.
reconstructTree(size, leafHash, auditPath, root) ==
  LET t0 == Init_(0, Reverse(auditPath), size - 1)
      t == Add(t0, leafHash)
  IN IF InitSubtreeOK(0, t0.nodes, size - 1) /\ CalculateRoot(t.nodes) = root
     THEN <<t>> ELSE <<>>

-----------------------------------------------------------------------------
(* Properties. *)

NodesOf[a \in 0..NumLeaves, n \in 0..NumLeaves] ==
  IF n = 0 THEN <<>>
  ELSE LET k == LargestPower({x \in Powers : x <= n}) IN <<MTH[a, k]>> \o NodesOf[a + k, n - k]

RunStart(S, p) == CHOOSE b \in 0..p : b..p \subseteq S /\ b - 1 \notin S

\* A run of leaves from b on is cut at b rounded up to a power of two.
IsCut(S, p) ==
  LET b == RunStart(S, p) IN \E x \in Powers : p = x * ((b + x - 1) \div x)

Ascending(S) == [i \in 1..Cardinality(S) |-> CHOOSE p \in S : Cardinality({q \in S : q < p}) = i - 1]

\* The fragments that a set of leaves has, whatever the order they came in.
Fragments(S) ==
  LET cuts == {p \in S : IsCut(S, p)}
      end(p) == CHOOSE e \in p+1..NumLeaves : p..e-1 \subseteq S /\ (e \in cuts \/ e \notin S)
                                               /\ (p+1..e-1) \cap cuts = {}
  IN [i \in 1..Cardinality(cuts) |->
        LET p == Ascending(cuts)[i] IN Init_(p, NodesOf[p, end(p) - p], end(p) - p)]

\* Leaves, subtrees and whole trees come in any order and may be refused: the fragments
\* are always exactly those of the set of leaves that went in, with the hashes of RFC 6962
\* (FragmentedCollapsedTree.Add and Merge, CollapsedTree.Append).
FragmentsDependOnlyOnLeaves == tree = Fragments(leaves) /\ other = Fragments(otherLeaves)

\* Gaps yields every maximal range of missing leaves in ascending order, and at the end the
\* open range after the last leaf.
GapsAreTheMissingLeaves ==
  LET gaps == Gaps(tree)
      n == Len(gaps)
      missing(g) == IF g[2] = 0 THEN {p \in Positions : p >= g[1]} ELSE g[1]..g[2]-1
  IN /\ UNION {missing(gaps[i]) : i \in 1..n} = Positions \ leaves
     /\ gaps[n][2] = 0
     /\ \A i \in 1..n-1 : gaps[i][1] < gaps[i][2] /\ gaps[i][2] \in leaves /\ gaps[i][2] < gaps[i+1][1]

\* What a tree says of itself is true: its gaps are the leaves it misses, it is complete
\* only when it has every leaf of a log of that size, and its root is then the root hash
\* that the log signs (Gaps, IsComplete, CalculateRoot).
CompleteMeansRootOfLog ==
  /\ GapsAreTheMissingLeaves
  /\ \A n \in 1..NumLeaves :
       /\ IsComplete(tree, n) <=> leaves = 0..n-1
       /\ IsComplete(tree, n) => CalculateRoot(tree[1].nodes) = MTH[0, n]

\* Starting at the end of a log gives the tree that downloading all of it would have given,
\* or an error: also when the leaf occurs more than once and the log proves another
\* occurrence (the XXX in reconstructTree).
ReconstructedTreeIsTheDownloadedTree ==
  \A n \in 1..NumLeaves : IsComplete(tree, n) =>
    LET leaf == HashLeaf(Data[n-1])
        rebuilt(j) == reconstructTree(n, leaf, AuditPath[j, 0, n], MTH[0, n])
    IN /\ rebuilt(n - 1) = tree
       /\ \A j \in 0..n-1 : Data[j] = Data[n-1] => rebuilt(j) \in {<<>>, tree}

\* Merge reports an error exactly when some leaf was in both trees, although it may have
\* taken over other subtrees before it met that leaf.
MergeErrorMeansClash == [][Merge => (err' <=> leaves \cap otherLeaves # {})]_treeVars

=============================================================================
