--------------------------- MODULE LogEntryProofs ---------------------------
(***************************************************************************)
(* Theorems about LogEntry: the recursive matching of names is what it     *)
(* should be, for names and patterns of any length, and so is the          *)
(* comparison of a precertificate with its TBSCertificate, for any number  *)
(* of extensions.  Both are inductions over data, from the least number    *)
(* that would be a counterexample.                                         *)
(***************************************************************************)
EXTENDS LogEntry, WellFoundedInduction, FiniteSetTheorems, TLAPS

-----------------------------------------------------------------------------
(* Patterns. *)

\* A set of numbers has a least element: what every induction below rests on.
LEMMA LeastNumber ==
  ASSUME NEW T \in SUBSET Nat, T # {}
  PROVE  \E x \in T : \A y \in T : x <= y
<1>1. PICK x \in T : \A y \in T : ~(<<y, x>> \in OpToRel(<, Nat))
  BY NatLessThanWellFounded, WFMin
<1>2. \A y \in T : ~(y < x)
  BY Zenon, <1>1 DEF OpToRel
<1> QED BY <1>2

\* The label d from i on can be cut into the pieces of the pattern p from j on.
Cuts(cut, p, d, i, j) ==
  /\ cut \in [(j - 1)..Len(p) -> 0..Len(d)]
  /\ cut[j - 1] = i - 1 /\ cut[Len(p)] = Len(d)
  /\ \A x \in j..Len(p) : IsPiece(p[x], d, cut[x - 1], cut[x])

Fits(p, d, i, j) == \E cut : Cuts(cut, p, d, i, j)

\* The end of the pattern.
LEMMA FitsEnd ==
  ASSUME NEW C, NEW p \in Seq(C), NEW d \in Seq(C), NEW i \in 1..(Len(d) + 1)
  PROVE  Fits(p, d, i, Len(p) + 1) <=> i > Len(d)
<1> DEFINE n == Len(d)
           k == Len(p)
<1>0. n \in Nat /\ k \in Nat
  OBVIOUS
<1> HIDE DEF n, k
<1>1. ASSUME NEW cut, Cuts(cut, p, d, i, k + 1) PROVE i > n
  BY <1>0, <1>1 DEF Cuts, n, k
<1>2. ASSUME i > n PROVE \E cut : Cuts(cut, p, d, i, k + 1)
  <2> DEFINE cut == [x \in k..k |-> n]
  <2>1. cut \in [((k + 1) - 1)..k -> 0..n] /\ cut[(k + 1) - 1] = i - 1 /\ cut[k] = n
    BY <1>0, <1>2 DEF n
  <2>2. Cuts(cut, p, d, i, k + 1)
    BY <1>0, <2>1 DEF Cuts, n, k
  <2> QED BY <2>2
<1> QED BY <1>1, <1>2 DEF Fits, k, n

\* A piece less.
LEMMA FitsPiece ==
  ASSUME NEW C, NEW p \in Seq(C), NEW d \in Seq(C), NEW i \in 1..(Len(d) + 1), NEW j \in 1..Len(p)
  PROVE  Fits(p, d, i, j) <=>
           \E to \in 0..Len(d) : IsPiece(p[j], d, i - 1, to) /\ Fits(p, d, to + 1, j + 1)
<1> DEFINE n == Len(d)
           k == Len(p)
<1>0. n \in Nat /\ k \in Nat /\ i \in 1..(n + 1) /\ j \in 1..k
  OBVIOUS
<1> HIDE DEF n, k
<1>1. ASSUME NEW cut, Cuts(cut, p, d, i, j)
      PROVE  \E to \in 0..n : IsPiece(p[j], d, i - 1, to) /\ Fits(p, d, to + 1, j + 1)
  <2>1. /\ cut \in [(j - 1)..k -> 0..n] /\ cut[j - 1] = i - 1 /\ cut[k] = n
        /\ \A x \in j..k : IsPiece(p[x], d, cut[x - 1], cut[x])
    BY <1>1 DEF Cuts, n, k
  <2> DEFINE c2 == [x \in j..k |-> cut[x]]
  <2>2. cut[j] \in 0..n /\ IsPiece(p[j], d, i - 1, cut[j])
    BY <1>0, <2>1
  <2>3. c2 \in [j..k -> 0..n] /\ c2[j] = cut[j] /\ c2[k] = n
    BY SMTT(20), <1>0, <2>1
  <2>4. ASSUME NEW x \in (j + 1)..k PROVE IsPiece(p[x], d, c2[x - 1], c2[x])
    <3>1. x \in j..k /\ x - 1 \in j..k
      BY <1>0
    <3>2. c2[x - 1] = cut[x - 1] /\ c2[x] = cut[x] /\ IsPiece(p[x], d, cut[x - 1], cut[x])
      BY <2>1, <3>1
    <3> HIDE DEF c2
    <3> QED BY <3>2
  <2>5. (j + 1) - 1 = j /\ (cut[j] + 1) - 1 = cut[j]
    BY <1>0, <2>2
  <2> HIDE DEF c2
  <2>6. Cuts(c2, p, d, cut[j] + 1, j + 1)
    BY <2>3, <2>4, <2>5 DEF Cuts, n, k
  <2> QED BY <2>2, <2>6 DEF Fits
<1>2. ASSUME NEW to \in 0..n, IsPiece(p[j], d, i - 1, to), NEW cut, Cuts(cut, p, d, to + 1, j + 1)
      PROVE  Fits(p, d, i, j)
  <2>0. (j + 1) - 1 = j /\ (to + 1) - 1 = to
    BY <1>0
  <2>1. /\ cut \in [j..k -> 0..n] /\ cut[j] = to /\ cut[k] = n
        /\ \A x \in (j + 1)..k : IsPiece(p[x], d, cut[x - 1], cut[x])
    BY <1>2, <2>0 DEF Cuts, n, k
  <2> DEFINE c2 == [x \in (j - 1)..k |-> IF x = j - 1 THEN i - 1 ELSE cut[x]]
  <2>2. c2 \in [(j - 1)..k -> 0..n] /\ c2[j - 1] = i - 1 /\ c2[k] = n /\ \A x \in j..k : c2[x] = cut[x]
    BY <1>0, <2>1
  <2> HIDE DEF c2
  <2>3. ASSUME NEW x \in j..k PROVE IsPiece(p[x], d, c2[x - 1], c2[x])
    <3>1. CASE x = j
      BY <1>0, <1>2, <2>1, <2>2, <3>1
    <3>2. CASE x # j
      <4>1. x \in (j + 1)..k /\ x - 1 \in j..k
        BY <1>0, <3>2
      <4> QED BY <2>1, <2>2, <4>1
    <3> QED BY <3>1, <3>2
  <2>4. Cuts(c2, p, d, i, j)
    BY <2>2, <2>3 DEF Cuts, n, k
  <2> QED BY <2>4 DEF Fits
<1> QED BY <1>1, <1>2 DEF Fits, n

\* A star takes one character more, or ends here.
LEMMA FitsStar ==
  ASSUME NEW C, NEW p \in Seq(C), NEW d \in Seq(C), NEW i \in 1..(Len(d) + 1), NEW j \in 1..Len(p), p[j] = "*"
  PROVE  Fits(p, d, i, j) <=>
           (i <= Len(d) /\ d[i] # "." /\ Fits(p, d, i + 1, j)) \/ Fits(p, d, i, j + 1)
<1> DEFINE n == Len(d)
           Free(a, b) == \A m \in a..b : d[m] # "."
           R(to) == Fits(p, d, to + 1, j + 1)
<1>0. n \in Nat /\ i \in 1..(n + 1)
  OBVIOUS
<1>1. Fits(p, d, i, j) <=> \E to \in 0..n : i - 1 <= to /\ Free((i - 1) + 1, to) /\ R(to)
  BY FitsPiece DEF IsPiece
<1>2. i <= n => (Fits(p, d, i + 1, j) <=> \E to \in 0..n : (i + 1) - 1 <= to /\ Free(((i + 1) - 1) + 1, to) /\ R(to))
  <2> SUFFICES ASSUME i <= n
               PROVE  Fits(p, d, i + 1, j) <=> \E to \in 0..n : (i + 1) - 1 <= to /\ Free(((i + 1) - 1) + 1, to) /\ R(to)
    OBVIOUS
  <2>1. i + 1 \in 1..(Len(d) + 1)
    BY <1>0
  <2> QED BY Zenon, <2>1, FitsPiece DEF IsPiece
<1>3. Fits(p, d, i, j + 1) <=> R(i - 1)
  BY <1>0
<1>4. (i - 1) + 1 = i /\ (i + 1) - 1 = i /\ i - 1 \in 0..n
  BY <1>0
<1> HIDE DEF n, R
<1>5. ASSUME NEW to \in 0..n, i - 1 <= to, Free(i, to), R(to), ~R(i - 1)
      PROVE  i <= n /\ d[i] # "." /\ i <= to /\ Free(i + 1, to)
  <2>1. to # i - 1
    BY <1>5
  <2>2. i <= to
    BY <1>0, <1>5, <2>1
  <2> QED BY <1>0, <1>5, <2>2
<1>6. ASSUME NEW to \in 0..n, i <= n, d[i] # ".", i <= to, Free(i + 1, to)
      PROVE  i - 1 <= to /\ Free(i, to)
  <2>1. \A m \in i..to : m = i \/ m \in (i + 1)..to
    BY <1>0
  <2> QED BY <1>0, <1>6, <2>1
<1>7. Free(i, i - 1) /\ i - 1 <= i - 1
  BY <1>0
<1> HIDE DEF Free
<1>8. Fits(p, d, i, j) => (i <= n /\ d[i] # "." /\ Fits(p, d, i + 1, j)) \/ Fits(p, d, i, j + 1)
  BY <1>1, <1>2, <1>3, <1>4, <1>5
<1>9. i <= n /\ d[i] # "." /\ Fits(p, d, i + 1, j) => Fits(p, d, i, j)
  BY <1>1, <1>2, <1>4, <1>6
<1>10. Fits(p, d, i, j + 1) => Fits(p, d, i, j)
  BY <1>1, <1>3, <1>4, <1>7
<1> QED BY <1>8, <1>9, <1>10 DEF n

\* Any other character stands for itself.
LEMMA FitsChar ==
  ASSUME NEW C, NEW p \in Seq(C), NEW d \in Seq(C), NEW i \in 1..(Len(d) + 1), NEW j \in 1..Len(p), p[j] # "*"
  PROVE  Fits(p, d, i, j) <=> i <= Len(d) /\ p[j] = d[i] /\ Fits(p, d, i + 1, j + 1)
<1>1. Fits(p, d, i, j) <=> \E to \in 0..Len(d) : to = (i - 1) + 1 /\ d[to] = p[j] /\ Fits(p, d, to + 1, j + 1)
  BY FitsPiece DEF IsPiece
<1>2. (i - 1) + 1 = i /\ (i \in 0..Len(d) <=> i <= Len(d))
  OBVIOUS
<1> QED BY <1>1, <1>2

\* The calls of MatchesWildcard for the rest of d from i and of p from j.
IsCallTree(f, d, p) ==
  f = [c \in (1..(Len(d) + 1)) \X (1..(Len(p) + 1)) |->
         IF c[2] > Len(p) THEN c[1] > Len(d)
         ELSE IF p[c[2]] = "*" THEN (c[1] <= Len(d) /\ d[c[1]] # "." /\ f[<<c[1] + 1, c[2]>>]) \/ f[<<c[1], c[2] + 1>>]
         ELSE c[1] <= Len(d) /\ p[c[2]] = d[c[1]] /\ f[<<c[1] + 1, c[2] + 1>>]]

\* There is a function with these calls: the one that says what fits.
LEMMA CallTreeExists ==
  ASSUME NEW C, NEW p \in Seq(C), NEW d \in Seq(C)
  PROVE  \E f : IsCallTree(f, d, p)
<1> DEFINE n == Len(d)
           k == Len(p)
           D == (1..(n + 1)) \X (1..(k + 1))
           f == [c \in D |-> Fits(p, d, c[1], c[2])]
           B(c) == IF c[2] > k THEN c[1] > n
                   ELSE IF p[c[2]] = "*" THEN (c[1] <= n /\ d[c[1]] # "." /\ f[<<c[1] + 1, c[2]>>]) \/ f[<<c[1], c[2] + 1>>]
                   ELSE c[1] <= n /\ p[c[2]] = d[c[1]] /\ f[<<c[1] + 1, c[2] + 1>>]
<1>0. n \in Nat /\ k \in Nat
  OBVIOUS
<1>1. ASSUME NEW i \in 1..(n + 1), NEW j \in 1..(k + 1) PROVE f[<<i, j>>] = Fits(p, d, i, j)
  BY <1>1
<1>2. ASSUME NEW c \in D PROVE Fits(p, d, c[1], c[2]) <=> B(c)
  <2>1. PICK i \in 1..(n + 1), j \in 1..(k + 1) : c[1] = i /\ c[2] = j
    OBVIOUS
  <2> HIDE DEF f
  <2>2. CASE j > k
    <3>1. j = k + 1
      BY <1>0, <2>2
    <3> QED BY <2>1, <2>2, <3>1, FitsEnd
  <2>3. CASE j <= k /\ p[j] = "*"
    <3>1. j \in 1..k /\ j + 1 \in 1..(k + 1) /\ (i <= n => i + 1 \in 1..(n + 1)) /\ ~(j > k)
      BY <1>0, <2>3
    <3>2. Fits(p, d, i, j) <=> (i <= n /\ d[i] # "." /\ Fits(p, d, i + 1, j)) \/ Fits(p, d, i, j + 1)
      BY <2>3, <3>1, FitsStar
    <3>3. f[<<i, j + 1>>] = Fits(p, d, i, j + 1) /\ (i <= n => f[<<i + 1, j>>] = Fits(p, d, i + 1, j))
      BY Zenon, <1>1, <3>1
    <3> QED BY <2>1, <2>3, <3>1, <3>2, <3>3
  <2>4. CASE j <= k /\ p[j] # "*"
    <3>1. j \in 1..k /\ j + 1 \in 1..(k + 1) /\ (i <= n => i + 1 \in 1..(n + 1)) /\ ~(j > k)
      BY <1>0, <2>4
    <3>2. Fits(p, d, i, j) <=> i <= n /\ p[j] = d[i] /\ Fits(p, d, i + 1, j + 1)
      BY <2>4, <3>1, FitsChar
    <3>3. i <= n => f[<<i + 1, j + 1>>] = Fits(p, d, i + 1, j + 1)
      BY <1>1, <3>1
    <3> QED BY <2>1, <2>4, <3>1, <3>2, <3>3
  <2> QED BY <1>0, <2>2, <2>3, <2>4
<1>3. f = [c \in D |-> B(c)]
  <2> DEFINE Q(c) == Fits(p, d, c[1], c[2])
  <2>1. f = [c \in D |-> Q(c)]
    OBVIOUS
  <2> HIDE DEF f
  <2>2. ASSUME NEW c \in D PROVE Q(c) = B(c)
    <3>1. Q(c) <=> B(c)
      BY SMTT(20), <1>2
    <3>2. Q(c) \in BOOLEAN
      BY DEF Fits
    <3>3. B(c) \in BOOLEAN
      <4>1. CASE c[2] > k
        BY <1>0, <4>1
      <4>2. CASE ~(c[2] > k) /\ p[c[2]] = "*"
        BY Zenon, <4>2
      <4>3. CASE ~(c[2] > k) /\ p[c[2]] # "*"
        BY Zenon, <4>3
      <4> HIDE DEF B
      <4> QED BY <4>1, <4>2, <4>3
    <3> HIDE DEF Q, B
    <3> QED BY <3>1, <3>2, <3>3
  <2> HIDE DEF Q, B, D
  <2> QED BY <2>1, <2>2
<1> HIDE DEF f
<1> QED BY Zenon, <1>3 DEF IsCallTree

\* A call returns whether the rest of the pattern fits the rest of the label: by
\* induction over what is left of both.
LEMMA CallTreeFits ==
  ASSUME NEW C, NEW p \in Seq(C), NEW d \in Seq(C), NEW f, IsCallTree(f, d, p),
         NEW i \in 1..(Len(d) + 1), NEW j \in 1..(Len(p) + 1)
  PROVE  f[<<i, j>>] <=> Fits(p, d, i, j)
<1> DEFINE n == Len(d)
           k == Len(p)
           Right(x, y) == f[<<x, y>>] <=> Fits(p, d, x, y)
           Weight(x, y) == (n + 1 - x) + (k + 1 - y)
           Bad == {w \in Nat : \E x \in 1..(n + 1), y \in 1..(k + 1) : w = Weight(x, y) /\ ~Right(x, y)}
           B(c) == IF c[2] > k THEN c[1] > n
                   ELSE IF p[c[2]] = "*" THEN (c[1] <= n /\ d[c[1]] # "." /\ f[<<c[1] + 1, c[2]>>]) \/ f[<<c[1], c[2] + 1>>]
                   ELSE c[1] <= n /\ p[c[2]] = d[c[1]] /\ f[<<c[1] + 1, c[2] + 1>>]
<1>0. n \in Nat /\ k \in Nat
  OBVIOUS
<1>1. ASSUME NEW x \in 1..(n + 1), NEW y \in 1..(k + 1)
      PROVE  f[<<x, y>>] <=> IF y > k THEN x > n
                             ELSE IF p[y] = "*" THEN (x <= n /\ d[x] # "." /\ f[<<x + 1, y>>]) \/ f[<<x, y + 1>>]
                             ELSE x <= n /\ p[y] = d[x] /\ f[<<x + 1, y + 1>>]
  <2>1. f = [c \in (1..(n + 1)) \X (1..(k + 1)) |-> B(c)]
    BY Zenon DEF IsCallTree
  <2>2. <<x, y>>[1] = x /\ <<x, y>>[2] = y /\ <<x, y>> \in (1..(n + 1)) \X (1..(k + 1))
    OBVIOUS
  <2> HIDE DEF B
  <2>3. f[<<x, y>>] = B(<<x, y>>)
    BY <2>1, <2>2
  <2> USE DEF B
  <2> QED BY ZenonT(20), <2>2, <2>3
<1> HIDE DEF n, k, B
<1>6. \A x \in 1..(n + 1), y \in 1..(k + 1) :
        /\ Weight(x, y) \in Nat
        /\ x <= n => x + 1 \in 1..(n + 1) /\ Weight(x + 1, y) < Weight(x, y)
        /\ y <= k => y + 1 \in 1..(k + 1) /\ Weight(x, y + 1) < Weight(x, y)
        /\ x <= n /\ y <= k => Weight(x + 1, y + 1) < Weight(x, y)
  BY <1>0
<1> HIDE DEF Weight
<1>2. ASSUME Bad # {} PROVE FALSE
  <2>1. PICK w \in Bad : \A v \in Bad : w <= v
    <3>1. Bad \in SUBSET Nat
      OBVIOUS
    <3> HIDE DEF Bad
    <3> QED BY Zenon, <1>2, <3>1, LeastNumber
  <2>2. PICK x \in 1..(n + 1), y \in 1..(k + 1) : w = Weight(x, y) /\ ~Right(x, y)
    BY Zenon, <2>1
  <2>3. ASSUME NEW a \in 1..(n + 1), NEW b \in 1..(k + 1), Weight(a, b) < w
        PROVE  Right(a, b)
    <3>1. Weight(a, b) \in Nat /\ w \in Nat
      BY <1>6, <2>2
    <3>2. Weight(a, b) \notin Bad
      <4> HIDE DEF Bad
      <4> QED BY <2>1, <2>3, <3>1
    <3> HIDE DEF Right
    <3> QED BY <3>1, <3>2
  <2>4. y > k => (Fits(p, d, x, y) <=> x > n)
    <3> SUFFICES ASSUME y > k PROVE Fits(p, d, x, y) <=> x > n
      OBVIOUS
    <3>1. y = k + 1
      BY <1>0
    <3> QED BY <3>1, FitsEnd DEF n, k
  <2>5. /\ y <= k /\ p[y] = "*" /\ x <= n => Right(x + 1, y)
        /\ y <= k => Right(x, y + 1)
        /\ y <= k /\ x <= n => Right(x + 1, y + 1)
    <3> HIDE DEF Right
    <3>1. x <= n => Right(x + 1, y)
      BY <1>6, <2>2, <2>3
    <3>2. y <= k => Right(x, y + 1)
      BY <1>6, <2>2, <2>3
    <3>3. y <= k /\ x <= n => Right(x + 1, y + 1)
      BY <1>6, <2>2, <2>3
    <3> QED BY <3>1, <3>2, <3>3
  <2>6. y <= k /\ p[y] = "*" =>
          (Fits(p, d, x, y) <=> (x <= n /\ d[x] # "." /\ Fits(p, d, x + 1, y)) \/ Fits(p, d, x, y + 1))
    <3> SUFFICES ASSUME y <= k, p[y] = "*"
                 PROVE  Fits(p, d, x, y) <=> (x <= n /\ d[x] # "." /\ Fits(p, d, x + 1, y)) \/ Fits(p, d, x, y + 1)
      OBVIOUS
    <3>1. y \in 1..k
      BY <1>0
    <3> QED BY Zenon, <3>1, FitsStar DEF n, k
  <2>7. y <= k /\ p[y] # "*" => (Fits(p, d, x, y) <=> x <= n /\ p[y] = d[x] /\ Fits(p, d, x + 1, y + 1))
    <3> SUFFICES ASSUME y <= k, p[y] # "*"
                 PROVE  Fits(p, d, x, y) <=> x <= n /\ p[y] = d[x] /\ Fits(p, d, x + 1, y + 1)
      OBVIOUS
    <3>1. y \in 1..k
      BY <1>0
    <3> QED BY <3>1, FitsChar DEF n, k
  <2>8. y > k \/ y <= k
    BY <1>0
  <2>9. y > k => ~(y <= k)
    BY <1>0
  <2>10. Right(x, y)
    <3>1. CASE y > k
      BY Zenon, <1>1, <2>4, <3>1
    <3>2. CASE y <= k /\ p[y] = "*"
      BY SMTT(20), <1>1, <2>5, <2>6, <2>9, <3>2
    <3>3. CASE y <= k /\ p[y] # "*"
      BY Zenon, <1>1, <2>5, <2>7, <2>9, <3>3
    <3> QED BY <2>8, <3>1, <3>2, <3>3
  <2> QED BY <2>2, <2>10
<1>3. Weight(i, j) \in Nat /\ i \in 1..(n + 1) /\ j \in 1..(k + 1)
  BY <1>6 DEF n, k
<1>4. Weight(i, j) \notin Bad
  BY Zenon, <1>2
<1> HIDE DEF Right
<1>5. Right(i, j)
  BY <1>3, <1>4
<1> QED BY <1>5 DEF Right

\* MatchesWildcard finds out whether the stars of a pattern can be filled in.
THEOREM WildcardIsExact ==
  ASSUME NEW C, NEW p \in Seq(C), NEW d \in Seq(C)
  PROVE  MatchesWildcard(d, p) <=> CanBeFilled(p, d)
<1>1. PICK f : IsCallTree(f, d, p) /\ MatchesWildcard(d, p) = f[<<1, 1>>]
  <2> DEFINE g == CHOOSE f : IsCallTree(f, d, p)
  <2>1. MatchesWildcard(d, p) = g[<<1, 1>>]
    BY DEF MatchesWildcard, IsCallTree
  <2>2. IsCallTree(g, d, p)
    BY CallTreeExists
  <2> QED BY Zenon, <2>1, <2>2
<1>2. 1 \in 1..(Len(d) + 1) /\ 1 \in 1..(Len(p) + 1) /\ 1 - 1 = 0
  OBVIOUS
<1>3. f[<<1, 1>>] <=> Fits(p, d, 1, 1)
  BY <1>1, <1>2, CallTreeFits
<1>4. Fits(p, d, 1, 1) <=> CanBeFilled(p, d)
  BY <1>2 DEF Fits, Cuts, CanBeFilled
<1> QED BY <1>1, <1>3, <1>4

-----------------------------------------------------------------------------
(* Rounds of a loop. *)

\* Induction up to a bound, for a set instead of a predicate.
LEMMA CountingUp ==
  ASSUME NEW S, NEW m \in Nat, 0 \in S, \A n \in 1..m : n - 1 \in S => n \in S
  PROVE  \A n \in 0..m : n \in S
<1> DEFINE Bad == {n \in 0..m : n \notin S}
<1> SUFFICES ASSUME Bad # {} PROVE FALSE
  OBVIOUS
<1>1. PICK x \in Bad : \A y \in Bad : x <= y
  <2>1. Bad \in SUBSET Nat
    OBVIOUS
  <2> HIDE DEF Bad
  <2> QED BY Zenon, <2>1, LeastNumber
<1>2. x \in 0..m /\ x \notin S /\ x # 0
  BY <1>1
<1>3. x - 1 \in 0..m /\ ~(x <= x - 1) /\ x \in 1..m
  BY <1>2
<1>4. x - 1 \in S
  BY <1>1, <1>3
<1> QED BY <1>2, <1>3, <1>4

\* A round may depend on its number; g is the state after every number of rounds.
IsRound(round, Q, m) == round \in [(1..m) \X Q -> Q]
Folds(g, round, Q, a, m) ==
  g \in [0..m -> Q] /\ g[0] = a /\ \A n \in 1..m : g[n] = round[<<n, g[n - 1]>>]

\* A function that goes through m rounds exists.
LEMMA FoldExists ==
  ASSUME NEW Q, NEW m \in Nat, NEW round, IsRound(round, Q, m), NEW a \in Q
  PROVE  \E g : Folds(g, round, Q, a, m)
<1> USE DEF IsRound
<1> DEFINE Exists(k) == \E g : Folds(g, round, Q, a, k)
           S == {k \in 0..m : Exists(k)}
<1>1. 0 \in S
  <2> DEFINE g == [n \in 0..0 |-> a]
  <2>1. g \in [0..0 -> Q] /\ g[0] = a /\ \A n \in 1..0 : g[n] = round[<<n, g[n - 1]>>]
    OBVIOUS
  <2> HIDE DEF g
  <2>2. Exists(0)
    BY <2>1 DEF Folds
  <2> HIDE DEF Exists
  <2> QED BY <2>2
<1>2. ASSUME NEW x \in 1..m, x - 1 \in S PROVE x \in S
  <2>1. PICK g : g \in [0..(x - 1) -> Q] /\ g[0] = a /\ \A n \in 1..(x - 1) : g[n] = round[<<n, g[n - 1]>>]
    BY <1>2 DEF Folds
  <2> DEFINE h == [n \in 0..x |-> IF n = x THEN round[<<x, g[x - 1]>>] ELSE g[n]]
  <2>2. round[<<x, g[x - 1]>>] \in Q
    <3>1. g[x - 1] \in Q
      BY <2>1
    <3>2. <<x, g[x - 1]>> \in (1..m) \X Q
      BY <3>1
    <3> QED BY <3>2
  <2>3. h \in [0..x -> Q] /\ h[0] = a
    BY <2>1, <2>2
  <2>4. ASSUME NEW n \in 1..x PROVE h[n] = round[<<n, h[n - 1]>>]
    <3>1. h[n - 1] = g[n - 1]
      OBVIOUS
    <3>2. CASE n = x
      <4>1. h[n] = round[<<x, g[x - 1]>>]
        BY <3>2
      <4> HIDE DEF h
      <4> QED BY <3>1, <3>2, <4>1
    <3>3. CASE n # x
      <4>1. n \in 1..(x - 1) /\ h[n] = g[n]
        BY <3>3
      <4> HIDE DEF h
      <4> QED BY <2>1, <3>1, <4>1
    <3> QED BY <3>2, <3>3
  <2> HIDE DEF h
  <2>5. Exists(x)
    BY <2>3, <2>4 DEF Folds
  <2> HIDE DEF Exists
  <2> QED BY <2>5
<1>3. m \in S
  <2> HIDE DEF S
  <2>1. \A n \in 0..m : n \in S
    BY <1>1, <1>2, CountingUp
  <2> QED BY <2>1
<1> QED BY <1>3

-----------------------------------------------------------------------------
(* Names are sequences of labels, and labels sequences of characters. *)

Texts == Seq(Chars)
DNSNames == Seq(Texts)

\* The empty sequence is the one without elements.
LEMMA EmptySequence == \A S : \A q \in Seq(S) : Len(q) = 0 <=> q = <<>>
  OBVIOUS

\* Appending keeps a sequence, and makes it non-empty.
LEMMA AppendKeeps == \A S : \A q \in Seq(S) : \A x \in S : Append(q, x) \in Seq(S) /\ Append(q, x) # <<>>
<1> SUFFICES ASSUME NEW S, NEW q \in Seq(S), NEW x \in S PROVE Append(q, x) \in Seq(S) /\ Append(q, x) # <<>>
  OBVIOUS
<1>1. Append(q, x) \in Seq(S) /\ Len(Append(q, x)) # 0
  OBVIOUS
<1> QED BY Zenon, <1>1, EmptySequence

\* Replacing an element keeps a sequence.
LEMMA ReplaceKeeps ==
  ASSUME NEW S, NEW q \in Seq(S), NEW i \in 1..Len(q), NEW x \in S
  PROVE  [q EXCEPT ![i] = x] \in Seq(S) /\ Len([q EXCEPT ![i] = x]) = Len(q)
  OBVIOUS

\* One more character keeps a non-empty sequence of labels.
LEMMA SplitStep ==
  ASSUME NEW labels \in DNSNames \ {<<>>}, NEW c \in Chars
  PROVE  /\ Append(labels, <<>>) \in DNSNames \ {<<>>}
         /\ [labels EXCEPT ![Len(labels)] = Append(@, c)] \in DNSNames \ {<<>>}
<1>0. <<>> \in Texts /\ labels \in Seq(Texts)
  BY DEF DNSNames, Texts
<1>1. Append(labels, <<>>) \in DNSNames \ {<<>>}
  BY Zenon, <1>0, AppendKeeps DEF DNSNames
<1>2. Len(labels) \in 1..Len(labels) /\ labels[Len(labels)] \in Texts
  BY DEF DNSNames
<1> DEFINE x == Append(labels[Len(labels)], c)
           l2 == [labels EXCEPT ![Len(labels)] = x]
<1>3. x \in Texts
  BY Zenon, <1>2, AppendKeeps DEF Texts
<1> HIDE DEF x
<1>4. l2 \in DNSNames /\ Len(l2) = Len(labels)
  BY <1>0, <1>2, <1>3, ReplaceKeeps DEF DNSNames
<1>5. l2 # <<>>
  <2> HIDE DEF l2
  <2> QED BY <1>2, <1>4
<1> QED BY <1>1, <1>4, <1>5 DEF x

\* f is the recursive function in Split.
IsSplit(f, value) ==
  f = [n \in 0..Len(value) |->
         IF n = 0 THEN <<<<>>>>
         ELSE IF value[n] = "." THEN Append(f[n - 1], <<>>)
         ELSE [f[n - 1] EXCEPT ![Len(f[n - 1])] = Append(@, value[n])]]

\* Splitting a text gives a name.
LEMMA SplitGivesName ==
  ASSUME NEW value \in Texts
  PROVE  Split(value) \in DNSNames
<1> DEFINE m == Len(value)
           Q == DNSNames \ {<<>>}
           Step(n, labels) == IF value[n] = "." THEN Append(labels, <<>>)
                              ELSE [labels EXCEPT ![Len(labels)] = Append(@, value[n])]
           round == [p \in (1..m) \X Q |-> Step(p[1], p[2])]
           Body(f, n) == IF n = 0 THEN <<<<>>>> ELSE Step(n, f[n - 1])
<1>1. m \in Nat /\ \A n \in 1..m : value[n] \in Chars
  BY DEF Texts
<1>2. <<<<>>>> \in Q
  BY DEF DNSNames, Texts
<1>3. ASSUME NEW n \in 1..m, NEW labels \in Q PROVE Step(n, labels) \in Q
  BY Zenon, <1>1, SplitStep
<1>4. \A f : IsSplit(f, value) <=> f = [n \in 0..m |-> Body(f, n)]
  BY Zenon DEF IsSplit
<1> HIDE DEF Step, Q, m
<1>5. \E f : IsSplit(f, value)
  <2>1. round \in [(1..m) \X Q -> Q]
    BY <1>3
  <2>2. PICK g : Folds(g, round, Q, <<<<>>>>, m)
    <3> HIDE DEF round
    <3> QED BY Zenon, <1>1, <1>2, <2>1, FoldExists DEF IsRound
  <2>3. ASSUME NEW n \in 0..m PROVE g[n] = Body(g, n)
    <3>1. CASE n = 0
      BY <2>2, <3>1 DEF Folds
    <3>2. CASE n # 0
      <4>1. n \in 1..m /\ n - 1 \in 0..m
        BY <1>1, <3>2
      <4>2. <<n, g[n - 1]>> \in (1..m) \X Q
        BY <2>2, <4>1 DEF Folds
      <4>3. round[<<n, g[n - 1]>>] = Step(n, g[n - 1])
        BY <4>2
      <4> HIDE DEF round
      <4> QED BY <2>2, <3>2, <4>1, <4>3 DEF Folds
    <3> QED BY <3>1, <3>2
  <2>4. g = [n \in 0..m |-> g[n]]
    BY <2>2 DEF Folds
  <2> HIDE DEF Body, round
  <2>5. g = [n \in 0..m |-> Body(g, n)]
    BY <2>3, <2>4
  <2> QED BY <1>4, <2>5
<1>6. PICK f : IsSplit(f, value) /\ Split(value) = f[m]
  <2> DEFINE g == CHOOSE f : IsSplit(f, value)
  <2>1. Split(value) = g[m]
    BY DEF Split, IsSplit, m
  <2>2. IsSplit(g, value)
    BY <1>5
  <2> QED BY Zenon, <2>1, <2>2
<1>7. ASSUME NEW n \in 0..m PROVE f[n] = Body(f, n)
  <2> HIDE DEF Body
  <2> QED BY Zenon, <1>4, <1>6
<1> DEFINE S == {n \in 0..m : f[n] \in Q}
<1>8. 0 \in S
  BY <1>1, <1>2, <1>7
<1>9. ASSUME NEW n \in 1..m, n - 1 \in S PROVE n \in S
  BY <1>1, <1>3, <1>7, <1>9
<1>10. m \in S
  <2> HIDE DEF S
  <2>1. \A n \in 0..m : n \in S
    BY <1>1, <1>8, <1>9, CountingUp
  <2> QED BY <1>1, <2>1
<1> QED BY <1>6, <1>10 DEF Q

\* A part of a sequence.
LEMMA PartKeeps ==
  ASSUME NEW S, NEW q \in Seq(S), NEW i \in Nat \ {0}, NEW j \in 0..Len(q)
  PROVE  SubSeq(q, i, j) \in Seq(S)
  OBVIOUS

\* The shortest sequences.
LEMMA OneElement == \A S : <<>> \in Seq(S) /\ \A x \in S : <<x>> \in Seq(S)
  OBVIOUS

\* A sequence changed element by element.
LEMMA MapKeeps ==
  ASSUME NEW S, NEW T, NEW q \in Seq(S), NEW g, DOMAIN g = DOMAIN q, g = [i \in DOMAIN g |-> g[i]],
         \A i \in DOMAIN q : g[i] \in T
  PROVE  g \in Seq(T) /\ Len(g) = Len(q)
<1>1. DOMAIN q = 1..Len(q) /\ Len(q) \in Nat
  OBVIOUS
<1>2. g \in [1..Len(q) -> T]
  BY <1>1
<1> QED BY <1>1, <1>2

\* What comes before a character that is there.
LEMMA BeforeIsText ==
  ASSUME NEW value \in Texts, NEW c, HasChar(value, c)
  PROVE  Before(value, c) \in Texts
<1> DEFINE P(i) == value[i] = c /\ \A j \in 1..(i - 1) : value[j] # c
           T == {i \in DOMAIN value : value[i] = c}
<1>0. DOMAIN value = 1..Len(value) /\ Len(value) \in Nat
  BY DEF Texts
<1>1. PICK i \in T : \A j \in T : i <= j
  <2>1. T \in SUBSET Nat /\ T # {}
    BY <1>0 DEF HasChar
  <2> HIDE DEF T
  <2> QED BY Zenon, <2>1, LeastNumber
<1>2. i \in DOMAIN value /\ P(i)
  BY <1>0, <1>1
<1> DEFINE k == CHOOSE x \in DOMAIN value : P(x)
<1>3. k \in DOMAIN value
  <2> HIDE DEF P
  <2> QED BY <1>2
<1>4. Before(value, c) = SubSeq(value, 1, k - 1)
  BY DEF Before
<1> HIDE DEF k
<1>5. k - 1 \in 0..Len(value)
  BY <1>0, <1>3
<1> QED BY <1>4, <1>5, PartKeeps DEF Texts

\* A text without what is stripped from it.
LEMMA StripIsText ==
  ASSUME NEW value \in Texts, NEW from, NEW c
  PROVE  strip(value, from, c) \in Texts
<1> DEFINE kept == {i \in DOMAIN value : value[i] # c}
           T == {Len(value) - i : i \in kept}
<1>0. DOMAIN value = 1..Len(value) /\ Len(value) \in Nat
  BY DEF Texts
<1>1. CASE kept = {}
  BY <1>1 DEF strip, Texts
<1>2. CASE kept # {}
  <2>1. kept \in SUBSET Nat /\ T \in SUBSET Nat /\ T # {}
    BY <1>0, <1>2
  <2>2. Min(kept) \in kept
    <3> HIDE DEF kept
    <3>1. PICK x \in kept : \A y \in kept : x <= y
      BY Zenon, <1>2, <2>1, LeastNumber
    <3> QED BY <3>1 DEF Min
  <2>3. Max(kept) \in kept
    <3>1. PICK t \in T : \A y \in T : t <= y
      <4> HIDE DEF T
      <4> QED BY Zenon, <2>1, LeastNumber
    <3>2. PICK x \in kept : t = Len(value) - x
      BY <3>1
    <3>3. ASSUME NEW y \in kept PROVE x >= y
      <4>1. Len(value) - x <= Len(value) - y
        BY <3>1, <3>2
      <4>2. x \in Nat /\ y \in Nat
        BY <2>1
      <4> QED BY <1>0, <4>1, <4>2
    <3> HIDE DEF kept
    <3> QED BY <3>3 DEF Max
  <2> DEFINE a == IF from = "both" THEN Min(kept) ELSE 1
             b == Max(kept)
  <2>4. strip(value, from, c) = SubSeq(value, a, b)
    BY Zenon, <1>2 DEF strip
  <2>5. a \in Nat \ {0} /\ b \in 0..Len(value)
    BY <1>0, <2>2, <2>3
  <2> HIDE DEF a, b
  <2> QED BY <2>4, <2>5, PartKeeps DEF Texts
<1> QED BY <1>1, <1>2

\* A text in lower case.
LEMMA ToLowerIsText ==
  ASSUME NEW value \in Texts
  PROVE  ToLower(value) \in Texts
<1> DEFINE g == ToLower(value)
<1>1. DOMAIN g = DOMAIN value /\ g = [i \in DOMAIN g |-> g[i]]
  BY Zenon DEF ToLower
<1>2. \A i \in DOMAIN value : value[i] \in Chars
  BY DEF Texts
<1>3. \A i \in DOMAIN value : g[i] \in Chars
  BY <1>2, CharsAssumption DEF ToLower
<1> HIDE DEF g
<1>4. g \in Seq(Chars)
  BY <1>1, <1>3, MapKeeps DEF Texts
<1> QED BY <1>4 DEF g, Texts

\* A label in ASCII.
LEMMA ToASCIIIsText ==
  ASSUME NEW label \in Texts
  PROVE  ToASCII(label).label \in Texts
<1> DEFINE g == [i \in DOMAIN label |-> CASE label[i] = "uni" -> "e1" [] label[i] = "moji" -> "e2" [] OTHER -> label[i]]
<1>1. DOMAIN g = DOMAIN label /\ g = [i \in DOMAIN g |-> g[i]]
  BY Zenon
<1>2. \A i \in DOMAIN label : label[i] \in Chars
  BY DEF Texts
<1>3. ASSUME NEW i \in DOMAIN label PROVE g[i] \in Chars
  <2>1. "e1" \in Chars /\ "e2" \in Chars /\ label[i] \in Chars
    BY <1>2, CharsAssumption
  <2>2. CASE label[i] = "uni"
    BY <2>1, <2>2
  <2>3. CASE label[i] # "uni" /\ label[i] = "moji"
    BY <2>1, <2>3
  <2>4. CASE label[i] # "uni" /\ label[i] # "moji"
    BY <2>1, <2>4
  <2> QED BY <2>2, <2>3, <2>4
<1>4. <<>> \in Texts /\ <<"xn--">> \in Texts
  BY OneElement, CharsAssumption DEF Texts
<1>5. ToASCII(label).label \in {<<>>, <<"xn--">> \o g, label}
  BY Zenon DEF ToASCII
<1> HIDE DEF g
<1>6. g \in Texts
  BY <1>1, <1>3, MapKeeps DEF Texts
<1>7. <<"xn--">> \o g \in Texts
  BY <1>4, <1>6 DEF Texts
<1> QED BY Zenon, <1>4, <1>5, <1>7

\* The labels of a text, as they are and sanitized, are a name.
LEMMA LabelsAreName ==
  ASSUME NEW value \in Texts
  PROVE  /\ Labels(value) \in DNSNames
         /\ sanitizeDNSName(value) \in DNSNames
         /\ sanitizeUnicodeDNSName(value) \in DNSNames
<1> DEFINE a == strip(strip(value, "both", " "), "end", ".")
           labels == Labels(value)
           g == sanitizeDNSName(value)
           h == sanitizeUnicodeDNSName(value)
<1>1. a \in Texts
  BY Zenon, StripIsText
<1> HIDE DEF a
<1>2. labels \in DNSNames
  BY Zenon, <1>1, ToLowerIsText, SplitGivesName DEF Labels, a
<1>3. UnparsableDNSLabelPlaceholder \in Texts
  BY OneElement, CharsAssumption DEF UnparsableDNSLabelPlaceholder, Texts
<1>4. DOMAIN g = DOMAIN labels /\ g = [i \in DOMAIN g |-> g[i]]
  BY Zenon DEF sanitizeDNSName
<1>5. DOMAIN h = DOMAIN labels /\ h = [i \in DOMAIN h |-> h[i]]
  BY Zenon DEF sanitizeUnicodeDNSName
<1>6. ASSUME NEW i \in DOMAIN labels PROVE g[i] \in Texts /\ h[i] \in Texts
  <2> HIDE DEF labels
  <2>1. labels[i] \in Texts
    BY <1>2 DEF DNSNames
  <2>2. ToASCII(labels[i]).label \in Texts
    BY Zenon, <2>1, ToASCIIIsText
  <2>3. g[i] \in {labels[i], UnparsableDNSLabelPlaceholder}
    BY Zenon DEF sanitizeDNSName, labels
  <2>4. h[i] \in {ToASCII(labels[i]).label, UnparsableDNSLabelPlaceholder}
    BY Zenon DEF sanitizeUnicodeDNSName, labels
  <2> QED BY <1>3, <2>1, <2>2, <2>3, <2>4
<1> HIDE DEF g, h, labels
<1>7. g \in DNSNames
  BY <1>2, <1>4, <1>6, MapKeeps DEF DNSNames
<1>8. h \in DNSNames
  BY <1>2, <1>5, <1>6, MapKeeps DEF DNSNames
<1> QED BY <1>2, <1>7, <1>8 DEF g, h, labels

\* A dNSName is decoded to texts.
LEMMA DecodingsAreTexts ==
  ASSUME NEW value \in Texts
  PROVE  Decodings(value) \subseteq Texts
<1>1. ASSUME NEW e8 \in Chars, NEW e1 \in Chars PROVE Decode(value, e8, e1) \in Texts
  <2> DEFINE g == Decode(value, e8, e1)
  <2>1. DOMAIN g = DOMAIN value /\ g = [i \in DOMAIN g |-> g[i]]
    BY Zenon DEF Decode
  <2>2. ASSUME NEW i \in DOMAIN value PROVE g[i] \in Chars
    <3>1. value[i] \in Chars
      BY DEF Texts
    <3>2. CASE value[i] = "uni8"
      BY <3>2 DEF Decode
    <3>3. CASE value[i] = "uni1" /\ value[i] # "uni8"
      BY <3>3 DEF Decode
    <3>4. CASE value[i] # "uni1" /\ value[i] # "uni8"
      BY <3>1, <3>4 DEF Decode
    <3> QED BY <3>2, <3>3, <3>4
  <2> HIDE DEF g
  <2>3. g \in Texts
    BY <2>1, <2>2, MapKeeps DEF Texts
  <2> QED BY <2>3 DEF g
<1>2. "uni" \in Chars /\ "moji" \in Chars
  BY CharsAssumption
<1> QED BY <1>1, <1>2 DEF Decodings

\* A text without http://.
LEMMA TrimIsText ==
  ASSUME NEW value \in Texts
  PROVE  trimHttpPrefix(value) \in Texts
<1>1. Len(value) \in 0..Len(value) /\ 4 \in Nat \ {0}
  BY DEF Texts
<1>2. SubSeq(value, 4, Len(value)) \in Texts
  BY <1>1, PartKeeps DEF Texts
<1> QED BY <1>2 DEF trimHttpPrefix

\* Every identifier is a name.
LEMMA AddedAreNames ==
  ASSUME NEW value \in Texts
  PROVE  AddCN(value) \subseteq DNSNames /\ AddDnsSAN(value) \subseteq DNSNames
<1>1. ASSUME NEW v \in Texts PROVE addDnsSANfinal(v) \subseteq DNSNames /\ addCNfinal(v) \subseteq DNSNames
  <2>1. \A d \in Decodings(v) : sanitizeUnicodeDNSName(d) \in DNSNames
    BY DecodingsAreTexts, LabelsAreName
  <2>2. sanitizeDNSName(v) \in DNSNames /\ sanitizeUnicodeDNSName(v) \in DNSNames
    BY LabelsAreName
  <2>3. addDnsSANfinal(v) \subseteq {sanitizeDNSName(v)} \cup {sanitizeUnicodeDNSName(d) : d \in Decodings(v)}
    BY Zenon DEF addDnsSANfinal, NonEmpty
  <2>4. addCNfinal(v) \subseteq {sanitizeUnicodeDNSName(v)}
    BY Zenon DEF addCNfinal, NonEmpty
  <2> QED BY <2>1, <2>2, <2>3, <2>4
<1>2. ASSUME NEW v \in Texts PROVE addDnsSANnonull(v) \subseteq DNSNames /\ addCNnonull(v) \subseteq DNSNames
  <2>1. HasChar(v, "/") => Before(v, "/") \in Texts
    BY BeforeIsText
  <2> QED BY <1>1, <2>1 DEF addDnsSANnonull, addCNnonull
<1> DEFINE v == trimHttpPrefix(value)
<1>3. v \in Texts
  BY TrimIsText
<1>4. HasChar(v, "NUL") => Before(v, "NUL") \in Texts
  BY <1>3, BeforeIsText
<1>5. /\ AddCN(value) = (IF HasChar(v, "NUL") THEN addCNnonull(Before(v, "NUL")) ELSE {}) \cup addCNnonull(v)
      /\ AddDnsSAN(value) = (IF HasChar(v, "NUL") THEN addDnsSANnonull(Before(v, "NUL")) ELSE {}) \cup addDnsSANnonull(v)
  BY DEF AddCN, AddDnsSAN
<1> HIDE DEF v
<1> QED BY <1>2, <1>3, <1>4, <1>5

\* The identifiers of a certificate are names.
LEMMA IdentifiersAreNames ==
  ASSUME NEW tbs, IsTBS(tbs)
  PROVE  ParseIdentifiers(tbs).names \subseteq DNSNames
<1> DEFINE cns == ParseCNs(tbs.subject).names
           sans == ParseSubjectAltNames(tbs).names
           named == {n \in sans : n.type = "dNSName"}
<1>1. cns \subseteq Texts
  <2>1. ASSUME NEW i \in DOMAIN tbs.subject, tbs.subject[i] # <<>> PROVE tbs.subject[i][1].value \in Texts
    <3> DEFINE q == tbs.subject[i]
    <3>1. q \in Seq(Attributes)
      BY DEF IsTBS
    <3>2. Len(q) # 0
      BY Zenon, <2>1, <3>1, EmptySequence
    <3> HIDE DEF q
    <3>3. q[1] \in Attributes
      BY <3>1, <3>2
    <3> QED BY <3>3 DEF q, Attributes, Texts
  <2> QED BY <2>1 DEF ParseCNs
<1>2. sans \subseteq GeneralNames
  BY DEF IsTBS, IsExtension, ParseSubjectAltNames, GetExtension, Range
<1>3. \A n \in named : n.value \in Texts
  BY <1>2 DEF GeneralNames, Texts
<1>4. ParseIdentifiers(tbs).names \subseteq UNION ({AddCN(cn) : cn \in cns} \cup {AddDnsSAN(san.value) : san \in named})
  BY Zenon DEF ParseIdentifiers
<1> HIDE DEF cns, named
<1> QED BY <1>1, <1>3, <1>4, AddedAreNames

\* An item of the watch list is a name and a flag.
LEMMA ItemIsTyped ==
  ASSUME NEW domain \in Texts
  PROVE  /\ ParseWatchItem(domain).domain \in DNSNames
         /\ ParseWatchItem(domain).acceptSuffix \in BOOLEAN
<1> DEFINE suffix == domain # <<>> /\ Head(domain) = "."
           rest == IF suffix THEN Tail(domain) ELSE domain
           labels == Split(ToLower(strip(rest, "end", ".")))
           g == [i \in DOMAIN labels |-> ToASCII(labels[i]).label]
           item == ParseWatchItem(domain)
<1>1. rest \in Texts
  <2>1. CASE suffix
    <3>1. Len(domain) # 0
      BY Zenon, <2>1, EmptySequence DEF Texts
    <3>2. Tail(domain) \in Texts
      BY <2>1, <3>1 DEF Texts
    <3> QED BY <2>1, <3>2
  <2>2. CASE ~suffix
    BY Zenon, <2>2
  <2> QED BY <2>1, <2>2
<1>2. item.domain \in {<<>>, g} /\ item.acceptSuffix \in {TRUE, suffix}
  BY Zenon DEF ParseWatchItem
<1>3. suffix \in BOOLEAN
  BY Zenon
<1> HIDE DEF suffix, rest, item
<1>4. labels \in DNSNames
  BY Zenon, <1>1, StripIsText, ToLowerIsText, SplitGivesName
<1> HIDE DEF labels
<1>5. \A i \in DOMAIN labels : labels[i] \in Texts
  BY <1>4 DEF DNSNames
<1>6. \A i \in DOMAIN labels : g[i] \in Texts
  BY <1>5, ToASCIIIsText
<1>7. DOMAIN g = DOMAIN labels /\ g = [i \in DOMAIN g |-> g[i]]
  BY Zenon
<1> HIDE DEF g
<1>8. g \in DNSNames
  BY <1>4, <1>6, <1>7, MapKeeps DEF DNSNames
<1>9. <<>> \in DNSNames
  BY DEF DNSNames
<1>10. item.domain \in DNSNames
  BY Zenon, <1>2, <1>8, <1>9
<1>11. item.acceptSuffix \in BOOLEAN
  BY Zenon, <1>2, <1>3
<1> QED BY <1>10, <1>11 DEF item

\* So is every item of the watch list that was read.
LEMMA WatchListIsTyped ==
  ASSUME NEW item \in watchList
  PROVE  item.domain \in DNSNames /\ item.acceptSuffix \in BOOLEAN
<1> DEFINE used == {l \in Range(WatchListLines) : l.kind = "item"}
<1>1. /\ watchList \subseteq {ParseWatchItem(l.fields[1]) : l \in used}
      /\ \A l \in used : l.fields # <<>>
  BY DEF watchList, ReadWatchList
<1>2. PICK l \in used : item = ParseWatchItem(l.fields[1])
  BY <1>1
<1>3. l.fields \in Seq(Texts) /\ l.fields # <<>>
  BY <1>1, EntryAssumption DEF Range, Texts
<1> DEFINE q == l.fields
<1>4. Len(q) # 0
  BY Zenon, <1>3, EmptySequence
<1> HIDE DEF q
<1>5. q[1] \in Texts
  BY <1>3, <1>4 DEF q
<1> QED BY <1>2, <1>5, ItemIsTyped DEF q

\* Label by label from the right, or from the left: the same labels are compared,
\* and each comparison is exact.
LEMMA MatchIsCover ==
  ASSUME NEW item, item.domain \in DNSNames, item.acceptSuffix \in BOOLEAN, NEW name \in DNSNames
  PROVE  matchesDNSName(item, name) <=> Covers(item, name)
<1> DEFINE n == Len(name)
           k == Len(item.domain)
           M(i, j) == dnsLabelMatches(name[i], item.domain[j])
<1>0. n \in Nat /\ k \in Nat
  BY DEF DNSNames
<1>1. ASSUME NEW i \in 1..n, NEW j \in 1..k PROVE M(i, j) <=> MayBe(name[i], item.domain[j])
  <2> DEFINE a == name[i]
             b == item.domain[j]
  <2>1. a \in Texts /\ b \in Texts
    BY DEF DNSNames
  <2> HIDE DEF a, b
  <2>2. MatchesWildcard(b, a) <=> CanBeFilled(a, b)
    BY Zenon, <2>1, WildcardIsExact DEF Texts
  <2>3. dnsLabelMatches(a, b) <=> MayBe(a, b)
    BY <2>2 DEF dnsLabelMatches, MayBe
  <2> QED BY <2>3 DEF a, b
<1>2. matchesDNSName(item, name) <=>
        k <= n /\ (\A i \in 0..(k - 1) : M(n - i, k - i)) /\ (item.acceptSuffix \/ n = k)
  BY DEF matchesDNSName
<1>3. Covers(item, name) <=>
        (k = n \/ (item.acceptSuffix /\ k < n)) /\ \A i \in 1..k : MayBe(name[n - k + i], item.domain[i])
  BY DEF Covers
<1> HIDE DEF n, k, M
<1>4. ASSUME k <= n
      PROVE  (\A i \in 0..(k - 1) : M(n - i, k - i)) <=> \A i \in 1..k : MayBe(name[n - k + i], item.domain[i])
  <2>1. ASSUME \A i \in 0..(k - 1) : M(n - i, k - i), NEW i \in 1..k
        PROVE  MayBe(name[n - k + i], item.domain[i])
    <3>1. k - i \in 0..(k - 1) /\ n - (k - i) = n - k + i /\ k - (k - i) = i /\ n - k + i \in 1..n
      BY <1>0, <1>4
    <3> QED BY <1>1, <2>1, <3>1
  <2>2. ASSUME \A i \in 1..k : MayBe(name[n - k + i], item.domain[i]), NEW i \in 0..(k - 1)
        PROVE  M(n - i, k - i)
    <3>1. k - i \in 1..k /\ n - k + (k - i) = n - i /\ n - i \in 1..n
      BY <1>0, <1>4
    <3>2. MayBe(name[n - i], item.domain[k - i])
      BY <2>2, <3>1
    <3> QED BY <1>1, <3>1, <3>2
  <2> QED BY <2>1, <2>2
<1>5. (k <= n /\ (item.acceptSuffix \/ n = k)) <=> (k = n \/ (item.acceptSuffix /\ k < n))
  BY <1>0
<1>6. k = n \/ (item.acceptSuffix /\ k < n) => k <= n
  BY <1>0
<1> QED BY <1>2, <1>3, <1>4, <1>5, <1>6

\* f is the recursive function in ReconstructPrecertTBS.
IsStripped(f, exts) ==
  f = [n \in 0..Len(exts) |->
         IF n = 0 THEN <<>> ELSE IF exts[n].id = "sct" THEN f[n - 1] ELSE Append(f[n - 1], exts[n])]

\* What is left without the SCTs is a TBSCertificate.
LEMMA ReconstructedIsTBS ==
  ASSUME NEW tbs, IsTBS(tbs)
  PROVE  IsTBS(ReconstructPrecertTBS(tbs))
<1> DEFINE exts == tbs.exts
           E == Range(exts)
           Q == Seq(E)
           m == Len(exts)
           Step(n, q) == IF exts[n].id = "sct" THEN q ELSE Append(q, exts[n])
           round == [p \in (1..m) \X Q |-> Step(p[1], p[2])]
           Body(f, n) == IF n = 0 THEN <<>> ELSE Step(n, f[n - 1])
<1>0. exts \in Seq(E) /\ m \in Nat /\ (\A n \in 1..m : exts[n] \in E) /\ \A e \in E : IsExtension(e)
  BY DEF IsTBS, Range
<1> HIDE DEF E, exts
<1>1. <<>> \in Q
  OBVIOUS
<1>2. ASSUME NEW n \in 1..m, NEW q \in Q PROVE Step(n, q) \in Q
  BY <1>0
<1>3. \A f : IsStripped(f, exts) <=> f = [n \in 0..m |-> Body(f, n)]
  BY Zenon DEF IsStripped
<1> HIDE DEF Step, Q, m
<1>4. \E f : IsStripped(f, exts)
  <2>1. round \in [(1..m) \X Q -> Q]
    BY <1>2
  <2>2. PICK g : Folds(g, round, Q, <<>>, m)
    <3> HIDE DEF round
    <3> QED BY Zenon, <1>0, <1>1, <2>1, FoldExists DEF IsRound
  <2>3. ASSUME NEW n \in 0..m PROVE g[n] = Body(g, n)
    <3>1. CASE n = 0
      BY <2>2, <3>1 DEF Folds
    <3>2. CASE n # 0
      <4>1. n \in 1..m /\ n - 1 \in 0..m
        BY <1>0, <3>2
      <4>2. <<n, g[n - 1]>> \in (1..m) \X Q
        BY <2>2, <4>1 DEF Folds
      <4>3. round[<<n, g[n - 1]>>] = Step(n, g[n - 1])
        BY <4>2
      <4> HIDE DEF round
      <4> QED BY <2>2, <3>2, <4>1, <4>3 DEF Folds
    <3> QED BY <3>1, <3>2
  <2>4. g = [n \in 0..m |-> g[n]]
    BY <2>2 DEF Folds
  <2> HIDE DEF Body, round
  <2>5. g = [n \in 0..m |-> Body(g, n)]
    BY <2>3, <2>4
  <2> QED BY <1>3, <2>5
<1>5. PICK f : IsStripped(f, exts) /\ ReconstructPrecertTBS(tbs) = [tbs EXCEPT !.exts = f[m]]
  <2> DEFINE g == CHOOSE f : IsStripped(f, exts)
  <2>1. ReconstructPrecertTBS(tbs) = [tbs EXCEPT !.exts = g[m]]
    BY DEF ReconstructPrecertTBS, IsStripped, m, exts
  <2>2. IsStripped(g, exts)
    BY <1>4
  <2> QED BY Zenon, <2>1, <2>2
<1>6. ASSUME NEW n \in 0..m PROVE f[n] = Body(f, n)
  <2> HIDE DEF Body
  <2> QED BY Zenon, <1>3, <1>5
<1> DEFINE S == {n \in 0..m : f[n] \in Q}
<1>7. 0 \in S
  BY <1>0, <1>1, <1>6
<1>8. ASSUME NEW n \in 1..m, n - 1 \in S PROVE n \in S
  BY <1>0, <1>2, <1>6, <1>8
<1>9. m \in S
  <2> HIDE DEF S
  <2>1. \A n \in 0..m : n \in S
    BY Zenon, <1>0, <1>7, <1>8, CountingUp
  <2> QED BY <1>0, <2>1
<1> DEFINE r == f[m]
<1>10. r \in Seq(E)
  BY <1>9 DEF Q
<1> HIDE DEF r
<1>11. r \in Seq(Range(r)) /\ \A i \in DOMAIN r : IsExtension(r[i])
  <2>1. \A i \in DOMAIN r : r[i] \in E
    BY <1>10
  <2>2. DOMAIN r = 1..Len(r) /\ Len(r) \in Nat /\ r = [i \in DOMAIN r |-> r[i]]
    BY <1>10
  <2>3. r \in [1..Len(r) -> Range(r)]
    BY <2>2 DEF Range
  <2> QED BY <1>0, <2>1, <2>2, <2>3
<1>12. ReconstructPrecertTBS(tbs) = [tbs EXCEPT !.exts = r]
  BY <1>5 DEF r
<1> DEFINE t == [tbs EXCEPT !.exts = r]
<1>13. DOMAIN t = DOMAIN tbs /\ t.exts = r /\ t.subject = tbs.subject
  BY DEF IsTBS
<1>14. IsTBS(t)
  <2> HIDE DEF t
  <2> QED BY <1>11, <1>13 DEF IsTBS
<1> QED BY <1>12, <1>14

-----------------------------------------------------------------------------
(* ValidatePrecert. *)

\* Those of the first n extensions that are not poison.
Kept(exts, n) == {i \in 1..n : exts[i].id # "poison"}

\* How many extensions are kept of the first n.
LEMMA KeptCounts ==
  ASSUME NEW exts
  PROVE  /\ Cardinality(Kept(exts, 0)) = 0
         /\ \A n \in Nat : Cardinality(Kept(exts, n)) \in Nat
         /\ \A n \in Nat \ {0} : Cardinality(Kept(exts, n)) =
              Cardinality(Kept(exts, n - 1)) + (IF exts[n].id = "poison" THEN 0 ELSE 1)
         /\ \A n \in Nat : \A i \in 1..n : Cardinality(Kept(exts, i)) <= Cardinality(Kept(exts, n))
<1>1. ASSUME NEW n \in Nat PROVE IsFiniteSet(Kept(exts, n)) /\ Cardinality(Kept(exts, n)) \in Nat
  <2>1. Kept(exts, n) \subseteq 1..n /\ IsFiniteSet(1..n)
    BY FS_Interval DEF Kept
  <2>2. IsFiniteSet(Kept(exts, n))
    BY <2>1, FS_Subset
  <2> QED BY <2>2, FS_CardinalityType
<1>2. Kept(exts, 0) = {}
  BY DEF Kept
<1>3. ASSUME NEW n \in Nat \ {0}
      PROVE  Cardinality(Kept(exts, n)) = Cardinality(Kept(exts, n - 1)) + (IF exts[n].id = "poison" THEN 0 ELSE 1)
  <2>1. CASE exts[n].id = "poison"
    <3>1. Kept(exts, n) = Kept(exts, n - 1)
      BY <2>1 DEF Kept
    <3> QED BY <1>1, <2>1, <3>1
  <2>2. CASE exts[n].id # "poison"
    <3>1. Kept(exts, n) = Kept(exts, n - 1) \cup {n} /\ n \notin Kept(exts, n - 1)
      BY <2>2 DEF Kept
    <3>2. IsFiniteSet(Kept(exts, n - 1)) /\ Cardinality(Kept(exts, n - 1)) \in Nat
      BY <1>1
    <3>3. Cardinality(Kept(exts, n - 1) \cup {n}) = Cardinality(Kept(exts, n - 1)) + 1
      BY <3>1, <3>2, FS_AddElement
    <3> QED BY <2>2, <3>1, <3>3
  <2> QED BY <2>1, <2>2
<1>4. ASSUME NEW n \in Nat, NEW i \in 1..n PROVE Cardinality(Kept(exts, i)) <= Cardinality(Kept(exts, n))
  <2>1. Kept(exts, i) \subseteq Kept(exts, n)
    BY DEF Kept
  <2> QED BY <1>1, <2>1, FS_Subset
<1> QED BY <1>1, <1>2, <1>3, <1>4, FS_EmptySet

LoopStates == [index : Nat, poison : BOOLEAN, err : BOOLEAN]

\* Extension e is what extension t should be; sameIssuer as in ExtensionStep.
SameExtension(e, t, sameIssuer) ==
  /\ e.id = t.id /\ e.critical = t.critical
  /\ e.value = t.value \/ (e.id = "aki" /\ ~sameIssuer)

\* What a round of the loop does to its state.
RoundEffect(s, t, e, texts, sameIssuer) ==
  /\ t \in LoopStates
  /\ s.err => t.err
  /\ ~s.err /\ e.id = "poison" => t.poison /\ (t.err <=> ~e.critical) /\ t.index = s.index
  /\ ~s.err /\ e.id # "poison" =>
       /\ t.index = s.index + 1 /\ t.poison = s.poison
       /\ t.err <=> ~(s.index <= Len(texts) /\ SameExtension(e, texts[s.index], sameIssuer))

\* A round does this.
LEMMA ExtensionRound ==
  ASSUME NEW s \in LoopStates, NEW e, e.critical \in BOOLEAN, NEW texts, Len(texts) \in Nat, NEW sameIssuer \in BOOLEAN
  PROVE  RoundEffect(s, ExtensionStep(s, e, texts, sameIssuer), e, texts, sameIssuer)
<1> USE DEF RoundEffect
<1> DEFINE t == ExtensionStep(s, e, texts, sameIssuer)
           u == texts[s.index]
           bad == \/ s.index > Len(texts)
                  \/ e.id # u.id \/ e.critical # u.critical
                  \/ (sameIssuer \/ e.id # "aki") /\ e.value # u.value
<1>1. CASE s.err
  BY <1>1 DEF ExtensionStep
<1>2. CASE ~s.err /\ e.id = "poison"
  <2>1. t = [s EXCEPT !.poison = TRUE, !.err = ~e.critical]
    BY <1>2 DEF ExtensionStep
  <2> HIDE DEF t
  <2> QED BY Zenon, <1>2, <2>1 DEF LoopStates, t
<1>3. CASE ~s.err /\ e.id # "poison"
  <2>1. t = [s EXCEPT !.index = s.index + 1, !.err = bad] /\ s.index + 1 \in Nat
    BY <1>3 DEF ExtensionStep, LoopStates
  <2>2. bad \in BOOLEAN
    BY Zenon
  <2>3. bad <=> ~(s.index <= Len(texts) /\ SameExtension(e, u, sameIssuer))
    BY DEF SameExtension, LoopStates
  <2> HIDE DEF t, bad
  <2>4. t \in LoopStates /\ t.index = s.index + 1 /\ t.poison = s.poison /\ (t.err <=> bad)
    <3>1. PICK k \in Nat, b \in BOOLEAN : k = s.index + 1 /\ b = bad /\ t = [s EXCEPT !.index = k, !.err = b]
      BY Zenon, <2>1, <2>2
    <3>2. t \in LoopStates /\ t.index = k /\ t.poison = s.poison /\ t.err = b
      BY Zenon, <3>1 DEF LoopStates
    <3> QED BY Zenon, <3>1, <3>2
  <2> QED BY <1>3, <2>3, <2>4 DEF t
<1> QED BY <1>1, <1>2, <1>3

\* f is the recursive function in ExtensionLoop.
IsLoop(f, exts, tbs, sameIssuer) ==
  f = [n \in 0..Len(exts) |->
         IF n = 0 THEN [index |-> 1, poison |-> FALSE, err |-> FALSE]
         ELSE ExtensionStep(f[n - 1], exts[n], tbs.exts, sameIssuer)]

\* The rounds of the loop.
LEMMA LoopRounds ==
  ASSUME NEW exts, exts \in Seq(Range(exts)), \A i \in DOMAIN exts : IsExtension(exts[i]),
         NEW tbs, IsTBS(tbs), NEW sameIssuer \in BOOLEAN
  PROVE  LET f == ExtensionLoop(exts, tbs, sameIssuer) IN
         /\ f[0] = [index |-> 1, poison |-> FALSE, err |-> FALSE]
         /\ \A n \in 1..Len(exts) : f[n] = ExtensionStep(f[n - 1], exts[n], tbs.exts, sameIssuer)
<1> DEFINE m == Len(exts)
           Q == LoopStates
           start == [index |-> 1, poison |-> FALSE, err |-> FALSE]
           Step(n, s) == ExtensionStep(s, exts[n], tbs.exts, sameIssuer)
           round == [p \in (1..m) \X Q |-> Step(p[1], p[2])]
           Body(f, n) == IF n = 0 THEN start ELSE Step(n, f[n - 1])
<1>0. m \in Nat /\ Len(tbs.exts) \in Nat /\ \A n \in 1..m : exts[n].critical \in BOOLEAN
  BY DEF IsTBS, IsExtension
<1>1. start \in Q
  BY DEF LoopStates
<1>2. ASSUME NEW n \in 1..m, NEW s \in Q PROVE Step(n, s) \in Q
  <2>1. RoundEffect(s, Step(n, s), exts[n], tbs.exts, sameIssuer)
    BY <1>0, ExtensionRound
  <2> HIDE DEF Step
  <2> QED BY <2>1 DEF RoundEffect
<1>3. \A f : IsLoop(f, exts, tbs, sameIssuer) <=> f = [n \in 0..m |-> Body(f, n)]
  BY Zenon DEF IsLoop
<1> HIDE DEF Step, Q, m, start
<1>4. \E f : IsLoop(f, exts, tbs, sameIssuer)
  <2>1. round \in [(1..m) \X Q -> Q]
    BY <1>2
  <2>2. PICK g : Folds(g, round, Q, start, m)
    <3> HIDE DEF round
    <3> QED BY Zenon, <1>0, <1>1, <2>1, FoldExists DEF IsRound
  <2>3. ASSUME NEW n \in 0..m PROVE g[n] = Body(g, n)
    <3>1. CASE n = 0
      BY <2>2, <3>1 DEF Folds
    <3>2. CASE n # 0
      <4>1. n \in 1..m /\ n - 1 \in 0..m
        BY <1>0, <3>2
      <4>2. <<n, g[n - 1]>> \in (1..m) \X Q
        BY <2>2, <4>1 DEF Folds
      <4>3. round[<<n, g[n - 1]>>] = Step(n, g[n - 1])
        BY <4>2
      <4> HIDE DEF round
      <4> QED BY <2>2, <3>2, <4>1, <4>3 DEF Folds
    <3> QED BY <3>1, <3>2
  <2>4. g = [n \in 0..m |-> g[n]]
    BY <2>2 DEF Folds
  <2> HIDE DEF Body, round
  <2>5. g = [n \in 0..m |-> Body(g, n)]
    BY <2>3, <2>4
  <2> QED BY <1>3, <2>5
<1> DEFINE f == ExtensionLoop(exts, tbs, sameIssuer)
<1>5. IsLoop(f, exts, tbs, sameIssuer)
  <2> DEFINE g == CHOOSE h : IsLoop(h, exts, tbs, sameIssuer)
  <2>1. f = g
    BY DEF ExtensionLoop, IsLoop
  <2>2. IsLoop(g, exts, tbs, sameIssuer)
    BY <1>4
  <2> QED BY <2>1, <2>2
<1> HIDE DEF f
<1>6. ASSUME NEW n \in 0..m PROVE f[n] = Body(f, n)
  <2> HIDE DEF Body
  <2> QED BY ZenonT(20), <1>3, <1>5
<1>7. f[0] = start
  BY <1>0, <1>6
<1>8. ASSUME NEW n \in 1..m PROVE f[n] = Step(n, f[n - 1])
  BY <1>0, <1>6
<1> QED BY <1>7, <1>8 DEF f, start, Step, m

\* The extension at i is as it should be.
IsOK(exts, texts, sameIssuer, i) ==
  IF exts[i].id = "poison" THEN exts[i].critical
  ELSE LET k == Cardinality(Kept(exts, i)) IN k <= Len(texts) /\ SameExtension(exts[i], texts[k], sameIssuer)

\* The loop finds out whether all extensions are as they should be, and how many
\* of them there are.
LEMMA LoopIsExact ==
  ASSUME NEW exts, exts \in Seq(Range(exts)), \A i \in DOMAIN exts : IsExtension(exts[i]),
         NEW tbs, IsTBS(tbs), NEW sameIssuer \in BOOLEAN
  PROVE  LET end == ExtensionLoop(exts, tbs, sameIssuer)[Len(exts)] IN
         /\ end \in LoopStates
         /\ ~end.err <=> \A i \in 1..Len(exts) : IsOK(exts, tbs.exts, sameIssuer, i)
         /\ ~end.err => /\ end.index = 1 + Cardinality(Kept(exts, Len(exts)))
                        /\ end.poison <=> \E i \in 1..Len(exts) : exts[i].id = "poison"
<1> DEFINE m == Len(exts)
           f == ExtensionLoop(exts, tbs, sameIssuer)
           K(n) == Cardinality(Kept(exts, n))
           OK(i) == IsOK(exts, tbs.exts, sameIssuer, i)
           Poison(i) == exts[i].id = "poison"
           Good(n) == /\ f[n] \in LoopStates
                      /\ ~f[n].err <=> \A i \in 1..n : OK(i)
                      /\ ~f[n].err => f[n].index = 1 + K(n) /\ (f[n].poison <=> \E i \in 1..n : Poison(i))
           S == {n \in 0..m : Good(n)}
<1>0. m \in Nat /\ Len(tbs.exts) \in Nat /\ \A n \in 1..m : exts[n].critical \in BOOLEAN
  BY DEF IsTBS, IsExtension
<1>1. /\ f[0] = [index |-> 1, poison |-> FALSE, err |-> FALSE]
      /\ \A n \in 1..m : f[n] = ExtensionStep(f[n - 1], exts[n], tbs.exts, sameIssuer)
  BY LoopRounds
<1>2. /\ K(0) = 0 /\ \A n \in Nat : K(n) \in Nat
      /\ \A n \in Nat \ {0} : K(n) = K(n - 1) + (IF Poison(n) THEN 0 ELSE 1)
  BY Zenon, KeptCounts
<1>3. \A i : OK(i) <=> IF Poison(i) THEN exts[i].critical
                       ELSE K(i) <= Len(tbs.exts) /\ SameExtension(exts[i], tbs.exts[K(i)], sameIssuer)
  BY Zenon DEF IsOK
<1> HIDE DEF f, m, K, OK
<1>4. 0 \in S
  <2> DEFINE s == f[0]
  <2>1. s \in LoopStates /\ ~s.err /\ s.index = 1 + K(0) /\ ~s.poison
    BY <1>1, <1>2 DEF LoopStates
  <2>2. 1..0 = {} /\ 0 \in 0..m
    BY <1>0
  <2> HIDE DEF s
  <2> QED BY <2>1, <2>2 DEF s
<1>5. ASSUME NEW n \in 1..m, n - 1 \in S PROVE n \in S
  <2> DEFINE s == f[n - 1]
             e == exts[n]
             u == f[n]
  <2>0. /\ n \in Nat \ {0} /\ n \in 0..m /\ n \in 1..n
        /\ \A i \in 1..n : i = n \/ i \in 1..(n - 1)
        /\ \A i \in 1..(n - 1) : i \in 1..n
    BY <1>0
  <2>1. /\ s \in LoopStates
        /\ ~s.err <=> \A i \in 1..(n - 1) : OK(i)
        /\ ~s.err => s.index = 1 + K(n - 1) /\ (s.poison <=> \E i \in 1..(n - 1) : Poison(i))
    BY SMTT(20), <1>5
  <2>2. /\ u \in LoopStates
        /\ s.err => u.err
        /\ ~s.err /\ Poison(n) => u.poison /\ (u.err <=> ~e.critical) /\ u.index = s.index
        /\ ~s.err /\ ~Poison(n) =>
             /\ u.index = s.index + 1 /\ u.poison = s.poison
             /\ u.err <=> ~(s.index <= Len(tbs.exts) /\ SameExtension(e, tbs.exts[s.index], sameIssuer))
    <3>1. u = ExtensionStep(s, e, tbs.exts, sameIssuer) /\ e.critical \in BOOLEAN
      BY SMTT(20), <1>0, <1>1
    <3> HIDE DEF s, u, e
    <3>2. RoundEffect(s, u, e, tbs.exts, sameIssuer)
      BY <1>0, <2>1, <3>1, ExtensionRound
    <3> QED BY <3>2 DEF RoundEffect, e
  <2> HIDE DEF s, u, Poison
  <2>3. (\A i \in 1..n : OK(i)) <=> (\A i \in 1..(n - 1) : OK(i)) /\ OK(n)
    BY <2>0
  <2>4. (\E i \in 1..n : Poison(i)) <=> (\E i \in 1..(n - 1) : Poison(i)) \/ Poison(n)
    BY <2>0
  <2>5. CASE s.err
    BY SMTT(20), <2>0, <2>1, <2>2, <2>3, <2>5 DEF u
  <2>6. CASE ~s.err /\ Poison(n)
    <3>1. OK(n) <=> e.critical
      BY <1>3, <2>6
    <3>2. K(n) = K(n - 1)
      BY SMTT(20), <1>2, <2>0, <2>6
    <3> QED BY SMTT(20), <2>0, <2>1, <2>2, <2>3, <2>4, <2>6, <3>1, <3>2 DEF u
  <2>7. CASE ~s.err /\ ~Poison(n)
    <3>1. K(n) = K(n - 1) + 1 /\ K(n - 1) \in Nat
      BY <1>2, <2>0, <2>7
    <3>2. s.index = K(n)
      BY <2>1, <2>7, <3>1
    <3>3. OK(n) <=> ~u.err
      BY SMTT(20), <1>3, <2>2, <2>7, <3>2
    <3>4. u.index = 1 + K(n)
      BY <2>2, <2>7, <3>1, <3>2
    <3> QED BY <2>0, <2>1, <2>2, <2>3, <2>4, <2>7, <3>3, <3>4 DEF u
  <2> QED BY <2>5, <2>6, <2>7
<1>6. m \in S
  <2> HIDE DEF S
  <2>1. \A n \in 0..m : n \in S
    BY ZenonT(20), <1>0, <1>4, <1>5, CountingUp
  <2> QED BY <1>0, <2>1
<1>7. Good(m)
  BY <1>6
<1> QED BY <1>7 DEF f, m, K, OK

\* ValidatePrecert accepts exactly the precertificates that correspond to the TBSCertificate.
LEMMA ValidateIsExact ==
  ASSUME NEW precert, IsTBS(precert.tbs), NEW tbs, IsTBS(tbs)
  PROVE  ValidatePrecert(precert, tbs) <=>
           ~precert.broken /\ ~precert.tbs.broken /\ Corresponds(precert.tbs, tbs)
<1> DEFINE exts == precert.tbs.exts
           texts == tbs.exts
           m == Len(exts)
           same == precert.tbs.issuer = tbs.issuer
           end == ExtensionLoop(exts, tbs, same)[m]
           K(n) == Cardinality(Kept(exts, n))
           Poison(i) == exts[i].id = "poison"
           OK(i) == IsOK(exts, texts, same, i)
<1>0. /\ m \in Nat /\ Len(texts) \in Nat /\ same \in BOOLEAN /\ DOMAIN exts = 1..m
      /\ exts \in Seq(Range(exts)) /\ \A i \in DOMAIN exts : IsExtension(exts[i])
  BY DEF IsTBS
<1>1. /\ end \in LoopStates
      /\ ~end.err <=> \A i \in 1..m : OK(i)
      /\ ~end.err => end.index = 1 + K(m) /\ (end.poison <=> \E i \in 1..m : Poison(i))
  <2> HIDE DEF exts, same
  <2> QED BY <1>0, LoopIsExact
<1>2. /\ K(m) \in Nat
      /\ \A i \in 1..m : K(i) \in Nat /\ K(i) <= K(m)
  <2>1. m \in Nat /\ \A i \in 1..m : i \in Nat
    BY <1>0
  <2> HIDE DEF exts, m
  <2> QED BY Zenon, <2>1, KeptCounts
<1>3. \A i : OK(i) <=> IF Poison(i) THEN exts[i].critical
                       ELSE K(i) <= Len(texts) /\ SameExtension(exts[i], texts[K(i)], same)
  BY Zenon DEF IsOK
<1>4. ValidatePrecert(precert, tbs) <=>
        /\ ~precert.broken /\ ~precert.tbs.broken
        /\ precert.tbs.fields = tbs.fields /\ precert.tbs.subject = tbs.subject
        /\ ~end.err /\ end.index = Len(texts) + 1 /\ end.poison
  BY Zenon DEF ValidatePrecert
<1>5. Corresponds(precert.tbs, tbs) <=>
        /\ precert.tbs.fields = tbs.fields /\ precert.tbs.subject = tbs.subject
        /\ \E i \in DOMAIN exts : Poison(i)
        /\ \A i \in DOMAIN exts : Poison(i) => exts[i].critical
        /\ K(m) = Len(texts)
        /\ \A i \in Kept(exts, m) : SameExtension(exts[i], texts[K(i)], same)
  BY Zenon DEF Corresponds, Kept, SameExtension
<1>6. Kept(exts, m) = {i \in 1..m : ~Poison(i)}
  BY DEF Kept
<1> HIDE DEF exts, texts, m, same, end, K, Poison, OK
<1>7. ~end.err /\ end.index = Len(texts) + 1 /\ end.poison <=>
        (\A i \in 1..m : OK(i)) /\ K(m) = Len(texts) /\ \E i \in 1..m : Poison(i)
  <2>1. ~end.err => (end.index = Len(texts) + 1 <=> K(m) = Len(texts))
    BY <1>0, <1>1, <1>2
  <2> QED BY <1>1, <2>1
<1>8. K(m) = Len(texts) =>
        ((\A i \in 1..m : OK(i)) <=>
           /\ \A i \in 1..m : Poison(i) => exts[i].critical
           /\ \A i \in Kept(exts, m) : SameExtension(exts[i], texts[K(i)], same))
  BY <1>2, <1>3, <1>6
<1> QED BY <1>0, <1>4, <1>5, <1>7, <1>8

-----------------------------------------------------------------------------
(* processLogEntry. *)

\* What is known at each point of processLogEntry.
EntryInv ==
  /\ \E i \in DOMAIN Cases : entry \in Cases[i]
  /\ pc \in {"x509 chain", "precert chain", "validate", "identifiers"} => IsTBS(certInfo)
  /\ pc \in {"leaf", "x509", "x509 chain", "precert", "precert chain"} => chain.err # "nil"
  /\ pc \in {"x509", "x509 chain"} => leaf.value.entryType = X509LogEntryType
  /\ pc # "done" => outcome = "none"
  /\ identifiers \subseteq DNSNames

\* Certificates and TBSCertificates that can be decoded are what EntryAssumption says.
LEMMA DecodedIsTBS ==
  ASSUME EntryInv, NEW b
  PROVE  /\ ParseCertificate(b).tbs.broken \/ IsTBS(ParseCertificate(b).tbs)
         /\ ParseTBSCertificate(b).broken \/ IsTBS(ParseTBSCertificate(b))
<1>1. PICK i \in DOMAIN Cases : entry \in Cases[i]
  BY DEF EntryInv
<1>2. /\ \A x \in DOMAIN entry.certs : entry.certs[x].tbs.broken \/ IsTBS(entry.certs[x].tbs)
      /\ \A x \in DOMAIN entry.tbs : entry.tbs[x].broken \/ IsTBS(entry.tbs[x])
  BY <1>1, EntryAssumption
<1>3. NoTBS.broken /\ [broken |-> TRUE, tbs |-> NoTBS].tbs = NoTBS
  BY DEF NoTBS
<1> QED BY <1>2, <1>3 DEF ParseCertificate, ParseTBSCertificate

\* EntryInv holds initially.
LEMMA EntryInvInit == EntryInit => EntryInv
  BY DEF EntryInit, EntryInv, Failed

\* Every step of processLogEntry keeps EntryInv.
LEMMA EntryInvKept == EntryInv /\ [EntryNext]_entryVars => EntryInv'
<1> SUFFICES ASSUME EntryInv, [EntryNext]_entryVars PROVE EntryInv'
  OBVIOUS
<1>1. CASE ReadLeaf
  BY <1>1 DEF ReadLeaf, GoTo, EntryInv
<1>2. CASE ParseX509
  <2>1. certInfo'.broken \/ IsTBS(certInfo')
    BY <1>2, DecodedIsTBS DEF ParseX509
  <2>2. pc' = "malformed" \/ (pc' = "x509 chain" /\ ~certInfo'.broken)
    BY <1>2 DEF ParseX509, GoTo
  <2> QED BY <1>2, <2>1, <2>2 DEF ParseX509, GoTo, EntryInv
<1>3. CASE ParseX509Chain
  <2>1. IsTBS(ReconstructPrecertTBS(certInfo))
    BY <1>3, ReconstructedIsTBS DEF ParseX509Chain, EntryInv
  <2>2. pc' \in {"malformed", "identifiers"} /\ (pc' = "identifiers" => certInfo' = ReconstructPrecertTBS(certInfo))
    BY <1>3 DEF ParseX509Chain, GoTo
  <2> QED BY <1>3, <2>1, <2>2 DEF ParseX509Chain, GoTo, EntryInv
<1>4. CASE ParsePrecertTBS
  <2>1. certInfo'.broken \/ IsTBS(certInfo')
    BY <1>4, DecodedIsTBS DEF ParsePrecertTBS
  <2> QED BY <1>4, <2>1 DEF ParsePrecertTBS, GoTo, EntryInv
<1>5. CASE ParsePrecertChain
  BY <1>5 DEF ParsePrecertChain, GoTo, EntryInv
<1>6. CASE Validate
  BY <1>6 DEF Validate, GoTo, EntryInv
<1>7. CASE Identify
  <2>1. identifiers' \subseteq DNSNames
    BY <1>7, IdentifiersAreNames DEF Identify, EntryInv
  <2> QED BY <1>7, <2>1 DEF Identify, GoTo, EntryInv
<1>8. ASSUME NEW o, Return(o) PROVE EntryInv'
  BY <1>8 DEF Return, EntryInv
<1>9. CASE Returned \/ UNCHANGED entryVars
  BY <1>9 DEF Returned, entryVars, EntryInv
<1> QED BY <1>1, <1>2, <1>3, <1>4, <1>5, <1>6, <1>7, <1>8, <1>9
        DEF EntryNext, NoMatch, NotifyCert, processMalformedLogEntry

\* EntryInv is an invariant.
LEMMA AlwaysEntryInv == EntrySpec => []EntryInv
  BY EntryInvInit, EntryInvKept, PTL DEF EntrySpec

\* Whatever is in a log and on the watch list, a certificate is reported exactly if
\* one of its identifiers may stand for a watched domain (Matches, process.go:86-94).
THEOREM ReportsAreExact == EntrySpec => []MatchIsExact
<1>1. EntryInit => MatchIsExact
  BY DEF EntryInit, MatchIsExact
<1>2. ASSUME EntryInv, MatchIsExact, [EntryNext]_entryVars PROVE MatchIsExact'
  <2>1. Matches(watchList, identifiers) <=> \E item \in watchList, name \in identifiers : Covers(item, name)
    <3>1. \A item \in watchList, name \in identifiers : matchesDNSName(item, name) <=> Covers(item, name)
      BY <1>2, WatchListIsTyped, MatchIsCover DEF EntryInv
    <3> QED BY <3>1 DEF Matches
  <2> DEFINE Exact == \E item \in watchList, name \in identifiers : Covers(item, name)
  <2>2. CASE NoMatch
    <3>1. identifiers' = identifiers /\ outcome' = "ignored" /\ ~Exact
      BY <2>1, <2>2 DEF NoMatch, Return
    <3> QED BY <3>1 DEF MatchIsExact
  <2>3. CASE NotifyCert
    <3>1. identifiers' = identifiers /\ outcome' \in {"notified", "failed"} /\ Exact
      BY <2>1, <2>3 DEF NotifyCert, Return
    <3> QED BY <3>1 DEF MatchIsExact
  <2>4. CASE processMalformedLogEntry
    BY <2>4 DEF processMalformedLogEntry, Return, MatchIsExact
  <2>5. CASE Returned \/ UNCHANGED entryVars
    <3>1. identifiers' = identifiers /\ outcome' = outcome /\ pc' = pc
      BY <2>5 DEF Returned, entryVars
    <3> QED BY <1>2, <3>1 DEF MatchIsExact
  <2>6. CASE ReadLeaf \/ ParseX509 \/ ParseX509Chain \/ ParsePrecertTBS \/ ParsePrecertChain \/ Validate \/ Identify
    <3>1. outcome' = "none"
      BY ZenonT(20), <1>2, <2>6 DEF ReadLeaf, ParseX509, ParseX509Chain, ParsePrecertTBS, ParsePrecertChain, Validate, Identify,
                        GoTo, EntryInv
    <3> QED BY <3>1 DEF MatchIsExact
  <2> QED BY <1>2, <2>2, <2>3, <2>4, <2>5, <2>6 DEF EntryNext
<1> QED BY <1>1, <1>2, AlwaysEntryInv, PTL DEF EntrySpec

\* Whatever is in a log, a precertificate entry gets through exactly if the
\* precertificate corresponds to the TBSCertificate (ValidatePrecert).
THEOREM PrecertsAreChecked == EntrySpec => []PrecertMatchesItsTBS
<1>1. EntryInit => PrecertMatchesItsTBS
  BY DEF EntryInit, PrecertMatchesItsTBS, Failed
<1>2. ASSUME EntryInv, PrecertMatchesItsTBS, [EntryNext]_entryVars PROVE PrecertMatchesItsTBS'
  <2> DEFINE precert == ParseCertificate(chain.value[1])
             M == ~precert.broken /\ ~precert.tbs.broken /\ Corresponds(precert.tbs, certInfo)
             Good == /\ pc \in {"identifiers", "match"} \/ outcome \in {"ignored", "notified"} => M
                     /\ pc = "malformed" \/ outcome = "malformed" => ~M \/ ParseIdentifiers(certInfo).err
             Read == chain.err = "nil" /\ leaf.value.entryType = PrecertLogEntryType
  <2>0. PrecertMatchesItsTBS <=> (Read => Good)
    BY DEF PrecertMatchesItsTBS
  <2>1. PrecertMatchesItsTBS' <=> (Read' => Good')
    BY DEF PrecertMatchesItsTBS
  <2>2. CASE ReadLeaf \/ ParseX509 \/ ParseX509Chain \/ ParsePrecertTBS
    <3>1. ~Read'
      <4>1. CASE ReadLeaf \/ ParseX509 \/ ParsePrecertTBS
        <5>1. chain' = chain /\ chain.err # "nil"
          BY <1>2, <4>1 DEF ReadLeaf, ParseX509, ParsePrecertTBS, EntryInv
        <5> QED BY <5>1
      <4>2. CASE ParseX509Chain
        <5>1. leaf' = leaf /\ leaf.value.entryType = X509LogEntryType
          BY <1>2, <4>2 DEF ParseX509Chain, EntryInv
        <5>2. leaf'.value.entryType = X509LogEntryType
          BY <5>1
        <5>3. X509LogEntryType # PrecertLogEntryType
          BY DEF X509LogEntryType, PrecertLogEntryType
        <5> QED BY <5>2, <5>3
      <4> QED BY <2>2, <4>1, <4>2
    <3> QED BY <2>1, <3>1
  <2>3. CASE ParsePrecertChain
    <3>1. outcome' = "none" /\ (Read' => pc' = "validate")
      BY <1>2, <2>3 DEF ParsePrecertChain, GoTo, EntryInv
    <3> QED BY <2>1, <3>1
  <2>4. CASE ~(ReadLeaf \/ ParseX509 \/ ParseX509Chain \/ ParsePrecertTBS \/ ParsePrecertChain)
    <3>1. entry' = entry /\ leaf' = leaf /\ chain' = chain /\ certInfo' = certInfo
      BY SMTT(20), <1>2, <2>4 DEF EntryNext, Validate, Identify, NoMatch, NotifyCert, processMalformedLogEntry, Returned, Return,
                        GoTo, entryVars
    <3>2. (M' <=> M) /\ (Read' <=> Read) /\ (ParseIdentifiers(certInfo)'.err <=> ParseIdentifiers(certInfo).err)
      BY <3>1 DEF ParseCertificate
    <3> HIDE DEF M, Read
    <3>3. CASE Validate
      <4>1. outcome' = "none" /\ pc' = IF ValidatePrecert(precert, certInfo) THEN "identifiers" ELSE "malformed"
        BY <1>2, <3>3 DEF Validate, GoTo, EntryInv
      <4>2. ValidatePrecert(precert, certInfo) <=> M
        <5>1. CASE precert.tbs.broken
          BY Zenon, <5>1 DEF ValidatePrecert, M
        <5>2. CASE IsTBS(precert.tbs)
          <6> HIDE DEF precert
          <6>1. IsTBS(certInfo)
            BY <1>2, <3>3 DEF Validate, EntryInv
          <6> QED BY <5>2, <6>1, ValidateIsExact DEF M
        <5> QED BY <1>2, <5>1, <5>2, DecodedIsTBS
      <4> QED BY <2>1, <3>2, <4>1, <4>2
    <3>4. CASE Identify
      <4>1. outcome' = "none" /\ pc = "identifiers" /\ outcome = "none"
            /\ pc' = IF ParseIdentifiers(certInfo).err THEN "malformed" ELSE "match"
        BY <1>2, <3>4 DEF Identify, GoTo, EntryInv
      <4> QED BY SMTT(20), <1>2, <2>0, <2>1, <3>2, <4>1
    <3>5. CASE NoMatch \/ NotifyCert
      <4>1. pc = "match" /\ pc' = "done" /\ outcome' \in {"ignored", "notified", "failed"}
        BY <3>5 DEF NoMatch, NotifyCert, Return
      <4> QED BY <1>2, <2>0, <2>1, <3>2, <4>1
    <3>6. CASE processMalformedLogEntry
      <4>1. pc = "malformed" /\ pc' = "done" /\ outcome' \in {"malformed", "failed"}
        BY <3>6 DEF processMalformedLogEntry, Return
      <4> QED BY <1>2, <2>0, <2>1, <3>2, <4>1
    <3>7. CASE Returned \/ UNCHANGED entryVars
      <4>1. pc' = pc /\ outcome' = outcome
        BY <3>7 DEF Returned, entryVars
      <4> QED BY <1>2, <2>0, <2>1, <3>2, <4>1
    <3> QED BY SMTT(20), <1>2, <2>4, <3>3, <3>4, <3>5, <3>6, <3>7 DEF EntryNext
  <2> QED BY SMTT(20), <2>2, <2>3, <2>4
<1> QED BY <1>1, <1>2, AlwaysEntryInv, PTL DEF EntrySpec
=============================================================================
