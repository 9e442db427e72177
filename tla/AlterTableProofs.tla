-------------------------- MODULE AlterTableProofs --------------------------
(***************************************************************************)
(* Theorems about AlterTable, for any number of admins, any columns, edits *)
(* and alterations.                                                        *)
(***************************************************************************)
EXTENDS AlterTable, FiniteSetTheorems, SequenceTheorems, WellFoundedInduction, TLAPS

-----------------------------------------------------------------------------
(* Numbers in order.                                                       *)

LEMMA LeastOf ==
  ASSUME NEW S \in SUBSET Nat, S # {}
  PROVE  \E x \in S : \A y \in S : x <= y
<1>1. IsWellFoundedOn(OpToRel(<, Nat), Nat)
  BY NatLessThanWellFounded
<1>2. PICK x \in S : \A y \in S : ~ (<<y, x>> \in OpToRel(<, Nat))
  BY <1>1, WFMin
<1>3. \A y \in S : ~ (y < x)
  BY <1>2 DEF OpToRel
<1> QED
  BY <1>3

LEMMA Induction ==
  ASSUME NEW S \in SUBSET Nat, 0 \in S, \A n \in S : n + 1 \in S
  PROVE  S = Nat
<1> SUFFICES ASSUME Nat \ S # {} PROVE FALSE
  OBVIOUS
<1>1. PICK x \in Nat \ S : \A y \in Nat \ S : x <= y
  BY LeastOf
<1>2. x - 1 \in Nat
  BY <1>1
<1>3. x - 1 \in S
  BY <1>1, <1>2
<1>4. (x - 1) + 1 = x
  OBVIOUS
<1> QED
  BY <1>1, <1>3, <1>4

\* The elements of P, each once and in order.
Ordered(s, n, P) ==
  /\ s \in [1 .. n -> P]
  /\ \A i, j \in 1 .. n : i < j => s[i] < s[j]
  /\ \A e \in P : \E k \in 1 .. n : s[k] = e

\* The place of an element is the number of those that come no later.
LEMMA Places ==
  ASSUME NEW n \in Nat, NEW P \in SUBSET Nat, NEW s, Ordered(s, n, P)
  PROVE  /\ IsFiniteSet(P) /\ Cardinality(P) = n
         /\ \A k \in 1 .. n : Cardinality({j \in P : j <= s[k]}) = k
<1>1. s \in Bijection(1 .. n, P)
  <2>1. ASSUME NEW i \in 1 .. n, NEW j \in 1 .. n, s[i] = s[j] PROVE i = j
    <3>1. s[i] \in Nat /\ s[j] \in Nat
      BY DEF Ordered
    <3> QED
      BY <2>1, <3>1 DEF Ordered
  <2> QED
    BY <2>1 DEF Ordered, Bijection, Injection, Surjection, IsInjective
<1>2. ASSUME NEW k \in 1 .. n
      PROVE  Cardinality({j \in P : j <= s[k]}) = k
  <2> DEFINE J == {j \in P : j <= s[k]}
             f == [i \in 1 .. k |-> s[i]]
  <2>1. ASSUME NEW i \in 1 .. n PROVE s[i] \in Nat /\ (s[i] <= s[k] <=> i <= k)
    <3>1. s[i] \in Nat /\ s[k] \in Nat
      BY DEF Ordered
    <3>2. i < k => s[i] < s[k]
      BY DEF Ordered
    <3>3. k < i => s[k] < s[i]
      BY DEF Ordered
    <3> QED
      BY <3>1, <3>2, <3>3
  <2>2. \A i \in 1 .. k : f[i] = s[i] /\ i \in 1 .. n
    OBVIOUS
  <2>3. f \in [1 .. k -> J]
    BY <2>1, <2>2 DEF Ordered
  <2>4. ASSUME NEW i \in 1 .. k, NEW j \in 1 .. k, f[i] = f[j] PROVE i = j
    <3>1. s[i] = s[j] /\ i \in 1 .. n /\ j \in 1 .. n /\ s[i] \in Nat
      BY <2>1, <2>2, <2>4
    <3> QED
      BY <3>1 DEF Ordered
  <2>5. \A e \in J : \E i \in 1 .. k : f[i] = e
    <3> SUFFICES ASSUME NEW e \in J PROVE \E i \in 1 .. k : f[i] = e
      OBVIOUS
    <3>1. PICK i \in 1 .. n : s[i] = e
      BY DEF Ordered
    <3>2. i \in 1 .. k
      BY <2>1, <3>1
    <3> QED
      BY <2>2, <3>1, <3>2
  <2> HIDE DEF f, J
  <2>6. f \in Bijection(1 .. k, J)
    BY <2>3, <2>4, <2>5 DEF Bijection, Injection, Surjection, IsInjective
  <2>7. IsFiniteSet(1 .. k) /\ Cardinality(1 .. k) = k
    BY FS_Interval
  <2> QED
    BY <2>6, <2>7, FS_Bijection DEF ExistsBijection, J
<1>3. IsFiniteSet(1 .. n) /\ Cardinality(1 .. n) = n
  BY FS_Interval
<1> QED
  BY <1>1, <1>2, <1>3, FS_Bijection DEF ExistsBijection

\* There is only one way.
Both(s, n, t, m, P) == P \subseteq Nat /\ Ordered(s, n, P) /\ Ordered(t, m, P)
Same(s, n, t, m) == n = m /\ \A k \in 1 .. n : s[k] = t[k]

LEMMA OneOrder ==
  ASSUME NEW n \in Nat, NEW m \in Nat, NEW P, NEW s, NEW t, Both(s, n, t, m, P)
  PROVE  Same(s, n, t, m)
<1> P \in SUBSET Nat /\ Ordered(s, n, P) /\ Ordered(t, m, P)
  BY DEF Both
<1>1. n = m
  BY Places
<1>2. ASSUME NEW k \in 1 .. n PROVE s[k] = t[k]
  <2>1. PICK l \in 1 .. m : t[l] = s[k]
    BY DEF Ordered
  <2>2. Cardinality({j \in P : j <= s[k]}) = k /\ Cardinality({j \in P : j <= t[l]}) = l
    BY Places
  <2> QED
    BY <2>1, <2>2
<1> QED
  BY <1>1, <1>2 DEF Same

LEMMA Neighbours ==
  ASSUME NEW n \in Nat, NEW s \in [1 .. n -> Nat], \A k \in 2 .. n : s[k - 1] < s[k]
  PROVE  \A i, j \in 1 .. n : i < j => s[i] < s[j]
<1> DEFINE S == {d \in Nat : \A i \in 1 .. n : i + d + 1 <= n => s[i] < s[i + d + 1]}
<1>1. 0 \in S
  <2> SUFFICES ASSUME NEW i \in 1 .. n, i + 0 + 1 <= n PROVE s[i] < s[i + 0 + 1]
    OBVIOUS
  <2>1. i + 1 \in 2 .. n /\ (i + 1) - 1 = i /\ i + 0 + 1 = i + 1
    BY SMTT(30)
  <2> QED
    BY <2>1
<1>2. \A d \in S : d + 1 \in S
  <2> SUFFICES ASSUME NEW d \in S, NEW i \in 1 .. n, i + (d + 1) + 1 <= n
               PROVE  s[i] < s[i + (d + 1) + 1]
    BY SMTT(30)
  <2> DEFINE k == i + d + 2
  <2>1. k \in 2 .. n /\ k - 1 = i + d + 1 /\ i + (d + 1) + 1 = k /\ k - 1 \in 1 .. n
    BY SMTT(30)
  <2>2. s[i] < s[k - 1]
    BY <2>1
  <2>3. s[k - 1] < s[k]
    BY <2>1
  <2>4. s[i] \in Nat /\ s[k - 1] \in Nat /\ s[k] \in Nat
    BY <2>1
  <2> QED
    BY <2>1, <2>2, <2>3, <2>4
<1>3. S = Nat
  <2> HIDE DEF S
  <2>1. S \in SUBSET Nat
    BY DEF S
  <2> QED
    BY <1>1, <1>2, <2>1, Induction
<1> SUFFICES ASSUME NEW i \in 1 .. n, NEW j \in 1 .. n, i < j PROVE s[i] < s[j]
  OBVIOUS
<1>4. j - i - 1 \in Nat /\ i + (j - i - 1) + 1 = j
  OBVIOUS
<1>5. j - i - 1 \in S
  BY <1>3, <1>4
<1> QED
  BY <1>4, <1>5

-----------------------------------------------------------------------------
(* Lists of columns.                                                       *)

LEMMA Naming ==
  ASSUME NEW columns \in Seq(Columns), NEW name
  PROVE  \/ Named(columns, name) = 0 /\ name \notin NamesOf(columns)
         \/ /\ Named(columns, name) \in DOMAIN columns
            /\ columns[Named(columns, name)].name = name
            /\ \A i \in DOMAIN columns : columns[i].name = name => Named(columns, name) <= i
<1> DEFINE I == {i \in 1 .. Len(columns) : columns[i].name = name}
<1>1. Named(columns, name) = IF I # {} THEN Min(I) ELSE 0
  BY DEF Named, SelectInSeq
<1>2. CASE I = {}
  BY <1>1, <1>2 DEF NamesOf
<1>3. CASE I # {}
  <2>1. \E x \in I : \A y \in I : x <= y
    <3>1. I \in SUBSET Nat
      OBVIOUS
    <3> HIDE DEF I
    <3> QED
      BY <1>3, <3>1, LeastOf
  <2>2. Min(I) \in I /\ \A y \in I : Min(I) <= y
    <3> HIDE DEF I
    <3> QED
      BY <2>1 DEF Min
  <2> QED
    BY <1>1, <1>3, <2>2
<1> QED
  BY <1>2, <1>3

\* Where a list of n continues after the place p was taken out.
Skip(k, p) == IF k < p THEN k ELSE k + 1

\* Only the column at p has that name: it is taken out.
LEMMA WithoutOne ==
  ASSUME NEW columns \in Seq(Columns), NEW p \in 1 .. Len(columns),
         \A i \in 1 .. Len(columns) : columns[i].name = columns[p].name => i = p
  PROVE  /\ Without(columns, columns[p].name) \in Seq(Columns)
         /\ Len(Without(columns, columns[p].name)) = Len(columns) - 1
         /\ \A k \in 1 .. Len(columns) - 1 :
              Without(columns, columns[p].name)[k] = columns[Skip(k, p)]
<1> DEFINE n == Len(columns) - 1
           P == {i \in DOMAIN columns : columns[i].name # columns[p].name}
           s == [k \in 1 .. n |-> Skip(k, p)]
           Place(i) == Cardinality({j \in P : j <= i})
           W == [k \in 1 .. Cardinality(P) |-> columns[CHOOSE i \in P : Place(i) = k]]
<1>1. n \in Nat /\ P \in SUBSET Nat
  OBVIOUS
<1>2. P = (1 .. Len(columns)) \ {p}
  OBVIOUS
<1>3. Ordered(s, n, P)
  <2>1. s \in [1 .. n -> P]
    BY <1>2 DEF Skip
  <2>2. \A i, j \in 1 .. n : i < j => s[i] < s[j]
    BY DEF Skip
  <2>3. ASSUME NEW e \in P PROVE \E k \in 1 .. n : s[k] = e
    <3>1. CASE e < p
      <4>1. e \in 1 .. n /\ s[e] = e
        BY <1>2, <2>3, <3>1 DEF Skip
      <4> QED
        BY <4>1
    <3>2. CASE e > p
      <4>1. e - 1 \in 1 .. n /\ s[e - 1] = e
        BY <1>2, <2>3, <3>2 DEF Skip
      <4> QED
        BY <4>1
    <3> QED
      BY <1>2, <2>3, <3>1, <3>2
  <2> QED
    BY <2>1, <2>2, <2>3 DEF Ordered
<1>4. Without(columns, columns[p].name) = W
  BY DEF Without
<1> HIDE DEF s, P, W
<1>5. Cardinality(P) = n /\ \A k \in 1 .. n : Place(s[k]) = k
  BY <1>1, <1>3, Places
<1>6. ASSUME NEW k \in 1 .. n PROVE W[k] = columns[Skip(k, p)] /\ Skip(k, p) \in 1 .. Len(columns)
  <2>1. \A i \in P : Place(i) = k => i = s[k]
    BY <1>3, <1>5 DEF Ordered
  <2>2. s[k] \in P
    BY <1>3 DEF Ordered
  <2>3. (CHOOSE i \in P : Place(i) = k) = s[k]
    BY <1>5, <2>1, <2>2
  <2>4. s[k] = Skip(k, p)
    BY DEF s
  <2> QED
    BY <1>2, <1>5, <2>2, <2>3, <2>4 DEF W
<1>7. DOMAIN W = 1 .. n
  BY <1>5 DEF W
<1>8. W \in Seq(Columns) /\ Len(W) = n
  <2>1. \A k \in 1 .. n : W[k] \in Columns
    BY <1>6
  <2>2. W = [k \in 1 .. n |-> W[k]]
    BY <1>5 DEF W
  <2> QED
    BY <1>1, <1>7, <2>1, <2>2, IsASeq
<1> QED
  BY <1>4, <1>6, <1>8

-----------------------------------------------------------------------------
(* The operations, one after the other.                                    *)

\* The recursive function there is has the values the recursion asks for.
LEMMA SchemasAre ==
  ASSUME NEW f, f.columns \in Seq(Columns)
  PROVE  /\ Schemas(f)[0] = Start(f.source)
         /\ \A n \in 1 .. Len(f.columns) :
              Schemas(f)[n] = Apply(Schemas(f)[n - 1], OperationFor(f, n))
<1> DEFINE ops == buildAlterTableOperations(f)
           After(g, n) == IF n = 0 THEN Start(f.source) ELSE Apply(g[n - 1], ops[n])
           Is(g, m) == g = [n \in 0 .. m |-> After(g, n)]
           S == {m \in Nat : \E g : Is(g, m)}
<1>1. 0 \in S
  <2> DEFINE g == [n \in 0 .. 0 |-> Start(f.source)]
  <2>1. \A n \in 0 .. 0 : After(g, n) = Start(f.source)
    OBVIOUS
  <2>2. Is(g, 0)
    BY <2>1
  <2> QED
    BY <2>2
<1>2. ASSUME NEW m \in S PROVE m + 1 \in S
  <2>1. PICK g : Is(g, m)
    OBVIOUS
  <2> DEFINE h == [n \in 0 .. m + 1 |-> IF n <= m THEN g[n] ELSE After(g, n)]
  <2>2. \A n \in 0 .. m : h[n] = g[n]
    OBVIOUS
  <2>3. ASSUME NEW n \in 0 .. m + 1 PROVE h[n] = After(h, n)
    <3>1. n # 0 => n - 1 \in 0 .. m
      OBVIOUS
    <3>2. After(g, n) = After(h, n)
      BY <2>2, <3>1
    <3>3. ASSUME n <= m PROVE g[n] = After(g, n)
      <4>1. n \in 0 .. m
        BY <3>3
      <4> HIDE DEF After
      <4> QED
        BY <2>1, <4>1
    <3> HIDE DEF After
    <3> QED
      BY <3>2, <3>3
  <2>4. Is(h, m + 1)
    <3> HIDE DEF After
    <3> QED
      BY <2>3
  <2> HIDE DEF Is, h
  <2> QED
    BY <2>4
<1>3. S = Nat
  <2>1. S \in SUBSET Nat
    OBVIOUS
  <2> HIDE DEF S
  <2> QED
    BY <1>1, <1>2, <2>1, Induction
<1> DEFINE N == Len(f.columns)
<1>4. N \in Nat
  OBVIOUS
<1>5. \E g : Is(g, N)
  <2> HIDE DEF N, Is
  <2> QED
    BY <1>3, <1>4
<1>6. Schemas(f) = CHOOSE g : Is(g, N)
  BY DEF Schemas
<1>7. Is(Schemas(f), N)
  <2> HIDE DEF Is
  <2> QED
    BY <1>5, <1>6
<1>8. Schemas(f)[0] = Start(f.source)
  BY <1>4, <1>7
<1>9. ASSUME NEW n \in 1 .. N PROVE Schemas(f)[n] = Apply(Schemas(f)[n - 1], OperationFor(f, n))
  <2>1. n \in 0 .. N /\ n # 0
    OBVIOUS
  <2>2. Schemas(f)[n] = After(Schemas(f), n)
    <3> HIDE DEF After
    <3> QED
      BY <1>7, <2>1
  <2>3. ops[n] = OperationFor(f, n)
    BY DEF buildAlterTableOperations
  <2> HIDE DEF ops
  <2> QED
    BY <2>1, <2>2, <2>3
<1> QED
  BY <1>8, <1>9

\* After n operations for the columns C of a sheet, the source S's columns are
\* still there but for those with a marker, the sheet's new ones follow them,
\* and the first n are as the sheet has them.
Left(S, C, n) == {i \in 1 .. Len(S) : i > n} \cup {i \in 1 .. n : ~C[i].marker}
After(S, C, n, i) == IF i <= n THEN C[i] ELSE S[i]

\* The k-th column of s is the one with index q[k].  What is mapped is a name of
\* the source, to the name it has by now; no name given so far is one of those
\* that are still to come.
FoldedBy(q, s, S, C, n) ==
  /\ s.columns \in Seq(Columns)
  /\ Ordered(q, Len(s.columns), Left(S, C, n))
  /\ \A k \in 1 .. Len(s.columns) : columnsEqual(s.columns[k], After(S, C, n, q[k]))
  /\ DOMAIN s.mapping = {S[i].name : i \in {j \in 1 .. Len(S) : j \in Left(S, C, n)}}
  /\ \A i \in 1 .. Len(S) :
       i \in Left(S, C, n) => s.mapping[S[i].name] = After(S, C, n, i).name
  /\ \A i \in 1 .. n, j \in 1 .. Len(S) :
       i <= n /\ n < j /\ ~C[i].marker => C[i].name # S[j].name

LEMMA LeftNumbers ==
  ASSUME NEW S \in Seq(Columns), NEW C \in Seq(Columns), NEW n \in 0 .. Len(C)
  PROVE  Left(S, C, n) \in SUBSET (Nat \ {0})
  BY DEF Left

\* The n-th column of the source is still there when its operation comes, and
\* no other column has its name.
Nth(p, q, s, S, n) ==
  /\ p \in 1 .. Len(s.columns) /\ q[p] = n
  /\ s.columns[p].name = S[n].name
  /\ \A k \in 1 .. Len(s.columns) : s.columns[k].name = S[n].name => k = p

LEMMA StillThere ==
  ASSUME NEW S \in Seq(Columns), Distinct(S), NEW C \in Seq(Columns),
         NEW n \in 1 .. Len(C), n <= Len(S),
         NEW s, NEW q, FoldedBy(q, s, S, C, n - 1)
  PROVE  \E p : Nth(p, q, s, S, n)
<1>1. n \in Left(S, C, n - 1)
  BY DEF Left
<1>2. PICK p \in 1 .. Len(s.columns) : q[p] = n
  BY <1>1 DEF FoldedBy, Ordered
<1>3. s.columns[p].name = S[n].name
  BY <1>2 DEF FoldedBy, After, columnsEqual
<1>4. ASSUME NEW k \in 1 .. Len(s.columns), s.columns[k].name = S[n].name PROVE k = p
  <2>1. q[k] \in Left(S, C, n - 1) /\ q[k] \in Nat
    <3>1. n - 1 \in 0 .. Len(C)
      OBVIOUS
    <3>2. q[k] \in Left(S, C, n - 1)
      BY DEF FoldedBy, Ordered
    <3> QED
      BY <3>1, <3>2, LeftNumbers
  <2>2. s.columns[k].name = After(S, C, n - 1, q[k]).name
    BY DEF FoldedBy, columnsEqual
  <2>3. CASE q[k] <= n - 1
    <3>1. q[k] \in 1 .. n - 1 /\ ~C[q[k]].marker
      BY <2>1, <2>3 DEF Left
    <3>2. C[q[k]].name = S[n].name
      BY <1>4, <2>2, <2>3 DEF After
    <3>3. n \in 1 .. Len(S) /\ n - 1 < n /\ q[k] <= n - 1
      BY <2>3
    <3> QED
      BY <3>1, <3>2, <3>3 DEF FoldedBy
  <2>4. CASE ~(q[k] <= n - 1)
    <3>1. q[k] \in 1 .. Len(S)
      BY <2>1, <2>4 DEF Left
    <3>2. S[q[k]].name = S[n].name
      BY <1>4, <2>2, <2>4 DEF After
    <3>3. q[k] = n
      BY <3>1, <3>2 DEF Distinct
    <3>4. Len(s.columns) \in Nat
      BY DEF FoldedBy
    <3>5. k < p => q[k] < q[p]
      BY DEF FoldedBy, Ordered
    <3>6. p < k => q[p] < q[k]
      BY DEF FoldedBy, Ordered
    <3> QED
      BY <1>2, <3>3, <3>4, <3>5, <3>6
  <2> QED
    BY <2>3, <2>4
<1> QED
  BY <1>2, <1>3, <1>4 DEF Nth

LEMMA FoldedDrop ==
  ASSUME NEW S \in Seq(Columns), Distinct(S), NEW C \in Seq(Columns),
         NEW n \in 1 .. Len(C), n <= Len(S), C[n].marker,
         NEW s, NEW q, FoldedBy(q, s, S, C, n - 1)
  PROVE  \E r : FoldedBy(r, Dropped(s, S[n].name), S, C, n)
<1> DEFINE t == Dropped(s, S[n].name)
<1>0. PICK cs \in Seq(Columns) : cs = s.columns
  BY DEF FoldedBy
<1>2. PICK m \in Nat : m = Len(cs)
  OBVIOUS
<1>1. PICK p \in 1 .. m :
        /\ q[p] = n /\ cs[p].name = S[n].name
        /\ \A k \in 1 .. m : cs[k].name = S[n].name => k = p
  <2>1. PICK p : Nth(p, q, s, S, n)
    BY StillThere
  <2> QED
    BY <1>0, <1>2, <2>1 DEF Nth
<1> DEFINE r == [k \in 1 .. m - 1 |-> q[Skip(k, p)]]
<1>3. Left(S, C, n) = Left(S, C, n - 1) \ {n}
  BY DEF Left
<1>4. /\ t.columns \in Seq(Columns) /\ Len(t.columns) = m - 1
      /\ \A k \in 1 .. m - 1 : t.columns[k] = cs[Skip(k, p)]
  <2>1. p \in 1 .. Len(cs) /\ \A k \in 1 .. Len(cs) : cs[k].name = cs[p].name => k = p
    BY <1>1, <1>2
  <2>2. t.columns = Without(cs, cs[p].name)
    BY <1>0, <1>1 DEF Dropped
  <2>3. /\ Without(cs, cs[p].name) \in Seq(Columns)
        /\ Len(Without(cs, cs[p].name)) = Len(cs) - 1
        /\ \A k \in 1 .. Len(cs) - 1 : Without(cs, cs[p].name)[k] = cs[Skip(k, p)]
    BY <2>1, WithoutOne
  <2> QED
    BY <1>2, <2>2, <2>3
<1>5. \A k \in 1 .. m - 1 : Skip(k, p) \in 1 .. m /\ Skip(k, p) # p
  BY <1>2 DEF Skip
<1>6. \A k \in 1 .. m : q[k] \in Left(S, C, n - 1) /\ q[k] \in Nat
  <2>1. n - 1 \in 0 .. Len(C)
    OBVIOUS
  <2>2. \A k \in 1 .. m : q[k] \in Left(S, C, n - 1)
    BY <1>0, <1>2 DEF FoldedBy, Ordered
  <2> QED
    BY <2>1, <2>2, LeftNumbers
<1>7. \A j, k \in 1 .. m : j < k => q[j] < q[k]
  BY <1>0, <1>2 DEF FoldedBy, Ordered
<1>8. ASSUME NEW k \in 1 .. m, k # p PROVE q[k] # n
  <2>1. k < p => q[k] < q[p]
    BY <1>7
  <2>2. p < k => q[p] < q[k]
    BY <1>7
  <2> QED
    BY <1>1, <1>6, <1>8, <2>1, <2>2
<1>9. Ordered(r, m - 1, Left(S, C, n))
  <2>1. r \in [1 .. m - 1 -> Left(S, C, n)]
    BY <1>3, <1>5, <1>6, <1>8
  <2>2. ASSUME NEW j \in 1 .. m - 1, NEW k \in 1 .. m - 1, j < k PROVE r[j] < r[k]
    <3>1. Skip(j, p) < Skip(k, p)
      BY <2>2 DEF Skip
    <3> QED
      BY <1>5, <1>7, <3>1
  <2>3. ASSUME NEW e \in Left(S, C, n) PROVE \E k \in 1 .. m - 1 : r[k] = e
    <3>1. PICK l \in 1 .. m : q[l] = e
      BY <1>0, <1>2, <1>3 DEF FoldedBy, Ordered
    <3>2. l # p
      BY <1>1, <1>3, <3>1
    <3>3. CASE l < p
      <4>1. l \in 1 .. m - 1 /\ Skip(l, p) = l
        BY <1>2, <3>3 DEF Skip
      <4> QED
        BY <3>1, <4>1
    <3>4. CASE p < l
      <4>1. l - 1 \in 1 .. m - 1 /\ Skip(l - 1, p) = l
        BY <1>2, <3>4 DEF Skip
      <4> QED
        BY <3>1, <4>1
    <3>5. l < p \/ p < l
      BY <3>2
    <3> QED
      BY <3>3, <3>4, <3>5
  <2> HIDE DEF r
  <2> QED
    BY <2>1, <2>2, <2>3 DEF Ordered
<1>10. ASSUME NEW k \in 1 .. m - 1 PROVE columnsEqual(t.columns[k], After(S, C, n, r[k]))
  <2>1. columnsEqual(cs[Skip(k, p)], After(S, C, n - 1, q[Skip(k, p)]))
    BY <1>0, <1>2, <1>5 DEF FoldedBy
  <2>2. q[Skip(k, p)] # n /\ q[Skip(k, p)] \in Nat
    BY <1>5, <1>6, <1>8
  <2>3. After(S, C, n - 1, q[Skip(k, p)]) = After(S, C, n, q[Skip(k, p)])
    BY <2>2 DEF After
  <2> QED
    BY <1>4, <2>1, <2>3
<1>11. DOMAIN t.mapping = {S[i].name : i \in {j \in 1 .. Len(S) : j \in Left(S, C, n)}}
  <2>1. DOMAIN t.mapping = DOMAIN s.mapping \ {S[n].name}
    BY DEF Dropped
  <2>2. DOMAIN s.mapping = {S[i].name : i \in {j \in 1 .. Len(S) : j \in Left(S, C, n - 1)}}
    BY DEF FoldedBy
  <2>3. \A i \in 1 .. Len(S) : S[i].name = S[n].name <=> i = n
    BY DEF Distinct
  <2> QED
    BY <1>3, <2>1, <2>2, <2>3
<1>12. ASSUME NEW i \in 1 .. Len(S), i \in Left(S, C, n)
       PROVE  t.mapping[S[i].name] = After(S, C, n, i).name
  <2>1. i # n /\ i \in Left(S, C, n - 1)
    BY <1>3, <1>12
  <2>2. s.mapping[S[i].name] = After(S, C, n - 1, i).name
    BY <2>1 DEF FoldedBy
  <2>3. S[i].name \in DOMAIN t.mapping
    BY <1>11, <1>12
  <2>4. t.mapping[S[i].name] = s.mapping[S[i].name]
    BY <2>3 DEF Dropped
  <2> QED
    BY <2>1, <2>2, <2>4 DEF After
<1>13. \A i \in 1 .. n, j \in 1 .. Len(S) :
         i <= n /\ n < j /\ ~C[i].marker => C[i].name # S[j].name
  <2> SUFFICES ASSUME NEW i \in 1 .. n, NEW j \in 1 .. Len(S), n < j, ~C[i].marker
               PROVE  C[i].name # S[j].name
    OBVIOUS
  <2>1. i \in 1 .. n - 1 /\ i <= n - 1 /\ n - 1 < j
    OBVIOUS
  <2> QED
    BY <2>1 DEF FoldedBy
<1> HIDE DEF t, r
<1>14. FoldedBy(r, t, S, C, n)
  BY <1>4, <1>9, <1>10, <1>11, <1>12, <1>13 DEF FoldedBy
<1> QED
  BY <1>14 DEF t

\* The n-th column gets what the sheet has for it and stays where it is.
LEMMA FoldedStay ==
  ASSUME NEW S \in Seq(Columns), Distinct(S), NEW C \in Seq(Columns),
         NEW n \in 1 .. Len(C), n <= Len(S), ~C[n].marker,
         NEW s, NEW q, FoldedBy(q, s, S, C, n - 1), NEW p, Nth(p, q, s, S, n),
         NEW t, t.columns \in Seq(Columns), Len(t.columns) = Len(s.columns),
         columnsEqual(t.columns[p], C[n]),
         \A k \in 1 .. Len(s.columns) : k # p => t.columns[k] = s.columns[k],
         DOMAIN t.mapping = DOMAIN s.mapping,
         \A name \in DOMAIN s.mapping :
           t.mapping[name] = IF name = S[n].name THEN C[n].name ELSE s.mapping[name],
         \A j \in 1 .. Len(S) : n < j => C[n].name # S[j].name
  PROVE  FoldedBy(q, t, S, C, n)
<1>1. Left(S, C, n) = Left(S, C, n - 1)
  BY DEF Left
<1>2. Ordered(q, Len(t.columns), Left(S, C, n))
  BY <1>1 DEF FoldedBy
<1>3. ASSUME NEW k \in 1 .. Len(t.columns)
      PROVE  columnsEqual(t.columns[k], After(S, C, n, q[k]))
  <2>1. q[k] \in Nat
    <3>1. n - 1 \in 0 .. Len(C)
      OBVIOUS
    <3>2. k \in 1 .. Len(s.columns)
      OBVIOUS
    <3>3. q[k] \in Left(S, C, n - 1)
      BY <3>2 DEF FoldedBy, Ordered
    <3> QED
      BY <3>1, <3>3, LeftNumbers
  <2>2. CASE k = p
    BY <2>2 DEF Nth, After
  <2>3. CASE k # p
    <3>1. columnsEqual(s.columns[k], After(S, C, n - 1, q[k]))
      BY DEF FoldedBy
    <3>2. Len(s.columns) \in Nat /\ p \in 1 .. Len(s.columns) /\ q[p] = n
      BY DEF FoldedBy, Nth
    <3>3. (k < p => q[k] < q[p]) /\ (p < k => q[p] < q[k])
      BY <3>2 DEF FoldedBy, Ordered
    <3>4. q[k] # n
      BY <2>1, <2>3, <3>2, <3>3
    <3>5. After(S, C, n, q[k]) = After(S, C, n - 1, q[k])
      BY <2>1, <3>4 DEF After
    <3> QED
      BY <2>3, <3>1, <3>5
  <2> QED
    BY <2>2, <2>3
<1>4. DOMAIN t.mapping = {S[i].name : i \in {j \in 1 .. Len(S) : j \in Left(S, C, n)}}
  BY <1>1 DEF FoldedBy
<1>5. ASSUME NEW i \in 1 .. Len(S), i \in Left(S, C, n)
      PROVE  t.mapping[S[i].name] = After(S, C, n, i).name
  <2>1. S[i].name \in DOMAIN s.mapping
    BY <1>1, <1>5 DEF FoldedBy
  <2>2. s.mapping[S[i].name] = After(S, C, n - 1, i).name
    BY <1>1, <1>5 DEF FoldedBy
  <2>3. S[i].name = S[n].name <=> i = n
    BY DEF Distinct
  <2>4. CASE i = n
    BY <2>1, <2>3, <2>4 DEF After
  <2>5. CASE i # n
    BY <2>1, <2>2, <2>3, <2>5 DEF After
  <2> QED
    BY <2>4, <2>5
<1>6. \A i \in 1 .. n, j \in 1 .. Len(S) :
        i <= n /\ n < j /\ ~C[i].marker => C[i].name # S[j].name
  <2> SUFFICES ASSUME NEW i \in 1 .. n, NEW j \in 1 .. Len(S), n < j, ~C[i].marker
               PROVE  C[i].name # S[j].name
    OBVIOUS
  <2>1. CASE i = n
    BY <2>1
  <2>2. CASE i # n
    <3>1. i \in 1 .. n - 1 /\ i <= n - 1 /\ n - 1 < j
      BY <2>2
    <3> QED
      BY <3>1 DEF FoldedBy
  <2> QED
    BY <2>1, <2>2
<1> QED
  BY <1>2, <1>3, <1>4, <1>5, <1>6 DEF FoldedBy

LEMMA FoldedKeep ==
  ASSUME NEW S \in Seq(Columns), Distinct(S), NEW C \in Seq(Columns),
         NEW n \in 1 .. Len(C), n <= Len(S), ~C[n].marker, columnsEqual(S[n], C[n]),
         NEW s, NEW q, FoldedBy(q, s, S, C, n - 1)
  PROVE  FoldedBy(q, s, S, C, n)
<1>1. PICK p : Nth(p, q, s, S, n)
  BY StillThere
<1>2. s.columns \in Seq(Columns)
  BY DEF FoldedBy
<1>3. n \in 1 .. Len(S) /\ n \in Left(S, C, n - 1)
  BY DEF Left
<1>4. s.mapping[S[n].name] = C[n].name
  BY <1>3 DEF FoldedBy, After, columnsEqual
<1>5. columnsEqual(s.columns[p], C[n])
  <2>1. p \in 1 .. Len(s.columns) /\ q[p] = n
    BY <1>1 DEF Nth
  <2>2. columnsEqual(s.columns[p], After(S, C, n - 1, n))
    BY <2>1 DEF FoldedBy
  <2> QED
    BY <2>2 DEF After, columnsEqual
<1>6. \A j \in 1 .. Len(S) : n < j => C[n].name # S[j].name
  BY <1>3 DEF Distinct, columnsEqual
<1> QED
  BY <1>1, <1>2, <1>4, <1>5, <1>6, FoldedStay

LEMMA FoldedAlter ==
  ASSUME NEW S \in Seq(Columns), Distinct(S), NEW C \in Seq(Columns),
         NEW n \in 1 .. Len(C), n <= Len(S), ~C[n].marker,
         NEW s, NEW q, FoldedBy(q, s, S, C, n - 1),
         C[n].name = S[n].name \/ C[n].name \notin DOMAIN s.mapping
  PROVE  /\ FoldedBy(q, Altered(s, S[n].name, C[n]), S, C, n)
         /\ Named(s.columns, S[n].name) # 0
<1> DEFINE t == Altered(s, S[n].name, C[n])
<1>1. PICK p : Nth(p, q, s, S, n)
  BY StillThere
<1>2. s.columns \in Seq(Columns)
  BY DEF FoldedBy
<1>3. p \in 1 .. Len(s.columns) /\ s.columns[p].name = S[n].name
  BY <1>1 DEF Nth
<1>4. Named(s.columns, S[n].name) = p
  <2>1. S[n].name \in NamesOf(s.columns)
    BY <1>2, <1>3 DEF NamesOf
  <2>2. /\ Named(s.columns, S[n].name) \in DOMAIN s.columns
        /\ s.columns[Named(s.columns, S[n].name)].name = S[n].name
    BY <1>2, <2>1, Naming
  <2>3. Named(s.columns, S[n].name) \in 1 .. Len(s.columns)
    BY <1>2, <2>2
  <2>4. \A k \in 1 .. Len(s.columns) : s.columns[k].name = S[n].name => k = p
    BY <1>1 DEF Nth
  <2> QED
    BY <2>2, <2>3, <2>4
<1>5. /\ t.columns = [s.columns EXCEPT ![p] = C[n]]
      /\ t.mapping = [s.mapping EXCEPT ![S[n].name] = C[n].name]
  BY <1>3, <1>4 DEF Altered
<1>6. /\ t.columns \in Seq(Columns) /\ Len(t.columns) = Len(s.columns)
      /\ t.columns[p] = C[n]
      /\ \A k \in 1 .. Len(s.columns) : k # p => t.columns[k] = s.columns[k]
  BY <1>2, <1>3, <1>5
<1>7. \A j \in 1 .. Len(S) : n < j => C[n].name # S[j].name
  <2> SUFFICES ASSUME NEW j \in 1 .. Len(S), n < j PROVE C[n].name # S[j].name
    OBVIOUS
  <2>1. j \in Left(S, C, n - 1)
    BY DEF Left
  <2>2. S[j].name \in DOMAIN s.mapping
    BY <2>1 DEF FoldedBy
  <2>3. S[n].name # S[j].name
    BY DEF Distinct
  <2> QED
    BY <2>2, <2>3
<1>8. /\ DOMAIN t.mapping = DOMAIN s.mapping
      /\ \A name \in DOMAIN s.mapping :
           t.mapping[name] = IF name = S[n].name THEN C[n].name ELSE s.mapping[name]
  BY <1>5
<1>9. columnsEqual(t.columns[p], C[n])
  BY <1>6 DEF columnsEqual
<1> HIDE DEF t
<1>10. FoldedBy(q, t, S, C, n)
  BY <1>1, <1>6, <1>7, <1>8, <1>9, FoldedStay
<1> QED
  BY <1>3, <1>4, <1>10 DEF t

\* A new column of the sheet comes after all the others.
LEMMA FoldedAdd ==
  ASSUME NEW S \in Seq(Columns), NEW C \in Seq(Columns),
         NEW n \in 1 .. Len(C), n > Len(S), ~C[n].marker,
         NEW s, NEW q, FoldedBy(q, s, S, C, n - 1)
  PROVE  \E r : FoldedBy(r, Added(s, C[n]), S, C, n)
<1> DEFINE t == Added(s, C[n])
<1>1. PICK cs \in Seq(Columns) : cs = s.columns
  BY DEF FoldedBy
<1>2. PICK m \in Nat : m = Len(cs)
  OBVIOUS
<1> DEFINE r == [k \in 1 .. m + 1 |-> IF k <= m THEN q[k] ELSE n]
<1>3. Left(S, C, n) = Left(S, C, n - 1) \cup {n}
  BY DEF Left
<1>4. /\ t.columns \in Seq(Columns) /\ Len(t.columns) = m + 1
      /\ t.columns[m + 1] = C[n]
      /\ \A k \in 1 .. m : t.columns[k] = cs[k]
  <2>1. t.columns = Append(cs, C[n]) /\ C[n] \in Columns
    BY <1>1 DEF Added
  <2> QED
    BY <1>2, <2>1
<1>5. \A k \in 1 .. m : q[k] \in Left(S, C, n - 1) /\ q[k] \in Nat
  <2>1. n - 1 \in 0 .. Len(C)
    OBVIOUS
  <2>2. \A k \in 1 .. m : q[k] \in Left(S, C, n - 1)
    BY <1>1, <1>2 DEF FoldedBy, Ordered
  <2> QED
    BY <2>1, <2>2, LeftNumbers
<1>6. \A k \in 1 .. m : q[k] < n
  <2>1. \A i \in Left(S, C, n - 1) : i < n
    BY DEF Left
  <2> QED
    BY <1>5, <2>1
<1>7. \A j, k \in 1 .. m : j < k => q[j] < q[k]
  BY <1>1, <1>2 DEF FoldedBy, Ordered
<1>8. Ordered(r, m + 1, Left(S, C, n))
  <2>1. r \in [1 .. m + 1 -> Left(S, C, n)]
    BY <1>3, <1>5
  <2>2. ASSUME NEW j \in 1 .. m + 1, NEW k \in 1 .. m + 1, j < k PROVE r[j] < r[k]
    <3>1. j \in 1 .. m /\ r[j] = q[j]
      BY <2>2
    <3>2. CASE k = m + 1
      BY <1>6, <3>1, <3>2
    <3>3. CASE k # m + 1
      <4>1. k \in 1 .. m /\ r[k] = q[k]
        BY <3>3
      <4> QED
        BY <1>7, <2>2, <3>1, <4>1
    <3> QED
      BY <3>2, <3>3
  <2>3. ASSUME NEW e \in Left(S, C, n) PROVE \E k \in 1 .. m + 1 : r[k] = e
    <3>1. CASE e = n
      <4>1. m + 1 \in 1 .. m + 1 /\ r[m + 1] = n
        OBVIOUS
      <4> QED
        BY <3>1, <4>1
    <3>2. CASE e # n
      <4>1. PICK k \in 1 .. m : q[k] = e
        BY <1>1, <1>2, <1>3, <3>2 DEF FoldedBy, Ordered
      <4>2. k \in 1 .. m + 1 /\ r[k] = q[k]
        OBVIOUS
      <4> QED
        BY <4>1, <4>2
    <3> QED
      BY <3>1, <3>2
  <2> HIDE DEF r
  <2> QED
    BY <2>1, <2>2, <2>3 DEF Ordered
<1>9. ASSUME NEW k \in 1 .. m + 1 PROVE columnsEqual(t.columns[k], After(S, C, n, r[k]))
  <2>1. CASE k = m + 1
    BY <1>4, <2>1, SMTT(40) DEF After, columnsEqual
  <2>2. CASE k # m + 1
    <3>1. k \in 1 .. m /\ r[k] = q[k]
      BY <2>2
    <3>2. columnsEqual(cs[k], After(S, C, n - 1, q[k]))
      BY <1>1, <1>2, <3>1 DEF FoldedBy
    <3>3. After(S, C, n, q[k]) = After(S, C, n - 1, q[k])
      BY <1>5, <1>6, <3>1 DEF After
    <3> QED
      BY <1>4, <3>1, <3>2, <3>3
  <2> QED
    BY <2>1, <2>2
<1>10. t.mapping = s.mapping
  BY DEF Added
<1>11. \A i \in 1 .. Len(S) : i # n /\ (i \in Left(S, C, n) <=> i \in Left(S, C, n - 1))
  BY <1>3
<1>12. DOMAIN t.mapping = {S[i].name : i \in {j \in 1 .. Len(S) : j \in Left(S, C, n)}}
  <2>1. DOMAIN s.mapping = {S[i].name : i \in {j \in 1 .. Len(S) : j \in Left(S, C, n - 1)}}
    BY DEF FoldedBy
  <2>2. {j \in 1 .. Len(S) : j \in Left(S, C, n)} = {j \in 1 .. Len(S) : j \in Left(S, C, n - 1)}
    BY <1>11
  <2> QED
    BY <1>10, <2>1, <2>2
<1>13. ASSUME NEW i \in 1 .. Len(S), i \in Left(S, C, n)
       PROVE  t.mapping[S[i].name] = After(S, C, n, i).name
  <2>1. s.mapping[S[i].name] = After(S, C, n - 1, i).name
    BY <1>11, <1>13 DEF FoldedBy
  <2>2. After(S, C, n, i) = After(S, C, n - 1, i)
    BY <1>11 DEF After
  <2> QED
    BY <1>10, <2>1, <2>2
<1>14. \A i \in 1 .. n, j \in 1 .. Len(S) :
         i <= n /\ n < j /\ ~C[i].marker => C[i].name # S[j].name
  OBVIOUS
<1> HIDE DEF t, r
<1>15. FoldedBy(r, t, S, C, n)
  BY <1>4, <1>8, <1>9, <1>12, <1>13, <1>14 DEF FoldedBy
<1> QED
  BY <1>15 DEF t

LEMMA FoldedSkip ==
  ASSUME NEW S \in Seq(Columns), NEW C \in Seq(Columns),
         NEW n \in 1 .. Len(C), n > Len(S), C[n].marker,
         NEW s, NEW q, FoldedBy(q, s, S, C, n - 1)
  PROVE  FoldedBy(q, s, S, C, n)
<1>1. Left(S, C, n) = Left(S, C, n - 1)
  BY DEF Left
<1>2. \A i \in Left(S, C, n) : i \in Nat /\ After(S, C, n, i) = After(S, C, n - 1, i)
  BY DEF Left, After
<1>3. \A i \in 1 .. n, j \in 1 .. Len(S) :
        i <= n /\ n < j /\ ~C[i].marker => C[i].name # S[j].name
  OBVIOUS
<1>4. ASSUME NEW k \in 1 .. Len(s.columns)
      PROVE  columnsEqual(s.columns[k], After(S, C, n, q[k]))
  <2>1. q[k] \in Left(S, C, n)
    BY <1>1 DEF FoldedBy, Ordered
  <2>2. columnsEqual(s.columns[k], After(S, C, n - 1, q[k]))
    BY DEF FoldedBy
  <2> QED
    BY <1>2, <2>1, <2>2
<1>5. ASSUME NEW i \in 1 .. Len(S), i \in Left(S, C, n)
      PROVE  s.mapping[S[i].name] = After(S, C, n, i).name
  <2>1. s.mapping[S[i].name] = After(S, C, n - 1, i).name
    BY <1>1, <1>5 DEF FoldedBy
  <2> QED
    BY <1>2, <1>5, <2>1
<1>6. /\ s.columns \in Seq(Columns) /\ Ordered(q, Len(s.columns), Left(S, C, n))
      /\ DOMAIN s.mapping = {S[i].name : i \in {j \in 1 .. Len(S) : j \in Left(S, C, n)}}
  BY <1>1 DEF FoldedBy
<1> QED
  BY <1>3, <1>4, <1>5, <1>6 DEF FoldedBy

LEMMA FoldedStart ==
  ASSUME NEW S \in Seq(Columns), NEW C \in Seq(Columns)
  PROVE  FoldedBy(Identity(S), Start(S), S, C, 0)
<1> DEFINE q == Identity(S)
           t == Start(S)
<1>1. Left(S, C, 0) = 1 .. Len(S)
  BY DEF Left
<1>2. \A i \in 1 .. Len(S) : q[i] = i /\ After(S, C, 0, i) = S[i]
  BY DEF After, Identity
<1>3. t.columns = S /\ t.mapping = [name \in NamesOf(S) |-> name]
  BY DEF Start
<1>4. Ordered(q, Len(S), Left(S, C, 0))
  BY <1>1 DEF Ordered, Identity
<1>5. \A k \in 1 .. Len(S) : columnsEqual(t.columns[k], After(S, C, 0, q[k]))
  BY <1>2, <1>3 DEF columnsEqual
<1>6. DOMAIN t.mapping = {S[i].name : i \in {j \in 1 .. Len(S) : j \in Left(S, C, 0)}}
  BY <1>1, <1>3 DEF NamesOf
<1>7. \A i \in 1 .. Len(S) : t.mapping[S[i].name] = After(S, C, 0, i).name
  BY <1>2, <1>3 DEF NamesOf
<1>8. \A i \in 1 .. 0, j \in 1 .. Len(S) :
        i <= 0 /\ 0 < j /\ ~C[i].marker => C[i].name # S[j].name
  OBVIOUS
<1> HIDE DEF q, t
<1>9. t.columns \in Seq(Columns) /\ Len(t.columns) = Len(S)
  BY <1>3
<1>10. FoldedBy(q, t, S, C, 0)
  BY <1>4, <1>5, <1>6, <1>7, <1>8, <1>9 DEF FoldedBy
<1> QED
  BY <1>10 DEF q, t

\* What the n-th operation does to the schema so far.
LEMMA Applied ==
  ASSUME NEW f, f.source \in Seq(Columns), f.columns \in Seq(Columns),
         NEW n \in 1 .. Len(f.columns), NEW s
  PROVE  LET t == Apply(s, OperationFor(f, n))
             c == f.columns[n]
         IN /\ n <= Len(f.source) /\ c.marker => t = Dropped(s, f.source[n].name)
            /\ n <= Len(f.source) /\ ~c.marker /\ ~columnsEqual(f.source[n], c) =>
                 t = Altered(s, f.source[n].name, c)
            /\ n <= Len(f.source) /\ ~c.marker /\ columnsEqual(f.source[n], c) => t = s
            /\ n > Len(f.source) /\ c.marker => t = s
            /\ n > Len(f.source) /\ ~c.marker => t = Added(s, c)
<1> DEFINE c == f.columns[n]
           o == OperationFor(f, n)
<1>1. n <= Len(f.source) /\ c.marker => o = [op |-> "drop", name |-> f.source[n].name]
  BY DEF OperationFor, isDeleted
<1>2. n <= Len(f.source) /\ ~c.marker /\ ~columnsEqual(f.source[n], c) =>
        o = [op |-> "alter", name |-> f.source[n].name, column |-> c]
  BY DEF OperationFor, isDeleted
<1>3. n <= Len(f.source) /\ ~c.marker /\ columnsEqual(f.source[n], c) => o = [op |-> "keep"]
  BY DEF OperationFor, isDeleted
<1>4. n > Len(f.source) /\ c.marker => o = [op |-> "keep"]
  BY DEF OperationFor, isDeleted
<1>5. n > Len(f.source) /\ ~c.marker => o = [op |-> "add", column |-> c]
  BY DEF OperationFor, isDeleted
<1> HIDE DEF c, o
<1>6. o = [op |-> "drop", name |-> f.source[n].name] =>
        Apply(s, o) = Dropped(s, f.source[n].name)
  BY DEF Apply
<1>7. o = [op |-> "alter", name |-> f.source[n].name, column |-> c] =>
        Apply(s, o) = Altered(s, f.source[n].name, c)
  BY DEF Apply
<1>8. o = [op |-> "keep"] => Apply(s, o) = s
  BY DEF Apply
<1>9. o = [op |-> "add", column |-> c] => Apply(s, o) = Added(s, c)
  BY DEF Apply
<1>10. /\ n <= Len(f.source) /\ c.marker => Apply(s, o) = Dropped(s, f.source[n].name)
       /\ n <= Len(f.source) /\ ~c.marker /\ ~columnsEqual(f.source[n], c) =>
            Apply(s, o) = Altered(s, f.source[n].name, c)
       /\ n <= Len(f.source) /\ ~c.marker /\ columnsEqual(f.source[n], c) => Apply(s, o) = s
       /\ n > Len(f.source) /\ c.marker => Apply(s, o) = s
       /\ n > Len(f.source) /\ ~c.marker => Apply(s, o) = Added(s, c)
  BY <1>1, <1>2, <1>3, <1>4, <1>5, <1>6, <1>7, <1>8, <1>9
<1> QED
  BY <1>10 DEF c, o

\* Whenever the operations can all be applied, they make of the source's columns
\* those that FoldedBy says.
LEMMA Folded ==
  ASSUME NEW f, f.source \in Seq(Columns), f.columns \in Seq(Columns), Distinct(f.source)
  PROVE  LET s == Schemas(f)[Len(f.columns)]
         IN /\ {"columns", "mapping", "ok"} \subseteq DOMAIN s
            /\ s.ok => \E q : FoldedBy(q, s, f.source, f.columns, Len(f.columns))
<1>1. PICK S \in Seq(Columns) : S = f.source
  OBVIOUS
<1>2. PICK C \in Seq(Columns) : C = f.columns
  OBVIOUS
<1> DEFINE T(n) == Schemas(f)[n]
           H(n) == /\ {"columns", "mapping", "ok"} \subseteq DOMAIN T(n)
                   /\ T(n).ok => \E q : FoldedBy(q, T(n), S, C, n)
           G == {n \in Nat : n <= Len(C) => H(n)}
<1>3. H(0)
  <2>1. T(0) = Start(S)
    BY <1>1, SchemasAre
  <2>2. {"columns", "mapping", "ok"} \subseteq DOMAIN T(0)
    BY <2>1 DEF Start
  <2>3. FoldedBy(Identity(S), T(0), S, C, 0)
    BY <2>1, FoldedStart
  <2> QED
    BY <2>2, <2>3
<1>4. ASSUME NEW n \in 1 .. Len(C), H(n - 1) PROVE H(n)
  <2>1. PICK s : s = T(n - 1)
    OBVIOUS
  <2>2. PICK t : t = T(n)
    OBVIOUS
  <2>3. t = Apply(s, OperationFor(f, n))
    BY <1>2, <2>1, <2>2, SchemasAre
  <2>4. /\ n <= Len(S) /\ C[n].marker => t = Dropped(s, S[n].name)
        /\ n <= Len(S) /\ ~C[n].marker /\ ~columnsEqual(S[n], C[n]) =>
             t = Altered(s, S[n].name, C[n])
        /\ n <= Len(S) /\ ~C[n].marker /\ columnsEqual(S[n], C[n]) => t = s
        /\ n > Len(S) /\ C[n].marker => t = s
        /\ n > Len(S) /\ ~C[n].marker => t = Added(s, C[n])
    BY <1>1, <1>2, <2>3, Applied
  <2>5. {"columns", "mapping", "ok"} \subseteq DOMAIN s /\ (s.ok => \E q : FoldedBy(q, s, S, C, n - 1))
    BY <1>4, <2>1
  <2>6. Distinct(S)
    BY <1>1
  <2> HIDE DEF T
  <2> SUFFICES {"columns", "mapping", "ok"} \subseteq DOMAIN t /\ (t.ok => \E q : FoldedBy(q, t, S, C, n))
    BY <2>2
  <2>7. CASE n <= Len(S) /\ C[n].marker
    <3>1. t = Dropped(s, S[n].name)
      BY <2>4, <2>7
    <3>2. {"columns", "mapping", "ok"} \subseteq DOMAIN t /\ (t.ok => s.ok)
      BY <3>1 DEF Dropped
    <3>3. ASSUME NEW q, FoldedBy(q, s, S, C, n - 1) PROVE \E r : FoldedBy(r, t, S, C, n)
      BY <2>6, <2>7, <3>1, <3>3, FoldedDrop
    <3> QED
      BY <2>5, <3>2, <3>3
  <2>8. CASE n <= Len(S) /\ ~C[n].marker /\ ~columnsEqual(S[n], C[n])
    <3>1. t = Altered(s, S[n].name, C[n])
      BY <2>4, <2>8
    <3>2. {"columns", "mapping", "ok"} \subseteq DOMAIN t
      BY <2>5, <3>1 DEF Altered
    <3>3. t.ok => s.ok /\ (C[n].name = S[n].name \/ C[n].name \notin DOMAIN s.mapping)
      BY <2>5, <3>1 DEF Altered
    <3>4. ASSUME NEW q, FoldedBy(q, s, S, C, n - 1), t.ok PROVE FoldedBy(q, t, S, C, n)
      <4>1. C[n].name = S[n].name \/ C[n].name \notin DOMAIN s.mapping
        BY <3>3, <3>4
      <4> QED
        BY <2>6, <2>8, <3>1, <3>4, <4>1, FoldedAlter
    <3> QED
      BY <2>5, <3>2, <3>3, <3>4
  <2>9. CASE n <= Len(S) /\ ~C[n].marker /\ columnsEqual(S[n], C[n])
    <3>1. t = s
      BY <2>4, <2>9
    <3>2. ASSUME NEW q, FoldedBy(q, s, S, C, n - 1) PROVE FoldedBy(q, s, S, C, n)
      BY <2>6, <2>9, <3>2, FoldedKeep
    <3> QED
      BY <2>5, <3>1, <3>2
  <2>10. CASE n > Len(S) /\ C[n].marker
    <3>1. t = s
      BY <2>4, <2>10
    <3>2. ASSUME NEW q, FoldedBy(q, s, S, C, n - 1) PROVE FoldedBy(q, s, S, C, n)
      BY <2>10, <3>2, FoldedSkip
    <3> QED
      BY <2>5, <3>1, <3>2
  <2>11. CASE n > Len(S) /\ ~C[n].marker
    <3>1. t = Added(s, C[n])
      BY <2>4, <2>11
    <3>2. {"columns", "mapping", "ok"} \subseteq DOMAIN t /\ (t.ok => s.ok)
      BY <3>1 DEF Added
    <3>3. ASSUME NEW q, FoldedBy(q, s, S, C, n - 1) PROVE \E r : FoldedBy(r, t, S, C, n)
      BY <2>11, <3>1, <3>3, FoldedAdd
    <3> QED
      BY <2>5, <3>2, <3>3
  <2> QED
    BY <2>7, <2>8, <2>9, <2>10, <2>11
<1> HIDE DEF H
<1>5. 0 \in G
  BY <1>3
<1>6. \A n \in G : n + 1 \in G
  <2> SUFFICES ASSUME NEW n \in G, n + 1 <= Len(C) PROVE H(n + 1)
    OBVIOUS
  <2>1. n + 1 \in 1 .. Len(C) /\ (n + 1) - 1 = n /\ n <= Len(C)
    OBVIOUS
  <2>2. H(n)
    BY <2>1
  <2>3. H((n + 1) - 1)
    BY <2>1, <2>2
  <2> QED
    BY <1>4, <2>1, <2>3
<1>7. G = Nat
  <2>1. G \in SUBSET Nat
    OBVIOUS
  <2> HIDE DEF G
  <2> QED
    BY <1>5, <1>6, <2>1, Induction
<1>8. H(Len(C))
  <2>1. Len(C) \in Nat
    OBVIOUS
  <2> QED
    BY <1>7, <2>1
<1> QED
  BY <1>1, <1>2, <1>8 DEF H

\* The columns of t in the sheet's order.
Rearranged(f, s, t) ==
  /\ Len(s.columns) = Len(f.order)
  /\ \A k \in 1 .. Len(f.order) :
       LET j == Named(t.columns, f.columns[f.order[k]].name)
       IN /\ j \in 1 .. Len(t.columns) /\ s.columns[k] = t.columns[j]
          /\ s.columns[k].name = f.columns[f.order[k]].name

\* The schema that is built: the operations' columns, in the sheet's order if
\* that was changed.
LEMMA Target ==
  ASSUME NEW f, f.source \in Seq(Columns), f.columns \in Seq(Columns), Distinct(f.source),
         f.order \in Seq(Nat), NEW s, s = build_ephemeral_target_schema(f), s.ok,
         NEW t, t = Schemas(f)[Len(f.columns)]
  PROVE  /\ t.ok /\ s.mapping = t.mapping /\ s.columns \in Seq(Columns)
         /\ ~columsReordered(f) => s = t
         /\ columsReordered(f) => Rearranged(f, s, t)
<1>1. s = build_ephemeral_target_schema(f)
  OBVIOUS
<1>2. t = Schemas(f)[Len(f.columns)]
  OBVIOUS
<1>3. {"columns", "mapping", "ok"} \subseteq DOMAIN t
  BY <1>2, Folded
<1>4. t.ok => t.columns \in Seq(Columns)
  <2>1. t.ok => \E q : FoldedBy(q, t, f.source, f.columns, Len(f.columns))
    BY <1>2, Folded
  <2> QED
    BY <2>1 DEF FoldedBy
<1>5. CASE ~columsReordered(f)
  <2>1. s = t
    BY <1>1, <1>2, <1>5 DEF build_ephemeral_target_schema
  <2> QED
    BY <1>1, <1>2, <1>4, <1>5, <2>1
<1>6. CASE columsReordered(f)
  <2> DEFINE names == [k \in 1 .. Len(f.order) |-> f.columns[f.order[k]].name]
  <2>1. s = Reordered(t, names)
    <3> DEFINE ordered == filterAndOrderColumns(f)
    <3>1. DOMAIN ordered = 1 .. Len(f.order)
      BY DEF filterAndOrderColumns
    <3>2. \A k \in 1 .. Len(f.order) : ordered[k] = f.columns[f.order[k]]
      BY DEF filterAndOrderColumns
    <3>3. s = Reordered(t, [k \in DOMAIN ordered |-> ordered[k].name])
      BY <1>1, <1>2, <1>6 DEF build_ephemeral_target_schema
    <3> HIDE DEF ordered
    <3>4. [k \in DOMAIN ordered |-> ordered[k].name] = names
      BY <3>1, <3>2, SMTT(40)
    <3> HIDE DEF names
    <3> QED
      BY <3>3, <3>4
  <2> HIDE DEF names
  <2>2. DOMAIN names = 1 .. Len(f.order)
    BY DEF names
  <2>3. /\ s.ok = (t.ok /\ NamesOf(t.columns) = Range(names))
        /\ s.mapping = t.mapping
        /\ s.columns = [k \in 1 .. Len(f.order) |->
                          IF names[k] \in NamesOf(t.columns)
                          THEN t.columns[Named(t.columns, names[k])]
                          ELSE DELETED_COLUMN_MARKER]
    BY <1>3, <2>1, <2>2 DEF Reordered
  <2>4. t.ok /\ NamesOf(t.columns) = Range(names) /\ t.columns \in Seq(Columns)
    BY <1>1, <1>4, <2>3
  <2>5. ASSUME NEW k \in 1 .. Len(f.order)
        PROVE  /\ Named(t.columns, names[k]) \in 1 .. Len(t.columns)
               /\ s.columns[k] = t.columns[Named(t.columns, names[k])]
               /\ s.columns[k].name = names[k]
    <3>1. names[k] \in NamesOf(t.columns)
      BY <2>2, <2>4 DEF Range
    <3>2. /\ Named(t.columns, names[k]) \in DOMAIN t.columns
          /\ t.columns[Named(t.columns, names[k])].name = names[k]
      BY <2>4, <3>1, Naming
    <3>3. s.columns[k] = t.columns[Named(t.columns, names[k])]
      BY <2>3, <3>1
    <3>4. DOMAIN t.columns = 1 .. Len(t.columns)
      BY <2>4
    <3> QED
      BY <3>2, <3>3, <3>4
  <2>6. s.columns \in Seq(Columns) /\ Len(s.columns) = Len(f.order)
    <3>1. \A k \in 1 .. Len(f.order) : s.columns[k] \in Columns
      <4>1. \A j \in 1 .. Len(t.columns) : t.columns[j] \in Columns
        BY <2>4
      <4> QED
        BY <2>5, <4>1
    <3>2. DOMAIN s.columns = 1 .. Len(f.order) /\ Len(f.order) \in Nat
      BY <2>3
    <3>3. s.columns = [k \in 1 .. Len(f.order) |-> s.columns[k]]
      BY <2>3
    <3> QED
      BY <3>1, <3>2, <3>3, IsASeq
  <2>7. \A k \in 1 .. Len(f.order) : names[k] = f.columns[f.order[k]].name
    BY DEF names
  <2>8. ASSUME NEW k \in 1 .. Len(f.order)
        PROVE  /\ Named(t.columns, f.columns[f.order[k]].name) \in 1 .. Len(t.columns)
               /\ s.columns[k] = t.columns[Named(t.columns, f.columns[f.order[k]].name)]
               /\ s.columns[k].name = f.columns[f.order[k]].name
    <3>1. names[k] = f.columns[f.order[k]].name
      BY <2>7
    <3> QED
      BY <2>5, <3>1, SMTT(40)
  <2>9. Rearranged(f, s, t)
    BY <2>6, <2>8 DEF Rearranged
  <2> QED
    BY <1>6, <2>3, <2>4, <2>6, <2>9
<1> QED
  BY <1>5, <1>6
\* What a sheet for a stored table has.
Sheet == [alters : BOOLEAN, source : Seq(Columns), columns : Seq(Columns),
          order : Seq(Nat \ {0}), touched : BOOLEAN]

\* Columns of the source that the sheet still has.
Surviving(f) == {i \in 1 .. Len(f.source) : ~f.columns[i].marker}

LEMMA PrimaryKeyFirst ==
  ASSUME NEW f \in Sheet, Distinct(f.source), build_ephemeral_target_schema(f).ok,
         f.columns # <<>>, f.columns[1].type = PrimaryKey, ~f.columns[1].marker,
         f.order # <<>>, f.order[1] = 1
  PROVE  LET s == build_ephemeral_target_schema(f)
         IN s.columns # <<>> /\ s.columns[1].type = PrimaryKey
<1>1. PICK s : s = build_ephemeral_target_schema(f)
  OBVIOUS
<1>2. PICK t : t = Schemas(f)[Len(f.columns)]
  OBVIOUS
<1>3. f.source \in Seq(Columns) /\ f.columns \in Seq(Columns) /\ f.order \in Seq(Nat)
  BY DEF Sheet
<1>4. /\ t.ok /\ s.columns \in Seq(Columns)
      /\ ~columsReordered(f) => s = t
      /\ columsReordered(f) =>
           /\ Len(s.columns) = Len(f.order)
           /\ \A k \in 1 .. Len(f.order) :
                LET j == Named(t.columns, f.columns[f.order[k]].name)
                IN j \in 1 .. Len(t.columns) /\ s.columns[k] = t.columns[j]
  <2>1. s.ok
    BY <1>1
  <2>2. /\ t.ok /\ s.columns \in Seq(Columns)
        /\ ~columsReordered(f) => s = t
        /\ columsReordered(f) => Rearranged(f, s, t)
    BY <1>1, <1>2, <1>3, <2>1, Target
  <2> QED
    BY <2>2 DEF Rearranged
<1>5. PICK q : FoldedBy(q, t, f.source, f.columns, Len(f.columns))
  BY <1>2, <1>3, <1>4, Folded
<1>6. t.columns \in Seq(Columns) /\ Len(t.columns) \in Nat
  BY <1>5 DEF FoldedBy
<1>7. Len(f.columns) \in Nat /\ Len(f.columns) >= 1
  BY <1>3
<1>8. 1 \in Left(f.source, f.columns, Len(f.columns))
  BY <1>7 DEF Left
<1>9. PICK k \in 1 .. Len(t.columns) : q[k] = 1
  BY <1>5, <1>8 DEF FoldedBy, Ordered
<1>10. k = 1
  <2> SUFFICES ASSUME 1 < k PROVE FALSE
    OBVIOUS
  <2>1. 1 \in 1 .. Len(t.columns)
    BY <1>6
  <2>2. q[1] < q[k] /\ q[1] \in Left(f.source, f.columns, Len(f.columns))
    BY <1>5, <2>1 DEF FoldedBy, Ordered
  <2>3. q[1] \in Nat \ {0}
    <3>1. Len(f.columns) \in 0 .. Len(f.columns)
      BY <1>7
    <3> QED
      BY <1>3, <2>2, <3>1, LeftNumbers
  <2> QED
    BY <1>9, <2>2, <2>3
<1>11. /\ 1 \in 1 .. Len(t.columns) /\ t.columns[1].name = f.columns[1].name
       /\ t.columns[1].type = PrimaryKey
  <2>1. columnsEqual(t.columns[1], After(f.source, f.columns, Len(f.columns), 1))
    BY <1>5, <1>9, <1>10 DEF FoldedBy
  <2>2. After(f.source, f.columns, Len(f.columns), 1) = f.columns[1]
    BY <1>7 DEF After
  <2> QED
    BY <1>9, <1>10, <2>1, <2>2 DEF columnsEqual
<1>12. CASE ~columsReordered(f)
  BY <1>1, <1>4, <1>6, <1>11, <1>12
<1>13. CASE columsReordered(f)
  <2>1. 1 \in 1 .. Len(f.order)
    BY <1>3
  <2>2. Named(t.columns, f.columns[1].name) = 1
    <3>1. f.columns[1].name \in NamesOf(t.columns)
      BY <1>6, <1>11 DEF NamesOf
    <3>2. /\ Named(t.columns, f.columns[1].name) \in DOMAIN t.columns
          /\ Named(t.columns, f.columns[1].name) <= 1
      BY <1>6, <1>11, <3>1, Naming
    <3> QED
      BY <1>6, <3>2
  <2>3. s.columns[1] = t.columns[1] /\ Len(s.columns) = Len(f.order)
    BY <1>4, <1>13, <2>1, <2>2
  <2> QED
    BY <1>1, <1>3, <1>4, <1>11, <2>1, <2>3
<1> QED
  BY <1>12, <1>13

LEMMA Mapping ==
  ASSUME NEW f \in Sheet, Distinct(f.source), build_ephemeral_target_schema(f).ok,
         Len(f.source) <= Len(f.columns)
  PROVE  LET s == build_ephemeral_target_schema(f)
         IN /\ DOMAIN s.mapping = {f.source[i].name : i \in Surviving(f)}
            /\ \A i \in Surviving(f) : s.mapping[f.source[i].name] = f.columns[i].name
<1>1. PICK s : s = build_ephemeral_target_schema(f)
  OBVIOUS
<1>2. PICK t : t = Schemas(f)[Len(f.columns)]
  OBVIOUS
<1>3. f.source \in Seq(Columns) /\ f.columns \in Seq(Columns) /\ f.order \in Seq(Nat)
  BY DEF Sheet
<1>4. t.ok /\ s.mapping = t.mapping
  <2>1. s.ok
    BY <1>1
  <2> QED
    BY <1>1, <1>2, <1>3, <2>1, Target
<1>5. PICK q : FoldedBy(q, t, f.source, f.columns, Len(f.columns))
  BY <1>2, <1>3, <1>4, Folded
<1>6. PICK N \in Nat : N = Len(f.columns)
  BY <1>3
<1>7. PICK L \in Nat : L = Len(f.source)
  BY <1>3
<1>8. Surviving(f) = {j \in 1 .. L : j \in Left(f.source, f.columns, N)}
  BY <1>6, <1>7 DEF Surviving, Left
<1>9. DOMAIN t.mapping = {f.source[i].name : i \in Surviving(f)}
  BY <1>5, <1>6, <1>7, <1>8 DEF FoldedBy
<1>10. ASSUME NEW i \in Surviving(f) PROVE t.mapping[f.source[i].name] = f.columns[i].name
  <2>1. i \in 1 .. L /\ i \in Left(f.source, f.columns, N)
    BY <1>8
  <2>2. t.mapping[f.source[i].name] = After(f.source, f.columns, N, i).name
    BY <1>5, <1>6, <1>7, <2>1 DEF FoldedBy
  <2> QED
    BY <1>6, <1>7, <2>1, <2>2 DEF After
<1> QED
  BY <1>1, <1>4, <1>9, <1>10

\* No two surviving columns end up with one name: the schema with both would be
\* rejected.
LEMMA NamedOnce ==
  ASSUME NEW f \in Sheet, Distinct(f.source), Len(f.source) <= Len(f.columns),
         Surviving(f) \subseteq Range(f.order),
         build_ephemeral_target_schema(f).ok,
         Distinct(build_ephemeral_target_schema(f).columns),
         NEW i \in Surviving(f), NEW j \in Surviving(f), f.columns[i].name = f.columns[j].name
  PROVE  i = j
<1>1. PICK s : s = build_ephemeral_target_schema(f)
  OBVIOUS
<1>2. PICK t : t = Schemas(f)[Len(f.columns)]
  OBVIOUS
<1>3. f.source \in Seq(Columns) /\ f.columns \in Seq(Columns) /\ f.order \in Seq(Nat)
  BY DEF Sheet
<1>4. /\ t.ok /\ s.columns \in Seq(Columns)
      /\ ~columsReordered(f) => s = t
      /\ columsReordered(f) =>
           /\ Len(s.columns) = Len(f.order)
           /\ \A k \in 1 .. Len(f.order) : s.columns[k].name = f.columns[f.order[k]].name
  <2>1. s.ok
    BY <1>1
  <2>2. /\ t.ok /\ s.columns \in Seq(Columns)
        /\ ~columsReordered(f) => s = t
        /\ columsReordered(f) => Rearranged(f, s, t)
    BY <1>1, <1>2, <1>3, <2>1, Target
  <2> QED
    BY <2>2 DEF Rearranged
<1>5. CASE ~columsReordered(f)
  <2>1. PICK q : FoldedBy(q, t, f.source, f.columns, Len(f.columns))
    BY <1>2, <1>3, <1>4, Folded
  <2>2. PICK N \in Nat : N = Len(f.columns)
    BY <1>3
  <2>3. ASSUME NEW e \in Surviving(f)
        PROVE  \E k \in DOMAIN s.columns : q[k] = e /\ s.columns[k].name = f.columns[e].name
    <3>1. e \in Left(f.source, f.columns, N) /\ e \in Nat /\ e <= N
      BY <1>3, <2>2 DEF Surviving, Left
    <3>2. PICK k \in 1 .. Len(t.columns) : q[k] = e
      BY <2>1, <2>2, <3>1 DEF FoldedBy, Ordered
    <3>3. t.columns[k].name = After(f.source, f.columns, N, e).name
      BY <2>1, <2>2, <3>2 DEF FoldedBy, columnsEqual
    <3>4. k \in DOMAIN s.columns /\ s.columns[k].name = f.columns[e].name
      BY <1>4, <1>5, <3>1, <3>2, <3>3 DEF After
    <3> QED
      BY <3>2, <3>4
  <2>4. PICK k \in DOMAIN s.columns : q[k] = i /\ s.columns[k].name = f.columns[i].name
    BY <2>3
  <2>5. PICK l \in DOMAIN s.columns : q[l] = j /\ s.columns[l].name = f.columns[j].name
    BY <2>3
  <2>6. k = l
    BY <1>1, <2>4, <2>5 DEF Distinct
  <2> QED
    BY <2>4, <2>5, <2>6
<1>6. CASE columsReordered(f)
  <2>1. PICK k \in 1 .. Len(f.order) : f.order[k] = i
    BY <1>3 DEF Range
  <2>2. PICK l \in 1 .. Len(f.order) : f.order[l] = j
    BY <1>3 DEF Range
  <2>3. s.columns[k].name = s.columns[l].name /\ k \in DOMAIN s.columns /\ l \in DOMAIN s.columns
    BY <1>4, <1>6, <2>1, <2>2
  <2>4. k = l
    BY <1>1, <2>3 DEF Distinct
  <2> QED
    BY <2>1, <2>2, <2>4
<1> QED
  BY <1>5, <1>6
-----------------------------------------------------------------------------
(* The table.                                                              *)

\* Columns as a table has them, with identities up to n.
Stored(columns, n) ==
  /\ columns \in Seq(Columns) /\ Distinct(columns)
  /\ columns # <<>> => columns[1].type = PrimaryKey
  /\ \A i \in DOMAIN columns : ~columns[i].marker /\ columns[i].id \in 1 .. n

LEMMA StoredLater ==
  ASSUME NEW n \in Nat, NEW m \in Nat, n <= m, NEW columns, Stored(columns, n)
  PROVE  Stored(columns, m)
BY DEF Stored

\* Who has a column's name is that column.
LEMMA NamedThere ==
  ASSUME NEW columns \in Seq(Columns), Distinct(columns), NEW i \in DOMAIN columns
  PROVE  Named(columns, columns[i].name) = i
<1>1. columns[i].name \in NamesOf(columns)
  BY DEF NamesOf
<1>2. /\ Named(columns, columns[i].name) \in DOMAIN columns
      /\ columns[Named(columns, columns[i].name)].name = columns[i].name
  BY <1>1, Naming
<1> QED
  BY <1>2 DEF Distinct

\* The columns that a sheet's or a schema's become.
Becomes(columns, new) ==
  /\ new \in Seq(Columns) /\ Len(new) = Len(columns)
  /\ \A k \in 1 .. Len(columns) :
       /\ new[k].name = columns[k].name /\ new[k].type = columns[k].type
       /\ ~new[k].marker

LEMMA FreshIs ==
  ASSUME NEW columns \in Seq(Columns), born \in Nat
  PROVE  /\ Becomes(columns, Fresh(columns))
         /\ \A k \in 1 .. Len(columns) : Fresh(columns)[k].id = born + k
<1> DEFINE new == Fresh(columns)
           Made(k) == [name |-> columns[k].name, type |-> columns[k].type,
                       id |-> born + k, marker |-> FALSE]
<1>1. new = [k \in 1 .. Len(columns) |-> Made(k)]
  <2>1. \A k \in 1 .. Len(columns) : Column(columns[k].name, columns[k].type, born + k) = Made(k)
    BY DEF Column
  <2>2. new = [k \in 1 .. Len(columns) |-> Column(columns[k].name, columns[k].type, born + k)]
    BY DEF Fresh
  <2> HIDE DEF Made, new
  <2> QED
    BY <2>1, <2>2
<1>2. ASSUME NEW k \in 1 .. Len(columns)
      PROVE  /\ Made(k) \in Columns
             /\ Made(k).name = columns[k].name /\ Made(k).type = columns[k].type
             /\ Made(k).id = born + k /\ ~Made(k).marker
  <2>1. columns[k] \in Columns
    OBVIOUS
  <2>2. /\ columns[k].name \in Names \cup {Deleted}
        /\ columns[k].type \in Types \cup {PrimaryKey, AnyType}
    BY <2>1 DEF Columns
  <2>3. born + k \in Nat /\ FALSE \in BOOLEAN
    OBVIOUS
  <2>4. Made(k) \in Columns
    BY <2>2, <2>3, Zenon DEF Columns
  <2> QED
    BY <2>4
<1> HIDE DEF Made, new
<1>3. \A k \in 1 .. Len(columns) : new[k] = Made(k)
  BY <1>1
<1>4. new \in Seq(Columns) /\ Len(new) = Len(columns)
  <2>1. Len(columns) \in Nat
    OBVIOUS
  <2> QED
    BY <1>1, <1>2, <2>1, IsASeq
<1>5. Becomes(columns, new)
  BY <1>2, <1>3, <1>4 DEF Becomes
<1>6. \A k \in 1 .. Len(columns) : new[k].id = born + k
  BY <1>2, <1>3
<1> QED
  BY <1>5, <1>6 DEF new

\* A column of the new table has the data of the one that is mapped to it.
LEMMA CopiedIs ==
  ASSUME NEW s, s.columns \in Seq(Columns), born \in Nat, Stored(table, born),
         DOMAIN s.mapping \subseteq NamesOf(table)
  PROVE  /\ Becomes(s.columns, Copied(s))
         /\ \A k \in 1 .. Len(s.columns) :
              /\ Copied(s)[k].id \in IdsOf(table) \cup {born + k}
              /\ (\A name \in DOMAIN s.mapping : s.mapping[name] # s.columns[k].name) =>
                   Copied(s)[k].id = born + k
              /\ \A name \in DOMAIN s.mapping :
                   /\ s.mapping[name] = s.columns[k].name
                   /\ \A other \in DOMAIN s.mapping :
                        s.mapping[other] = s.columns[k].name => other = name
                   => Copied(s)[k].id = table[Named(table, name)].id
<1>1. PICK cs \in Seq(Columns) : cs = s.columns
  OBVIOUS
<1>2. PICK map : map = s.mapping
  OBVIOUS
<1>3. PICK fresh : fresh = Fresh(cs)
  OBVIOUS
<1>4. /\ Becomes(cs, fresh)
      /\ \A k \in 1 .. Len(cs) : fresh[k].id = born + k
  BY <1>3, FreshIs
<1> DEFINE new == Copied(s)
           From(k) == {name \in DOMAIN map : map[name] = cs[k].name}
           Old(k) == CHOOSE name \in From(k) : TRUE
<1>5. ASSUME NEW k \in 1 .. Len(cs)
      PROVE  new[k] = IF From(k) = {} THEN fresh[k]
                      ELSE [fresh[k] EXCEPT !.id = table[Named(table, Old(k))].id]
  BY <1>1, <1>2, <1>3 DEF Copied
<1>6. DOMAIN new = 1 .. Len(cs) /\ new = [k \in 1 .. Len(cs) |-> new[k]]
  BY <1>1 DEF Copied
<1>7. ASSUME NEW k \in 1 .. Len(cs), From(k) # {}
      PROVE  Old(k) \in From(k) /\ table[Named(table, Old(k))].id \in IdsOf(table)
  <2>1. Old(k) \in From(k)
    BY <1>7
  <2> HIDE DEF Old
  <2>2. Old(k) \in NamesOf(table)
    BY <1>2, <2>1
  <2>3. table \in Seq(Columns)
    BY DEF Stored
  <2>4. Named(table, Old(k)) \in DOMAIN table
    BY <2>2, <2>3, Naming
  <2> QED
    BY <2>1, <2>4 DEF IdsOf
<1>8. IdsOf(table) \subseteq Nat
  BY DEF IdsOf, Stored
<1> HIDE DEF new, From, Old
<1>9. ASSUME NEW k \in 1 .. Len(cs)
      PROVE  /\ new[k] \in Columns
             /\ new[k].name = cs[k].name /\ new[k].type = cs[k].type /\ ~new[k].marker
             /\ new[k].id = IF From(k) = {} THEN born + k ELSE table[Named(table, Old(k))].id
  <2>1. /\ fresh[k] \in Columns /\ fresh[k].id = born + k
        /\ fresh[k].name = cs[k].name /\ fresh[k].type = cs[k].type /\ ~fresh[k].marker
    BY <1>4 DEF Becomes
  <2>2. CASE From(k) = {}
    BY <1>5, <2>1, <2>2
  <2>3. CASE From(k) # {}
    <3>1. table[Named(table, Old(k))].id \in Nat
      BY <1>7, <1>8, <2>3
    <3>2. new[k] = [fresh[k] EXCEPT !.id = table[Named(table, Old(k))].id]
      BY <1>5, <2>3
    <3> QED
      BY <2>1, <2>3, <3>1, <3>2 DEF Columns
  <2> QED
    BY <2>2, <2>3
<1>10. Becomes(cs, new)
  <2>1. Len(cs) \in Nat /\ \A k \in 1 .. Len(cs) : new[k] \in Columns
    BY <1>9
  <2>2. new \in Seq(Columns) /\ Len(new) = Len(cs)
    BY <1>6, <2>1, IsASeq
  <2> QED
    BY <1>9, <2>2 DEF Becomes
<1>11. ASSUME NEW k \in 1 .. Len(cs)
       PROVE  /\ new[k].id \in IdsOf(table) \cup {born + k}
              /\ (\A name \in DOMAIN map : map[name] # cs[k].name) => new[k].id = born + k
              /\ \A name \in DOMAIN map :
                   /\ map[name] = cs[k].name
                   /\ \A other \in DOMAIN map : map[other] = cs[k].name => other = name
                   => new[k].id = table[Named(table, name)].id
  <2>1. new[k].id \in IdsOf(table) \cup {born + k}
    BY <1>7, <1>9
  <2>2. ASSUME \A name \in DOMAIN map : map[name] # cs[k].name PROVE new[k].id = born + k
    <3>1. From(k) = {}
      BY <2>2 DEF From
    <3> QED
      BY <1>9, <3>1
  <2>3. ASSUME NEW name \in DOMAIN map, map[name] = cs[k].name,
               \A other \in DOMAIN map : map[other] = cs[k].name => other = name
        PROVE  new[k].id = table[Named(table, name)].id
    <3>1. name \in From(k)
      BY <2>3 DEF From
    <3>2. Old(k) \in From(k)
      BY <1>7, <3>1
    <3>3. Old(k) = name
      BY <2>3, <3>2 DEF From
    <3> QED
      BY <1>9, <3>1, <3>3
  <2> QED
    BY <2>1, <2>2, <2>3
<1> QED
  BY <1>1, <1>2, <1>10, <1>11 DEF new
-----------------------------------------------------------------------------
(* The sheet.                                                              *)

\* Whatever happens to a sheet: its first column and its first row are the
\* primary key, its source was a table.
SheetOK(f, n) ==
  /\ f \in Sheet /\ Stored(f.source, n)
  /\ f.columns # <<>> /\ f.columns[1].type = PrimaryKey /\ ~f.columns[1].marker
  /\ f.order # <<>> /\ f.order[1] = 1 /\ \A k \in 2 .. Len(f.order) : f.order[k] # 1

Unmarked(columns) == {i \in DOMAIN columns : ~columns[i].marker}

\* The rows of a sheet that nothing has spoiled: each column once that is not
\* deleted, the source's with the data they have, the others without.
Faithful(f) ==
  IF f.alters
  THEN /\ Len(f.source) <= Len(f.columns)
       /\ \A k, l \in DOMAIN f.order : f.order[k] = f.order[l] => k = l
       /\ Range(f.order) = Unmarked(f.columns)
       /\ \A i \in Unmarked(f.columns) :
            f.columns[i].id = IF i <= Len(f.source) THEN f.source[i].id ELSE 0
  ELSE /\ f.order = Identity(f.columns)
       /\ \A i \in DOMAIN f.columns : f.columns[i].id = 0

\* A sheet that no other fetch reached while it was touched: a column of its
\* source is shown, or "delete" was clicked in it.
Tracked(f, names) ==
  f.alters =>
    /\ Len(f.source) <= Len(f.columns)
    /\ \A i \in 1 .. Len(f.source) :
         IF f.columns[i].marker THEN f.source[i].name \in names ELSE i \in Range(f.order)

Keeps(f, spoilt, names) ==
  /\ spoilt = {} => Faithful(f)
  /\ "refetched" \notin spoilt => Tracked(f, names)

LEMMA SheetOKLater ==
  ASSUME NEW n \in Nat, NEW m \in Nat, n <= m, NEW f, SheetOK(f, n)
  PROVE  SheetOK(f, m)
BY StoredLater DEF SheetOK

LEMMA IdentityIs ==
  ASSUME NEW columns \in Seq(Columns)
  PROVE  /\ Identity(columns) \in Seq(Nat \ {0}) /\ Len(Identity(columns)) = Len(columns)
         /\ \A k \in 1 .. Len(columns) : Identity(columns)[k] = k
         /\ Range(Identity(columns)) = 1 .. Len(columns)
<1>1. Len(columns) \in Nat /\ Identity(columns) = [k \in 1 .. Len(columns) |-> k]
  BY DEF Identity
<1>2. \A k \in 1 .. Len(columns) : k \in Nat \ {0}
  OBVIOUS
<1>3. Identity(columns) \in Seq(Nat \ {0}) /\ Len(Identity(columns)) = Len(columns)
  BY <1>1, <1>2, IsASeq
<1> QED
  BY <1>1, <1>3 DEF Range

LEMMA DefaultSheet ==
  ASSUME AlterTableAssumption, NEW n \in Nat
  PROVE  SheetOK(defaultSchema, n) /\ ~defaultSchema.alters
         /\ \A spoilt, names : Keeps(defaultSchema, spoilt, names)
<1> DEFINE f == defaultSchema
<1>1. /\ NewTable \in Seq(Columns) /\ NewTable # <<>> /\ NewTable[1].type = PrimaryKey
      /\ ~NewTable[1].marker /\ \A i \in DOMAIN NewTable : NewTable[i].id = 0
  <2>1. Proper(NewTable) /\ IdsOf(NewTable) = {0}
    BY DEF AlterTableAssumption
  <2>2. /\ NewTable \in Seq(Columns) /\ NewTable # <<>> /\ NewTable[1].type = PrimaryKey
        /\ \A i \in DOMAIN NewTable : ~NewTable[i].marker
    BY <2>1 DEF Proper
  <2>3. 1 \in DOMAIN NewTable
    BY <2>2
  <2>4. \A i \in DOMAIN NewTable : NewTable[i].id \in IdsOf(NewTable)
    BY DEF IdsOf
  <2> QED
    BY <2>1, <2>2, <2>3, <2>4
<1>2. f.alters = FALSE /\ f.source = <<>> /\ f.columns = NewTable
      /\ f.order = Identity(NewTable) /\ f.touched = FALSE
  BY DEF defaultSchema
<1>3. f \in Sheet
  <2>1. <<>> \in Seq(Columns) /\ Identity(NewTable) \in Seq(Nat \ {0}) /\ FALSE \in BOOLEAN
    BY <1>1, IdentityIs
  <2> QED
    BY <1>1, <2>1, Zenon DEF defaultSchema, Sheet
<1>4. Stored(<<>>, n)
  BY DEF Stored, Distinct
<1>5. /\ f.order # <<>> /\ f.order[1] = 1
      /\ \A k \in 2 .. Len(f.order) : f.order[k] # 1
  BY <1>1, <1>2, IdentityIs
<1>6. SheetOK(f, n)
  BY <1>1, <1>2, <1>3, <1>4, <1>5 DEF SheetOK
<1>7. Faithful(f) /\ \A names : Tracked(f, names)
  BY <1>1, <1>2 DEF Faithful, Tracked
<1> QED
  BY <1>2, <1>6, <1>7 DEF Keeps

LEMMA DeepCopy ==
  ASSUME NEW n \in Nat, NEW s, Stored(s, n), s # <<>>
  PROVE  SheetOK(deepCopySchema(s), n)
         /\ \A spoilt, names : Keeps(deepCopySchema(s), spoilt, names)
<1> DEFINE f == deepCopySchema(s)
<1>1. PICK c \in Seq(Columns) : c = s
  BY DEF Stored
<1>2. f.alters = TRUE /\ f.source = c /\ f.columns = c
      /\ f.order = Identity(c) /\ f.touched = FALSE
  BY <1>1 DEF deepCopySchema
<1>3. f \in Sheet
  <2>1. Identity(c) \in Seq(Nat \ {0}) /\ FALSE \in BOOLEAN /\ TRUE \in BOOLEAN
    BY IdentityIs
  <2> QED
    BY <1>1, <2>1, Zenon DEF deepCopySchema, Sheet
<1>4. c # <<>> /\ 1 \in DOMAIN c /\ \A i \in DOMAIN c : ~c[i].marker
  BY <1>1 DEF Stored
<1>5. /\ f.order # <<>> /\ f.order[1] = 1
      /\ \A k \in 2 .. Len(f.order) : f.order[k] # 1
  BY <1>2, <1>4, IdentityIs
<1>6. SheetOK(f, n)
  BY <1>1, <1>2, <1>3, <1>4, <1>5 DEF SheetOK, Stored
<1>7. Unmarked(c) = 1 .. Len(c)
  BY <1>4 DEF Unmarked
<1>8. Faithful(f)
  <2>1. \A k, l \in DOMAIN f.order : f.order[k] = f.order[l] => k = l
    BY <1>2, IdentityIs
  <2>2. Range(f.order) = Unmarked(f.columns)
    BY <1>2, <1>7, IdentityIs
  <2>3. \A i \in 1 .. Len(c) : i <= Len(c)
    OBVIOUS
  <2> QED
    BY <1>2, <1>7, <2>1, <2>2, <2>3 DEF Faithful
<1>9. \A names : Tracked(f, names)
  BY <1>2, <1>4, IdentityIs, SMTT(40) DEF Tracked
<1> QED
  BY <1>6, <1>8, <1>9 DEF Keeps
Edited(f, k, name, type, g) ==
  /\ k \in DOMAIN f.order /\ f.order[k] \in DOMAIN f.columns /\ name \in Names
  /\ IF k = 1 THEN ~f.alters /\ type = PrimaryKey ELSE type \in Types
  /\ g = [f EXCEPT !.columns[f.order[k]] = Column(name, type, f.columns[f.order[k]].id),
                   !.touched = TRUE]

LEMMA EditedSheet ==
  ASSUME NEW n \in Nat, NEW f, SheetOK(f, n),
         NEW k, NEW name, NEW type, NEW new, Edited(f, k, name, type, new)
  PROVE  /\ SheetOK(new, n) /\ new.alters = f.alters
         /\ \A spoilt, names : Keeps(f, spoilt, names) => Keeps(new, spoilt, names)
<1> /\ k \in DOMAIN f.order /\ f.order[k] \in DOMAIN f.columns /\ name \in Names
    /\ IF k = 1 THEN ~f.alters /\ type = PrimaryKey ELSE type \in Types
    /\ new = [f EXCEPT !.columns[f.order[k]] = Column(name, type, f.columns[f.order[k]].id),
                       !.touched = TRUE]
  BY DEF Edited
<1>1. PICK C \in Seq(Columns) : C = f.columns
  BY DEF SheetOK, Sheet
<1>2. PICK i \in 1 .. Len(C) : i = f.order[k]
  BY <1>1
<1>3. PICK c : c = Column(name, type, C[i].id)
  OBVIOUS
<1> DEFINE D == [C EXCEPT ![i] = c]
           g == [f EXCEPT !.columns = D, !.touched = TRUE]
<1>4. c \in Columns /\ c.type = type /\ c.id = C[i].id /\ ~c.marker
  <2>1. C[i] \in Columns
    OBVIOUS
  <2>2. /\ name \in Names \cup {Deleted} /\ type \in Types \cup {PrimaryKey, AnyType}
        /\ C[i].id \in Nat /\ FALSE \in BOOLEAN
    BY <2>1 DEF Columns
  <2>3. c = [name |-> name, type |-> type, id |-> C[i].id, marker |-> FALSE]
    BY <1>3 DEF Column
  <2>4. c \in Columns
    BY <2>2, <2>3, Zenon DEF Columns
  <2> QED
    BY <2>3, <2>4
<1>5. /\ D \in Seq(Columns) /\ Len(D) = Len(C) /\ D[i] = c
      /\ \A j \in 1 .. Len(C) : j # i => D[j] = C[j]
  BY <1>4
<1>6. g = new
  BY <1>1, <1>2, <1>3 DEF SheetOK, Sheet
<1>7. /\ g \in Sheet /\ g.alters = f.alters /\ g.source = f.source /\ g.columns = D
      /\ g.order = f.order
  BY <1>5 DEF SheetOK, Sheet
<1> HIDE DEF D, g
<1>8. k = 1 <=> i = 1
  <2>1. k = 1 \/ k \in 2 .. Len(f.order)
    BY SMTT(40) DEF SheetOK, Sheet
  <2> QED
    BY <1>2, <2>1 DEF SheetOK
<1>9. D # <<>> /\ D[1].type = PrimaryKey /\ ~D[1].marker
  <2>1. 1 \in 1 .. Len(C) /\ Len(D) # 0 /\ C[1].type = PrimaryKey /\ ~C[1].marker
    BY <1>1, <1>5 DEF SheetOK
  <2>2. CASE i = 1
    BY <1>4, <1>5, <1>8, <2>1, <2>2
  <2>3. CASE i # 1
    BY <1>5, <2>1, <2>3
  <2> QED
    BY <2>2, <2>3
<1>10. SheetOK(g, n)
  BY <1>7, <1>9 DEF SheetOK
<1>11. i \in Range(f.order)
  BY <1>2 DEF Range
<1>12. Faithful(f) => Faithful(g)
  <2>1. CASE f.alters
    <3> SUFFICES ASSUME Faithful(f) PROVE Faithful(g)
      OBVIOUS
    <3>1. /\ Len(f.source) <= Len(C)
          /\ \A j, l \in DOMAIN f.order : f.order[j] = f.order[l] => j = l
          /\ Range(f.order) = Unmarked(C)
          /\ \A j \in Unmarked(C) :
               C[j].id = IF j <= Len(f.source) THEN f.source[j].id ELSE 0
      BY <1>1, <2>1 DEF Faithful
    <3>2. i \in Unmarked(C)
      BY <1>11, <3>1
    <3>3. Unmarked(D) = Unmarked(C)
      BY <1>4, <1>5, <3>2, SMTT(40) DEF Unmarked
    <3>4. \A j \in Unmarked(C) : D[j].id = C[j].id
      BY <1>4, <1>5 DEF Unmarked
    <3> QED
      BY <1>5, <1>7, <2>1, <3>1, <3>3, <3>4 DEF Faithful
  <2>2. CASE ~f.alters
    <3>1. Faithful(f) => f.order = Identity(C) /\ \A j \in 1 .. Len(C) : C[j].id = 0
      BY <1>1, <2>2 DEF Faithful
    <3>2. Identity(D) = Identity(C)
      BY <1>5 DEF Identity
    <3>3. \A j \in 1 .. Len(C) : D[j].id = C[j].id
      BY <1>4, <1>5
    <3> QED
      BY <1>5, <1>7, <2>2, <3>1, <3>2, <3>3, SMTT(40) DEF Faithful
  <2> QED
    BY <2>1, <2>2
<1>13. ASSUME NEW names, Tracked(f, names) PROVE Tracked(g, names)
  <2> SUFFICES ASSUME f.alters PROVE Tracked(g, names)
    BY <1>7 DEF Tracked
  <2>1. /\ Len(f.source) <= Len(C)
        /\ \A j \in 1 .. Len(f.source) :
             IF C[j].marker THEN f.source[j].name \in names ELSE j \in Range(f.order)
    BY <1>1, <1>13 DEF Tracked
  <2>2. ASSUME NEW j \in 1 .. Len(f.source)
        PROVE  IF D[j].marker THEN f.source[j].name \in names ELSE j \in Range(f.order)
    <3>1. CASE j = i
      BY <1>4, <1>5, <1>11, <3>1
    <3>2. CASE j # i
      <4>1. j \in 1 .. Len(C)
        <5>1. Len(f.source) \in Nat /\ Len(C) \in Nat
          BY SMTT(40) DEF SheetOK, Sheet
        <5> QED
          BY <2>1, <5>1
      <4> QED
        BY <1>5, <2>1, <3>2, <4>1
    <3> QED
      BY <3>1, <3>2
  <2> QED
    BY <1>5, <1>7, <2>1, <2>2 DEF Tracked
<1>14. \A spoilt, names : Keeps(f, spoilt, names) => Keeps(g, spoilt, names)
  BY <1>12, <1>13 DEF Keeps
<1> QED
  BY <1>6, <1>7, <1>10, <1>14

LEMMA MovedSheet ==
  ASSUME NEW n \in Nat, NEW f, SheetOK(f, n), NEW k \in DOMAIN f.order, k > 2
  PROVE  LET g == [f EXCEPT !.order = [@ EXCEPT ![k] = f.order[k - 1], ![k - 1] = f.order[k]]]
         IN /\ SheetOK(g, n) /\ g.alters = f.alters
            /\ \A spoilt, names : Keeps(f, spoilt, names) =>
                 Keeps(g, IF f.alters THEN spoilt ELSE spoilt \cup {"ignored"}, names)
<1>1. PICK p \in Seq(Nat \ {0}) : p = f.order
  BY DEF SheetOK, Sheet
<1>2. k \in 1 .. Len(p) /\ k - 1 \in 1 .. Len(p) /\ k # 1 /\ k - 1 # 1 /\ k - 1 # k
  <2>1. k \in 1 .. Len(p)
    BY <1>1
  <2> QED
    BY <2>1
<1> DEFINE r == [p EXCEPT ![k] = p[k - 1], ![k - 1] = p[k]]
           g == [f EXCEPT !.order = r]
<1>3. r \in Seq(Nat \ {0}) /\ Len(r) = Len(p)
  BY <1>2
<1>4. /\ r[k] = p[k - 1] /\ r[k - 1] = p[k]
      /\ \A j \in 1 .. Len(p) : j # k /\ j # k - 1 => r[j] = p[j]
  BY <1>2, SMTT(40)
<1>5. g = [f EXCEPT !.order = [@ EXCEPT ![k] = f.order[k - 1], ![k - 1] = f.order[k]]]
  BY <1>1 DEF SheetOK, Sheet
<1>6. /\ g \in Sheet /\ g.alters = f.alters /\ g.source = f.source /\ g.columns = f.columns
      /\ g.order = r
  BY <1>3 DEF SheetOK, Sheet
<1> HIDE DEF r, g
<1>7. DOMAIN p = 1 .. Len(p) /\ DOMAIN r = 1 .. Len(p)
  BY <1>3
<1>8. Range(r) = Range(p)
  <2>1. ASSUME NEW e \in Range(r) PROVE e \in Range(p)
    <3>1. PICK j \in 1 .. Len(p) : r[j] = e
      BY <1>7 DEF Range
    <3>2. \E l \in 1 .. Len(p) : p[l] = e
      BY <1>2, <1>4, <3>1
    <3> QED
      BY <1>7, <3>2 DEF Range
  <2>2. ASSUME NEW e \in Range(p) PROVE e \in Range(r)
    <3>1. PICK j \in 1 .. Len(p) : p[j] = e
      BY <1>7 DEF Range
    <3>2. \E l \in 1 .. Len(p) : r[l] = e
      BY <1>2, <1>4, <3>1
    <3> QED
      BY <1>7, <3>2 DEF Range
  <2> QED
    BY <2>1, <2>2
<1>9. SheetOK(g, n)
  <2>1. p # <<>> /\ p[1] = 1 /\ \A j \in 2 .. Len(p) : p[j] # 1
    BY <1>1 DEF SheetOK
  <2>2. 1 \in 1 .. Len(p) /\ Len(p) \in Nat /\ k \in 2 .. Len(p) /\ k - 1 \in 2 .. Len(p)
    BY <1>2
  <2>3. r[1] = 1
    BY <1>2, <1>4, <2>1, <2>2
  <2>4. r # <<>>
    BY <1>3, <2>2
  <2>5. ASSUME NEW j \in 2 .. Len(p) PROVE r[j] # 1
    <3>1. CASE j # k /\ j # k - 1
      BY <1>4, <2>1, <3>1, SMTT(40)
    <3>2. CASE j = k
      BY <1>4, <2>1, <2>2, <3>2
    <3>3. CASE j = k - 1
      BY <1>4, <2>1, <2>2, <3>3
    <3> QED
      BY <3>1, <3>2, <3>3
  <2> QED
    BY <1>3, <1>6, <2>3, <2>4, <2>5 DEF SheetOK
<1>10. ASSUME f.alters, Faithful(f) PROVE Faithful(g)
  <2>1. \A j, l \in 1 .. Len(p) : p[j] = p[l] => j = l
    BY <1>1, <1>10, SMTT(30) DEF Faithful
  <2>2. ASSUME NEW j \in 1 .. Len(p), NEW l \in 1 .. Len(p), r[j] = r[l] PROVE j = l
    <3>1. CASE j # k /\ j # k - 1
      BY <1>2, <1>4, <2>1, <2>2, <3>1
    <3>2. CASE j = k
      BY <1>2, <1>4, <2>1, <2>2, <3>2
    <3>3. CASE j = k - 1
      BY <1>2, <1>4, <2>1, <2>2, <3>3
    <3> QED
      BY <3>1, <3>2, <3>3
  <2> QED
    BY <1>1, <1>6, <1>7, <1>8, <1>10, <2>2, ZenonT(60) DEF Faithful
<1>11. \A names : Tracked(f, names) => Tracked(g, names)
  BY <1>1, <1>6, <1>8 DEF Tracked
<1>12. ASSUME NEW spoilt, NEW names, Keeps(f, spoilt, names)
       PROVE  Keeps(g, IF f.alters THEN spoilt ELSE spoilt \cup {"ignored"}, names)
  <2> DEFINE now == IF f.alters THEN spoilt ELSE spoilt \cup {"ignored"}
  <2>1. now = {} => f.alters /\ spoilt = {}
    OBVIOUS
  <2>2. "refetched" \notin now => "refetched" \notin spoilt
    OBVIOUS
  <2> HIDE DEF now
  <2>3. Keeps(g, now, names)
    BY <1>10, <1>11, <1>12, <2>1, <2>2 DEF Keeps
  <2> QED
    BY <2>3 DEF now
<1> QED
  BY <1>5, <1>6, <1>9, <1>12

LEMMA RemovedAt ==
  ASSUME NEW T, NEW p \in Seq(T), NEW k \in 1 .. Len(p)
  PROVE  /\ RemoveAt(p, k) \in Seq(T) /\ Len(RemoveAt(p, k)) = Len(p) - 1
         /\ \A j \in 1 .. Len(p) - 1 : RemoveAt(p, k)[j] = p[Skip(j, k)]
<1> DEFINE left == SubSeq(p, 1, k - 1)
           right == SubSeq(p, k + 1, Len(p))
<1>1. left \in Seq(T) /\ Len(left) = k - 1 /\ \A j \in 1 .. k - 1 : left[j] = p[j]
  OBVIOUS
<1>2. /\ right \in Seq(T) /\ Len(right) = Len(p) - k
      /\ \A j \in 1 .. Len(p) - k : right[j] = p[k + j]
  OBVIOUS
<1>3. RemoveAt(p, k) = left \o right
  BY DEF RemoveAt
<1> HIDE DEF left, right
<1>4. left \o right \in Seq(T) /\ Len(left \o right) = Len(p) - 1
  BY <1>1, <1>2
<1>5. ASSUME NEW j \in 1 .. Len(p) - 1 PROVE (left \o right)[j] = p[Skip(j, k)]
  <2>1. CASE j < k
    <3>1. j \in 1 .. k - 1 /\ (left \o right)[j] = left[j]
      BY <1>1, <1>2, <2>1
    <3> QED
      BY <1>1, <2>1, <3>1 DEF Skip
  <2>2. CASE ~(j < k)
    <3>1. j - (k - 1) \in 1 .. Len(p) - k /\ k + (j - (k - 1)) = j + 1
      BY <2>2
    <3>2. (left \o right)[j] = right[j - (k - 1)]
      BY <1>1, <1>2, <2>2, SMTT(40)
    <3> QED
      BY <1>2, <2>2, <3>1, <3>2 DEF Skip
  <2> QED
    BY <2>1, <2>2
<1> QED
  BY <1>3, <1>4, <1>5

LEMMA DeletedSheet ==
  ASSUME NEW n \in Nat, NEW f, SheetOK(f, n), NEW k \in DOMAIN f.order, k > 1,
         f.order[k] <= Len(f.columns) + 1
  PROVE  LET i == f.order[k]
             g == [f EXCEPT !.columns = Put(@, i, DELETED_COLUMN_MARKER), !.touched = TRUE,
                            !.order = RemoveAt(@, k)]
         IN /\ SheetOK(g, n) /\ g.alters = f.alters
            /\ \A spoilt, names : Keeps(f, spoilt, names) =>
                 Keeps(g, IF f.alters THEN spoilt ELSE spoilt \cup {"ignored"},
                       IF i \in DOMAIN f.source THEN names \cup {f.source[i].name} ELSE names)
<1>1. PICK C \in Seq(Columns) : C = f.columns
  BY DEF SheetOK, Sheet
<1>2. PICK p \in Seq(Nat \ {0}) : p = f.order
  BY DEF SheetOK, Sheet
<1>3. PICK i \in Nat \ {0} : i = p[k]
  BY <1>2
<1>4. k \in 2 .. Len(p) /\ i # 1 /\ i <= Len(C) + 1
  <2>1. k \in 2 .. Len(p)
    BY <1>2, SMTT(40)
  <2> QED
    BY <1>1, <1>2, <1>3, <2>1 DEF SheetOK
<1>5. PICK M \in Columns : M = DELETED_COLUMN_MARKER /\ M.marker
  <2>1. /\ Deleted \in Names \cup {Deleted} /\ AnyType \in Types \cup {PrimaryKey, AnyType}
        /\ 0 \in Nat /\ TRUE \in BOOLEAN
    OBVIOUS
  <2>2. DELETED_COLUMN_MARKER \in Columns
    BY <2>1, Zenon DEF Columns, DELETED_COLUMN_MARKER
  <2>3. DELETED_COLUMN_MARKER.marker
    BY DEF DELETED_COLUMN_MARKER
  <2> QED
    BY <2>2, <2>3
<1> DEFINE D == Put(C, i, M)
           r == RemoveAt(p, k)
           g == [f EXCEPT !.columns = D, !.touched = TRUE, !.order = r]
<1>6. /\ D \in Seq(Columns) /\ Len(D) >= Len(C) /\ D[i] = M
      /\ i <= Len(C) => Len(D) = Len(C)
      /\ \A j \in 1 .. Len(C) : j # i => D[j] = C[j]
  <2>1. CASE i > Len(C)
    <3>1. D = Append(C, M) /\ i = Len(C) + 1
      BY <1>4, <2>1 DEF Put
    <3> HIDE DEF D
    <3> QED
      BY <2>1, <3>1
  <2>2. CASE ~(i > Len(C))
    <3>1. D = [C EXCEPT ![i] = M] /\ i \in 1 .. Len(C)
      BY <2>2 DEF Put
    <3> HIDE DEF D
    <3> QED
      BY <2>2, <3>1
  <2> QED
    BY <2>1, <2>2
<1>7. /\ r \in Seq(Nat \ {0}) /\ Len(r) = Len(p) - 1
      /\ \A j \in 1 .. Len(p) - 1 : r[j] = p[Skip(j, k)]
  <2>1. k \in 1 .. Len(p)
    BY <1>4
  <2> QED
    BY <2>1, RemovedAt
<1>8. g = [f EXCEPT !.columns = Put(@, i, M), !.touched = TRUE, !.order = RemoveAt(@, k)]
  BY <1>1, <1>2 DEF SheetOK, Sheet
<1>9. /\ g \in Sheet /\ g.alters = f.alters /\ g.source = f.source /\ g.columns = D
      /\ g.order = r
  BY <1>6, <1>7 DEF SheetOK, Sheet
<1> HIDE DEF D, r, g
<1>10. DOMAIN p = 1 .. Len(p) /\ DOMAIN r = 1 .. Len(p) - 1 /\ Len(p) \in Nat
  BY <1>7
<1>11. ASSUME NEW j \in 1 .. Len(p) - 1
       PROVE  /\ Skip(j, k) \in 1 .. Len(p) /\ Skip(j, k) # k
              /\ Skip(j, k) = 1 <=> j = 1
  <2>1. Len(p) \in Nat /\ k \in 2 .. Len(p) /\ j \in 1 .. Len(p) - 1
    BY <1>4
  <2> QED
    BY <2>1, SMTT(30) DEF Skip
<1>12. SheetOK(g, n)
  <2>1. /\ 1 \in 1 .. Len(C) /\ C[1].type = PrimaryKey /\ ~C[1].marker
        /\ p[1] = 1 /\ \A j \in 2 .. Len(p) : p[j] # 1
    BY <1>1, <1>2 DEF SheetOK
  <2>2. D # <<>> /\ D[1] = C[1]
    <3>1. D[1] = C[1]
      BY <1>4, <1>6, <2>1
    <3>2. Len(D) >= 1 /\ D \in Seq(Columns)
      BY <1>6, <2>1
    <3> QED
      BY <3>1, <3>2
  <2>3. 1 \in 1 .. Len(p) - 1 /\ Skip(1, k) = 1
    BY <1>4 DEF Skip
  <2>4. r # <<>> /\ r[1] = 1
    <3>1. r[1] = 1
      BY <1>7, <2>1, <2>3
    <3>2. 1 \in DOMAIN r
      BY <1>10, <2>3
    <3> QED
      BY <3>1, <3>2
  <2>5. ASSUME NEW j \in 2 .. Len(r) PROVE r[j] # 1
    <3>1. j \in 1 .. Len(p) - 1 /\ j # 1
      BY <1>7
    <3>2. Skip(j, k) \in 2 .. Len(p)
      BY <1>11, <3>1
    <3> QED
      BY <1>7, <2>1, <3>1, <3>2
  <2> QED
    BY <1>9, <2>1, <2>2, <2>4, <2>5 DEF SheetOK
<1>13. ASSUME NEW e \in Range(p), e # i PROVE e \in Range(r)
  <2>1. PICK l \in 1 .. Len(p) : p[l] = e
    BY <1>10 DEF Range
  <2>2. l # k
    BY <1>3, <1>13, <2>1
  <2>3. CASE l < k
    <3>1. l \in 1 .. Len(p) - 1 /\ Skip(l, k) = l
      BY <1>4, <2>3 DEF Skip
    <3>2. l \in DOMAIN r
      BY <1>10, <3>1
    <3>3. r[l] = p[Skip(l, k)]
      BY <1>7, <3>1
    <3> QED
      BY <2>1, <3>1, <3>2, <3>3 DEF Range
  <2>4. CASE k < l
    <3>1. l - 1 \in 1 .. Len(p) - 1 /\ Skip(l - 1, k) = l
      <4>1. l - 1 \in 1 .. Len(p) - 1 /\ ~(l - 1 < k) /\ (l - 1) + 1 = l
        BY <1>4, <2>4
      <4> QED
        BY <4>1 DEF Skip
    <3>2. l - 1 \in DOMAIN r
      BY <1>10, <3>1
    <3>3. r[l - 1] = p[Skip(l - 1, k)]
      BY <1>7, <3>1
    <3> QED
      BY <2>1, <3>1, <3>2, <3>3 DEF Range
  <2>5. l < k \/ k < l
    BY <1>4, <2>2
  <2> QED
    BY <2>3, <2>4, <2>5
<1>14. ASSUME NEW e \in Range(r) PROVE \E j \in 1 .. Len(p) : j # k /\ p[j] = e
  <2>1. PICK j \in DOMAIN r : r[j] = e
    BY DEF Range
  <2>2. j \in 1 .. Len(p) - 1
    BY <1>10
  <2> QED
    BY <1>7, <1>11, <2>1, <2>2
<1>15. ASSUME f.alters, Faithful(f) PROVE Faithful(g)
  <2>1. /\ Len(f.source) <= Len(C)
        /\ \A j, l \in 1 .. Len(p) : p[j] = p[l] => j = l
        /\ Range(p) = Unmarked(C)
        /\ \A j \in Unmarked(C) :
             C[j].id = IF j <= Len(f.source) THEN f.source[j].id ELSE 0
    BY <1>1, <1>2, <1>15, SMTT(40) DEF Faithful
  <2>2. i \in Range(p)
    BY <1>3, <1>4 DEF Range
  <2>3. i \in 1 .. Len(C) /\ Len(D) = Len(C)
    BY <1>6, <2>1, <2>2 DEF Unmarked
  <2>4. Unmarked(D) = Unmarked(C) \ {i}
    BY <1>5, <1>6, <2>3 DEF Unmarked
  <2>5. Range(r) = Range(p) \ {i}
    <3>1. \A j, l \in 1 .. Len(p) : p[j] = p[l] => j = l
      BY <2>1
    <3>2. k \in 1 .. Len(p)
      BY <1>4
    <3>3. ASSUME NEW e \in Range(r) PROVE e \in Range(p) \ {i}
      <4>1. PICK j \in 1 .. Len(p) : j # k /\ p[j] = e
        BY <1>14
      <4>2. p[j] # p[k]
        BY <3>1, <3>2, <4>1, SMTT(30)
      <4> QED
        BY <1>3, <4>1, <4>2 DEF Range
    <3> QED
      BY <1>13, <3>3
  <2>6. ASSUME NEW j \in 1 .. Len(p) - 1, NEW l \in 1 .. Len(p) - 1, r[j] = r[l] PROVE j = l
    <3>1. Skip(j, k) \in 1 .. Len(p) /\ Skip(l, k) \in 1 .. Len(p)
      BY <1>11
    <3>2. p[Skip(j, k)] = p[Skip(l, k)]
      BY <1>7, <2>6
    <3>3. Skip(j, k) = Skip(l, k)
      BY <2>1, <3>1, <3>2
    <3>4. k \in Nat /\ j \in Nat /\ l \in Nat
      BY <1>4, <1>10
    <3> QED
      BY <3>3, <3>4, SMTT(30) DEF Skip
  <2>7. ASSUME NEW j \in Unmarked(D) PROVE D[j].id = C[j].id /\ j \in Unmarked(C)
    <3>1. j \in Unmarked(C) /\ j # i
      BY <2>4
    <3>2. j \in 1 .. Len(C)
      BY <3>1 DEF Unmarked
    <3>3. D[j] = C[j]
      BY <1>6, <3>1, <3>2
    <3> QED
      BY <3>1, <3>3
  <2>8. DOMAIN r = 1 .. Len(p) - 1
    BY <1>10
  <2> QED
    BY <1>9, <1>15, <2>1, <2>3, <2>4, <2>5, <2>6, <2>7, <2>8, ZenonT(60) DEF Faithful
<1> DEFINE Now(names) == IF i \in DOMAIN f.source THEN names \cup {f.source[i].name} ELSE names
<1>16. ASSUME NEW names, Tracked(f, names) PROVE Tracked(g, Now(names))
  <2> SUFFICES ASSUME f.alters PROVE Tracked(g, Now(names))
    BY <1>9 DEF Tracked
  <2>1. /\ Len(f.source) <= Len(C)
        /\ \A j \in 1 .. Len(f.source) :
             IF C[j].marker THEN f.source[j].name \in names ELSE j \in Range(p)
    BY <1>1, <1>2, <1>16 DEF Tracked
  <2>2. Len(f.source) \in Nat /\ Len(C) \in Nat /\ DOMAIN f.source = 1 .. Len(f.source)
    BY SMTT(40) DEF SheetOK, Sheet
  <2>3. ASSUME NEW j \in 1 .. Len(f.source)
        PROVE  IF D[j].marker THEN f.source[j].name \in Now(names) ELSE j \in Range(r)
    <3>1. CASE j = i
      BY <1>5, <1>6, <2>2, <3>1
    <3>2. CASE j # i
      <4>1. j \in 1 .. Len(C)
        BY <2>1, <2>2
      <4>2. D[j] = C[j]
        BY <1>6, <3>2, <4>1
      <4>3. f.source[j].name \in names => f.source[j].name \in Now(names)
        OBVIOUS
      <4>4. j \in Range(p) => j \in Range(r)
        BY <1>13, <3>2
      <4> HIDE DEF Now
      <4> QED
        BY <2>1, <4>2, <4>3, <4>4
    <3> QED
      BY <3>1, <3>2
  <2>4. Len(D) \in Nat /\ Len(f.source) <= Len(D)
    BY <1>6, <2>1, <2>2
  <2> HIDE DEF Now
  <2> QED
    BY <1>9, <2>3, <2>4 DEF Tracked
<1>17. ASSUME NEW spoilt, NEW names, Keeps(f, spoilt, names)
       PROVE  Keeps(g, IF f.alters THEN spoilt ELSE spoilt \cup {"ignored"}, Now(names))
  <2> DEFINE now == IF f.alters THEN spoilt ELSE spoilt \cup {"ignored"}
  <2>1. now = {} => f.alters /\ spoilt = {}
    OBVIOUS
  <2>2. "refetched" \notin now => "refetched" \notin spoilt
    OBVIOUS
  <2> HIDE DEF now, Now
  <2>3. Keeps(g, now, Now(names))
    BY <1>15, <1>16, <1>17, <2>1, <2>2 DEF Keeps
  <2> QED
    BY <2>3 DEF now
<1> QED
  BY <1>2, <1>3, <1>5, <1>8, <1>9, <1>12, <1>17

LEMMA AddedSheet ==
  ASSUME AlterTableAssumption, NEW n \in Nat, NEW f, SheetOK(f, n), NEW name \in Names
  PROVE  LET g == [f EXCEPT !.columns = Append(@, Column(name, DefaultType, 0)),
                            !.touched = TRUE, !.order = Append(@, Len(@) + 1)]
         IN /\ SheetOK(g, n) /\ g.alters = f.alters
            /\ \A spoilt, names : Keeps(f, spoilt, names) =>
                 Keeps(g, IF Len(f.order) # Len(f.columns) THEN spoilt \cup {"added"} ELSE spoilt,
                       names)
<1>1. PICK C \in Seq(Columns) : C = f.columns
  BY DEF SheetOK, Sheet
<1>2. PICK p \in Seq(Nat \ {0}) : p = f.order
  BY DEF SheetOK, Sheet
<1>3. PICK c \in Columns : c = Column(name, DefaultType, 0) /\ c.id = 0 /\ ~c.marker
  <2>1. /\ name \in Names \cup {Deleted} /\ DefaultType \in Types \cup {PrimaryKey, AnyType}
        /\ 0 \in Nat /\ FALSE \in BOOLEAN
    BY DEF AlterTableAssumption
  <2>2. Column(name, DefaultType, 0) \in Columns
    BY <2>1, Zenon DEF Columns, Column
  <2>3. Column(name, DefaultType, 0).id = 0 /\ ~Column(name, DefaultType, 0).marker
    BY DEF Column
  <2> QED
    BY <2>2, <2>3
<1>4. PICK N \in Nat : N = Len(C)
  OBVIOUS
<1>5. PICK m \in Nat : m = Len(p)
  OBVIOUS
<1> DEFINE D == Append(C, c)
           r == Append(p, m + 1)
           g == [f EXCEPT !.columns = D, !.touched = TRUE, !.order = r]
<1>6. /\ D \in Seq(Columns) /\ Len(D) = N + 1 /\ D[N + 1] = c
      /\ \A j \in 1 .. N : D[j] = C[j]
  BY <1>4
<1>7. /\ r \in Seq(Nat \ {0}) /\ Len(r) = m + 1 /\ r[m + 1] = m + 1
      /\ \A j \in 1 .. m : r[j] = p[j]
  BY <1>5
<1>8. g = [f EXCEPT !.columns = Append(@, c), !.touched = TRUE, !.order = Append(@, Len(@) + 1)]
  BY <1>1, <1>2, <1>5 DEF SheetOK, Sheet
<1>9. /\ g \in Sheet /\ g.alters = f.alters /\ g.source = f.source /\ g.columns = D
      /\ g.order = r
  BY <1>6, <1>7 DEF SheetOK, Sheet
<1> HIDE DEF D, r, g
<1>10. 1 \in 1 .. N /\ 1 \in 1 .. m
  BY <1>1, <1>2, <1>4, <1>5 DEF SheetOK
<1>11. SheetOK(g, n)
  <2>1. /\ C[1].type = PrimaryKey /\ ~C[1].marker
        /\ p[1] = 1 /\ \A j \in 2 .. m : p[j] # 1
    BY <1>1, <1>2, <1>5 DEF SheetOK
  <2>2. D # <<>> /\ D[1] = C[1]
    BY <1>6, <1>10
  <2>3. r # <<>> /\ r[1] = 1
    BY <1>7, <1>10, <2>1
  <2>4. ASSUME NEW j \in 2 .. Len(r) PROVE r[j] # 1
    <3>1. CASE j = m + 1
      BY <1>7, <1>10, <3>1
    <3>2. CASE j # m + 1
      <4>1. j \in 2 .. m /\ j \in 1 .. m
        BY <1>7, <3>2
      <4> QED
        BY <1>7, <2>1, <4>1
    <3> QED
      BY <3>1, <3>2
  <2> QED
    BY <1>9, <2>1, <2>2, <2>3, <2>4 DEF SheetOK
<1>12. Range(p) \subseteq Range(r)
  <2> SUFFICES ASSUME NEW j \in DOMAIN p PROVE p[j] \in Range(r)
    BY DEF Range
  <2>1. j \in 1 .. m
    BY <1>5
  <2>2. j \in DOMAIN r /\ r[j] = p[j]
    BY <1>7, <2>1
  <2> QED
    BY <2>2 DEF Range
<1>13. ASSUME m = N, Faithful(f) PROVE Faithful(g)
  <2>1. CASE f.alters
    <3>1. /\ Len(f.source) <= N /\ Len(f.source) \in Nat
          /\ \A j, l \in 1 .. m : p[j] = p[l] => j = l
          /\ Range(p) = Unmarked(C)
          /\ \A j \in Unmarked(C) :
               C[j].id = IF j <= Len(f.source) THEN f.source[j].id ELSE 0
      <4>1. Len(f.source) \in Nat
        BY DEF SheetOK, Sheet
      <4>2. DOMAIN p = 1 .. m
        BY <1>5
      <4> QED
        BY <1>1, <1>2, <1>4, <1>13, <2>1, <4>1, <4>2 DEF Faithful
    <3>2. Unmarked(D) = Unmarked(C) \cup {N + 1}
      <4>1. DOMAIN C = 1 .. N /\ DOMAIN D = 1 .. N + 1
        BY <1>4, <1>6
      <4>2. \A j \in 1 .. N + 1 : j \in 1 .. N \/ j = N + 1
        OBVIOUS
      <4> QED
        BY <1>3, <1>6, <4>1, <4>2 DEF Unmarked
    <3>3. Range(r) = Range(p) \cup {N + 1}
      <4>1. DOMAIN p = 1 .. m /\ DOMAIN r = 1 .. m + 1
        BY <1>5, <1>7
      <4>2. \A j \in 1 .. m + 1 : j \in 1 .. m \/ j = m + 1
        OBVIOUS
      <4>3. m + 1 \in 1 .. m + 1
        OBVIOUS
      <4>4. N + 1 \in Range(r)
        BY <1>7, <1>13, <4>1, <4>3 DEF Range
      <4>5. ASSUME NEW e \in Range(r) PROVE e \in Range(p) \cup {N + 1}
        <5>1. PICK j \in 1 .. m + 1 : r[j] = e
          BY <4>1 DEF Range
        <5>2. CASE j = m + 1
          BY <1>7, <1>13, <5>1, <5>2
        <5>3. CASE j # m + 1
          <6>1. j \in DOMAIN p /\ p[j] = e
            BY <1>7, <4>1, <4>2, <5>1, <5>3
          <6> QED
            BY <6>1 DEF Range
        <5> QED
          BY <5>2, <5>3
      <4> QED
        BY <1>12, <4>4, <4>5
    <3>4. \A j \in 1 .. m : p[j] \in Nat /\ p[j] < N + 1
      <4> SUFFICES ASSUME NEW j \in 1 .. m PROVE p[j] \in Nat /\ p[j] < N + 1
        OBVIOUS
      <4>1. p[j] \in Unmarked(C)
        BY <1>5, <3>1, SMTT(40) DEF Range
      <4>2. p[j] \in 1 .. N
        BY <1>4, <4>1 DEF Unmarked
      <4> QED
        BY <4>2
    <3>5. ASSUME NEW j \in 1 .. m + 1, NEW l \in 1 .. m + 1, r[j] = r[l] PROVE j = l
      <4>1. CASE j = m + 1 /\ l = m + 1
        BY <4>1
      <4>2. CASE j = m + 1 /\ l # m + 1
        <5>1. l \in 1 .. m
          BY <4>2
        <5> QED
          BY <1>7, <1>13, <3>4, <3>5, <4>2, <5>1
      <4>3. CASE j # m + 1 /\ l = m + 1
        <5>1. j \in 1 .. m
          BY <4>3
        <5> QED
          BY <1>7, <1>13, <3>4, <3>5, <4>3, <5>1
      <4>4. CASE j # m + 1 /\ l # m + 1
        <5>1. j \in 1 .. m /\ l \in 1 .. m
          BY <4>4
        <5> QED
          BY <1>7, <3>1, <3>5, <5>1
      <4> QED
        BY <4>1, <4>2, <4>3, <4>4
    <3>6. ASSUME NEW j \in Unmarked(D)
          PROVE  D[j].id = IF j <= Len(f.source) THEN f.source[j].id ELSE 0
      <4>1. CASE j = N + 1
        BY <1>3, <1>6, <3>1, <4>1
      <4>2. CASE j # N + 1
        <5>1. j \in Unmarked(C)
          BY <3>2, <4>2
        <5>2. D[j] = C[j]
          BY <1>4, <1>6, <5>1 DEF Unmarked
        <5> QED
          BY <3>1, <5>1, <5>2
      <4> QED
        BY <4>1, <4>2
    <3>7. DOMAIN r = 1 .. m + 1 /\ Len(f.source) <= Len(D)
      BY <1>6, <1>7, <3>1
    <3> QED
      BY <1>9, <2>1, <3>1, <3>2, <3>3, <3>5, <3>6, <3>7 DEF Faithful
  <2>2. CASE ~f.alters
    <3>1. p = Identity(C) /\ \A j \in 1 .. N : C[j].id = 0
      BY <1>1, <1>2, <1>4, <1>13, <2>2 DEF Faithful
    <3>2. \A j \in 1 .. N + 1 : j \in 1 .. N \/ j = N + 1
      OBVIOUS
    <3>3. \A j \in 1 .. N + 1 : r[j] = j
      <4>1. \A j \in 1 .. N : p[j] = j
        BY <1>4, <3>1, IdentityIs
      <4> QED
        BY <1>7, <1>13, <3>2, <4>1
    <3>4. DOMAIN D = 1 .. N + 1 /\ DOMAIN r = 1 .. N + 1
      BY <1>6, <1>7, <1>13
    <3>5. r = Identity(D)
      <4>1. r = [j \in 1 .. N + 1 |-> r[j]]
        BY <1>7, <3>4
      <4> QED
        BY <3>3, <3>4, <4>1 DEF Identity
    <3>6. \A j \in DOMAIN D : D[j].id = 0
      BY <1>3, <1>6, <3>1, <3>2, <3>4
    <3> QED
      BY <1>9, <2>2, <3>5, <3>6 DEF Faithful
  <2> QED
    BY <2>1, <2>2
<1>14. ASSUME NEW names, Tracked(f, names) PROVE Tracked(g, names)
  <2> SUFFICES ASSUME f.alters PROVE Tracked(g, names)
    BY <1>9 DEF Tracked
  <2>1. /\ Len(f.source) <= N /\ Len(f.source) \in Nat
        /\ \A j \in 1 .. Len(f.source) :
             IF C[j].marker THEN f.source[j].name \in names ELSE j \in Range(p)
    BY <1>1, <1>2, <1>4, <1>14 DEF Tracked, SheetOK, Sheet
  <2>2. ASSUME NEW j \in 1 .. Len(f.source)
        PROVE  IF D[j].marker THEN f.source[j].name \in names ELSE j \in Range(r)
    <3>1. D[j] = C[j]
      BY <1>6, <2>1
    <3> QED
      BY <1>12, <2>1, <3>1
  <2>3. Len(f.source) <= Len(D)
    BY <1>6, <2>1
  <2> QED
    BY <1>9, <2>2, <2>3 DEF Tracked
<1>15. ASSUME NEW spoilt, NEW names, Keeps(f, spoilt, names)
       PROVE  Keeps(g, IF Len(f.order) # Len(f.columns) THEN spoilt \cup {"added"} ELSE spoilt, names)
  <2> DEFINE now == IF Len(f.order) # Len(f.columns) THEN spoilt \cup {"added"} ELSE spoilt
  <2>1. now = {} => m = N /\ spoilt = {}
    BY <1>1, <1>2, <1>4, <1>5
  <2>2. "refetched" \notin now => "refetched" \notin spoilt
    OBVIOUS
  <2> HIDE DEF now
  <2>3. Keeps(g, now, names)
    BY <1>13, <1>14, <1>15, <2>1, <2>2 DEF Keeps
  <2> QED
    BY <2>3 DEF now
<1> QED
  BY <1>3, <1>8, <1>9, <1>11, <1>15
-----------------------------------------------------------------------------
(* The invariant.                                                          *)

TableInv == born \in Nat /\ Stored(table, born)

ShapeInv ==
  /\ schemas \in [Admins -> Seq(Columns)]
  /\ form \in [Admins -> Sheet \cup {Closed}]
  /\ clicked \in [Admins -> SUBSET (Names \cup {Deleted})]
  /\ spoiled \in [Admins -> SUBSET {"added", "refetched", "ignored"}]
  /\ done \in [Admins -> Nat]

\* What the page has is a table; a table that was there stays.
PageInv(a) == Stored(schemas[a], born) /\ (schemas[a] # <<>> => table # <<>>)

SheetInv(a) ==
  form[a] # Closed =>
    /\ SheetOK(form[a], born)
    /\ form[a].alters => table # <<>>
    /\ Keeps(form[a], spoiled[a], clicked[a])

Inv ==
  /\ TableInv
  /\ ShapeInv
  /\ \A a \in Admins : PageInv(a) /\ SheetInv(a)

LEMMA InitInv == AlterTableAssumption /\ Init => Inv
<1> SUFFICES ASSUME AlterTableAssumption, Init PROVE Inv
  OBVIOUS
<1>1. /\ FirstTable \in Seq(Columns) /\ Distinct(FirstTable)
      /\ FirstTable[1].type = PrimaryKey
      /\ \A i \in DOMAIN FirstTable : ~FirstTable[i].marker
  BY DEF AlterTableAssumption, Proper
<1>2. PICK n \in Nat : n = Len(FirstTable)
  BY <1>1
<1>3. \A i \in DOMAIN FirstTable : FirstTable[i].id \in 1 .. n
  BY <1>2 DEF AlterTableAssumption, IdsOf
<1>4. Stored(FirstTable, n) /\ Stored(<<>>, n)
  BY <1>1, <1>3 DEF Stored, Distinct
<1>5. born = n /\ Stored(table, born)
  BY <1>2, <1>4 DEF Init
<1>6. TableInv
  BY <1>5 DEF TableInv
<1>7. ShapeInv
  <2>1. table \in Seq(Columns)
    BY <1>5 DEF Stored
  <2> QED
    BY <2>1 DEF ShapeInv, Init
<1>8. \A a \in Admins : PageInv(a)
  BY <1>5 DEF PageInv, Init
<1>9. \A a \in Admins : SheetInv(a)
  BY DEF SheetInv, Init
<1> QED
  BY <1>6, <1>7, <1>8, <1>9 DEF Inv

\* One admin's page, its sheet or both change, not the table.
LEMMA PageChanges ==
  ASSUME Inv, UNCHANGED <<table, born, done>>, NEW a \in Admins, NEW f,
         NEW s, Stored(s, born), s # <<>> => table # <<>>,
         schemas' = [schemas EXCEPT ![a] = s],
         f = Closed \/ (SheetOK(f, born) /\ (f.alters => table # <<>>)),
         form' = [form EXCEPT ![a] = f],
         NEW names \in SUBSET (Names \cup {Deleted}),
         clicked' = [clicked EXCEPT ![a] = names],
         NEW spoilt \in SUBSET {"added", "refetched", "ignored"},
         spoiled' = [spoiled EXCEPT ![a] = spoilt],
         f = Closed \/ Keeps(f, spoilt, names)
  PROVE  Inv'
<1>1. TableInv'
  BY DEF Inv, TableInv
<1>2. f \in Sheet \cup {Closed} /\ s \in Seq(Columns)
  BY DEF SheetOK, Stored
<1>3. ShapeInv'
  BY <1>2 DEF Inv, ShapeInv
<1>4. ASSUME NEW b \in Admins PROVE PageInv(b)' /\ SheetInv(b)'
  <2>1. PageInv(b) /\ SheetInv(b)
    BY DEF Inv
  <2>2. CASE b = a
    <3>1. schemas'[b] = s /\ form'[b] = f /\ clicked'[b] = names /\ spoiled'[b] = spoilt
      BY <2>2 DEF Inv, ShapeInv
    <3>2. PageInv(b)'
      BY <3>1 DEF PageInv
    <3>3. SheetInv(b)'
      BY <3>1 DEF SheetInv
    <3> QED
      BY <3>2, <3>3
  <2>3. CASE b # a
    <3>1. /\ schemas'[b] = schemas[b] /\ form'[b] = form[b]
          /\ clicked'[b] = clicked[b] /\ spoiled'[b] = spoiled[b]
      BY <2>3 DEF Inv, ShapeInv
    <3>2. PageInv(b)'
      BY <2>1, <3>1 DEF PageInv
    <3>3. SheetInv(b)'
      BY <2>1, <3>1 DEF SheetInv
    <3> QED
      BY <3>2, <3>3
  <2> QED
    BY <2>2, <2>3
<1> QED
  BY <1>1, <1>3, <1>4 DEF Inv

LEMMA Unchanged ==
  ASSUME Inv, NEW a \in Admins
  PROVE  /\ schemas = [schemas EXCEPT ![a] = schemas[a]]
         /\ clicked = [clicked EXCEPT ![a] = clicked[a]]
         /\ spoiled = [spoiled EXCEPT ![a] = spoiled[a]]
         /\ clicked[a] \in SUBSET (Names \cup {Deleted})
         /\ spoiled[a] \in SUBSET {"added", "refetched", "ignored"}
         /\ PageInv(a) /\ SheetInv(a)
BY DEF Inv, ShapeInv

LEMMA OpenInv ==
  ASSUME AlterTableAssumption, Inv, NEW a \in Admins, Open(a)
  PROVE  Inv'
<1>1. PICK f : f = IF schemas[a] = <<>> THEN defaultSchema ELSE deepCopySchema(schemas[a])
  OBVIOUS
<1>2. /\ form' = [form EXCEPT ![a] = f]
      /\ clicked' = [clicked EXCEPT ![a] = {}] /\ spoiled' = [spoiled EXCEPT ![a] = {}]
      /\ UNCHANGED <<table, schemas, born, done>>
  BY <1>1 DEF Open
<1>3. born \in Nat /\ PageInv(a)
  BY DEF Inv, TableInv
<1>4. SheetOK(f, born) /\ (f.alters => table # <<>>) /\ Keeps(f, {}, {})
  <2>1. CASE schemas[a] = <<>>
    BY <1>1, <1>3, <2>1, DefaultSheet
  <2>2. CASE schemas[a] # <<>>
    BY <1>1, <1>3, <2>2, DeepCopy DEF PageInv
  <2> QED
    BY <2>1, <2>2
<1>5. schemas' = [schemas EXCEPT ![a] = schemas[a]]
  BY <1>2, Unchanged
<1> QED
  BY <1>2, <1>3, <1>4, <1>5, PageChanges DEF PageInv

LEMMA CloseInv ==
  ASSUME Inv, NEW a \in Admins, Close(a)
  PROVE  Inv'
<1>1. /\ form' = [form EXCEPT ![a] = Closed]
      /\ UNCHANGED <<table, schemas, born, clicked, spoiled, done>>
  BY DEF Close, history
<1>2. /\ schemas' = [schemas EXCEPT ![a] = schemas[a]]
      /\ clicked' = [clicked EXCEPT ![a] = clicked[a]]
      /\ spoiled' = [spoiled EXCEPT ![a] = spoiled[a]]
  BY <1>1, Unchanged
<1>3. /\ clicked[a] \in SUBSET (Names \cup {Deleted})
      /\ spoiled[a] \in SUBSET {"added", "refetched", "ignored"}
      /\ PageInv(a)
  BY Unchanged
<1> QED
  BY <1>1, <1>2, <1>3, PageChanges DEF PageInv

\* Another fetch: the sheet is as it was, new, or has been spoiled.
LEMMA RefetchInv ==
  ASSUME AlterTableAssumption, Inv, NEW a \in Admins, Refetch(a)
  PROVE  Inv'
<1>1. PICK f : f = form[a]
  OBVIOUS
<1>2. PICK g : g = IF f = Closed THEN f ELSE Refetched(f, table)
  OBVIOUS
<1>3. PICK spoilt : spoilt = IF f # Closed /\ Spoils(f, table)
                             THEN spoiled[a] \cup {"refetched"} ELSE spoiled[a]
  OBVIOUS
<1>4. /\ schemas' = [schemas EXCEPT ![a] = table]
      /\ form' = [form EXCEPT ![a] = g]
      /\ spoiled' = [spoiled EXCEPT ![a] = spoilt]
      /\ UNCHANGED <<table, born, clicked, done>>
  BY <1>1, <1>2, <1>3 DEF Refetch, Inv, ShapeInv
<1>5. /\ clicked' = [clicked EXCEPT ![a] = clicked[a]]
      /\ clicked[a] \in SUBSET (Names \cup {Deleted})
      /\ spoilt \in SUBSET {"added", "refetched", "ignored"}
      /\ SheetInv(a)
  BY <1>3, <1>4, Unchanged
<1>6. born \in Nat /\ Stored(table, born)
  BY DEF Inv, TableInv
<1>7. ASSUME f # Closed
      PROVE  SheetOK(g, born) /\ (g.alters => table # <<>>) /\ Keeps(g, spoilt, clicked[a])
  <2>1. SheetOK(f, born) /\ (f.alters => table # <<>>) /\ Keeps(f, spoiled[a], clicked[a])
    BY <1>1, <1>5, <1>7 DEF SheetInv
  <2>2. PICK fresh : fresh = IF f.alters THEN deepCopySchema(table) ELSE defaultSchema
    OBVIOUS
  <2>3. /\ SheetOK(fresh, born) /\ (fresh.alters => table # <<>>)
        /\ \A now, names : Keeps(fresh, now, names)
    <3>1. CASE f.alters
      BY <1>6, <2>1, <2>2, <3>1, DeepCopy
    <3>2. CASE ~f.alters
      BY <1>6, <2>2, <3>2, DefaultSheet
    <3> QED
      BY <3>1, <3>2
  <2>4. g = IF f.touched THEN [fresh EXCEPT !.columns = f.columns, !.touched = TRUE] ELSE fresh
    BY <1>2, <1>7, <2>2 DEF Refetched
  <2>5. CASE ~f.touched
    BY <2>3, <2>4, <2>5
  <2>6. CASE f.touched
    <3>1. /\ g \in Sheet /\ g.alters = fresh.alters /\ g.source = fresh.source
          /\ g.columns = f.columns /\ g.order = fresh.order
      BY <2>1, <2>3, <2>4, <2>6 DEF SheetOK, Sheet
    <3>2. SheetOK(g, born) /\ (g.alters => table # <<>>)
      BY <2>1, <2>3, <3>1 DEF SheetOK
    <3>3. Spoils(f, table) <=> g # f
      BY <1>2, <1>7, <2>6 DEF Spoils
    <3>4. CASE g = f
      BY <1>3, <2>1, <3>2, <3>3, <3>4
    <3>5. CASE g # f
      <4>1. "refetched" \in spoilt
        BY <1>3, <1>7, <3>3, <3>5
      <4> QED
        BY <3>2, <4>1 DEF Keeps
    <3> QED
      BY <3>4, <3>5
  <2> QED
    BY <2>5, <2>6
<1> QED
  BY <1>2, <1>4, <1>5, <1>6, <1>7, PageChanges

LEMMA ChangeInv ==
  ASSUME Inv, NEW a \in Admins, form[a] # Closed, NEW f, Change(a, f),
         SheetOK(f, born), f.alters = form[a].alters,
         NEW names \in SUBSET (Names \cup {Deleted}),
         clicked' = [clicked EXCEPT ![a] = names],
         NEW spoilt \in SUBSET {"added", "refetched", "ignored"},
         spoiled' = [spoiled EXCEPT ![a] = spoilt],
         Keeps(f, spoilt, names)
  PROVE  Inv'
<1>1. form' = [form EXCEPT ![a] = f] /\ UNCHANGED <<table, schemas, born, done>>
  BY DEF Change
<1>2. schemas' = [schemas EXCEPT ![a] = schemas[a]] /\ PageInv(a) /\ SheetInv(a)
  BY <1>1, Unchanged
<1>3. f.alters => table # <<>>
  BY <1>2 DEF SheetInv
<1> QED
  BY <1>1, <1>2, <1>3, PageChanges DEF PageInv

LEMMA EditInv ==
  ASSUME AlterTableAssumption, Inv, NEW a \in Admins, Edit(a)
  PROVE  Inv'
<1>1. PICK f : f = form[a]
  OBVIOUS
<1>2. born \in Nat
  BY DEF Inv, TableInv
<1>3. /\ f # Closed => SheetOK(f, born) /\ Keeps(f, spoiled[a], clicked[a])
      /\ clicked = [clicked EXCEPT ![a] = clicked[a]]
      /\ spoiled = [spoiled EXCEPT ![a] = spoiled[a]]
      /\ clicked[a] \in SUBSET (Names \cup {Deleted})
      /\ spoiled[a] \in SUBSET {"added", "refetched", "ignored"}
  BY <1>1, Unchanged DEF SheetInv
<1>4. ASSUME NEW k \in Shown(a) PROVE f # Closed /\ k \in DOMAIN f.order
  BY <1>1, <1>4 DEF Shown
<1>5. ASSUME NEW name \in Names, AddColumn(a, name) PROVE Inv'
  <2>1. PICK g : g = [f EXCEPT !.columns = Append(@, Column(name, DefaultType, 0)),
                               !.touched = TRUE, !.order = Append(@, Len(@) + 1)]
    OBVIOUS
  <2>2. PICK spoilt : spoilt = IF Len(f.order) # Len(f.columns)
                               THEN spoiled[a] \cup {"added"} ELSE spoiled[a]
    OBVIOUS
  <2>3. /\ f # Closed /\ Change(a, g) /\ clicked' = clicked
        /\ spoiled' = [spoiled EXCEPT ![a] = spoilt]
    BY <1>1, <1>5, <2>1, <2>2 DEF AddColumn, Inv, ShapeInv
  <2>4. SheetOK(g, born) /\ g.alters = f.alters /\ Keeps(g, spoilt, clicked[a])
    BY <1>2, <1>3, <2>1, <2>2, <2>3, AddedSheet
  <2>5. spoilt \in SUBSET {"added", "refetched", "ignored"}
    BY <1>3, <2>2
  <2> QED
    BY <1>1, <1>3, <2>3, <2>4, <2>5, ChangeInv
<1>6. ASSUME NEW name \in Names, NEW k \in Shown(a), NEW type \in Types \cup {PrimaryKey},
             EditColumn(a, k, name, type)
      PROVE  Inv'
  <2>2. PICK g : g = [f EXCEPT !.columns[f.order[k]] =
                                 Column(name, type, f.columns[f.order[k]].id), !.touched = TRUE]
    BY SMTT(40)
  <2>3. /\ f.order[k] \in DOMAIN f.columns /\ UNCHANGED <<clicked, spoiled>>
        /\ IF k = 1 THEN ~f.alters /\ type = PrimaryKey ELSE type \in Types
        /\ Change(a, g)
    BY <1>1, <1>6, <2>2 DEF EditColumn
  <2>4. /\ SheetOK(g, born) /\ g.alters = f.alters
        /\ \A spoilt, names : Keeps(f, spoilt, names) => Keeps(g, spoilt, names)
    <3>1. f # Closed /\ k \in DOMAIN f.order
      BY <1>4
    <3>2. SheetOK(f, born)
      BY <1>3, <3>1
    <3> QED
      <4>1. Edited(f, k, name, type, g)
        BY <2>2, <2>3, <3>1 DEF Edited
      <4> QED
        BY <1>2, <3>2, <4>1, EditedSheet
  <2>5. f # Closed
    BY <1>4
  <2> QED
    BY <1>1, <1>3, <2>3, <2>4, <2>5, ChangeInv
<1>7. ASSUME NEW k \in Shown(a), Move(a, k) PROVE Inv'
  <2>1. PICK g : g = [f EXCEPT !.order = [@ EXCEPT ![k] = f.order[k - 1], ![k - 1] = f.order[k]]]
    OBVIOUS
  <2>2. PICK spoilt : spoilt = IF f.alters THEN spoiled[a] ELSE spoiled[a] \cup {"ignored"}
    OBVIOUS
  <2>3. /\ k > 2 /\ Change(a, g) /\ clicked' = clicked
        /\ spoiled' = [spoiled EXCEPT ![a] = spoilt]
    BY <1>1, <1>7, <2>1, <2>2 DEF Move, Inv, ShapeInv
  <2>4. SheetOK(g, born) /\ g.alters = f.alters /\ Keeps(g, spoilt, clicked[a])
    BY <1>2, <1>3, <1>4, <2>1, <2>2, <2>3, MovedSheet
  <2>5. spoilt \in SUBSET {"added", "refetched", "ignored"} /\ f # Closed
    BY <1>3, <1>4, <2>2
  <2> QED
    BY <1>1, <1>3, <2>3, <2>4, <2>5, ChangeInv
<1>8. ASSUME NEW k \in Shown(a), onDelete(a, k) PROVE Inv'
  <2>1. PICK i : i = f.order[k]
    OBVIOUS
  <2>2. PICK g : g = [f EXCEPT !.columns = Put(@, i, DELETED_COLUMN_MARKER), !.touched = TRUE,
                               !.order = RemoveAt(@, k)]
    OBVIOUS
  <2>3. PICK spoilt : spoilt = IF f.alters THEN spoiled[a] ELSE spoiled[a] \cup {"ignored"}
    OBVIOUS
  <2>4. PICK names : names = IF i \in DOMAIN f.source
                             THEN clicked[a] \cup {f.source[i].name} ELSE clicked[a]
    OBVIOUS
  <2>5. /\ k > 1 /\ i <= Len(f.columns) + 1 /\ Change(a, g)
        /\ clicked' = [clicked EXCEPT ![a] = names]
        /\ spoiled' = [spoiled EXCEPT ![a] = spoilt]
    BY <1>1, <1>8, <2>1, <2>2, <2>3, <2>4, SMTT(40) DEF onDelete, Inv, ShapeInv
  <2>6. SheetOK(g, born) /\ g.alters = f.alters /\ Keeps(g, spoilt, names)
    BY <1>2, <1>3, <1>4, <2>1, <2>2, <2>3, <2>4, <2>5, DeletedSheet, ZenonT(60)
  <2>7. spoilt \in SUBSET {"added", "refetched", "ignored"} /\ f # Closed
    BY <1>3, <1>4, <2>3
  <2>8. names \in SUBSET (Names \cup {Deleted})
    <3>1. i \in DOMAIN f.source => f.source[i] \in Columns
      BY <1>3, <2>7 DEF SheetOK, Sheet
    <3>2. i \in DOMAIN f.source => f.source[i].name \in Names \cup {Deleted}
      BY <3>1 DEF Columns
    <3> QED
      BY <1>3, <2>4, <3>2
  <2> QED
    BY <1>1, <2>5, <2>6, <2>7, <2>8, ChangeInv
<1> QED
  BY <1>5, <1>6, <1>7, <1>8 DEF Edit

\* What a handler makes of a sheet is a table again.
LEMMA SucceedInv ==
  ASSUME Inv, NEW a \in Admins, NEW columns, Succeed(a, columns),
         columns # <<>>, Stored(columns, born + Len(columns))
  PROVE  Inv'
<1>1. PICK n \in Nat : n = born + Len(columns) /\ born <= n
  <2>1. born \in Nat /\ Len(columns) \in Nat
    BY DEF Inv, TableInv, Stored
  <2> QED
    BY <2>1
<1>2. /\ table' = columns /\ born' = n
      /\ form' = [form EXCEPT ![a] = Closed]
      /\ schemas' = [schemas EXCEPT ![a] = columns]
      /\ done' = [done EXCEPT ![a] = @ + 1]
      /\ UNCHANGED <<edits, clicked, spoiled>>
  BY <1>1 DEF Succeed
<1>3. Stored(columns, n) /\ columns \in Seq(Columns)
  BY <1>1 DEF Stored
<1>4. TableInv'
  BY <1>2, <1>3 DEF TableInv
<1>5. ShapeInv'
  <2>1. done' \in [Admins -> Nat]
    <3>1. done \in [Admins -> Nat] /\ done[a] + 1 \in Nat
      BY DEF Inv, ShapeInv
    <3> QED
      BY <1>2, <3>1
  <2> QED
    BY <1>2, <1>3, <2>1 DEF Inv, ShapeInv
<1>6. ASSUME NEW b \in Admins PROVE PageInv(b)' /\ SheetInv(b)'
  <2>1. PageInv(b) /\ SheetInv(b) /\ born \in Nat
    BY DEF Inv, TableInv
  <2>2. PageInv(b)'
    <3>1. schemas'[b] = schemas[b] \/ schemas'[b] = columns
      BY <1>2 DEF Inv, ShapeInv
    <3>2. Stored(schemas[b], n)
      BY <1>1, <2>1, StoredLater DEF PageInv
    <3>3. Stored(schemas'[b], n)
      BY <1>3, <3>1, <3>2
    <3> QED
      BY <1>2, <3>3 DEF PageInv
  <2>3. SheetInv(b)'
    <3>1. CASE form'[b] = Closed
      BY <3>1 DEF SheetInv
    <3>2. CASE form'[b] # Closed
      <4>1. form'[b] = form[b] /\ clicked'[b] = clicked[b] /\ spoiled'[b] = spoiled[b]
        BY <1>2, <3>2 DEF Inv, ShapeInv
      <4>2. SheetOK(form[b], born) /\ Keeps(form[b], spoiled[b], clicked[b])
        BY <2>1, <3>2, <4>1 DEF SheetInv
      <4>3. SheetOK(form[b], n)
        BY <1>1, <2>1, <4>2, SheetOKLater
      <4>4. /\ SheetOK(form'[b], born')
            /\ form'[b].alters => table' # <<>>
            /\ Keeps(form'[b], spoiled'[b], clicked'[b])
        BY <1>2, <4>1, <4>2, <4>3
      <4> QED
        BY <4>4 DEF SheetInv
    <3> QED
      BY <3>1, <3>2
  <2> QED
    BY <2>2, <2>3
<1> QED
  BY <1>4, <1>5, <1>6 DEF Inv

\* The schema that the alteration of a sheet was executed with.
Alters(a, f, s) ==
  /\ f = form[a] /\ s = build_ephemeral_target_schema(f)
  /\ f \in Sheet /\ f.alters /\ SheetOK(f, born) /\ Keeps(f, spoiled[a], clicked[a])
  /\ s.ok /\ s.columns \in Seq(Columns) /\ Distinct(s.columns) /\ s.columns # <<>>
  /\ s.columns[1].type = PrimaryKey
  /\ DOMAIN s.mapping \subseteq NamesOf(table)
  /\ Range(s.mapping) \subseteq NamesOf(s.columns)
  /\ Succeed(a, Copied(s))

LEMMA AltersTo ==
  ASSUME Inv, NEW a \in Admins, alter_table_handler(a)
  PROVE  \E f, s : Alters(a, f, s)
<1>1. PICK f : f = form[a]
  OBVIOUS
<1>2. PICK s : s = build_ephemeral_target_schema(f)
  OBVIOUS
<1>3. f # Closed /\ f.alters /\ Executes(s) /\ Succeed(a, Copied(s))
  BY <1>1, <1>2 DEF alter_table_handler, Submits
<1>4. SheetOK(f, born) /\ Keeps(f, spoiled[a], clicked[a])
  BY <1>1, <1>3 DEF Inv, SheetInv
<1>5. /\ f \in Sheet /\ Distinct(f.source) /\ f.columns # <<>> /\ f.columns[1].type = PrimaryKey
      /\ ~f.columns[1].marker /\ f.order # <<>> /\ f.order[1] = 1
  BY <1>4 DEF SheetOK, Stored
<1>6. /\ s.ok /\ Distinct(s.columns) /\ s.columns # <<>>
      /\ DOMAIN s.mapping \subseteq NamesOf(table)
      /\ Range(s.mapping) \subseteq NamesOf(s.columns)
  BY <1>3 DEF Executes
<1>7. s.columns[1].type = PrimaryKey
  BY <1>2, <1>5, <1>6, PrimaryKeyFirst
<1>8. s.columns \in Seq(Columns)
  <2>1. f.source \in Seq(Columns) /\ f.columns \in Seq(Columns) /\ f.order \in Seq(Nat)
    BY <1>5 DEF Sheet
  <2> QED
    <3>1. PICK t : t = Schemas(f)[Len(f.columns)]
      OBVIOUS
    <3> QED
      BY <1>2, <1>5, <1>6, <2>1, <3>1, Target
<1> QED
  BY <1>1, <1>2, <1>3, <1>4, <1>5, <1>6, <1>7, <1>8 DEF Alters

LEMMA AlterInv ==
  ASSUME Inv, NEW a \in Admins, alter_table_handler(a)
  PROVE  Inv'
<1>1. PICK f, s : Alters(a, f, s)
  BY AltersTo
<1>2. PICK new : new = Copied(s)
  OBVIOUS
<1>3. /\ s.columns \in Seq(Columns) /\ Distinct(s.columns) /\ s.columns # <<>>
      /\ s.columns[1].type = PrimaryKey /\ DOMAIN s.mapping \subseteq NamesOf(table)
      /\ Succeed(a, new)
  BY <1>1, <1>2 DEF Alters
<1>4. born \in Nat /\ Stored(table, born)
  BY DEF Inv, TableInv
<1>5. /\ Becomes(s.columns, new)
      /\ \A k \in 1 .. Len(s.columns) : new[k].id \in IdsOf(table) \cup {born + k}
  BY <1>2, <1>3, <1>4, CopiedIs
<1>6. PICK n \in Nat : n = Len(new) /\ n = Len(s.columns)
  BY <1>3, <1>5 DEF Becomes
<1>7. Distinct(new)
  <2> SUFFICES ASSUME NEW i \in DOMAIN new, NEW j \in DOMAIN new, new[i].name = new[j].name
               PROVE  i = j
    BY DEF Distinct
  <2>1. i \in 1 .. n /\ j \in 1 .. n
    BY <1>5, <1>6 DEF Becomes
  <2>2. s.columns[i].name = s.columns[j].name /\ i \in DOMAIN s.columns /\ j \in DOMAIN s.columns
    BY <1>3, <1>5, <1>6, <2>1 DEF Becomes
  <2> QED
    BY <1>3, <2>2 DEF Distinct
<1>8. new # <<>> /\ new[1].type = PrimaryKey
  <2>1. 1 \in 1 .. n
    BY <1>3, <1>6
  <2> QED
    BY <1>3, <1>5, <1>6, <2>1 DEF Becomes
<1>9. ASSUME NEW i \in DOMAIN new PROVE ~new[i].marker /\ new[i].id \in 1 .. born + n
  <2>1. i \in 1 .. n
    BY <1>5, <1>6 DEF Becomes
  <2>2. ~new[i].marker /\ new[i].id \in IdsOf(table) \cup {born + i}
    BY <1>5, <1>6, <2>1 DEF Becomes
  <2>3. IdsOf(table) \subseteq 1 .. born
    BY <1>4 DEF Stored, IdsOf
  <2>4. new[i].id \in 1 .. born \/ new[i].id = born + i
    BY <2>2, <2>3
  <2> QED
    BY <1>4, <2>1, <2>2, <2>4
<1>10. Stored(new, born + Len(new))
  BY <1>5, <1>6, <1>7, <1>8, <1>9 DEF Stored, Becomes
<1> QED
  BY <1>3, <1>8, <1>10, SucceedInv

LEMMA CreateInv ==
  ASSUME Inv, NEW a \in Admins, create_table_handler(a)
  PROVE  Inv'
<1>1. PICK C : C = form[a].columns
  OBVIOUS
<1>2. PICK new : new = Fresh(C)
  OBVIOUS
<1>3. /\ form[a] # Closed /\ Distinct(C) /\ Succeed(a, new)
  BY <1>1, <1>2 DEF create_table_handler, Submits
<1>4. C \in Seq(Columns) /\ C # <<>> /\ C[1].type = PrimaryKey
  BY <1>1, <1>3 DEF Inv, SheetInv, SheetOK, Sheet
<1>5. born \in Nat
  BY DEF Inv, TableInv
<1>6. Becomes(C, new) /\ \A k \in 1 .. Len(C) : new[k].id = born + k
  BY <1>2, <1>4, <1>5, FreshIs
<1>7. PICK n \in Nat : n = Len(new) /\ n = Len(C)
  BY <1>4, <1>6 DEF Becomes
<1>8. DOMAIN new = 1 .. n /\ DOMAIN C = 1 .. n /\ 1 \in 1 .. n
  BY <1>4, <1>6, <1>7 DEF Becomes
<1>9. Distinct(new)
  BY <1>3, <1>6, <1>7, <1>8 DEF Distinct, Becomes
<1>10. new # <<>> /\ new[1].type = PrimaryKey
  BY <1>4, <1>6, <1>7, <1>8 DEF Becomes
<1>11. ASSUME NEW i \in 1 .. n PROVE ~new[i].marker /\ new[i].id \in 1 .. born + n
  BY <1>5, <1>6, <1>7 DEF Becomes
<1>12. Stored(new, born + Len(new))
  BY <1>6, <1>7, <1>8, <1>9, <1>10, <1>11 DEF Stored, Becomes
<1> QED
  BY <1>3, <1>10, <1>12, SucceedInv

LEMMA UnchangedInv ==
  ASSUME Inv, NEW a \in Admins, SubmitUnchanged(a)
  PROVE  Inv'
<1>1. PICK t : t = table
  OBVIOUS
<1>2. Succeed(a, t) /\ t # <<>>
  BY <1>1 DEF SubmitUnchanged, Submits, Inv, SheetInv
<1>3. born \in Nat /\ Stored(t, born) /\ Len(t) \in Nat
  BY <1>1 DEF Inv, TableInv, Stored
<1>4. Stored(t, born + Len(t))
  BY <1>3, StoredLater
<1> QED
  BY <1>2, <1>4, SucceedInv

LEMMA NextInv == AlterTableAssumption /\ Inv /\ [Next]_vars => Inv'
<1> SUFFICES ASSUME AlterTableAssumption, Inv, [Next]_vars PROVE Inv'
  OBVIOUS
<1>1. CASE UNCHANGED vars
  BY <1>1 DEF vars, history, Inv, TableInv, ShapeInv, PageInv, SheetInv
<1>2. ASSUME NEW a \in Admins, Open(a) \/ Close(a) \/ Refetch(a) \/ Edit(a) \/ Submit(a)
      PROVE  Inv'
  BY <1>2, OpenInv, CloseInv, RefetchInv, EditInv, AlterInv, CreateInv, UnchangedInv DEF Submit
<1> QED
  BY <1>1, <1>2 DEF Next

LEMMA Invariance == Spec => []Inv
<1>1. Init => Inv
  BY AlterTableAssumption, InitInv
<1>2. Inv /\ [Next]_vars => Inv'
  BY AlterTableAssumption, NextInv
<1> QED
  BY <1>1, <1>2, PTL DEF Spec

\* Type correctness; whatever the admins submit, in whatever order, from pages
\* however old, the table has no name twice and its primary key first.
THEOREM TypeCorrect == Spec => []TypeOK
<1>1. Inv => TypeOK
  BY DEF Inv, TableInv, ShapeInv, PageInv, SheetInv, SheetOK, Sheet, Stored, TypeOK
<1> QED
  BY <1>1, Invariance, PTL
-----------------------------------------------------------------------------
(* What is shown is what is stored.                                        *)

\* The k-th column of the schema that is built is the one in the k-th row.
LEMMA RowsAre ==
  ASSUME NEW a \in Admins, NEW f, NEW s, Alters(a, f, s), Faithful(f)
  PROVE  /\ Len(s.columns) = Len(f.order)
         /\ \A k \in 1 .. Len(f.order) :
              /\ f.order[k] \in Unmarked(f.columns)
              /\ columnsEqual(s.columns[k], f.columns[f.order[k]])
<1>1. PICK S \in Seq(Columns) : S = f.source /\ Distinct(S)
  BY DEF Alters, SheetOK, Stored
<1>2. PICK C \in Seq(Columns) : C = f.columns
  BY DEF Alters, Sheet
<1>3. PICK p \in Seq(Nat \ {0}) : p = f.order
  BY DEF Alters, Sheet
<1>4. PICK N \in Nat : N = Len(C)
  OBVIOUS
<1>5. PICK m \in Nat : m = Len(p)
  OBVIOUS
<1>6. PICK t : t = Schemas(f)[N]
  OBVIOUS
<1>7. /\ Len(S) <= N /\ Range(p) = Unmarked(C)
      /\ \A j, l \in 1 .. m : p[j] = p[l] => j = l
  BY <1>1, <1>2, <1>3, <1>4, <1>5, SMTT(40) DEF Faithful, Alters
<1>8. Left(S, C, N) = Unmarked(C)
  <2>1. DOMAIN C = 1 .. N /\ Len(S) \in Nat
    BY <1>4
  <2>2. \A i \in 1 .. Len(S) : ~(i > N)
    BY <1>7, <2>1
  <2> QED
    BY <2>1, <2>2 DEF Left, Unmarked
<1>9. \A k \in 1 .. m : p[k] \in Unmarked(C) /\ p[k] \in 1 .. N
  <2>1. \A k \in 1 .. m : p[k] \in Range(p)
    <3>1. DOMAIN p = 1 .. m
      BY <1>5
    <3> QED
      BY <3>1, SMTT(40) DEF Range
  <2> QED
    BY <1>4, <1>7, <2>1 DEF Unmarked
<1>10. /\ t.ok
       /\ ~columsReordered(f) => s = t
       /\ columsReordered(f) =>
            /\ Len(s.columns) = m
            /\ \A k \in 1 .. m :
                 LET j == Named(t.columns, C[p[k]].name)
                 IN /\ j \in 1 .. Len(t.columns) /\ s.columns[k] = t.columns[j]
                    /\ s.columns[k].name = C[p[k]].name
  <2>1. f.order \in Seq(Nat)
    BY <1>3
  <2>2. s = build_ephemeral_target_schema(f) /\ s.ok
    BY DEF Alters
  <2> QED
    <3>1. /\ t = Schemas(f)[Len(f.columns)] /\ S = f.source /\ C = f.columns
          /\ p = f.order
      BY <1>1, <1>2, <1>3, <1>4, <1>6
    <3>2. f.source \in Seq(Columns) /\ f.columns \in Seq(Columns) /\ Distinct(f.source)
      BY <1>1, <1>2
    <3>3. /\ t.ok /\ (~columsReordered(f) => s = t)
          /\ columsReordered(f) => Rearranged(f, s, t)
      BY <2>1, <2>2, <3>1, <3>2, Target
    <3>4. Len(f.order) = m
      BY <1>5, <3>1
    <3> QED
      BY <3>1, <3>3, <3>4 DEF Rearranged
<1>11. PICK q : FoldedBy(q, t, S, C, N)
  BY <1>1, <1>2, <1>4, <1>6, <1>10, Folded
<1>12. PICK n \in Nat : n = Len(t.columns) /\ Ordered(q, n, Left(S, C, N))
  BY <1>11 DEF FoldedBy
<1>13. ASSUME NEW k \in 1 .. n
       PROVE  q[k] \in Unmarked(C) /\ columnsEqual(t.columns[k], C[q[k]])
  <2>1. q[k] \in Unmarked(C)
    BY <1>8, <1>12 DEF Ordered
  <2>2. q[k] <= N
    BY <1>4, <2>1 DEF Unmarked
  <2>3. columnsEqual(t.columns[k], After(S, C, N, q[k]))
    BY <1>11, <1>12 DEF FoldedBy
  <2> QED
    BY <2>1, <2>2, <2>3 DEF After
<1>14. CASE ~columsReordered(f)
  <2>1. ASSUME NEW k \in 2 .. m PROVE p[k - 1] < p[k]
    <3>1. ~(p[k] < p[k - 1])
      BY <1>3, <1>5, <1>14 DEF columsReordered
    <3>2. k \in 1 .. m /\ k - 1 \in 1 .. m /\ k # k - 1
      OBVIOUS
    <3>3. p[k] # p[k - 1] /\ p[k] \in Nat /\ p[k - 1] \in Nat
      BY <1>7, <1>9, <3>2
    <3> QED
      BY <3>1, <3>3
  <2>2. p \in [1 .. m -> Nat]
    BY <1>5
  <2>3. \A j, l \in 1 .. m : j < l => p[j] < p[l]
    BY <2>1, <2>2, Neighbours
  <2>4. Ordered(p, m, Left(S, C, N))
    <3>1. p \in [1 .. m -> Left(S, C, N)]
      BY <1>8, <1>9, <2>2
    <3>2. \A e \in Left(S, C, N) : \E k \in 1 .. m : p[k] = e
      BY <1>5, <1>7, <1>8 DEF Range
    <3> QED
      BY <2>3, <3>1, <3>2 DEF Ordered
  <2>5. n = m /\ \A k \in 1 .. m : q[k] = p[k]
    <3>1. Left(S, C, N) \in SUBSET Nat
      BY <1>8 DEF Unmarked
    <3>2. Both(q, n, p, m, Left(S, C, N))
      BY <1>12, <2>4, <3>1 DEF Both
    <3>3. Same(q, n, p, m)
      BY <3>2, OneOrder
    <3> QED
      BY <3>3 DEF Same
  <2>6. \A k \in 1 .. m : columnsEqual(s.columns[k], C[p[k]])
    BY <1>10, <1>13, <1>14, <2>5
  <2>7. Len(s.columns) = m
    BY <1>10, <1>12, <1>14, <2>5
  <2> QED
    BY <1>2, <1>3, <1>5, <1>9, <2>6, <2>7
<1>15. CASE columsReordered(f)
  <2>1. ASSUME NEW k \in 1 .. m PROVE columnsEqual(s.columns[k], C[p[k]])
    <3>1. PICK j \in 1 .. n : s.columns[k] = t.columns[j] /\ s.columns[k].name = C[p[k]].name
      BY <1>10, <1>12, <1>15
    <3>2. q[j] \in Range(p) /\ columnsEqual(t.columns[j], C[q[j]])
      BY <1>7, <1>13
    <3>3. PICK l \in 1 .. m : p[l] = q[j]
      BY <1>5, <3>2 DEF Range
    <3>4. s.columns[l].name = C[p[l]].name
      BY <1>10, <1>15
    <3>5. s.columns[l].name = s.columns[k].name
      BY <3>1, <3>2, <3>3, <3>4 DEF columnsEqual
    <3>6. k \in DOMAIN s.columns /\ l \in DOMAIN s.columns
      <4>1. s.columns \in Seq(Columns) /\ Len(s.columns) = m
        BY <1>10, <1>15 DEF Alters
      <4> QED
        BY <4>1
    <3>7. k = l
      BY <3>5, <3>6 DEF Alters, Distinct
    <3> QED
      BY <3>1, <3>2, <3>3, <3>7
  <2> QED
    BY <1>2, <1>3, <1>5, <1>9, <1>10, <1>15, <2>1
<1> QED
  BY <1>14, <1>15
\* The k-th column of the schema has the name that the sheet gives the source's
\* i-th.
Survives(f, s, i, k) ==
  /\ Len(f.source) <= Len(f.columns) /\ Surviving(f) \subseteq Range(f.order)
  /\ i \in Surviving(f) /\ k \in 1 .. Len(s.columns)
  /\ s.columns[k].name = f.columns[i].name

\* A surviving column of the source is found in the new table under its new
\* name, and there alone: its data is copied there.
LEMMA CopiedTo ==
  ASSUME Inv, NEW a \in Admins, NEW f, NEW s, Alters(a, f, s),
         NEW i, NEW k, Survives(f, s, i, k)
  PROVE  Copied(s)[k].id = table[Named(table, f.source[i].name)].id
<1> /\ Len(f.source) <= Len(f.columns) /\ Surviving(f) \subseteq Range(f.order)
    /\ i \in Surviving(f) /\ k \in 1 .. Len(s.columns)
    /\ s.columns[k].name = f.columns[i].name
  BY DEF Survives
<1>1. /\ f \in Sheet /\ Distinct(f.source) /\ s = build_ephemeral_target_schema(f) /\ s.ok
      /\ s.columns \in Seq(Columns) /\ Distinct(s.columns)
      /\ DOMAIN s.mapping \subseteq NamesOf(table)
  BY DEF Alters, SheetOK, Stored
<1>2. /\ DOMAIN s.mapping = {f.source[j].name : j \in Surviving(f)}
      /\ \A j \in Surviving(f) : s.mapping[f.source[j].name] = f.columns[j].name
  BY <1>1, Mapping
<1>3. PICK name : name = f.source[i].name
  OBVIOUS
<1>4. name \in DOMAIN s.mapping /\ s.mapping[name] = s.columns[k].name
  BY <1>2, <1>3
<1>5. ASSUME NEW other \in DOMAIN s.mapping, s.mapping[other] = s.columns[k].name
      PROVE  other = name
  <2>1. PICK j \in Surviving(f) : other = f.source[j].name
    BY <1>2
  <2>2. f.columns[i].name = f.columns[j].name
    BY <1>2, <1>5, <2>1
  <2>3. i = j
    BY <1>1, <2>2, NamedOnce
  <2> QED
    BY <1>3, <2>1, <2>3
<1>6. born \in Nat /\ Stored(table, born)
  BY DEF Inv, TableInv
<1>7. Copied(s)[k].id = table[Named(table, name)].id
  <2>1. \A new \in DOMAIN s.mapping :
          /\ s.mapping[new] = s.columns[k].name
          /\ \A other \in DOMAIN s.mapping :
               s.mapping[other] = s.columns[k].name => other = new
          => Copied(s)[k].id = table[Named(table, new)].id
    BY <1>1, <1>6, CopiedIs
  <2> QED
    BY <1>4, <1>5, <2>1
<1> QED
  BY <1>3, <1>7

LEMMA AlteredAsShown ==
  ASSUME Inv, NEW a \in Admins, NEW f, NEW s, Alters(a, f, s), Faithful(f), f.source = table
  PROVE  AsShown(filterAndOrderColumns(f), Copied(s), IdsOf(table))
<1>1. PICK S \in Seq(Columns) : S = f.source /\ Distinct(S) /\ S = table
  BY DEF Alters, SheetOK, Stored
<1>2. PICK C \in Seq(Columns) : C = f.columns
  BY DEF Alters, Sheet
<1>3. PICK p \in Seq(Nat \ {0}) : p = f.order
  BY DEF Alters, Sheet
<1>4. PICK m \in Nat : m = Len(p)
  OBVIOUS
<1>5. PICK new : new = Copied(s)
  OBVIOUS
<1>6. PICK shown : shown = filterAndOrderColumns(f)
  OBVIOUS
<1>7. /\ Len(s.columns) = m
      /\ \A k \in 1 .. m : p[k] \in Unmarked(C) /\ columnsEqual(s.columns[k], C[p[k]])
  BY <1>2, <1>3, <1>4, RowsAre
<1>8. /\ Len(S) <= Len(C) /\ Range(p) = Unmarked(C)
      /\ \A i \in Unmarked(C) : C[i].id = IF i <= Len(S) THEN S[i].id ELSE 0
  BY <1>1, <1>2, <1>3 DEF Faithful, Alters
<1>9. shown = [k \in 1 .. m |-> C[p[k]]]
  BY <1>2, <1>3, <1>4, <1>6 DEF filterAndOrderColumns
<1>10. Len(shown) = m /\ DOMAIN shown = 1 .. m
  <2>1. \A k \in 1 .. m : C[p[k]] \in Columns
    BY <1>7 DEF Unmarked
  <2>2. shown \in Seq(Columns)
    BY <1>9, <2>1, IsASeq
  <2> QED
    BY <1>9, <2>2
<1>11. born \in Nat /\ Stored(table, born)
  BY DEF Inv, TableInv
<1>12. s.columns \in Seq(Columns) /\ DOMAIN s.mapping \subseteq NamesOf(table)
  BY DEF Alters
<1>13. /\ Becomes(s.columns, new)
       /\ \A k \in 1 .. m :
            (\A name \in DOMAIN s.mapping : s.mapping[name] # s.columns[k].name) =>
              new[k].id = born + k
  BY <1>5, <1>7, <1>11, <1>12, CopiedIs
<1>14. \A i \in Surviving(f) : i \in Unmarked(C) /\ i \in 1 .. Len(S) /\ i \in Range(p)
  <2>1. Len(S) \in Nat /\ Len(C) \in Nat /\ DOMAIN C = 1 .. Len(C)
    OBVIOUS
  <2> QED
    BY <1>1, <1>2, <1>8, <2>1 DEF Surviving, Unmarked
<1>15. ASSUME NEW k \in 1 .. m
       PROVE  /\ shown[k].name = new[k].name /\ shown[k].type = new[k].type
              /\ IF shown[k].id = 0 THEN new[k].id \notin IdsOf(table)
                                    ELSE new[k].id = shown[k].id
  <2>1. PICK i \in Unmarked(C) : i = p[k] /\ shown[k] = C[i]
    BY <1>7, <1>9
  <2>2. /\ s.columns[k].name = C[i].name /\ s.columns[k].type = C[i].type
        /\ new[k].name = C[i].name /\ new[k].type = C[i].type
    BY <1>7, <1>13, <2>1 DEF columnsEqual, Becomes
  <2>3. CASE i <= Len(S)
    <3>1. i \in Surviving(f) /\ i \in DOMAIN S
      BY <1>1, <1>2, <2>3 DEF Surviving, Unmarked
    <3>2. Surviving(f) \subseteq Range(f.order)
      BY <1>3, <1>14
    <3>3. new[k].id = table[Named(table, f.source[i].name)].id
      <4>1. Len(f.source) <= Len(f.columns)
        BY <1>1, <1>2, <1>8
      <4>2. k \in 1 .. Len(s.columns) /\ s.columns[k].name = f.columns[i].name
        BY <1>2, <1>7, <2>2
      <4>3. Survives(f, s, i, k)
        BY <3>1, <3>2, <4>1, <4>2 DEF Survives
      <4> QED
        BY <1>5, <4>3, CopiedTo
    <3>4. Named(table, S[i].name) = i
      BY <1>1, <3>1, NamedThere
    <3>5. new[k].id = C[i].id
      BY <1>1, <1>8, <2>3, <3>3, <3>4
    <3>6. C[i].id # 0
      <4>1. S[i].id \in 1 .. born
        BY <1>1, <1>11, <3>1 DEF Stored
      <4> QED
        BY <1>8, <2>3, <4>1
    <3> QED
      BY <2>1, <2>2, <3>5, <3>6
  <2>4. CASE ~(i <= Len(S))
    <3>1. ASSUME NEW name \in DOMAIN s.mapping, s.mapping[name] = s.columns[k].name PROVE FALSE
      <4>1. /\ DOMAIN s.mapping = {f.source[j].name : j \in Surviving(f)}
            /\ \A j \in Surviving(f) : s.mapping[f.source[j].name] = f.columns[j].name
        <5>1. f \in Sheet /\ Distinct(f.source) /\ s = build_ephemeral_target_schema(f) /\ s.ok
          BY <1>1 DEF Alters
        <5> QED
          BY <1>1, <1>2, <1>8, <5>1, Mapping
      <4>2. PICK j \in Surviving(f) : name = f.source[j].name /\ C[j].name = C[i].name
        BY <1>2, <2>2, <3>1, <4>1
      <4>3. PICK l \in 1 .. m : p[l] = j
        BY <1>4, <1>14 DEF Range
      <4>4. s.columns[l].name = s.columns[k].name
        BY <1>7, <2>2, <4>2, <4>3 DEF columnsEqual
      <4>5. l = k
        <5>1. l \in DOMAIN s.columns /\ k \in DOMAIN s.columns
          BY <1>7, <1>12
        <5> QED
          BY <4>4, <5>1 DEF Alters, Distinct
      <4>6. j = i /\ j \in 1 .. Len(S)
        BY <1>14, <2>1, <4>3, <4>5
      <4> QED
        BY <2>4, <4>6
    <3>2. new[k].id = born + k
      BY <1>13, <3>1
    <3>3. new[k].id \notin IdsOf(table)
      <4>1. \A id \in IdsOf(table) : id \in 1 .. born
        BY <1>11 DEF IdsOf, Stored
      <4> QED
        BY <1>11, <3>2, <4>1
    <3>4. C[i].id = 0
      BY <1>8, <2>4
    <3> QED
      BY <2>1, <2>2, <3>3, <3>4
  <2> QED
    BY <2>3, <2>4
<1>16. Len(new) = m
  BY <1>7, <1>13 DEF Becomes
<1> QED
  BY <1>5, <1>6, <1>10, <1>15, <1>16 DEF AsShown

LEMMA UnchangedAsShown ==
  ASSUME Inv, NEW a \in Admins, SubmitUnchanged(a), spoiled[a] = {}, form[a].source = table
  PROVE  AsShown(filterAndOrderColumns(form[a]), table, IdsOf(table))
<1>1. PICK f : f = form[a]
  OBVIOUS
<1>2. f # Closed /\ f.alters /\ NothingToDo(f)
  BY <1>1 DEF SubmitUnchanged, Submits
<1>3. SheetOK(f, born) /\ Faithful(f) /\ f.source = table
  BY <1>1, <1>2 DEF Inv, SheetInv, Keeps
<1>4. PICK S \in Seq(Columns) : S = f.source /\ S = table /\ Stored(S, born)
  BY <1>3 DEF SheetOK, Stored
<1>5. PICK C \in Seq(Columns) : C = f.columns
  BY <1>3 DEF SheetOK, Sheet
<1>6. PICK p \in Seq(Nat \ {0}) : p = f.order
  BY <1>3 DEF SheetOK, Sheet
<1>7. PICK m \in Nat : m = Len(p)
  OBVIOUS
<1>8. PICK L \in Nat : L = Len(S)
  OBVIOUS
<1>9. /\ L <= Len(C) /\ Range(p) = Unmarked(C)
      /\ \A j, l \in 1 .. m : p[j] = p[l] => j = l
      /\ \A i \in Unmarked(C) : C[i].id = IF i <= L THEN S[i].id ELSE 0
  BY <1>2, <1>3, <1>4, <1>5, <1>6, <1>7, <1>8, SMTT(40) DEF Faithful
<1>10. ASSUME NEW i \in DOMAIN C
       PROVE  /\ i <= L => ~C[i].marker /\ columnsEqual(S[i], C[i])
              /\ i > L => C[i].marker
  <2>1. PICK o : o = OperationFor(f, i)
    OBVIOUS
  <2>2. o.op = "keep"
    BY <1>2, <1>5, <2>1 DEF NothingToDo, buildAlterTableOperations
  <2>3. o = IF i <= L
            THEN CASE C[i].marker -> [op |-> "drop", name |-> S[i].name]
                   [] ~C[i].marker /\ ~columnsEqual(S[i], C[i]) ->
                        [op |-> "alter", name |-> S[i].name, column |-> C[i]]
                   [] OTHER -> [op |-> "keep"]
            ELSE IF C[i].marker THEN [op |-> "keep"] ELSE [op |-> "add", column |-> C[i]]
    BY <1>4, <1>5, <1>8, <2>1 DEF OperationFor, isDeleted
  <2>4. i <= L /\ C[i].marker => o.op = "drop"
    BY <2>3
  <2>5. i <= L /\ ~C[i].marker /\ ~columnsEqual(S[i], C[i]) => o.op = "alter"
    BY <2>3
  <2>6. i > L /\ ~C[i].marker => o.op = "add"
    BY <1>5, <1>8, <2>3
  <2> QED
    BY <2>2, <2>4, <2>5, <2>6
<1>11. Unmarked(C) = 1 .. L
  <2>1. DOMAIN C = 1 .. Len(C) /\ Len(C) \in Nat
    OBVIOUS
  <2>2. ASSUME NEW i \in Unmarked(C) PROVE i \in 1 .. L
    BY <1>10, <2>1 DEF Unmarked
  <2>3. ASSUME NEW i \in 1 .. L PROVE i \in Unmarked(C)
    <3>1. i \in DOMAIN C /\ i <= L
      BY <1>9, <2>1
    <3> QED
      BY <1>10, <3>1 DEF Unmarked
  <2> QED
    BY <2>2, <2>3
<1>12. \A k \in 1 .. m : p[k] \in 1 .. L
  BY <1>7, <1>9, <1>11, SMTT(40) DEF Range
<1>13. m = L /\ \A k \in 1 .. m : p[k] = k
  <2>1. ASSUME NEW k \in 2 .. m PROVE p[k - 1] < p[k]
    <3>1. ~(p[k] < p[k - 1])
      BY <1>2, <1>6, <1>7 DEF NothingToDo, columsReordered
    <3>2. k \in 1 .. m /\ k - 1 \in 1 .. m /\ k # k - 1
      OBVIOUS
    <3>3. p[k] # p[k - 1] /\ p[k] \in Nat /\ p[k - 1] \in Nat
      BY <1>9, <1>12, <3>2
    <3> QED
      BY <3>1, <3>3
  <2>2. p \in [1 .. m -> Nat]
    BY <1>7
  <2>3. \A j, l \in 1 .. m : j < l => p[j] < p[l]
    BY <2>1, <2>2, Neighbours
  <2>4. Ordered(p, m, 1 .. L)
    <3>1. p \in [1 .. m -> 1 .. L]
      BY <1>12, <2>2
    <3>2. \A e \in 1 .. L : \E k \in 1 .. m : p[k] = e
      <4>1. DOMAIN p = 1 .. m /\ Range(p) = 1 .. L
        BY <1>7, <1>9, <1>11
      <4> QED
        BY <4>1 DEF Range
    <3> QED
      BY <2>3, <3>1, <3>2 DEF Ordered
  <2>5. PICK q : q = [k \in 1 .. L |-> k]
    OBVIOUS
  <2>6. Ordered(q, L, 1 .. L)
    BY <2>5 DEF Ordered
  <2>7. Both(p, m, q, L, 1 .. L)
    BY <2>4, <2>6 DEF Both
  <2>8. Same(p, m, q, L)
    BY <2>7, OneOrder
  <2> QED
    BY <2>5, <2>8 DEF Same
<1>14. PICK shown : shown = filterAndOrderColumns(f)
  OBVIOUS
<1>15. shown = [k \in 1 .. L |-> C[p[k]]]
  <2>1. shown = [k \in DOMAIN p |-> C[p[k]]]
    BY <1>5, <1>6, <1>14 DEF filterAndOrderColumns
  <2>2. DOMAIN p = 1 .. m /\ m = L
    <3>1. DOMAIN p = 1 .. m
      BY <1>7
    <3>2. m = L
      BY <1>13
    <3> QED
      BY <3>1, <3>2
  <2> QED
    BY <2>1, <2>2
<1>16. \A k \in 1 .. L : k \in Unmarked(C) /\ k \in DOMAIN C /\ shown[k] = C[k]
  BY <1>11, <1>13, <1>15 DEF Unmarked
<1>17. Len(shown) = L /\ DOMAIN shown = 1 .. L
  <2>1. \A k \in 1 .. L : C[p[k]] \in Columns
    BY <1>13, <1>16
  <2>2. shown \in Seq(Columns)
    BY <1>15, <2>1, IsASeq
  <2> QED
    BY <1>15, <2>2
<1>18. ASSUME NEW k \in 1 .. L
       PROVE  /\ shown[k].name = S[k].name /\ shown[k].type = S[k].type
              /\ shown[k].id = S[k].id /\ shown[k].id # 0
  <2>1. columnsEqual(S[k], C[k]) /\ C[k].id = S[k].id
    BY <1>9, <1>10, <1>16
  <2>2. S[k].id \in 1 .. born /\ born \in Nat
    BY <1>4, <1>8, SMTT(30) DEF Stored, Inv, TableInv
  <2> QED
    BY <1>16, <2>1, <2>2 DEF columnsEqual
<1> QED
  BY <1>1, <1>4, <1>8, <1>14, <1>17, <1>18 DEF AsShown

LEMMA CreatedAsShown ==
  ASSUME Inv, NEW a \in Admins, create_table_handler(a), spoiled[a] = {}
  PROVE  AsShown(filterAndOrderColumns(form[a]), Fresh(form[a].columns), IdsOf(table))
<1>1. PICK f : f = form[a]
  OBVIOUS
<1>2. f # Closed /\ ~f.alters
  BY <1>1 DEF create_table_handler, Submits
<1>3. SheetOK(f, born) /\ Faithful(f)
  BY <1>1, <1>2 DEF Inv, SheetInv, Keeps
<1>4. PICK C \in Seq(Columns) : C = f.columns
  BY <1>3 DEF SheetOK, Sheet
<1>5. PICK n \in Nat : n = Len(C)
  OBVIOUS
<1>6. f.order = Identity(C) /\ \A i \in 1 .. n : C[i].id = 0
  BY <1>2, <1>3, <1>4, <1>5 DEF Faithful
<1>7. PICK shown : shown = filterAndOrderColumns(f)
  OBVIOUS
<1>8. shown = [k \in 1 .. n |-> C[k]]
  BY <1>4, <1>5, <1>6, <1>7 DEF filterAndOrderColumns, Identity
<1>9. shown = C
  BY <1>5, <1>8
<1>10. born \in Nat /\ Stored(table, born)
  BY DEF Inv, TableInv
<1>11. PICK new : new = Fresh(C)
  OBVIOUS
<1>12. Becomes(C, new) /\ \A k \in 1 .. n : new[k].id = born + k
  BY <1>5, <1>10, <1>11, FreshIs
<1>13. ASSUME NEW k \in 1 .. n PROVE new[k].id \notin IdsOf(table)
  <2>1. \A id \in IdsOf(table) : id \in 1 .. born
    BY <1>10 DEF IdsOf, Stored
  <2> QED
    BY <1>10, <1>12, <2>1
<1>14. AsShown(C, new, IdsOf(table))
  BY <1>5, <1>6, <1>12, <1>13 DEF AsShown, Becomes
<1> QED
  BY <1>1, <1>4, <1>7, <1>9, <1>11, <1>14

\* Only a submission tells an admin that the table was altered.
LEMMA Told ==
  ASSUME Inv, Next, NEW a \in Admins, done'[a] # done[a]
  PROVE  Submit(a)
<1>1. PICK b \in Admins : Open(b) \/ Close(b) \/ Refetch(b) \/ Edit(b) \/ Submit(b)
  BY DEF Next
<1>2. ~Open(b) /\ ~Close(b) /\ ~Refetch(b)
  BY DEF Open, Close, Refetch, history
<1>3. ~Edit(b)
  BY DEF Edit, AddColumn, EditColumn, Move, onDelete, Change
<1>4. ASSUME NEW columns, Succeed(b, columns) PROVE b = a
  BY <1>4 DEF Succeed, Inv, ShapeInv
<1>5. Submit(b)
  BY <1>1, <1>2, <1>3
<1>6. \E columns : Succeed(b, columns)
  BY <1>5 DEF Submit, SubmitUnchanged, alter_table_handler, create_table_handler
<1> QED
  BY <1>4, <1>5, <1>6

\* When the admin is told that the table was altered it has what the sheet
\* showed: the columns, their order, and of each the data it had.  The cases in
\* which that is lost are those "spoiled" records.
THEOREM StoredAsShown == Spec => ShownIsStored
<1> DEFINE A == \A a \in Admins :
                  done'[a] # done[a] /\ spoiled[a] = {} /\ form[a].source = table =>
                    AsShown(filterAndOrderColumns(form[a]), table', IdsOf(table))
<1>1. Inv /\ [Next]_vars => [A]_vars
  <2> SUFFICES ASSUME Inv, Next, NEW a \in Admins,
                      done'[a] # done[a], spoiled[a] = {}, form[a].source = table
               PROVE  AsShown(filterAndOrderColumns(form[a]), table', IdsOf(table))
    OBVIOUS
  <2>1. Submit(a)
    BY Told
  <2>2. CASE SubmitUnchanged(a)
    <3>1. table' = table
      BY <2>2 DEF SubmitUnchanged, Succeed
    <3> QED
      BY <2>2, <3>1, UnchangedAsShown
  <2>3. CASE alter_table_handler(a)
    <3>1. PICK f, s : Alters(a, f, s)
      BY <2>3, AltersTo
    <3>2. f = form[a] /\ Faithful(f) /\ table' = Copied(s)
      BY <3>1 DEF Alters, Keeps, Succeed
    <3> QED
      BY <3>1, <3>2, AlteredAsShown
  <2>4. CASE create_table_handler(a)
    <3>1. table' = Fresh(form[a].columns)
      BY <2>4 DEF create_table_handler, Succeed
    <3> QED
      BY <2>4, <3>1, CreatedAsShown
  <2> QED
    BY <2>1, <2>2, <2>3, <2>4 DEF Submit
<1> QED
  BY <1>1, Invariance, PTL DEF Spec, ShownIsStored

LEMMA NothingElseLost ==
  ASSUME Inv, NEW a \in Admins, NEW f, NEW s, Alters(a, f, s), Tracked(f, clicked[a]),
         NEW k \in DOMAIN table, table[k].name \in NamesOf(f.source),
         table[k].name \notin clicked[a]
  PROVE  table[k].id \in IdsOf(Copied(s))
<1>1. /\ f \in Sheet /\ Distinct(f.source) /\ s = build_ephemeral_target_schema(f) /\ s.ok
      /\ s.columns \in Seq(Columns) /\ f.alters
      /\ DOMAIN s.mapping \subseteq NamesOf(table)
      /\ Range(s.mapping) \subseteq NamesOf(s.columns)
  BY DEF Alters, SheetOK, Stored
<1>2. /\ Len(f.source) <= Len(f.columns)
      /\ \A i \in 1 .. Len(f.source) :
           IF f.columns[i].marker THEN f.source[i].name \in clicked[a] ELSE i \in Range(f.order)
  BY <1>1 DEF Tracked
<1>3. PICK i \in 1 .. Len(f.source) : f.source[i].name = table[k].name
  <2>1. DOMAIN f.source = 1 .. Len(f.source)
    BY <1>1 DEF Sheet
  <2> QED
    BY <1>1, <2>1 DEF NamesOf
<1>4. i \in Surviving(f) /\ Surviving(f) \subseteq Range(f.order)
  BY <1>2, <1>3 DEF Surviving
<1>5. f.columns[i].name \in Range(s.mapping)
  <2>1. /\ DOMAIN s.mapping = {f.source[j].name : j \in Surviving(f)}
        /\ \A j \in Surviving(f) : s.mapping[f.source[j].name] = f.columns[j].name
    BY <1>1, <1>2, Mapping
  <2>2. f.source[i].name \in DOMAIN s.mapping /\ s.mapping[f.source[i].name] = f.columns[i].name
    BY <1>4, <2>1
  <2> QED
    BY <2>2 DEF Range
<1>6. PICK l \in 1 .. Len(s.columns) : s.columns[l].name = f.columns[i].name
  <2>1. f.columns[i].name \in NamesOf(s.columns)
    BY <1>1, <1>5
  <2>2. DOMAIN s.columns = 1 .. Len(s.columns)
    BY <1>1
  <2> QED
    BY <2>1, <2>2 DEF NamesOf
<1>7. Survives(f, s, i, l)
  BY <1>2, <1>4, <1>6 DEF Survives
<1>8. Copied(s)[l].id = table[Named(table, f.source[i].name)].id
  BY <1>7, CopiedTo
<1>9. born \in Nat /\ Stored(table, born)
  BY DEF Inv, TableInv
<1>10. Named(table, table[k].name) = k
  BY <1>9, NamedThere DEF Stored
<1>11. Becomes(s.columns, Copied(s))
  BY <1>1, <1>9, CopiedIs
<1>12. l \in DOMAIN Copied(s)
  BY <1>11 DEF Becomes
<1> QED
  BY <1>3, <1>8, <1>10, <1>12 DEF IdsOf

\* No alteration destroys a column in which "delete" was not clicked, whatever
\* happened to the table, to its order or to its columns' names in the meantime.
THEOREM NothingElseDeleted == Spec => OnlyDeletedLost
<1> DEFINE A == \A a \in Admins : done'[a] # done[a] /\ "refetched" \notin spoiled[a] =>
                  \A k \in DOMAIN table : table[k].id \notin IdsOf(table') =>
                    \/ table[k].name \notin NamesOf(form[a].source)
                    \/ table[k].name \in clicked[a]
<1>1. Inv /\ [Next]_vars => [A]_vars
  <2> SUFFICES ASSUME Inv, Next, NEW a \in Admins,
                      done'[a] # done[a], "refetched" \notin spoiled[a],
                      NEW k \in DOMAIN table, table[k].id \notin IdsOf(table'),
                      table[k].name \in NamesOf(form[a].source),
                      table[k].name \notin clicked[a]
               PROVE  FALSE
    OBVIOUS
  <2>1. Submit(a)
    BY Told
  <2>2. CASE SubmitUnchanged(a)
    <3>1. table' = table
      BY <2>2 DEF SubmitUnchanged, Succeed
    <3> QED
      BY <3>1 DEF IdsOf
  <2>3. CASE alter_table_handler(a)
    <3>1. PICK f, s : Alters(a, f, s)
      BY <2>3, AltersTo
    <3>2. f = form[a] /\ Tracked(f, clicked[a]) /\ table' = Copied(s)
      BY <3>1 DEF Alters, Keeps, Succeed
    <3> QED
      BY <3>1, <3>2, NothingElseLost
  <2>4. CASE create_table_handler(a)
    BY <2>4 DEF create_table_handler
  <2> QED
    BY <2>1, <2>2, <2>3, <2>4 DEF Submit
<1> QED
  BY <1>1, Invariance, PTL DEF Spec, OnlyDeletedLost
=============================================================================
