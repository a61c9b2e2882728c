----------------------- MODULE RequestStringsProofs -----------------------
(***************************************************************************)
(* Facts about the strings of the API, for strings of every length over    *)
(* every alphabet: split, strip and removeprefix, then the object names of *)
(* StorageKeyStrings and their segment-level reading, then the normal      *)
(* forms of RequestStrings.  Nothing here is an induction over an operator *)
(* argument: where one is needed, the least counterexample is refuted.     *)
(***************************************************************************)
EXTENDS RequestStrings, SequenceTheorems, FiniteSetTheorems, TLAPS

-----------------------------------------------------------------------------
(* Positions in order.                                                     *)

\* f lists the positions S in increasing order.
Enumerates(f, m, S) ==
    /\ f \in [1..m -> S]
    /\ \A i \in S : \E k \in 1..m : f[k] = i
    /\ \A k, l \in 1..m : k < l => f[k] < f[l]

\* An enumeration tells how many positions there are and which is the k-th.
LEMMA EnumerationCounts ==
    ASSUME NEW S, S \subseteq Int, NEW m \in Nat, NEW f, Enumerates(f, m, S)
    PROVE  /\ IsFiniteSet(S) /\ Cardinality(S) = m
           /\ \A k \in 1..m : Nth(S, k) = f[k]
<1>1. f \in [1..m -> S] /\ \A k, l \in 1..m : k < l <=> f[k] < f[l]
  <2>1. f \in [1..m -> S]
    BY DEF Enumerates
  <2>2. ASSUME NEW k \in 1..m, NEW l \in 1..m, f[k] < f[l] PROVE k < l
    <3>1. f[k] \in Int /\ f[l] \in Int
      BY <2>1
    <3>2. ~ (f[l] < f[k]) /\ f[k] # f[l]
      BY <2>2, <3>1
    <3>3. ~ (l < k) /\ k # l
      BY <3>2 DEF Enumerates
    <3> QED
      BY <3>3
  <2> QED
    BY <2>1, <2>2 DEF Enumerates
<1>2. ASSUME NEW n \in Nat, n <= m
      PROVE  LET T == {j \in S : \E l \in 1..n : j = f[l]}
             IN  IsFiniteSet(T) /\ Cardinality(T) = n
  <2> DEFINE T == {j \in S : \E l \in 1..n : j = f[l]}
             g == [l \in 1..n |-> f[l]]
  <2>1. 1..n \subseteq 1..m
    BY <1>2
  <2>2. g \in [1..n -> T]
    BY <1>1, <2>1
  <2>3. \A j \in T : \E l \in 1..n : g[l] = j
    OBVIOUS
  <2>4. \A k, l \in 1..n : g[k] = g[l] => k = l
    <3> SUFFICES ASSUME NEW k \in 1..n, NEW l \in 1..n, f[k] = f[l] PROVE k = l
      OBVIOUS
    <3>1. k \in 1..m /\ l \in 1..m /\ f[k] \in Int /\ f[l] \in Int
      BY <1>1, <2>1
    <3>2. ~ (f[k] < f[l]) /\ ~ (f[l] < f[k])
      BY <3>1
    <3> QED
      BY <1>1, <3>1, <3>2
  <2>5. g \in Bijection(1..n, T)
    BY <2>2, <2>3, <2>4 DEF Bijection, Injection, IsInjective, Surjection
  <2>6. ExistsBijection(1..n, T)
    BY <2>5 DEF ExistsBijection
  <2>7. IsFiniteSet(T)
    BY <2>6, FS_NatBijection
  <2> QED
    BY <2>6, <2>7, FS_CountingElements
<1>3. {j \in S : \E l \in 1..m : j = f[l]} = S
  BY DEF Enumerates
<1>4. IsFiniteSet(S) /\ Cardinality(S) = m
  BY <1>2, <1>3
<1>5. ASSUME NEW l \in 1..m
      PROVE  f[l] \in S /\ Cardinality({j \in S : j <= f[l]}) = l
  <2>1. l \in Nat /\ l <= m /\ 1..l \subseteq 1..m
    OBVIOUS
  <2>2. ASSUME NEW j \in S, j <= f[l] PROVE \E i \in 1..l : j = f[i]
    <3>1. PICK i \in 1..m : f[i] = j
      BY DEF Enumerates
    <3>2. f[i] \in Int /\ f[l] \in Int /\ f[i] <= f[l]
      BY <1>1, <2>2, <3>1
    <3>3. ~ (l < i)
      <4>1. ~ (f[l] < f[i])
        BY <3>2
      <4> QED
        BY <1>1, <4>1
    <3> QED
      BY <3>1, <3>3
  <2>3. ASSUME NEW j \in S, NEW i \in 1..l, j = f[i] PROVE j <= f[l]
    <3>1. i \in 1..m /\ f[i] \in Int /\ f[l] \in Int
      BY <1>1, <2>1
    <3>2. i < l => f[i] < f[l]
      BY <1>1, <3>1
    <3> QED
      BY <2>3, <3>1, <3>2
  <2>4. {j \in S : j <= f[l]} = {j \in S : \E i \in 1..l : j = f[i]}
    BY <2>2, <2>3
  <2> QED
    BY <1>1, <1>2, <2>1, <2>4
<1>6. ASSUME NEW k \in 1..m PROVE Nth(S, k) = f[k]
  <2>1. \A i \in S : Cardinality({j \in S : j <= i}) = k <=> i = f[k]
    <3> SUFFICES ASSUME NEW i \in S, Cardinality({j \in S : j <= i}) = k PROVE i = f[k]
      BY <1>5
    <3>1. PICK l \in 1..m : f[l] = i
      BY DEF Enumerates
    <3> QED
      BY <1>5, <3>1
  <2>2. f[k] \in S
    BY <1>5
  <2> QED
    BY <2>1, <2>2 DEF Nth
<1> QED
  BY <1>4, <1>6

\* Finitely many positions can be enumerated.
LEMMA EnumerationExists ==
    ASSUME NEW S, S \subseteq Int, IsFiniteSet(S)
    PROVE  /\ Cardinality(S) \in Nat
           /\ \E f : Enumerates(f, Cardinality(S), S)
<1> DEFINE n == Cardinality(S)
           Below(i) == {j \in S : j <= i}
           rank == [i \in S |-> Cardinality(Below(i))]
<1>1. n \in Nat
  BY FS_CardinalityType
<1>2. ASSUME NEW i \in S
      PROVE  IsFiniteSet(Below(i)) /\ rank[i] \in 1..n
  <2>1. Below(i) \in SUBSET S
    OBVIOUS
  <2>2. IsFiniteSet(Below(i)) /\ Cardinality(Below(i)) <= n
    BY <2>1, FS_Subset
  <2>3. i \in Below(i)
    OBVIOUS
  <2>4. Cardinality(Below(i)) \in Nat /\ Cardinality(Below(i)) # 0
    BY <2>2, <2>3, FS_CardinalityType, FS_EmptySet
  <2> QED
    BY <1>1, <2>2, <2>4
<1>3. ASSUME NEW i \in S, NEW j \in S, i < j
      PROVE  rank[i] < rank[j]
  <2>1. Below(i) \in SUBSET Below(j)
    <3> SUFFICES ASSUME NEW k \in S, k <= i PROVE k <= j
      OBVIOUS
    <3> QED
      BY <1>3
  <2>2. j \in Below(j) /\ j \notin Below(i)
    BY <1>3
  <2>3. Cardinality(Below(i)) <= Cardinality(Below(j))
    BY <1>2, <2>1, FS_Subset
  <2>4. Cardinality(Below(i)) # Cardinality(Below(j))
    <3> SUFFICES ASSUME Cardinality(Below(i)) = Cardinality(Below(j)) PROVE FALSE
      OBVIOUS
    <3>1. Below(j) = Below(i)
      BY <1>2, <2>1, FS_Subset
    <3> QED
      BY <2>2, <3>1
  <2>5. Cardinality(Below(i)) \in Nat /\ Cardinality(Below(j)) \in Nat
    BY <1>2
  <2> HIDE DEF Below
  <2> QED
    BY <2>3, <2>4, <2>5
<1> HIDE DEF rank
<1>4. rank \in [S -> 1..n]
  BY <1>2 DEF rank
<1>5. rank \in Injection(S, 1..n)
  <2> SUFFICES ASSUME NEW i \in S, NEW j \in S, rank[i] = rank[j] PROVE i = j
    BY <1>4 DEF Injection, IsInjective
  <2>1. rank[i] \in Int /\ rank[j] \in Int
    BY <1>4
  <2>2. ~ (i < j) /\ ~ (j < i)
    BY <1>3, <2>1
  <2> QED
    BY <2>2
<1>6. \A k \in 1..n : \E i \in S : rank[i] = k
  <2>1. IsFiniteSet(1..n) /\ Cardinality(1..n) = n
    <3>1. IF 1 > n THEN n = 0 ELSE n - 1 + 1 = n
      BY <1>1
    <3> QED
      BY <1>1, <3>1, FS_Interval
  <2>2. rank \in Surjection(S, 1..n)
    BY <1>5, <2>1, FS_Injection
  <2> QED
    BY <2>2 DEF Surjection
<1> DEFINE f == [k \in 1..n |-> CHOOSE i \in S : rank[i] = k]
<1>7. \A k \in 1..n : f[k] \in S /\ rank[f[k]] = k
  BY <1>6
<1> HIDE DEF f
<1>8. f \in [1..n -> S]
  BY <1>7 DEF f
<1>9. ASSUME NEW i \in S PROVE \E k \in 1..n : f[k] = i
  <2>1. rank[i] \in 1..n
    BY <1>4
  <2>2. f[rank[i]] \in S /\ rank[f[rank[i]]] = rank[i]
    BY <1>7, <2>1
  <2>3. f[rank[i]] = i
    BY <1>5, <2>2 DEF Injection, IsInjective
  <2> QED
    BY <2>1, <2>3
<1>10. ASSUME NEW k \in 1..n, NEW l \in 1..n, k < l PROVE f[k] < f[l]
  <2>1. f[k] \in S /\ f[l] \in S /\ rank[f[k]] = k /\ rank[f[l]] = l
    BY <1>7
  <2>2. f[k] # f[l]
    BY <1>10, <2>1
  <2>3. ~ (f[l] < f[k])
    <3>1. f[l] < f[k] => l < k
      BY <1>3, <2>1
    <3> QED
      BY <1>10, <3>1
  <2>4. f[k] \in Int /\ f[l] \in Int
    BY <2>1
  <2> QED
    BY <2>2, <2>3, <2>4
<1> QED
  BY <1>1, <1>8, <1>9, <1>10 DEF Enumerates

-----------------------------------------------------------------------------
(* split() *)

\* The pieces of s between consecutive positions of f.
Pieces(s, f, m) == [k \in 1..(m - 1) |-> SubSeq(s, f[k] + 1, f[k + 1] - 1)]

\* The cuts of a string are positions from just before it to just after it.
LEMMA CutsAreFinite ==
    ASSUME NEW C, NEW s \in Seq(C), NEW c
    PROVE  /\ Cuts(s, c) \subseteq 0..(Len(s) + 1)
           /\ Cuts(s, c) \subseteq Int
           /\ IsFiniteSet(Cuts(s, c))
           /\ 0 \in Cuts(s, c) /\ Len(s) + 1 \in Cuts(s, c)
<1>1. Len(s) \in Nat /\ DOMAIN s = 1..Len(s)
  BY LenProperties
<1>2. Cuts(s, c) \subseteq 0..(Len(s) + 1)
  BY <1>1 DEF Cuts
<1>3. 0..(Len(s) + 1) \subseteq Int /\ IsFiniteSet(0..(Len(s) + 1))
  <2>1. 0 \in Int /\ Len(s) + 1 \in Int
    BY <1>1
  <2> QED
    BY <2>1, FS_Interval
<1>4. IsFiniteSet(Cuts(s, c))
  BY <1>2, <1>3, FS_Subset
<1>5. 0 \in Cuts(s, c) /\ Len(s) + 1 \in Cuts(s, c)
  BY DEF Cuts
<1> QED
  BY <1>2, <1>3, <1>4, <1>5

\* The cuts in order give the pieces.
LEMMA SplitIs ==
    ASSUME NEW C, NEW s \in Seq(C), NEW c, NEW m \in Nat, NEW f,
           Enumerates(f, m, Cuts(s, c))
    PROVE  Split(s, c) = Pieces(s, f, m)
<1> DEFINE cuts == Cuts(s, c)
<1>1. Cardinality(cuts) = m /\ \A k \in 1..m : Nth(cuts, k) = f[k]
  BY CutsAreFinite, EnumerationCounts
<1> HIDE DEF cuts
<1>2. \A k \in 1..(m - 1) : k \in 1..m /\ k + 1 \in 1..m
  OBVIOUS
<1>3. Split(s, c) = [k \in 1..(m - 1) |-> SubSeq(s, Nth(cuts, k) + 1, Nth(cuts, k + 1) - 1)]
  BY <1>1 DEF Split, cuts
<1>4. \A k \in 1..(m - 1) :
        SubSeq(s, Nth(cuts, k) + 1, Nth(cuts, k + 1) - 1) = SubSeq(s, f[k] + 1, f[k + 1] - 1)
  BY <1>1, <1>2
<1> QED
  BY <1>3, <1>4 DEF Pieces

\* Joining three sequences, from the left or from the right.
JoinsAlike(p, q, r) == (p \o q) \o r = p \o (q \o r)

LEMMA JoinsAssociate ==
    ASSUME NEW C, NEW p \in Seq(C), NEW q \in Seq(C), NEW r \in Seq(C)
    PROVE  JoinsAlike(p, q, r)
  BY ConcatAssociative, SMTT(60) DEF JoinsAlike

\* Every string has its cuts in order, from 0 to just after its end.
LEMMA SplitShape ==
    ASSUME NEW C, NEW s \in Seq(C), NEW c
    PROVE  \E m \in Nat : \E f :
              /\ m >= 2
              /\ Enumerates(f, m, Cuts(s, c))
              /\ f[1] = 0 /\ f[m] = Len(s) + 1
              /\ Split(s, c) = Pieces(s, f, m)
<1> DEFINE S == Cuts(s, c)
<1>1. /\ S \subseteq 0..(Len(s) + 1) /\ S \subseteq Int /\ IsFiniteSet(S)
      /\ 0 \in S /\ Len(s) + 1 \in S /\ Len(s) \in Nat
  BY CutsAreFinite, LenProperties
<1> HIDE DEF S
<1>2a. PICK m \in Nat : \E f :
        Enumerates(f, m, S)
  BY <1>1, EnumerationExists
<1>2. PICK f :
        Enumerates(f, m, S)
  BY <1>2a
<1>3. PICK a \in 1..m : f[a] = 0
  BY <1>1, <1>2 DEF Enumerates
<1>4. PICK b \in 1..m : f[b] = Len(s) + 1
  BY <1>1, <1>2 DEF Enumerates
<1>5. \A k \in 1..m : f[k] \in 0..(Len(s) + 1)
  BY <1>1, <1>2 DEF Enumerates
<1>6. a = 1
  <2> SUFFICES ASSUME 1 < a PROVE FALSE
    BY <1>3
  <2>1. 1 \in 1..m
    BY <1>3
  <2>2. f[1] < f[a]
    BY <1>2, <1>3, <2>1 DEF Enumerates
  <2> QED
    BY <1>3, <1>5, <2>1, <2>2
<1>7. b = m
  <2> SUFFICES ASSUME b < m PROVE FALSE
    BY <1>4
  <2>1. m \in 1..m
    BY <1>4
  <2>2. f[b] < f[m]
    BY <1>2, <1>4, <2>1 DEF Enumerates
  <2> QED
    BY <1>1, <1>4, <1>5, <2>1, <2>2
<1>8. a # b
  BY <1>1, <1>3, <1>4
<1>9. m >= 2
  BY <1>3, <1>6, <1>7, <1>8
<1>10. Split(s, c) = Pieces(s, f, m)
  BY <1>2, SplitIs DEF S
<1> QED
  BY <1>2, <1>3, <1>4, <1>6, <1>7, <1>9, <1>10 DEF S

\* Consecutive cuts: there is no other cut between them.
LEMMA Consecutive ==
    ASSUME NEW C, NEW s \in Seq(C), NEW c, NEW m \in Nat, NEW f,
           Enumerates(f, m, Cuts(s, c)), NEW k \in 1..(m - 1)
    PROVE  /\ f[k] \in 0..Len(s) /\ f[k + 1] \in 1..(Len(s) + 1)
           /\ f[k] < f[k + 1]
           /\ \A i \in (f[k] + 1)..(f[k + 1] - 1) : i \in 1..Len(s) /\ s[i] \in C /\ s[i] # c
<1>1. k \in 1..m /\ k + 1 \in 1..m /\ k < k + 1
  OBVIOUS
<1>2. Len(s) \in Nat /\ DOMAIN s = 1..Len(s) /\ s \in [1..Len(s) -> C]
  BY LenProperties
<1>3. /\ f[k] \in 0..(Len(s) + 1) /\ f[k + 1] \in 0..(Len(s) + 1)
      /\ f[k] < f[k + 1]
  <2>1. f[k] \in Cuts(s, c) /\ f[k + 1] \in Cuts(s, c) /\ f[k] < f[k + 1]
    BY <1>1 DEF Enumerates
  <2> QED
    BY <2>1, CutsAreFinite
<1>4. f[k] \in 0..Len(s) /\ f[k + 1] \in 1..(Len(s) + 1)
  BY <1>2, <1>3
<1>5. ASSUME NEW i \in (f[k] + 1)..(f[k + 1] - 1)
      PROVE  i \in 1..Len(s) /\ s[i] \in C /\ s[i] # c
  <2>1. i \in 1..Len(s)
    BY <1>2, <1>4
  <2>2. i \notin Cuts(s, c)
    <3> SUFFICES ASSUME i \in Cuts(s, c) PROVE FALSE
      OBVIOUS
    <3>1. PICK l \in 1..m : f[l] = i
      BY DEF Enumerates
    <3>2. f[k] < f[l] /\ f[l] < f[k + 1] /\ f[k] # f[l] /\ f[l] # f[k + 1]
      BY <1>4, <3>1
    <3>3. ~ (f[l] < f[k]) /\ ~ (f[k + 1] < f[l])
      BY <1>4, <2>1, <3>1, <3>2
    <3>4. ~ (l < k) /\ l # k /\ ~ (k + 1 < l) /\ l # k + 1
      BY <1>1, <3>2, <3>3 DEF Enumerates
    <3> QED
      BY <3>4
  <2> QED
    BY <1>2, <2>1, <2>2 DEF Cuts
<1> QED
  BY <1>3, <1>4, <1>5

\* split(c) gives at least one piece, and no piece has a c.
LEMMA SplitType ==
    ASSUME NEW C, NEW s \in Seq(C), NEW c
    PROVE  /\ Split(s, c) \in Seq(Seq(C \ {c}))
           /\ Len(Split(s, c)) \in Nat \ {0}
<1>1a. PICK m \in Nat : \E f :
        /\ m >= 2 /\ Enumerates(f, m, Cuts(s, c))
        /\ Split(s, c) = Pieces(s, f, m)
  BY SplitShape
<1>1. PICK f :
        /\ m >= 2 /\ Enumerates(f, m, Cuts(s, c))
        /\ Split(s, c) = Pieces(s, f, m)
  BY <1>1a
<1>2. ASSUME NEW k \in 1..(m - 1)
      PROVE  SubSeq(s, f[k] + 1, f[k + 1] - 1) \in Seq(C \ {c})
  <2>1. /\ f[k] \in 0..Len(s) /\ f[k + 1] \in 1..(Len(s) + 1)
        /\ \A i \in (f[k] + 1)..(f[k + 1] - 1) : s[i] \in C \ {c}
    BY <1>1, Consecutive
  <2>2. f[k] + 1 \in Int /\ f[k + 1] - 1 \in Int
    BY <2>1, LenProperties
  <2> QED
    BY <2>1, <2>2, SubSeqProperties
<1>3. m - 1 \in Nat \ {0}
  BY <1>1
<1>4. Split(s, c) \in [1..(m - 1) -> Seq(C \ {c})]
  BY <1>1, <1>2 DEF Pieces
<1> QED
  BY <1>3, <1>4

\* The same characters, stretch by stretch or element by element.
SameSlice(z, e, f, y, a, b) == SubSeq(z, e, f) = SubSeq(y, a, b)
Shifted(z, d, y, a, b) == \A i \in a..b : i \in 1..Len(y) /\ z[d + i] = y[i]

\* The same characters at other positions are the same substring.
LEMMA SubSeqMoved ==
    ASSUME NEW C, NEW y \in Seq(C), NEW z \in Seq(C), NEW d \in Int,
           NEW a \in Int, NEW b \in Int, NEW e \in Int, NEW f \in Int,
           e = d + a, f = d + b,
           Shifted(z, d, y, a, b)
    PROVE  SameSlice(z, e, f, y, a, b)
<1>0. \A i \in a..b : i \in 1..Len(y) /\ z[d + i] = y[i]
  BY DEF Shifted
<1> DEFINE n == IF a <= b THEN b - a + 1 ELSE 0
<1>1. /\ SubSeq(y, a, b) \in Seq(C) /\ Len(SubSeq(y, a, b)) = n
      /\ \A i \in 1..(b - a + 1) : SubSeq(y, a, b)[i] = y[a + i - 1]
  <2>1. \A i \in a..b : y[i] \in C
    BY <1>0, ElementOfSeq
  <2> QED
    BY <2>1, SubSeqProperties
<1>2. \A j \in e..f : z[j] \in C
  <2> SUFFICES ASSUME NEW j \in e..f PROVE z[j] \in C
    OBVIOUS
  <2>1. j - d \in a..b /\ d + (j - d) = j
    OBVIOUS
  <2>2. z[d + (j - d)] \in C
    BY <1>0, <2>1, ElementOfSeq
  <2> QED
    BY <2>1, <2>2
<1>3. /\ SubSeq(z, e, f) \in Seq(C)
      /\ Len(SubSeq(z, e, f)) = IF e <= f THEN f - e + 1 ELSE 0
      /\ \A i \in 1..(f - e + 1) : SubSeq(z, e, f)[i] = z[e + i - 1]
  BY <1>2, SubSeqProperties
<1>4. Len(SubSeq(z, e, f)) = n
  BY <1>3
<1>5. ASSUME NEW i \in 1..n
      PROVE  SubSeq(z, e, f)[i] = SubSeq(y, a, b)[i]
  <2>1. /\ i \in 1..(b - a + 1) /\ i \in 1..(f - e + 1)
        /\ a + i - 1 \in a..b /\ e + i - 1 = d + (a + i - 1)
    OBVIOUS
  <2>2. z[d + (a + i - 1)] = y[a + i - 1]
    BY <1>0, <2>1
  <2> QED
    BY <1>1, <1>3, <2>1, <2>2
<1> HIDE DEF n
<1> QED
  BY <1>1, <1>3, <1>4, <1>5, SeqEqual DEF SameSlice

\* A string without c is its own only piece.
LEMMA SplitWhole ==
    ASSUME NEW C, NEW c, NEW s \in Seq(C \ {c})
    PROVE  Split(s, c) = <<s>>
<1>1. Len(s) \in Nat /\ DOMAIN s = 1..Len(s) /\ \A i \in 1..Len(s) : s[i] # c
  BY LenProperties
<1>2. Cuts(s, c) = {0, Len(s) + 1}
  BY <1>1 DEF Cuts
<1> DEFINE f == [k \in 1..2 |-> IF k = 1 THEN 0 ELSE Len(s) + 1]
<1>3. f[1] = 0 /\ f[2] = Len(s) + 1
  OBVIOUS
<1>4. Enumerates(f, 2, Cuts(s, c))
  BY <1>1, <1>2 DEF Enumerates
<1>5. Split(s, c) = Pieces(s, f, 2)
  BY <1>4, SplitIs
<1>6. Pieces(s, f, 2) = [k \in 1..1 |-> SubSeq(s, 1, Len(s))]
  <2>1. \A k \in 1..(2 - 1) : k = 1 /\ f[k] + 1 = 1 /\ f[k + 1] - 1 = Len(s)
    BY <1>1
  <2> QED
    BY <2>1 DEF Pieces
<1>7. SubSeq(s, 1, Len(s)) = s
  BY SubSeqFull
<1>8. [k \in 1..1 |-> s] = <<s>>
  OBVIOUS
<1> QED
  BY <1>5, <1>6, <1>7, <1>8

\* split(c) of x + c + y is split(c) of x followed by split(c) of y.
LEMMA SplitConcat ==
    ASSUME NEW C, NEW c \in C, NEW x \in Seq(C), NEW y \in Seq(C)
    PROVE  Split(x \o <<c>> \o y, c) = Split(x, c) \o Split(y, c)
<1> DEFINE z == x \o <<c>> \o y
           p == Len(x) + 1
<1>1. Len(x) \in Nat /\ Len(y) \in Nat /\ DOMAIN x = 1..Len(x) /\ DOMAIN y = 1..Len(y)
  BY LenProperties
<1>2. /\ z \in Seq(C) /\ Len(z) = p + Len(y) /\ DOMAIN z = 1..Len(z)
      /\ \A i \in 1..Len(x) : z[i] = x[i]
      /\ z[p] = c
      /\ \A i \in 1..Len(y) : z[p + i] = y[i]
  OBVIOUS
<1> HIDE DEF z
<1>3a. PICK m \in Nat : \E f :
        /\ m >= 2 /\ Enumerates(f, m, Cuts(x, c)) /\ f[1] = 0 /\ f[m] = Len(x) + 1
        /\ Split(x, c) = Pieces(x, f, m)
  BY SplitShape
<1>3. PICK f :
        /\ m >= 2 /\ Enumerates(f, m, Cuts(x, c)) /\ f[1] = 0 /\ f[m] = Len(x) + 1
        /\ Split(x, c) = Pieces(x, f, m)
  BY <1>3a
<1>4a. PICK l \in Nat : \E g :
        /\ l >= 2 /\ Enumerates(g, l, Cuts(y, c)) /\ g[1] = 0 /\ g[l] = Len(y) + 1
        /\ Split(y, c) = Pieces(y, g, l)
  BY SplitShape
<1>4. PICK g :
        /\ l >= 2 /\ Enumerates(g, l, Cuts(y, c)) /\ g[1] = 0 /\ g[l] = Len(y) + 1
        /\ Split(y, c) = Pieces(y, g, l)
  BY <1>4a
<1> DEFINE n == m + l - 1
           h == [k \in 1..n |-> IF k <= m THEN f[k] ELSE p + g[k - m + 1]]
<1>5. /\ \A k \in 1..m : f[k] \in Cuts(x, c) /\ f[k] \in 0..p
      /\ \A k \in 1..l : g[k] \in Cuts(y, c) /\ g[k] \in 0..(Len(y) + 1)
  BY <1>3, <1>4, CutsAreFinite DEF Enumerates
<1>6. /\ \A k \in 1..m : k \in 1..n /\ h[k] = f[k]
      /\ \A k \in 1..l : k + m - 1 \in 1..n /\ h[k + m - 1] = p + g[k]
  <2>1. \A k \in 1..m : k \in 1..n /\ h[k] = f[k]
    BY <1>3, <1>4
  <2>2. ASSUME NEW k \in 1..l
        PROVE  k + m - 1 \in 1..n /\ h[k + m - 1] = p + g[k]
    <3>1. k + m - 1 \in 1..n
      BY <1>3
    <3>2. CASE k = 1
      <4>1. h[m] = f[m]
        BY <1>3, <2>1
      <4> QED
        BY <1>1, <1>3, <1>4, <3>1, <3>2, <4>1
    <3>3. CASE k # 1
      <4>1. ~ (k + m - 1 <= m) /\ (k + m - 1) - m + 1 = k
        BY <1>3, <3>3
      <4> QED
        BY <3>1, <4>1
    <3> QED
      BY <3>1, <3>2, <3>3
  <2> QED
    BY <2>1, <2>2
<1> HIDE DEF h
<1>7. \A k \in 1..n : k \in 1..m \/ \E j \in 1..l : k = j + m - 1
  <2> SUFFICES ASSUME NEW k \in 1..n, k > m PROVE \E j \in 1..l : k = j + m - 1
    BY <1>3
  <2>1. k - m + 1 \in 1..l /\ k = (k - m + 1) + m - 1
    BY <1>3, <1>4
  <2> QED
    BY <2>1
<1>8. \A i : i \in Cuts(z, c) <=> i \in Cuts(x, c) \/ \E j \in Cuts(y, c) : i = p + j
  <2>1. ASSUME NEW i, i \in Cuts(z, c)
        PROVE  i \in Cuts(x, c) \/ \E j \in Cuts(y, c) : i = p + j
    <3>1. CASE i \in {0, Len(z) + 1}
      <4>1. Len(z) + 1 = p + (Len(y) + 1)
        BY <1>1, <1>2
      <4> QED
        BY <3>1, <4>1, CutsAreFinite
    <3>2. CASE i \in 1..Len(z) /\ z[i] = c
      <4>1. CASE i <= Len(x)
        BY <1>1, <1>2, <3>2, <4>1 DEF Cuts
      <4>2. CASE i = p
        BY <4>2, CutsAreFinite
      <4>3. CASE i > p
        <5>1. i - p \in 1..Len(y) /\ i = p + (i - p)
          BY <1>1, <1>2, <3>2, <4>3
        <5>2. y[i - p] = c
          BY <1>2, <3>2, <5>1
        <5>3. i - p \in Cuts(y, c)
          BY <1>1, <5>1, <5>2 DEF Cuts
        <5> QED
          BY <5>1, <5>3
      <4> QED
        BY <1>1, <3>2, <4>1, <4>2, <4>3
    <3> QED
      BY <1>2, <2>1, <3>1, <3>2 DEF Cuts
  <2>2. ASSUME NEW i, i \in Cuts(x, c) PROVE i \in Cuts(z, c)
    <3>1. i = 0 \/ i = p \/ (i \in 1..Len(x) /\ x[i] = c)
      BY <1>1, <2>2 DEF Cuts
    <3>2. p \in DOMAIN z /\ 1..Len(x) \subseteq DOMAIN z
      BY <1>1, <1>2
    <3> QED
      BY <1>2, <3>1, <3>2 DEF Cuts
  <2>3. ASSUME NEW j \in Cuts(y, c) PROVE p + j \in Cuts(z, c)
    <3>1. j = 0 \/ j = Len(y) + 1 \/ (j \in 1..Len(y) /\ y[j] = c)
      BY <1>1 DEF Cuts
    <3>2. p \in DOMAIN z /\ p + 0 = p /\ p + (Len(y) + 1) = Len(z) + 1
      BY <1>1, <1>2
    <3>3. \A k \in 1..Len(y) : p + k \in DOMAIN z
      BY <1>1, <1>2
    <3> QED
      BY <1>2, <3>1, <3>2, <3>3 DEF Cuts
  <2> QED
    BY <2>1, <2>2, <2>3
<1>9. Enumerates(h, n, Cuts(z, c))
  <2>1. ASSUME NEW k \in 1..n PROVE h[k] \in Cuts(z, c)
    <3>1. CASE k \in 1..m
      BY <1>5, <1>6, <1>8, <3>1
    <3>2. ASSUME NEW j \in 1..l, k = j + m - 1 PROVE h[k] \in Cuts(z, c)
      <4>1. g[j] \in Cuts(y, c) /\ h[j + m - 1] = p + g[j]
        BY <1>5, <1>6
      <4> QED
        BY <1>8, <3>2, <4>1
    <3> QED
      BY <1>7, <3>1, <3>2
  <2>2. ASSUME NEW i \in Cuts(z, c) PROVE \E k \in 1..n : h[k] = i
    <3>1. CASE i \in Cuts(x, c)
      BY <1>3, <1>6, <3>1 DEF Enumerates
    <3>2. ASSUME NEW j \in Cuts(y, c), i = p + j PROVE \E k \in 1..n : h[k] = i
      <4>1. PICK k \in 1..l : g[k] = j
        BY <1>4 DEF Enumerates
      <4> QED
        BY <1>6, <3>2, <4>1
    <3> QED
      BY <1>8, <3>1, <3>2
  <2>3. ASSUME NEW j \in 1..n, NEW k \in 1..n, j < k PROVE h[j] < h[k]
    <3>1. CASE j \in 1..m /\ k \in 1..m
      BY <1>3, <1>6, <2>3, <3>1 DEF Enumerates
    <3>2. ASSUME NEW i \in 1..l, k = i + m - 1, j \in 1..m, i > 1
          PROVE  h[j] < h[k]
      <4>1. h[j] = f[j] /\ h[k] = p + g[i] /\ f[j] \in 0..p
        BY <1>5, <1>6, <3>2
      <4>2. g[1] < g[i]
        <5>1. 1 \in 1..l
          BY <1>4
        <5> QED
          BY <1>4, <3>2, <5>1 DEF Enumerates
      <4>3. g[i] \in Nat /\ g[i] > 0
        BY <1>4, <1>5, <4>2
      <4> QED
        BY <1>1, <4>1, <4>3
    <3>3. ASSUME NEW i \in 1..l, k = i + m - 1, NEW q \in 1..l, j = q + m - 1
          PROVE  h[j] < h[k]
      <4>1. q < i
        BY <1>3, <2>3, <3>3
      <4>2. g[q] < g[i]
        BY <1>4, <4>1 DEF Enumerates
      <4>3. h[j] = p + g[q] /\ h[k] = p + g[i] /\ g[q] \in Int /\ g[i] \in Int
        BY <1>5, <1>6, <3>3
      <4> QED
        BY <1>1, <4>2, <4>3
    <3>4. ASSUME NEW i \in 1..l, k = i + m - 1, ~ (i > 1) PROVE k \in 1..m
      BY <1>3, <3>4
    <3>5. k \in 1..m => j \in 1..m
      BY <1>3, <2>3
    <3> QED
      BY <1>7, <3>1, <3>2, <3>3, <3>4, <3>5
  <2>4. h \in [1..n -> Cuts(z, c)]
    BY <2>1 DEF h
  <2> QED
    BY <2>2, <2>3, <2>4 DEF Enumerates
<1>10. n \in Nat /\ n - 1 = (m - 1) + (l - 1)
  BY <1>3, <1>4
<1>11. Split(z, c) = Pieces(z, h, n)
  BY <1>2, <1>9, <1>10, SplitIs
<1>12. ASSUME NEW k \in 1..(m - 1)
       PROVE  SubSeq(z, h[k] + 1, h[k + 1] - 1) = SubSeq(x, f[k] + 1, f[k + 1] - 1)
  <2>1. k \in 1..m /\ k + 1 \in 1..m
    BY <1>3
  <2>2. h[k] = f[k] /\ h[k + 1] = f[k + 1]
    BY <1>6, <2>1
  <2>3. f[k] \in 0..Len(x) /\ f[k + 1] \in 1..p
    BY <1>3, Consecutive
  <2>4. \A i \in (f[k] + 1)..(f[k + 1] - 1) : i \in 1..Len(x) /\ z[i] = x[i] /\ x[i] \in C
    BY <1>1, <1>2, <2>3, ElementOfSeq
  <2>5. PICK a \in Int, b \in Int : a = f[k] + 1 /\ b = f[k + 1] - 1
    BY <1>1, <2>3
  <2>6. 0 \in Int /\ a = 0 + a /\ b = 0 + b
    OBVIOUS
  <2>7. \A i \in a..b : i \in 1..Len(x) /\ z[0 + i] = x[i]
    BY <2>4, <2>5
  <2>8. SubSeq(z, a, b) = SubSeq(x, a, b)
    <3>1. Shifted(z, 0, x, a, b)
      BY <2>7 DEF Shifted
    <3>2. SameSlice(z, a, b, x, a, b)
      BY <1>2, <2>6, <3>1, SubSeqMoved
    <3> QED
      BY <3>2 DEF SameSlice
  <2>9. a = h[k] + 1 /\ b = h[k + 1] - 1
    BY <2>2, <2>5
  <2> QED
    BY <2>5, <2>8, <2>9
<1>13. ASSUME NEW k \in 1..(l - 1)
       PROVE  SubSeq(z, h[k + m - 1] + 1, h[k + m] - 1) = SubSeq(y, g[k] + 1, g[k + 1] - 1)
  <2>1. k \in 1..l /\ k + 1 \in 1..l /\ (k + 1) + m - 1 = k + m
    BY <1>3, <1>4
  <2>2. h[k + m - 1] = p + g[k] /\ h[k + m] = p + g[k + 1]
    BY <1>6, <2>1
  <2>3. g[k] \in 0..Len(y) /\ g[k + 1] \in 1..(Len(y) + 1)
    BY <1>4, Consecutive
  <2>4. \A i \in (g[k] + 1)..(g[k + 1] - 1) : i \in 1..Len(y) /\ z[p + i] = y[i] /\ y[i] \in C
    <3>1. PICK u \in 0..Len(y), v \in 1..(Len(y) + 1) : u = g[k] /\ v = g[k + 1]
      BY <2>3
    <3>2. \A i \in (u + 1)..(v - 1) : i \in 1..Len(y)
      BY <1>1
    <3>3. \A i \in 1..Len(y) : z[p + i] = y[i] /\ y[i] \in C
      BY <1>2, ElementOfSeq
    <3> HIDE DEF p
    <3>4. \A i \in (u + 1)..(v - 1) : i \in 1..Len(y) /\ z[p + i] = y[i] /\ y[i] \in C
      BY <3>2, <3>3
    <3> QED
      BY <3>1, <3>4
  <2>5. PICK a \in Int, b \in Int : a = g[k] + 1 /\ b = g[k + 1] - 1
    BY <1>1, <2>3
  <2>6. PICK e \in Int, q \in Int : e = p + a /\ q = p + b
    BY <1>1, <2>5
  <2>7. e = h[k + m - 1] + 1 /\ q = h[k + m] - 1
    <3>1. PICK u \in Int, v \in Int : u = g[k] /\ v = g[k + 1]
      BY <1>1, <2>3
    <3>2. h[k + m - 1] = p + u /\ h[k + m] = p + v
      BY <2>2, <3>1
    <3>3. a = u + 1 /\ b = v - 1
      BY <2>5, <3>1
    <3>4. p \in Int
      BY <1>1
    <3> HIDE DEF p
    <3>5. e = (p + u) + 1 /\ q = (p + v) - 1
      BY <2>6, <3>3, <3>4
    <3> QED
      BY <3>2, <3>5
  <2>8. p \in Int /\ \A i \in a..b : i \in 1..Len(y) /\ z[p + i] = y[i]
    BY <1>1, <2>4, <2>5
  <2> HIDE DEF p
  <2>9. SubSeq(z, e, q) = SubSeq(y, a, b)
    <3>1. Shifted(z, p, y, a, b)
      BY <2>8 DEF Shifted
    <3>2. SameSlice(z, e, q, y, a, b)
      BY <1>2, <2>6, <2>8, <3>1, SubSeqMoved
    <3> QED
      BY <3>2 DEF SameSlice
  <2> QED
    BY <2>5, <2>7, <2>9
<1>14. Len(Split(x, c)) = m - 1 /\ Len(Split(y, c)) = l - 1 /\ Len(Split(z, c)) = n - 1
  BY <1>3, <1>4, <1>10, <1>11 DEF Pieces
<1>15. ASSUME NEW k \in 1..(n - 1)
       PROVE  Split(z, c)[k] = (Split(x, c) \o Split(y, c))[k]
  <2>1. CASE k \in 1..(m - 1)
    <3>1. Split(z, c)[k] = Split(x, c)[k]
      <4>1. k \in 1..(n - 1)
        BY <1>10, <1>4, <2>1
      <4> HIDE DEF n
      <4>2. Split(z, c)[k] = SubSeq(z, h[k] + 1, h[k + 1] - 1)
        BY <1>11, <4>1 DEF Pieces
      <4>3. Split(x, c)[k] = SubSeq(x, f[k] + 1, f[k + 1] - 1)
        BY <1>3, <2>1 DEF Pieces
      <4> QED
        BY <1>12, <2>1, <4>2, <4>3
    <3> QED
      BY <1>10, <1>14, <2>1, <3>1, SplitType, ConcatProperties
  <2>2. CASE ~ (k \in 1..(m - 1))
    <3>1. k - (m - 1) \in 1..(l - 1)
      BY <1>3, <1>4, <1>10, <2>2
    <3>2. PICK j \in 1..(l - 1) : j = k - (m - 1)
      BY <3>1
    <3>3. k = j + m - 1 /\ k + 1 = j + m
      BY <1>3, <3>2
    <3>4. Split(z, c)[k] = Split(y, c)[j]
      <4>1. Split(z, c)[k] = SubSeq(z, h[k] + 1, h[k + 1] - 1)
        BY <1>11 DEF Pieces
      <4>2. Split(y, c)[j] = SubSeq(y, g[j] + 1, g[j + 1] - 1)
        BY <1>4 DEF Pieces
      <4>3. SubSeq(z, h[j + m - 1] + 1, h[j + m] - 1) = SubSeq(y, g[j] + 1, g[j + 1] - 1)
        BY <1>13
      <4> HIDE DEF n, p
      <4> QED
        BY <3>3, <4>1, <4>2, <4>3
    <3>5. (Split(x, c) \o Split(y, c))[k] = Split(y, c)[k - (m - 1)]
      <4>1. /\ Split(x, c) \in Seq(Seq(C \ {c})) /\ Split(y, c) \in Seq(Seq(C \ {c}))
            /\ k \in 1..(Len(Split(x, c)) + Len(Split(y, c))) /\ ~ (k <= Len(Split(x, c)))
        BY <1>3, <1>4, <1>10, <1>14, <2>2, SplitType
      <4>2. PICK u, v : u = Split(x, c) /\ v = Split(y, c)
        OBVIOUS
      <4>3. (u \o v)[k] = v[k - Len(u)]
        <5>1. /\ u \in Seq(Seq(C \ {c})) /\ v \in Seq(Seq(C \ {c}))
              /\ k \in 1..(Len(u) + Len(v)) /\ ~ (k <= Len(u))
          BY <4>1, <4>2
        <5> QED
          BY <5>1, ConcatProperties
      <4> QED
        BY <1>14, <4>2, <4>3
    <3> QED
      BY <3>2, <3>4, <3>5
  <2> QED
    BY <2>1, <2>2
<1>16. /\ Split(z, c) \in Seq(Seq(C \ {c}))
       /\ Split(x, c) \o Split(y, c) \in Seq(Seq(C \ {c}))
       /\ Len(Split(x, c) \o Split(y, c)) = n - 1
  <2>1. /\ Split(x, c) \in Seq(Seq(C \ {c})) /\ Split(y, c) \in Seq(Seq(C \ {c}))
        /\ Split(z, c) \in Seq(Seq(C \ {c}))
    BY <1>2, SplitType
  <2> QED
    BY <1>10, <1>14, <2>1, ConcatProperties
<1>17. Split(z, c) = Split(x, c) \o Split(y, c)
  BY <1>14, <1>15, <1>16, SeqEqual
<1> QED
  BY <1>17 DEF z

\* A non-empty set of naturals has a least element.
LEMMA LeastOf ==
    ASSUME NEW T, T \subseteq Nat, T # {}
    PROVE  \E x \in T : \A y \in T : ~ (y < x)
<1>1. PICK x \in T : \A y \in T : ~ (<<y, x>> \in OpToRel(<, Nat))
  BY NatLessThanWellFounded, WFMin
<1>2. \A y \in T : ~ (y < x)
  BY <1>1, Zenon DEF OpToRel
<1> QED
  BY <1>2

\* q is what lies between two positions of s.
Between(s, a, b, q) == Len(q) = b - a - 1 /\ \A j \in 1..(b - a - 1) : q[j] = s[a + j]

\* What one piece consists of.
LEMMA PieceIs ==
    ASSUME NEW C, NEW s \in Seq(C), NEW c, NEW m \in Nat, NEW f,
           Enumerates(f, m, Cuts(s, c)), NEW k \in 1..(m - 1)
    PROVE  Between(s, f[k], f[k + 1], Pieces(s, f, m)[k])
<1>1. PICK a \in Int, b \in Int : a = f[k] + 1 /\ b = f[k + 1] - 1
  BY Consecutive, LenProperties
<1>2. \A i \in a..b : s[i] \in C \ {c}
  BY <1>1, Consecutive
<1>3. a <= b + 1 /\ f[k + 1] - f[k] - 1 = b - a + 1 /\ f[k] \in Int
  <2>1. PICK u \in Int, v \in Int : u = f[k] /\ v = f[k + 1] /\ u < v
    BY Consecutive, LenProperties
  <2>2. a = u + 1 /\ b = v - 1
    BY <1>1, <2>1
  <2>3. f[k + 1] - f[k] - 1 = v - u - 1 /\ f[k] \in Int
    BY <2>1
  <2>4. u < v
    BY <2>1
  <2>5. a <= b + 1 /\ v - u - 1 = b - a + 1
    BY <2>2, <2>4
  <2> QED
    BY <2>3, <2>5
<1>4. /\ SubSeq(s, a, b) \in Seq(C \ {c})
      /\ Len(SubSeq(s, a, b)) = IF a <= b THEN b - a + 1 ELSE 0
      /\ \A j \in 1..(b - a + 1) : SubSeq(s, a, b)[j] = s[a + j - 1]
  BY <1>2, SubSeqProperties
<1>5. Len(SubSeq(s, a, b)) = b - a + 1
  BY <1>3, <1>4
<1>6. Pieces(s, f, m)[k] = SubSeq(s, a, b)
  BY <1>1 DEF Pieces
<1>7. \A j \in 1..(b - a + 1) : a + j - 1 = f[k] + j
  <2>1. PICK u \in Int : u = f[k]
    BY <1>3
  <2>2. a = u + 1
    BY <1>1, <2>1
  <2>3. \A j \in 1..(b - a + 1) : a + j - 1 = u + j
    BY <2>2
  <2> QED
    BY <2>1, <2>3
<1> QED
  BY <1>3, <1>4, <1>5, <1>6, <1>7 DEF Between

\* Two strings with the same pieces are the same.
LEMMA SplitInjective ==
    ASSUME NEW C, NEW c, NEW s \in Seq(C), NEW t \in Seq(C), Split(s, c) = Split(t, c)
    PROVE  s = t
<1>1a. PICK m \in Nat : \E f :
        /\ m >= 2 /\ Enumerates(f, m, Cuts(s, c)) /\ f[1] = 0 /\ f[m] = Len(s) + 1
        /\ Split(s, c) = Pieces(s, f, m)
  BY SplitShape
<1>1. PICK f :
        /\ m >= 2 /\ Enumerates(f, m, Cuts(s, c)) /\ f[1] = 0 /\ f[m] = Len(s) + 1
        /\ Split(s, c) = Pieces(s, f, m)
  BY <1>1a
<1>2a. PICK n \in Nat : \E g :
        /\ n >= 2 /\ Enumerates(g, n, Cuts(t, c)) /\ g[1] = 0 /\ g[n] = Len(t) + 1
        /\ Split(t, c) = Pieces(t, g, n)
  BY SplitShape
<1>2. PICK g :
        /\ n >= 2 /\ Enumerates(g, n, Cuts(t, c)) /\ g[1] = 0 /\ g[n] = Len(t) + 1
        /\ Split(t, c) = Pieces(t, g, n)
  BY <1>2a
<1>3. m = n
  <2>1. Len(Pieces(s, f, m)) = m - 1 /\ Len(Pieces(t, g, n)) = n - 1
    BY <1>1, <1>2 DEF Pieces
  <2>2. Pieces(s, f, m) = Pieces(t, g, n)
    BY <1>1, <1>2
  <2> QED
    BY <2>1, <2>2
<1>4. /\ \A k \in 1..m : f[k] \in Int /\ g[k] \in Int
      /\ Len(s) \in Nat /\ Len(t) \in Nat
      /\ DOMAIN s = 1..Len(s) /\ DOMAIN t = 1..Len(t)
  <2>1. \A k \in 1..m : f[k] \in Cuts(s, c) /\ g[k] \in Cuts(t, c)
    BY <1>1, <1>2, <1>3 DEF Enumerates
  <2> QED
    BY <2>1, CutsAreFinite, LenProperties
<1>5. ASSUME NEW k \in 1..(m - 1)
      PROVE  /\ f[k + 1] - f[k] - 1 = g[k + 1] - g[k] - 1
             /\ \A j \in 1..(f[k + 1] - f[k] - 1) : s[f[k] + j] = t[g[k] + j]
  <2>1. Between(s, f[k], f[k + 1], Pieces(s, f, m)[k])
    BY <1>1, PieceIs
  <2>2. Between(t, g[k], g[k + 1], Pieces(t, g, m)[k])
    BY <1>2, <1>3, PieceIs
  <2>3. Pieces(s, f, m) = Pieces(t, g, m)
    BY <1>1, <1>2, <1>3
  <2> QED
    BY <2>1, <2>2, <2>3 DEF Between
<1>6. \A k \in 1..m : f[k] = g[k]
  <2> DEFINE D == {k \in 1..m : f[k] # g[k]}
  <2> SUFFICES ASSUME D # {} PROVE FALSE
    OBVIOUS
  <2>1. PICK k \in D : \A l \in D : ~ (l < k)
    <3>1. D \subseteq Nat
      OBVIOUS
    <3> HIDE DEF D
    <3> QED
      BY <3>1, LeastOf
  <2>2. k # 1
    BY <1>1, <1>2
  <2>3. k - 1 \in 1..(m - 1) /\ k - 1 \in 1..m /\ k - 1 < k /\ (k - 1) + 1 = k
    BY <2>2
  <2>4. f[k - 1] = g[k - 1]
    BY <2>1, <2>3
  <2>5. f[k] - f[k - 1] - 1 = g[k] - g[k - 1] - 1
    BY <1>5, <2>3
  <2>6. f[k] \in Int /\ g[k] \in Int /\ f[k - 1] \in Int
    BY <1>4, <2>3
  <2>7. f[k] = g[k]
    BY <2>4, <2>5, <2>6
  <2> QED
    BY <2>7
<1>7. Len(s) = Len(t)
  <2>1. f[m] = g[m] /\ g[m] = Len(t) + 1
    BY <1>1, <1>2, <1>3, <1>6
  <2>2. Len(s) + 1 = Len(t) + 1
    BY <1>1, <2>1
  <2>3. Len(s) \in Nat /\ Len(t) \in Nat
    BY <1>4
  <2> QED
    BY <2>2, <2>3
<1>8. ASSUME NEW i \in 1..Len(s) PROVE s[i] = t[i]
  <2>1. CASE i \in Cuts(s, c)
    <3>1. PICK k \in 1..m : f[k] = i
      BY <1>1, <2>1 DEF Enumerates
    <3>2. i \in Cuts(t, c)
      BY <1>2, <1>3, <1>6, <3>1 DEF Enumerates
    <3>3. i # 0 /\ i # Len(s) + 1 /\ i # Len(t) + 1
      BY <1>4, <1>7
    <3> QED
      BY <2>1, <3>2, <3>3 DEF Cuts
  <2>2. CASE i \notin Cuts(s, c)
    <3> DEFINE D == {k \in 1..m : f[k] > i}
    <3>1. D \subseteq Nat /\ m \in D
      BY <1>1, <1>4
    <3>2. PICK k \in D : \A l \in D : ~ (l < k)
      <4> HIDE DEF D
      <4> QED
        BY <3>1, LeastOf
    <3>3. k # 1
      BY <1>1, <3>2
    <3>4. k - 1 \in 1..(m - 1) /\ k - 1 \in 1..m /\ k - 1 < k /\ (k - 1) + 1 = k
      BY <3>3
    <3>5. PICK a \in Int, b \in Int : a = f[k - 1] /\ b = f[k]
      BY <1>4, <3>4
    <3>6. ~ (a > i) /\ b > i
      BY <3>2, <3>4, <3>5
    <3>7. a # i
      <4>1. f[k - 1] \in Cuts(s, c)
        BY <1>1, <3>4 DEF Enumerates
      <4> QED
        BY <2>2, <3>5, <4>1
    <3>8. i - a \in 1..(b - a - 1) /\ a + (i - a) = i
      BY <3>5, <3>6, <3>7
    <3>9. g[k - 1] = a
      BY <1>6, <3>4, <3>5
    <3>10. \A j \in 1..(b - a - 1) : s[a + j] = t[a + j]
      BY <1>5, <3>4, <3>5, <3>9
    <3> QED
      BY <3>8, <3>10
  <2> QED
    BY <2>1, <2>2
<1> QED
  BY <1>7, <1>8, SeqEqual

\* A string of c's only splits into empty pieces.
LEMMA SplitOnly ==
    ASSUME NEW c, NEW s \in Seq({c})
    PROVE  Split(s, c) \in Seq({<<>>})
<1>1. Split(s, c) \in Seq(Seq({c} \ {c}))
  BY SplitType
<1>2. \A p \in Seq({c} \ {c}) : p = <<>>
  <2> SUFFICES ASSUME NEW p \in Seq({c} \ {c}), p # <<>> PROVE FALSE
    OBVIOUS
  <2>1. Len(p) \in Nat \ {0}
    BY EmptySeq
  <2>2. p[1] \in {c} \ {c}
    BY <2>1, ElementOfSeq
  <2> QED
    BY <2>2
<1> QED
  BY <1>1, <1>2, SeqMonotonic

\* c's around a string add empty pieces around its pieces.
LEMMA SplitPadded ==
    ASSUME NEW C, NEW c \in C, NEW t \in Seq(C), NEW x \in Seq({c}), NEW y \in Seq({c})
    PROVE  \E u \in Seq({<<>>}), v \in Seq({<<>>}) :
              Split((x \o t) \o y, c) = (u \o Split(t, c)) \o v
<1>1. x \in Seq(C) /\ y \in Seq(C) /\ x \o t \in Seq(C) /\ Split(t, c) \in Seq(Seq(C \ {c}))
  <2>1. x \in Seq(C) /\ y \in Seq(C)
    BY SeqMonotonic
  <2> QED
    BY <2>1, ConcatProperties, SplitType
<1>2. \E u \in Seq({<<>>}) : Split(x \o t, c) = u \o Split(t, c)
  <2>1. CASE x = <<>>
    <3>1. x \o t = t /\ <<>> \o Split(t, c) = Split(t, c)
      BY <1>1, <2>1, ConcatEmptySeq
    <3> QED
      BY <3>1, EmptySeq
  <2>2. CASE x # <<>>
    <3>1. PICK w \in Seq({c}) : x = w \o <<c>>
      <4> DEFINE D == {c}
      <4>1. x \in Seq(D) /\ \A e \in D : e = c
        OBVIOUS
      <4> HIDE DEF D
      <4>2. PICK w \in Seq(D), e \in D : x = Append(w, e)
        BY <2>2, <4>1, SequenceEmptyOrAppend
      <4>3. Append(w, e) = w \o <<e>> /\ e = c
        BY <4>1, AppendIsConcat
      <4> QED
        BY <4>2, <4>3 DEF D
    <3>2. w \in Seq(C)
      BY SeqMonotonic
    <3>3. Split(x \o t, c) = Split(w, c) \o Split(t, c)
      BY <3>1, <3>2, SplitConcat
    <3> QED
      BY <3>3, SplitOnly
  <2> QED
    BY <2>1, <2>2
<1>3. \E v \in Seq({<<>>}) : Split((x \o t) \o y, c) = Split(x \o t, c) \o v
  <2>1. CASE y = <<>>
    <3>1. (x \o t) \o y = x \o t
      BY <1>1, <2>1, ConcatEmptySeq
    <3>2. Split(x \o t, c) \o <<>> = Split(x \o t, c)
      BY <1>1, SplitType, ConcatEmptySeq
    <3> QED
      BY <3>1, <3>2, EmptySeq
  <2>2. CASE y # <<>>
    <3>1. Len(y) \in Nat \ {0} /\ y \in [1..Len(y) -> {c}]
      BY <2>2, EmptySeq, LenProperties
    <3> DEFINE w == Tail(y)
    <3>2. w \in Seq({c}) /\ y[1] = c
      BY <2>2, <3>1, HeadTailProperties
    <3>3. y = <<c>> \o w
      <4>1. y = SubSeq(y, 1, Len(y)) /\ SubSeq(y, 1, Len(y)) = <<y[1]>> \o SubSeq(y, 2, Len(y))
        <5>1. 1 \in 1..Len(y) /\ Len(y) \in 1..Len(y)
          BY <3>1
        <5>2. SubSeq(y, 1, Len(y)) = <<y[1]>> \o SubSeq(y, 1 + 1, Len(y))
          BY <5>1, SubSeqRecursiveFirst
        <5> QED
          BY <5>2, SubSeqFull
      <4>2. SubSeq(y, 2, Len(y)) = w
        BY <2>2, TailIsSubSeq
      <4> QED
        BY <3>2, <4>1, <4>2
    <3> HIDE DEF w
    <3>4. w \in Seq(C) /\ <<c>> \in Seq(C)
      BY <3>2, SeqMonotonic
    <3>5. (x \o t) \o (<<c>> \o w) = ((x \o t) \o <<c>>) \o w
      <4> DEFINE xt == x \o t
      <4>1. xt \in Seq(C)
        BY <1>1
      <4> HIDE DEF xt
      <4>2. (xt \o <<c>>) \o w = xt \o (<<c>> \o w)
        <5>1. JoinsAlike(xt, <<c>>, w)
          BY <3>4, <4>1, JoinsAssociate
        <5> QED
          BY <5>1 DEF JoinsAlike
      <4> QED
        BY <4>2 DEF xt
    <3>6. Split((x \o t) \o y, c) = Split(x \o t, c) \o Split(w, c)
      BY <1>1, <3>3, <3>4, <3>5, SplitConcat
    <3> QED
      BY <3>2, <3>6, SplitOnly
  <2> QED
    BY <2>1, <2>2
<1> QED
  BY <1>2, <1>3

\* The first or the last character of a string is in its first or last piece.
LEMMA SplitEnds ==
    ASSUME NEW C, NEW c, NEW t \in Seq(C), t # <<>>, t[1] # c, t[Len(t)] # c
    PROVE  LET p == Split(t, c) IN p[1] # <<>> /\ p[Len(p)] # <<>>
<1>1a. PICK m \in Nat : \E f :
        /\ m >= 2 /\ Enumerates(f, m, Cuts(t, c))
        /\ f[1] = 0 /\ f[m] = Len(t) + 1
        /\ Split(t, c) = Pieces(t, f, m)
  BY SplitShape
<1>1. PICK f :
        /\ m >= 2 /\ Enumerates(f, m, Cuts(t, c))
        /\ f[1] = 0 /\ f[m] = Len(t) + 1
        /\ Split(t, c) = Pieces(t, f, m)
  BY <1>1a
<1>2. Len(t) \in Nat \ {0} /\ DOMAIN t = 1..Len(t)
  BY EmptySeq, LenProperties
<1>3. Len(Split(t, c)) = m - 1 /\ 1 \in 1..(m - 1) /\ m - 1 \in 1..(m - 1) /\ (m - 1) + 1 = m
  BY <1>1 DEF Pieces
<1>4. \A k \in 1..(m - 1) : Split(t, c)[k] = <<>> => f[k + 1] = f[k] + 1
  <2> SUFFICES ASSUME NEW k \in 1..(m - 1), Split(t, c)[k] = <<>> PROVE f[k + 1] = f[k] + 1
    OBVIOUS
  <2>1. Between(t, f[k], f[k + 1], Split(t, c)[k])
    BY <1>1, PieceIs
  <2>2. PICK u \in Int, v \in Int : u = f[k] /\ v = f[k + 1]
    <3>1. f[k] \in 0..Len(t) /\ f[k + 1] \in 1..(Len(t) + 1)
      BY <1>1, Consecutive
    <3>2. 0..Len(t) \subseteq Int /\ 1..(Len(t) + 1) \subseteq Int
      BY <1>2
    <3>3. f[k] \in Int /\ f[k + 1] \in Int
      BY <3>1, <3>2
    <3> QED
      BY <3>3
  <2>3. 0 = v - u - 1
    BY <2>1, <2>2 DEF Between
  <2>4. v = u + 1
    BY <2>2, <2>3
  <2> QED
    BY <2>2, <2>4
<1>5. 2 \in 1..m /\ m - 1 \in 1..m
  BY <1>1
<1>6. f[2] \in Cuts(t, c) /\ f[m - 1] \in Cuts(t, c)
  BY <1>1, <1>5 DEF Enumerates
<1>7. Split(t, c)[1] # <<>>
  <2> SUFFICES ASSUME Split(t, c)[1] = <<>> PROVE FALSE
    OBVIOUS
  <2>1. f[1 + 1] = f[1] + 1
    BY <1>3, <1>4
  <2>2. f[2] = 1
    BY <1>1, <2>1
  <2>3. 1 \in Cuts(t, c) /\ 1 # 0 /\ 1 # Len(t) + 1
    BY <1>2, <1>6, <2>2
  <2> QED
    BY <2>3 DEF Cuts
<1>8. Split(t, c)[m - 1] # <<>>
  <2> SUFFICES ASSUME Split(t, c)[m - 1] = <<>> PROVE FALSE
    OBVIOUS
  <2>1. f[(m - 1) + 1] = f[m - 1] + 1
    BY <1>3, <1>4
  <2>2. f[m - 1] \in Int
    BY <1>6, CutsAreFinite
  <2>3. PICK u \in Int, n \in Nat \ {0} : u = f[m - 1] /\ n = Len(t)
    <3>1. Len(t) \in Nat \ {0}
      BY <1>2
    <3> QED
      BY <2>2, <3>1
  <2>4. n + 1 = u + 1
    BY <1>1, <1>3, <2>1, <2>3
  <2>5. u = n
    BY <2>3, <2>4
  <2>6. Len(t) \in Cuts(t, c) /\ Len(t) # 0 /\ Len(t) # Len(t) + 1
    <3>1. n # 0 /\ n # n + 1
      OBVIOUS
    <3>2. n \in Cuts(t, c)
      BY <1>6, <2>3, <2>5
    <3> QED
      BY <2>3, <3>1, <3>2
  <2> QED
    BY <2>6 DEF Cuts
<1> QED
  BY <1>3, <1>7, <1>8

-----------------------------------------------------------------------------
(* strip() *)

\* The positions that strip() looks at, and the strings it leaves as they are.
Outside(s, B) == {i \in DOMAIN s : s[i] \notin B}
Trimmed(p, B) == p = <<>> \/ (p[1] \notin B /\ p[Len(p)] \notin B)

\* s is p with characters of B around it.
IsPadded(s, p, B) == \E u \in Seq(B), v \in Seq(B) : s = (u \o p) \o v

\* Cutting off what is in B at both ends of z leaves p.
TrimsTo(z, B, p) ==
    LET K == Outside(z, B)
    IN  IF p = <<>> THEN K = {} ELSE K # {} /\ SubSeq(z, Min(K), Max(K)) = p

\* The least and the greatest of a set of numbers.
LEMMA MinMaxAre ==
    ASSUME NEW K, K \subseteq Int, NEW lo \in K, NEW hi \in K,
           \A k \in K : lo <= k /\ k <= hi
    PROVE  Min(K) = lo /\ Max(K) = hi
<1>1. \A x \in K : (\A k \in K : x <= k) => x = lo
  <2> SUFFICES ASSUME NEW x \in K, x <= lo PROVE x = lo
    OBVIOUS
  <2>1. lo <= x /\ x \in Int /\ lo \in Int
    OBVIOUS
  <2> QED
    BY <2>1
<1>2. \A x \in K : (\A k \in K : x >= k) => x = hi
  <2> SUFFICES ASSUME NEW x \in K, x >= hi PROVE x = hi
    OBVIOUS
  <2>1. x <= hi /\ x \in Int /\ hi \in Int
    OBVIOUS
  <2> QED
    BY <2>1
<1>3. \A k \in K : hi >= k
  <2> SUFFICES ASSUME NEW k \in K PROVE hi >= k
    OBVIOUS
  <2>1. k <= hi /\ k \in Int /\ hi \in Int
    OBVIOUS
  <2> QED
    BY <2>1
<1>4. Min(K) = lo
  BY <1>1 DEF Min
<1>5. Max(K) = hi
  BY <1>2, <1>3 DEF Max
<1> QED
  BY <1>4, <1>5

\* Positions have a least and a greatest one.
LEMMA EndsExist ==
    ASSUME NEW n \in Nat, NEW K, K \subseteq 1..n, K # {}
    PROVE  \E lo \in K, hi \in K : \A k \in K : lo <= k /\ k <= hi
<1>1. PICK lo \in K : \A k \in K : ~ (k < lo)
  <2>1. K \subseteq Nat
    OBVIOUS
  <2> QED
    BY <2>1, LeastOf
<1> DEFINE R == {r \in 0..n : n - r \in K}
<1>2. R \subseteq Nat /\ R # {}
  <2>1. PICK k \in K : TRUE
    OBVIOUS
  <2>2. n - k \in 0..n /\ n - (n - k) = k
    BY <2>1
  <2>3. n - k \in R
    BY <2>2
  <2>4. R \subseteq Nat
    OBVIOUS
  <2> HIDE DEF R
  <2> QED
    BY <2>3, <2>4
<1>3. PICK r \in R : \A q \in R : ~ (q < r)
  <2> HIDE DEF R
  <2> QED
    BY <1>2, LeastOf
<1> DEFINE hi == n - r
<1>4. \A k \in K : lo <= k /\ k <= hi
  <2> SUFFICES ASSUME NEW k \in K PROVE lo <= k /\ k <= hi
    OBVIOUS
  <2>1. k \in 1..n /\ lo \in 1..n /\ n - k \in R
    <3>1. k \in 1..n /\ n - k \in 0..n /\ n - (n - k) = k
      OBVIOUS
    <3> QED
      BY <3>1
  <2>2. ~ (n - k < r) /\ ~ (k < lo) /\ r \in 0..n
    BY <1>1, <1>3, <2>1
  <2> QED
    BY <2>1, <2>2
<1> QED
  BY <1>4

\* Cutting off what is in B around a trimmed string leaves the string.
LEMMA TrimmedIs ==
    ASSUME NEW B, NEW D, NEW u \in Seq(B), NEW p \in Seq(D), NEW v \in Seq(B),
           Trimmed(p, B)
    PROVE  TrimsTo((u \o p) \o v, B, p)
<1> DEFINE z == (u \o p) \o v
           K == Outside(z, B)
           A == B \union D
           a == Len(u)
           b == Len(p)
<1>1. u \in Seq(A) /\ p \in Seq(A) /\ v \in Seq(A)
  BY SeqMonotonic
<1>2. a \in Nat /\ b \in Nat /\ Len(v) \in Nat
  BY LenProperties
<1>3. /\ u \o p \in Seq(A) /\ Len(u \o p) = a + b
      /\ \A i \in 1..(a + b) : (u \o p)[i] = IF i <= a THEN u[i] ELSE p[i - a]
  BY <1>1, ConcatProperties
<1>4. /\ z \in Seq(A) /\ Len(z) = a + b + Len(v)
      /\ \A i \in 1..(a + b + Len(v)) :
            z[i] = IF i <= a + b THEN (u \o p)[i] ELSE v[i - (a + b)]
  BY <1>1, <1>3, ConcatProperties
<1>5. DOMAIN z = 1..(a + b + Len(v))
  BY <1>4, LenProperties
<1> HIDE DEF z
<1>6. \A i \in 1..a : z[i] \in B
  <2> SUFFICES ASSUME NEW i \in 1..a PROVE z[i] \in B
    OBVIOUS
  <2>1. i <= a /\ i \in 1..(a + b) /\ i \in 1..(a + b + Len(v)) /\ i <= a + b
    BY <1>2
  <2>2. z[i] = u[i]
    BY <1>3, <1>4, <2>1
  <2> QED
    BY <2>2, ElementOfSeq
<1>7. \A i \in 1..b : z[a + i] = p[i]
  <2> SUFFICES ASSUME NEW i \in 1..b PROVE z[a + i] = p[i]
    OBVIOUS
  <2>1. /\ a + i \in 1..(a + b) /\ a + i \in 1..(a + b + Len(v))
        /\ a + i <= a + b /\ ~ (a + i <= a) /\ (a + i) - a = i
    BY <1>2
  <2> QED
    BY <1>3, <1>4, <2>1
<1>8. \A i \in (a + b + 1)..(a + b + Len(v)) : z[i] \in B
  <2> SUFFICES ASSUME NEW i \in (a + b + 1)..(a + b + Len(v)) PROVE z[i] \in B
    OBVIOUS
  <2>1. /\ i \in 1..(a + b + Len(v)) /\ ~ (i <= a + b) /\ i - (a + b) \in 1..Len(v)
    BY <1>2
  <2>2. z[i] = v[i - (a + b)]
    BY <1>4, <2>1
  <2> QED
    BY <2>1, <2>2, ElementOfSeq
<1>9. CASE p = <<>>
  <2>1. b = 0
    BY <1>9, EmptySeq
  <2>2. \A i \in 1..(a + b + Len(v)) : i \in 1..a \/ i \in (a + b + 1)..(a + b + Len(v))
    BY <1>2, <2>1
  <2>3. K = {}
    BY <1>5, <1>6, <1>8, <2>2 DEF Outside
  <2> QED
    BY <1>9, <2>3 DEF z, TrimsTo
<1>10. CASE p # <<>>
  <2>1. b \in Nat \ {0} /\ 1 \in 1..b /\ b \in 1..b
    <3>1. b \in Nat \ {0}
      BY <1>10, EmptySeq
    <3> QED
      BY <3>1
  <2>2. z[a + 1] \notin B /\ z[a + b] \notin B
    BY <1>7, <1>10, <2>1 DEF Trimmed
  <2>3. a + 1 \in DOMAIN z /\ a + b \in DOMAIN z
    BY <1>2, <1>5, <2>1
  <2>4. a + 1 \in K /\ a + b \in K
    BY <2>2, <2>3 DEF Outside
  <2>5. \A k \in K : a + 1 <= k /\ k <= a + b
    <3> SUFFICES ASSUME NEW k \in K PROVE a + 1 <= k /\ k <= a + b
      OBVIOUS
    <3>1. k \in 1..(a + b + Len(v)) /\ z[k] \notin B
      BY <1>5 DEF Outside
    <3>2. k \notin 1..a /\ k \notin (a + b + 1)..(a + b + Len(v))
      BY <1>6, <1>8, <3>1
    <3> QED
      BY <1>2, <3>1, <3>2
  <2>6. K \subseteq Int
    BY <1>5 DEF Outside
  <2> HIDE DEF K
  <2>7. Min(K) = a + 1 /\ Max(K) = a + b
    BY <2>4, <2>5, <2>6, MinMaxAre
  <2>8. SubSeq(z, a + 1, a + b) = SubSeq(p, 1, b)
    <3>1. a \in Int /\ b \in Int /\ a + 1 \in Int /\ a + b \in Int /\ 1 \in Int
      BY <1>2
    <3>2. \A i \in 1..b : i \in 1..Len(p) /\ z[a + i] = p[i]
      BY <1>7
    <3>3. z \in Seq(A) /\ p \in Seq(A)
      BY <1>1, <1>4
    <3> HIDE DEF a, b, A
    <3>4. PICK lo \in Int, hi \in Int : lo = a + 1 /\ hi = a + b
      BY <3>1
    <3>5. Shifted(z, a, p, 1, b)
      BY <3>2 DEF Shifted
    <3>6. SameSlice(z, lo, hi, p, 1, b)
      BY <3>1, <3>3, <3>4, <3>5, SubSeqMoved
    <3> QED
      BY <3>4, <3>6 DEF SameSlice
  <2>9. SubSeq(p, 1, b) = p
    BY SubSeqFull
  <2> QED
    BY <1>10, <2>4, <2>7, <2>8, <2>9 DEF z, K, TrimsTo
<1> QED
  BY <1>9, <1>10

\* strip() returns the trimmed string between what it may cut off.
LEMMA StripIs ==
    ASSUME NEW B, NEW D, NEW u \in Seq(B), NEW p \in Seq(D), NEW v \in Seq(B),
           Trimmed(p, B)
    PROVE  StripAll((u \o p) \o v, B) = p
<1> DEFINE z == (u \o p) \o v
           K == Outside(z, B)
<1>1. IF p = <<>> THEN K = {} ELSE K # {} /\ SubSeq(z, Min(K), Max(K)) = p
  <2>1. TrimsTo(z, B, p)
    BY TrimmedIs
  <2> HIDE DEF z
  <2> QED
    BY <2>1 DEF TrimsTo
<1>2. StripAll(z, B) = IF K = {} THEN <<>> ELSE SubSeq(z, Min(K), Max(K))
  BY DEF StripAll, Outside
<1> HIDE DEF z, K
<1>3. StripAll(z, B) = p
  BY <1>1, <1>2
<1> QED
  BY <1>3 DEF z

\* What strip() returns, and what it cuts off.
LEMMA StripShape ==
    ASSUME NEW B, NEW C, NEW s \in Seq(C)
    PROVE  /\ StripAll(s, B) \in Seq(C)
           /\ Trimmed(StripAll(s, B), B)
           /\ IsPadded(s, StripAll(s, B), B \intersect C)
<1> DEFINE K == Outside(s, B)
<1>1. Len(s) \in Nat /\ DOMAIN s = 1..Len(s) /\ s \in [1..Len(s) -> C]
  BY LenProperties
<1>2. StripAll(s, B) = IF K = {} THEN <<>> ELSE SubSeq(s, Min(K), Max(K))
  BY DEF StripAll, Outside
<1>3. K \subseteq 1..Len(s) /\ \A i \in 1..Len(s) : i \notin K => s[i] \in B \intersect C
  BY <1>1 DEF Outside
<1>4. \A i \in K : s[i] \notin B
  BY DEF Outside
<1> HIDE DEF K
<1>5. CASE K = {}
  <2>1. s \in Seq(B \intersect C)
    <3>1. \A i \in 1..Len(s) : s[i] \in B \intersect C
      BY <1>3, <1>5
    <3> QED
      BY <1>1, <3>1, SeqDef
  <2>2. (s \o <<>>) \o <<>> = s
    BY ConcatEmptySeq
  <2>3. <<>> \in Seq(B \intersect C) /\ <<>> \in Seq(C)
    BY EmptySeq
  <2> QED
    BY <1>2, <1>5, <2>1, <2>2, <2>3 DEF Trimmed, IsPadded
<1>6. CASE K # {}
  <2>1. PICK lo \in K, hi \in K : \A k \in K : lo <= k /\ k <= hi
    BY <1>1, <1>3, <1>6, EndsExist
  <2>2. lo \in 1..Len(s) /\ hi \in 1..Len(s) /\ lo <= hi
    BY <1>3, <2>1
  <2>3. Min(K) = lo /\ Max(K) = hi
    <3>1. K \subseteq Int
      BY <1>3
    <3> QED
      BY <2>1, <3>1, MinMaxAre
  <2> DEFINE t == SubSeq(s, lo, hi)
             u == SubSeq(s, 1, lo - 1)
             v == SubSeq(s, hi + 1, Len(s))
  <2>4. StripAll(s, B) = t
    BY <1>2, <1>6, <2>3
  <2>5. /\ t \in Seq(C) /\ Len(t) = hi - lo + 1
        /\ t[1] = s[lo] /\ t[Len(t)] = s[hi]
    <3>1. \A i \in lo..hi : s[i] \in C
      BY <1>1, <2>2
    <3>2. lo \in Int /\ hi \in Int
      BY <2>2
    <3>3. /\ t \in Seq(C) /\ Len(t) = IF lo <= hi THEN hi - lo + 1 ELSE 0
          /\ \A i \in 1..(hi - lo + 1) : t[i] = s[lo + i - 1]
      BY <3>1, <3>2, SubSeqProperties
    <3>4. /\ 1 \in 1..(hi - lo + 1) /\ hi - lo + 1 \in 1..(hi - lo + 1)
          /\ lo + 1 - 1 = lo /\ lo + (hi - lo + 1) - 1 = hi
      BY <2>2
    <3> QED
      BY <2>2, <3>3, <3>4
  <2>6. Trimmed(t, B)
    BY <1>4, <2>5 DEF Trimmed
  <2>7. u \in Seq(B \intersect C)
    <3>1. \A i \in 1..(lo - 1) : s[i] \in B \intersect C
      <4> SUFFICES ASSUME NEW i \in 1..(lo - 1) PROVE i \in 1..Len(s) /\ i \notin K
        BY <1>3
      <4>1. i \in 1..Len(s) /\ ~ (lo <= i)
        BY <1>1, <2>2
      <4> QED
        BY <2>1, <4>1
    <3>2. 1 \in Int /\ lo - 1 \in Int
      BY <2>2
    <3> QED
      BY <3>1, <3>2, SubSeqProperties
  <2>8. v \in Seq(B \intersect C)
    <3>1. \A i \in (hi + 1)..Len(s) : s[i] \in B \intersect C
      <4> SUFFICES ASSUME NEW i \in (hi + 1)..Len(s) PROVE i \in 1..Len(s) /\ i \notin K
        BY <1>3
      <4>1. i \in 1..Len(s) /\ ~ (i <= hi)
        BY <1>1, <2>2
      <4> QED
        BY <2>1, <4>1
    <3>2. hi + 1 \in Int /\ Len(s) \in Int
      BY <1>1, <2>2
    <3> QED
      BY <3>1, <3>2, SubSeqProperties
  <2>9. s = (u \o t) \o v
    <3>1. /\ 1 \in 1..(Len(s) + 1) /\ lo - 1 \in (1 - 1)..Len(s) /\ hi \in (lo - 1)..Len(s)
          /\ hi \in (1 - 1)..Len(s) /\ Len(s) \in hi..Len(s) /\ (lo - 1) + 1 = lo
      BY <1>1, <2>2
    <3>2. SubSeq(s, 1, lo - 1) \o SubSeq(s, (lo - 1) + 1, hi) = SubSeq(s, 1, hi)
      BY <3>1, ConcatAdjacentSubSeq
    <3>3. SubSeq(s, 1, hi) \o SubSeq(s, hi + 1, Len(s)) = SubSeq(s, 1, Len(s))
      BY <3>1, ConcatAdjacentSubSeq
    <3> QED
      BY <3>1, <3>2, <3>3, SubSeqFull
  <2> HIDE DEF t, u, v
  <2> QED
    BY <2>4, <2>5, <2>6, <2>7, <2>8, <2>9 DEF IsPadded
<1> QED
  BY <1>5, <1>6

-----------------------------------------------------------------------------
(* Object names: the segment-level reading and the string operations.      *)

\* The prefix of StorageKeys is the stripped setting, split on "/".
LEMMA RootIs ==
    ASSUME NEW s \in Seq(Char)
    PROVE  Keys(s)!Root = SplitSlash(StripSlash(s))
<1> DEFINE t == StripSlash(s)
           segments == SplitSlash(s)
           B == {"/"}
           K == Outside(segments, {<<>>})
<1>1. t \in Seq(Char) /\ Trimmed(t, B)
  BY StripShape DEF StripSlash
<1>2. PICK x \in Seq(B), y \in Seq(B) : s = (x \o t) \o y
  <2>1. t = StripAll(s, B)
    BY DEF StripSlash
  <2> HIDE DEF B
  <2>2. IsPadded(s, StripAll(s, B), B \intersect Char)
    BY StripShape
  <2>3. PICK x \in Seq(B \intersect Char), y \in Seq(B \intersect Char) :
           s = (x \o StripAll(s, B)) \o y
    BY <2>2 DEF IsPadded
  <2>4. x \in Seq(B) /\ y \in Seq(B)
    BY SeqMonotonic
  <2> QED
    BY <2>1, <2>3, <2>4
<1> HIDE DEF t
<1>3. PICK u \in Seq({<<>>}), v \in Seq({<<>>}) :
         segments = (u \o SplitSlash(t)) \o v
  BY <1>1, <1>2, SlashAssumption, SplitPadded DEF SplitSlash
<1>4. Keys(s)!Root = IF K = {} THEN <<<<>>>> ELSE SubSeq(segments, Min(K), Max(K))
  BY DEF Keys!Root, Keys!Kept, Keys!Min, Keys!Max, Min, Max, Outside
<1>5. SplitSlash(t) \in Seq(Seq(Char \ {"/"})) /\ Len(SplitSlash(t)) \in Nat \ {0}
  BY <1>1, SplitType DEF SplitSlash
<1>6. CASE t = <<>>
  <2>1. SplitSlash(t) = <<<<>>>>
    <3>1. <<>> \in Seq(Char \ {"/"})
      BY EmptySeq
    <3> QED
      BY <1>6, <3>1, SplitWhole DEF SplitSlash
  <2>2. <<>> \in {<<>>} /\ <<<<>>>> \in Seq({<<>>})
    OBVIOUS
  <2>3. u \o <<<<>>>> \in Seq({<<>>})
    BY <2>2, ConcatProperties
  <2>4. segments \in Seq({<<>>})
    BY <1>3, <2>1, <2>3, ConcatProperties
  <2>5. K = {}
    <3> SUFFICES ASSUME NEW i \in DOMAIN segments PROVE segments[i] \in {<<>>}
      BY DEF Outside
    <3> HIDE DEF segments
    <3>1. i \in 1..Len(segments)
      BY <2>4, LenProperties
    <3> QED
      BY <2>4, <3>1, ElementOfSeq
  <2> HIDE DEF K
  <2> QED
    BY <1>4, <2>1, <2>5 DEF t
<1>7. CASE t # <<>>
  <2>1. t[1] # "/" /\ t[Len(t)] # "/"
    BY <1>1, <1>7 DEF Trimmed
  <2>2. SplitSlash(t)[1] # <<>> /\ SplitSlash(t)[Len(SplitSlash(t))] # <<>>
    BY <1>1, <1>7, <2>1, SplitEnds DEF SplitSlash
  <2>3. Trimmed(SplitSlash(t), {<<>>}) /\ SplitSlash(t) # <<>>
    BY <1>5, <2>2, EmptySeq DEF Trimmed
  <2> DEFINE p == SplitSlash(t)
  <2> HIDE DEF p
  <2>4. p \in Seq(Seq(Char \ {"/"})) /\ Trimmed(p, {<<>>}) /\ p # <<>>
    BY <1>5, <2>3 DEF p
  <2>5. segments = (u \o p) \o v
    BY <1>3 DEF p
  <2>6. K # {} /\ SubSeq(segments, Min(K), Max(K)) = p
    <3>1. TrimsTo((u \o p) \o v, {<<>>}, p)
      <4> DEFINE D == {<<>>}
      <4>1. u \in Seq(D) /\ v \in Seq(D) /\ Trimmed(p, D)
        BY <2>4
      <4> HIDE DEF D
      <4>2. TrimsTo((u \o p) \o v, D, p)
        BY <2>4, <4>1, TrimmedIs
      <4> QED
        BY <4>2 DEF D
    <3> HIDE DEF segments
    <3> QED
      BY <2>4, <2>5, <3>1 DEF TrimsTo
  <2> HIDE DEF K, segments
  <2> QED
    BY <1>4, <2>6 DEF p, t
<1> QED
  BY <1>6, <1>7

\* Segments other than the empty one.
Part == Seq(Char \ {"/"}) \ {<<>>}

\* What removeprefix() leaves.
LEMMA RemovePrefixIs ==
    ASSUME NEW C, NEW p \in Seq(C), NEW s \in Seq(C)
    PROVE  /\ IsPrefix(p, s) => /\ RemovePrefix(s, p) \in Seq(C)
                                /\ s = p \o RemovePrefix(s, p)
           /\ IsPrefix(p, p \o s) /\ RemovePrefix(p \o s, p) = s
<1> DEFINE a == Len(p)
           b == Len(s)
           z == p \o s
<1>1. a \in Nat /\ b \in Nat
  BY LenProperties
<1>2. /\ z \in Seq(C) /\ Len(z) = a + b
      /\ \A i \in 1..(a + b) : z[i] = IF i <= a THEN p[i] ELSE s[i - a]
  BY ConcatProperties
<1>3. SubSeq(p, 1, a) = p /\ SubSeq(s, 1, b) = s
  BY SubSeqFull
<1>4. ASSUME IsPrefix(p, s)
      PROVE  RemovePrefix(s, p) \in Seq(C) /\ s = p \o RemovePrefix(s, p)
  <2>1. a <= b /\ SubSeq(s, 1, a) = p
    BY <1>3, <1>4 DEF IsPrefix
  <2>2. RemovePrefix(s, p) = SubSeq(s, a + 1, b)
    BY <1>4 DEF RemovePrefix
  <2>3. 1 \in 1..(b + 1) /\ a \in (1 - 1)..b /\ b \in a..b
    BY <1>1, <2>1
  <2>4. SubSeq(s, 1, a) \o SubSeq(s, a + 1, b) = SubSeq(s, 1, b)
    BY <2>3, ConcatAdjacentSubSeq
  <2>5. SubSeq(s, a + 1, b) \in Seq(C)
    <3>1. \A i \in (a + 1)..b : i \in 1..b
      BY <1>1
    <3>2. \A i \in (a + 1)..b : s[i] \in C
      BY <3>1, ElementOfSeq
    <3>3. a + 1 \in Int /\ b \in Int
      BY <1>1
    <3> QED
      BY <3>2, <3>3, SubSeqProperties
  <2> QED
    BY <1>3, <2>1, <2>2, <2>4, <2>5
<1> HIDE DEF z
<1>5. SubSeq(z, 1, a) = SubSeq(p, 1, a)
  <2>1. \A i \in 1..a : i \in 1..Len(p) /\ z[0 + i] = p[i]
    <3> SUFFICES ASSUME NEW i \in 1..a PROVE z[0 + i] = p[i]
      OBVIOUS
    <3>1. i \in 1..(a + b) /\ i <= a /\ 0 + i = i
      BY <1>1
    <3> QED
      BY <1>2, <3>1
  <2>2. 0 \in Int /\ 1 \in Int /\ a \in Int /\ 1 = 0 + 1 /\ a = 0 + a
    BY <1>1
  <2> HIDE DEF a
  <2>3. Shifted(z, 0, p, 1, a)
    BY <2>1 DEF Shifted
  <2>4. SameSlice(z, 1, a, p, 1, a)
    BY <1>2, <2>2, <2>3, SubSeqMoved
  <2> QED
    BY <2>4 DEF SameSlice
<1>6. SubSeq(z, a + 1, a + b) = SubSeq(s, 1, b)
  <2>1. \A i \in 1..b : i \in 1..Len(s) /\ z[a + i] = s[i]
    <3> SUFFICES ASSUME NEW i \in 1..b PROVE z[a + i] = s[i]
      OBVIOUS
    <3>1. a + i \in 1..(a + b) /\ ~ (a + i <= a) /\ (a + i) - a = i
      BY <1>1
    <3> QED
      BY <1>2, <3>1
  <2>2. a \in Int /\ b \in Int /\ 1 \in Int /\ a + 1 \in Int /\ a + b \in Int
    BY <1>1
  <2> HIDE DEF a, b
  <2>3. Shifted(z, a, s, 1, b)
    BY <2>1 DEF Shifted
  <2>4. SameSlice(z, a + 1, a + b, s, 1, b)
    BY <1>2, <2>2, <2>3, SubSeqMoved
  <2> QED
    BY <2>4 DEF SameSlice
<1>7. IsPrefix(p, z)
  <2>1. a <= Len(z)
    BY <1>1, <1>2
  <2> QED
    BY <1>5, <2>1 DEF IsPrefix
<1>8. RemovePrefix(z, p) = s
  <2>1. RemovePrefix(z, p) = SubSeq(z, a + 1, a + b)
    BY <1>2, <1>7 DEF RemovePrefix
  <2> QED
    BY <1>3, <1>6, <2>1
<1> QED
  BY <1>4, <1>7, <1>8 DEF z

\* What comes before and after the slash that follows the prefix.
ObjectPrefix(s) == StripSlash(s) \o <<"/">>
OwnerAndFile(a, b) == (a \o <<"/">>) \o b

\* z is p followed by q.
IsJoin(z, p, q) == z = p \o q

\* Two sequences of one element make a pair.
LEMMA PairIs ==
    ASSUME NEW a, NEW b
    PROVE  <<a>> \o <<b>> = <<a, b>>
<1> DEFINE S == {a, b}
           z == <<a>> \o <<b>>
<1>1. <<a>> \in Seq(S) /\ <<b>> \in Seq(S) /\ <<a, b>> \in Seq(S)
  OBVIOUS
<1> HIDE DEF S
<1>2. z \in Seq(S) /\ Len(z) = 2 /\ z[1] = a /\ z[2] = b
  <2>1. Len(<<a>>) = 1 /\ Len(<<b>>) = 1 /\ <<a>>[1] = a /\ <<b>>[1] = b
    OBVIOUS
  <2>2. /\ z \in Seq(S) /\ Len(z) = Len(<<a>>) + Len(<<b>>)
        /\ \A i \in 1 .. Len(<<a>>) + Len(<<b>>) :
              z[i] = IF i <= Len(<<a>>) THEN <<a>>[i] ELSE <<b>>[i - Len(<<a>>)]
    BY <1>1, ConcatProperties, Zenon
  <2> QED
    BY <2>1, <2>2
<1> HIDE DEF z
<1>3. z = <<a, b>>
  BY <1>1, <1>2
<1> QED
  BY <1>3 DEF z

\* A join of four can be read as the first one joined to the rest.
LEMMA Regrouped ==
    ASSUME NEW C, NEW p \in Seq(C), NEW q \in Seq(C), NEW r \in Seq(C), NEW t \in Seq(C)
    PROVE  IsJoin(((p \o q) \o r) \o t, p, (q \o r) \o t)
<1>1. (p \o q) \o r = p \o (q \o r)
  <2>1. JoinsAlike(p, q, r)
    BY JoinsAssociate
  <2> QED
    BY <2>1 DEF JoinsAlike
<1>2. q \o r \in Seq(C)
  BY ConcatProperties
<1>3. (p \o (q \o r)) \o t = p \o ((q \o r) \o t)
  <2> DEFINE w == q \o r
  <2>1. w \in Seq(C)
    BY <1>2
  <2> HIDE DEF w
  <2>2. (p \o w) \o t = p \o (w \o t)
    <3>1. JoinsAlike(p, w, t)
      BY <2>1, JoinsAssociate
    <3> QED
      BY <3>1 DEF JoinsAlike
  <2> QED
    BY <2>2 DEF w
<1> QED
  BY <1>1, <1>3 DEF IsJoin

\* The segments of the name prefix/a/b are the prefix's followed by a and b.
LEMMA SegmentsOfName ==
    ASSUME NEW s \in Seq(Char), NEW a \in Seq(Char \ {"/"}), NEW b \in Seq(Char \ {"/"})
    PROVE  /\ BuildKey(s, a, b) \in Seq(Char)
           /\ ObjectPrefix(s) \in Seq(Char) /\ OwnerAndFile(a, b) \in Seq(Char)
           /\ IsJoin(BuildKey(s, a, b), ObjectPrefix(s), OwnerAndFile(a, b))
           /\ SplitSlash(OwnerAndFile(a, b)) = <<a, b>>
           /\ IsJoin(SplitSlash(BuildKey(s, a, b)), SplitSlash(StripSlash(s)), <<a, b>>)
<1> DEFINE P == StripSlash(s)
           slash == <<"/">>
           Q == P \o slash
           R == OwnerAndFile(a, b)
           k == BuildKey(s, a, b)
<1>1. /\ P \in Seq(Char) /\ slash \in Seq(Char) /\ a \in Seq(Char) /\ b \in Seq(Char)
      /\ "/" \in Char
  <2>1. P \in Seq(Char)
    BY StripShape DEF StripSlash
  <2>2. a \in Seq(Char) /\ b \in Seq(Char)
    BY SeqMonotonic
  <2> QED
    BY <2>1, <2>2, SlashAssumption
<1>2. /\ k = (((Q \o a) \o slash) \o b)
      /\ R = ((a \o slash) \o b)
      /\ Q = ObjectPrefix(s)
  BY DEF BuildKey, OwnerAndFile, ObjectPrefix
<1>3. Q \in Seq(Char)
  BY <1>1, ConcatProperties
<1>4. k = Q \o R
  <2> HIDE DEF Q, slash, R, k
  <2>1. IsJoin(((Q \o a) \o slash) \o b, Q, (a \o slash) \o b)
    BY <1>1, <1>3, Regrouped
  <2> QED
    BY <1>2, <2>1 DEF IsJoin
<1>5. R \in Seq(Char) /\ k \in Seq(Char)
  <2>1. a \o slash \in Seq(Char)
    BY <1>1, ConcatProperties
  <2> HIDE DEF slash, Q, k, R
  <2>2. (a \o slash) \o b \in Seq(Char)
    BY <1>1, <2>1, ConcatProperties
  <2>3. R \in Seq(Char)
    BY <1>2, <2>2
  <2> QED
    BY <1>3, <1>4, <2>3, ConcatProperties
<1>6. SplitSlash(a) = <<a>> /\ SplitSlash(b) = <<b>>
  BY SplitWhole DEF SplitSlash
<1>7. SplitSlash(R) = SplitSlash(a) \o SplitSlash(b)
  BY <1>1, <1>2, SplitConcat DEF SplitSlash
<1>8. SplitSlash(k) = SplitSlash(P) \o SplitSlash(R)
  <2> HIDE DEF R, k, P
  <2> QED
    BY <1>1, <1>4, <1>5, SplitConcat DEF SplitSlash
<1> HIDE DEF P, R, k, Q, slash
<1>9. <<a>> \o <<b>> = <<a, b>>
  BY PairIs
<1>10. SplitSlash(R) = <<a, b>>
  BY <1>6, <1>7, <1>9
<1> QED
  BY <1>2, <1>3, <1>4, <1>5, <1>8, <1>10 DEF P, R, k, IsJoin

\* handle_upload_finalized recognises exactly the names that
\* create_pending_upload builds from a non-empty prefix and non-empty owner and
\* file ids without "/", and reads these from them (files/service.py:85-90,
\* 131-144).
THEOREM RecognisedAreBuilt ==
    ASSUME NEW s \in Seq(Char), NEW n \in Seq(Char)
    PROVE  /\ EventParts(s, n) # <<>> =>
                \E a, b \in Part : n = BuildKey(s, a, b) /\ EventParts(s, n) = <<a, b>>
           /\ \A a, b \in Part :
                EventParts(s, BuildKey(s, a, b)) =
                  IF StripSlash(s) = <<>> THEN <<>> ELSE <<a, b>>
<1> DEFINE P == StripSlash(s)
           op == ObjectPrefix(s)
<1>1. op \in Seq(Char)
  <2>1. <<>> \in Seq(Char \ {"/"})
    BY EmptySeq
  <2> QED
    BY <2>1, SegmentsOfName
<1>2. ASSUME NEW x
      PROVE  LET parts == SplitSlash(RemovePrefix(x, op))
             IN  EventParts(s, x) =
                   IF \/ P = <<>> \/ ~ IsPrefix(op, x) \/ Len(parts) # 2
                      \/ parts[1] = <<>> \/ parts[2] = <<>>
                   THEN <<>> ELSE parts
  BY DEF EventParts, ObjectPrefix
<1> HIDE DEF P, op
<1>3. ASSUME EventParts(s, n) # <<>>
      PROVE  \E a, b \in Part : n = BuildKey(s, a, b) /\ EventParts(s, n) = <<a, b>>
  <2> DEFINE rest == RemovePrefix(n, op)
             parts == SplitSlash(rest)
  <2>1. /\ IsPrefix(op, n) /\ Len(parts) = 2 /\ parts[1] # <<>> /\ parts[2] # <<>>
        /\ EventParts(s, n) = parts
    BY <1>2, <1>3
  <2>2. rest \in Seq(Char) /\ n = op \o rest
    BY <1>1, <2>1, RemovePrefixIs
  <2> HIDE DEF rest
  <2>3. parts \in Seq(Seq(Char \ {"/"}))
    BY <2>2, SplitType DEF SplitSlash
  <2> HIDE DEF parts
  <2>4. parts[1] \in Seq(Char \ {"/"}) /\ parts[2] \in Seq(Char \ {"/"})
    <3> DEFINE D == Seq(Char \ {"/"})
    <3>1. parts \in Seq(D) /\ 1 \in 1..Len(parts) /\ 2 \in 1..Len(parts)
      BY <2>1, <2>3
    <3> HIDE DEF D
    <3>2. parts[1] \in D /\ parts[2] \in D
      BY <3>1, ElementOfSeq
    <3> QED
      BY <3>2 DEF D
  <2>5. PICK a \in Part, b \in Part : a = parts[1] /\ b = parts[2]
    BY <2>1, <2>4 DEF Part
  <2>6. parts = <<a, b>>
    BY <2>1, <2>3, <2>5
  <2>7. a \in Seq(Char \ {"/"}) /\ b \in Seq(Char \ {"/"})
    BY DEF Part
  <2>8. rest = OwnerAndFile(a, b)
    <3>1. OwnerAndFile(a, b) \in Seq(Char) /\ SplitSlash(OwnerAndFile(a, b)) = <<a, b>>
      BY <2>7, SegmentsOfName
    <3> QED
      BY <2>2, <2>6, <3>1, SplitInjective DEF SplitSlash, parts
  <2>9. n = BuildKey(s, a, b)
    <3>1. IsJoin(BuildKey(s, a, b), ObjectPrefix(s), OwnerAndFile(a, b))
      BY <2>7, SegmentsOfName
    <3> QED
      BY <2>2, <2>8, <3>1 DEF op, IsJoin
  <2> QED
    BY <2>1, <2>6, <2>9
<1>4. ASSUME NEW a \in Part, NEW b \in Part
      PROVE  EventParts(s, BuildKey(s, a, b)) = IF P = <<>> THEN <<>> ELSE <<a, b>>
  <2> DEFINE k == BuildKey(s, a, b)
             rest == OwnerAndFile(a, b)
  <2>1. a \in Seq(Char \ {"/"}) /\ b \in Seq(Char \ {"/"}) /\ a # <<>> /\ b # <<>>
    BY DEF Part
  <2>2. k = op \o rest /\ SplitSlash(rest) = <<a, b>> /\ rest \in Seq(Char)
    <3>1. IsJoin(BuildKey(s, a, b), ObjectPrefix(s), OwnerAndFile(a, b))
      BY <2>1, SegmentsOfName
    <3>2. SplitSlash(rest) = <<a, b>> /\ rest \in Seq(Char)
      BY <2>1, SegmentsOfName
    <3> QED
      BY <3>1, <3>2 DEF op, IsJoin
  <2> HIDE DEF k, rest
  <2>3. IsPrefix(op, k) /\ RemovePrefix(k, op) = rest
    BY <1>1, <2>2, RemovePrefixIs
  <2>4. SplitSlash(RemovePrefix(k, op)) = <<a, b>>
    BY <2>2, <2>3
  <2>5. Len(<<a, b>>) = 2 /\ <<a, b>>[1] # <<>> /\ <<a, b>>[2] # <<>>
    BY <2>1
  <2> QED
    BY <1>2, <2>3, <2>4, <2>5 DEF k
<1> QED
  BY <1>3, <1>4 DEF P

\* The prefix of StorageKeys is empty exactly when the setting strips to the
\* empty string.
LEMMA RootOf ==
    ASSUME NEW s \in Seq(Char)
    PROVE  /\ Keys(s)!Root \in Seq(Seq(Char \ {"/"}))
           /\ Keys(s)!Root = <<<<>>>> <=> StripSlash(s) = <<>>
<1> DEFINE P == StripSlash(s)
           R == SplitSlash(P)
<1>1. P \in Seq(Char) /\ Trimmed(P, {"/"})
  BY StripShape DEF StripSlash
<1> HIDE DEF P
<1>2. Keys(s)!Root = R
  BY RootIs DEF P
<1>3. R \in Seq(Seq(Char \ {"/"}))
  BY <1>1, SplitType DEF SplitSlash
<1>4. ASSUME P = <<>> PROVE R = <<<<>>>>
  <2>1. <<>> \in Seq(Char \ {"/"})
    BY EmptySeq
  <2> QED
    BY <1>4, <2>1, SplitWhole DEF SplitSlash
<1>5. ASSUME P # <<>> PROVE R # <<<<>>>>
  <2>1. P[1] # "/" /\ P[Len(P)] # "/"
    BY <1>1, <1>5 DEF Trimmed
  <2>2. R[1] # <<>>
    BY <1>1, <1>5, <2>1, SplitEnds DEF SplitSlash
  <2> HIDE DEF R
  <2> QED
    BY <2>2
<1> QED
  BY <1>2, <1>3, <1>4, <1>5 DEF P

\* z is r and then a and b, element by element.
EndsWith(z, r, a, b) ==
    /\ Len(z) = Len(r) + 2 /\ SubSeq(z, 1, Len(r)) = r
    /\ z[Len(r) + 1] = a /\ z[Len(r) + 2] = b

\* A sequence that begins with r and ends with two more elements.
LEMMA TwoMore ==
    ASSUME NEW D, NEW r \in Seq(D), NEW z \in Seq(D)
    PROVE  \A a, b \in D : IsJoin(z, r, <<a, b>>) <=> EndsWith(z, r, a, b)
<1> DEFINE n == Len(r)
<1>1. n \in Nat /\ Len(z) \in Nat
  BY LenProperties
<1>2. ASSUME Len(z) = n + 2, SubSeq(z, 1, n) = r
      PROVE  IsJoin(z, r, <<z[n + 1], z[n + 2]>>)
  <2> DEFINE t == RemovePrefix(z, r)
  <2>1. n <= Len(z)
    BY <1>1, <1>2
  <2>2. IsPrefix(r, z)
    <3>1. SubSeq(r, 1, n) = r
      BY SubSeqFull
    <3> QED
      BY <1>2, <2>1, <3>1 DEF IsPrefix
  <2>3. t \in Seq(D) /\ IsJoin(z, r, t)
    BY <2>2, RemovePrefixIs DEF IsJoin
  <2> HIDE DEF t
  <2>4. /\ Len(z) = n + Len(t) /\ Len(t) \in Nat
        /\ \A i \in 1..(n + Len(t)) : z[i] = IF i <= n THEN r[i] ELSE t[i - n]
    BY <2>3, ConcatProperties, LenProperties DEF IsJoin
  <2>5. Len(t) = 2
    <3>1. PICK l \in Nat : l = Len(t)
      BY <2>4
    <3>2. n + l = n + 2
      BY <1>2, <2>4, <3>1
    <3> QED
      BY <1>1, <3>1, <3>2
  <2>6. n + 1 \in 1..(n + 2) /\ n + 2 \in 1..(n + 2) /\ ~ (n + 1 <= n) /\ ~ (n + 2 <= n)
        /\ (n + 1) - n = 1 /\ (n + 2) - n = 2
    BY <1>1
  <2>7. z[n + 1] = t[1] /\ z[n + 2] = t[2]
    BY <2>4, <2>5, <2>6
  <2>8. t = <<t[1], t[2]>>
    BY <2>3, <2>5
  <2> QED
    BY <2>3, <2>7, <2>8
<1>3. ASSUME NEW a \in D, NEW b \in D, IsJoin(z, r, <<a, b>>)
      PROVE  /\ Len(z) = n + 2 /\ SubSeq(z, 1, n) = r
             /\ z[n + 1] = a /\ z[n + 2] = b
  <2> DEFINE t == <<a, b>>
  <2>1. t \in Seq(D) /\ Len(t) = 2 /\ t[1] = a /\ t[2] = b
    OBVIOUS
  <2> HIDE DEF t
  <2>2. z = r \o t
    BY <1>3 DEF IsJoin, t
  <2>3. /\ Len(z) = n + 2
        /\ \A i \in 1..(n + 2) : z[i] = IF i <= n THEN r[i] ELSE t[i - n]
    <3>1. /\ Len(r \o t) = n + Len(t)
          /\ \A i \in 1..(n + Len(t)) : (r \o t)[i] = IF i <= n THEN r[i] ELSE t[i - n]
      BY <2>1, ConcatProperties
    <3> QED
      BY <2>1, <2>2, <3>1
  <2>4. n + 1 \in 1..(n + 2) /\ n + 2 \in 1..(n + 2) /\ ~ (n + 1 <= n) /\ ~ (n + 2 <= n)
        /\ (n + 1) - n = 1 /\ (n + 2) - n = 2
    BY <1>1
  <2>5. z[n + 1] = a /\ z[n + 2] = b
    BY <2>1, <2>3, <2>4
  <2>6. IsPrefix(r, z)
    BY <2>1, <2>2, RemovePrefixIs
  <2>7. SubSeq(z, 1, n) = r
    <3>1. SubSeq(r, 1, n) = r
      BY SubSeqFull
    <3> QED
      BY <2>6, <3>1 DEF IsPrefix
  <2> QED
    BY <2>3, <2>5, <2>7
<1> QED
  BY <1>2, <1>3 DEF EndsWith

\* Two uploads never share an object name: whatever the setting, even one that
\* strips to the empty string, create_pending_upload builds different keys for
\* different owners or file ids (files/service.py:85-90).
THEOREM KeysDiffer ==
    ASSUME NEW s \in Seq(Char),
           NEW a \in Seq(Char \ {"/"}), NEW b \in Seq(Char \ {"/"}),
           NEW c \in Seq(Char \ {"/"}), NEW d \in Seq(Char \ {"/"}),
           BuildKey(s, a, b) = BuildKey(s, c, d)
    PROVE  a = c /\ b = d
<1> DEFINE D == Seq(Char \ {"/"})
           z == SplitSlash(BuildKey(s, a, b))
           r == SplitSlash(StripSlash(s))
<1>1. /\ IsJoin(z, r, <<a, b>>) /\ IsJoin(SplitSlash(BuildKey(s, c, d)), r, <<c, d>>)
      /\ BuildKey(s, a, b) \in Seq(Char)
  BY SegmentsOfName
<1>2. IsJoin(z, r, <<c, d>>)
  BY <1>1
<1>3. r \in Seq(D)
  <2>1. StripSlash(s) \in Seq(Char)
    BY StripShape DEF StripSlash
  <2> QED
    BY <2>1, SplitType DEF SplitSlash
<1>4. z \in Seq(D)
  BY <1>1, SplitType DEF SplitSlash
<1>5. a \in D /\ b \in D /\ c \in D /\ d \in D
  OBVIOUS
<1> HIDE DEF D, z, r
<1>6. EndsWith(z, r, a, b) /\ EndsWith(z, r, c, d)
  BY <1>1, <1>2, <1>3, <1>4, <1>5, TwoMore
<1> QED
  BY <1>6 DEF EndsWith

\* The segment-level recogniser agrees with the string operations on every
\* setting and every object name (files/service.py:131-144).
THEOREM SegmentsAgree ==
    ASSUME NEW s \in Seq(Char), NEW n \in Seq(Char)
    PROVE  LET parts == EventParts(s, n)
               segments == SplitSlash(n)
           IN  /\ Keys(s)!IsQuarantineKey(segments) <=> parts # <<>>
               /\ parts # <<>> => Keys(s)!FileIdOf(segments) = parts[2]
<1> DEFINE parts == EventParts(s, n)
           z == SplitSlash(n)
           D == Seq(Char \ {"/"})
           R == Keys(s)!Root
<1>1. R \in Seq(D) /\ z \in Seq(D) /\ (R = <<<<>>>> <=> StripSlash(s) = <<>>)
  BY RootOf, SplitType DEF SplitSlash
<1>2. R = SplitSlash(StripSlash(s))
  BY RootIs
<1>3. /\ Keys(s)!IsQuarantineKey(z) <=>
           /\ R # <<<<>>>> /\ Len(z) = Len(R) + 2 /\ SubSeq(z, 1, Len(R)) = R
           /\ z[Len(R) + 1] # <<>> /\ z[Len(R) + 2] # <<>>
      /\ Keys(s)!FileIdOf(z) = z[Len(z)]
  BY DEF Keys!IsQuarantineKey, Keys!FileIdOf
<1>4. ASSUME NEW a \in D, NEW b \in D
      PROVE  IsJoin(z, R, <<a, b>>) <=> n = BuildKey(s, a, b)
  <2>1. a \in Seq(Char \ {"/"}) /\ b \in Seq(Char \ {"/"})
    OBVIOUS
  <2> HIDE DEF D
  <2>2. IsJoin(SplitSlash(BuildKey(s, a, b)), SplitSlash(StripSlash(s)), <<a, b>>)
    BY <2>1, SegmentsOfName
  <2>3. ASSUME SplitSlash(n) = SplitSlash(BuildKey(s, a, b)) PROVE n = BuildKey(s, a, b)
    <3>1. BuildKey(s, a, b) \in Seq(Char)
      BY <2>1, SegmentsOfName
    <3> QED
      BY <2>3, <3>1, SplitInjective DEF SplitSlash
  <2> QED
    BY <1>2, <2>2, <2>3 DEF IsJoin
<1>5. ASSUME NEW x \in Part PROVE x \in D /\ x # <<>>
  BY DEF Part
<1>6. ASSUME NEW x \in D, x # <<>> PROVE x \in Part
  BY <1>6 DEF Part
<1> HIDE DEF parts, z, D, R
<1>7. ASSUME parts # <<>>
      PROVE  /\ Keys(s)!IsQuarantineKey(z)
             /\ Keys(s)!FileIdOf(z) = parts[2]
  <2>1. PICK a \in Part, b \in Part : n = BuildKey(s, a, b) /\ parts = <<a, b>>
    BY <1>7, RecognisedAreBuilt DEF parts
  <2>2. StripSlash(s) # <<>>
    BY <1>7 DEF parts, EventParts
  <2>3. a \in D /\ b \in D /\ a # <<>> /\ b # <<>>
    BY <1>5
  <2>4. IsJoin(z, R, <<a, b>>)
    BY <1>4, <2>1, <2>3
  <2>5. /\ Len(z) = Len(R) + 2 /\ SubSeq(z, 1, Len(R)) = R
        /\ z[Len(R) + 1] = a /\ z[Len(R) + 2] = b /\ z[Len(z)] = b
    <3>1. EndsWith(z, R, a, b)
      BY <1>1, <2>3, <2>4, TwoMore
    <3>2. PICK k \in Nat : k = Len(R)
      BY <1>1, LenProperties
    <3> QED
      BY <3>1 DEF EndsWith
  <2> QED
    BY <1>1, <1>3, <2>1, <2>2, <2>3, <2>5
<1>8. ASSUME Keys(s)!IsQuarantineKey(z)
      PROVE  parts # <<>>
  <2> DEFINE a == z[Len(R) + 1]
             b == z[Len(R) + 2]
  <2>1. /\ R # <<<<>>>> /\ Len(z) = Len(R) + 2 /\ SubSeq(z, 1, Len(R)) = R
        /\ a # <<>> /\ b # <<>>
    BY <1>3, <1>8
  <2>3. a \in D /\ b \in D
    <3>1. PICK k \in Nat : k = Len(R)
      BY <1>1, LenProperties
    <3>2. k + 1 \in 1..Len(z) /\ k + 2 \in 1..Len(z)
      BY <2>1, <3>1
    <3>3. z[k + 1] \in D /\ z[k + 2] \in D
      BY <1>1, <3>2, ElementOfSeq
    <3> QED
      BY <3>1, <3>3
  <2>2. IsJoin(z, R, <<a, b>>)
    <3>1. EndsWith(z, R, a, b)
      BY <2>1 DEF EndsWith
    <3> QED
      BY <1>1, <2>3, <3>1, TwoMore
  <2>4. a \in Part /\ b \in Part
    BY <1>6, <2>1, <2>3
  <2>5. n = BuildKey(s, a, b)
    BY <1>4, <2>2, <2>3
  <2> HIDE DEF a, b
  <2>6. EventParts(s, BuildKey(s, a, b)) = <<a, b>>
    BY <1>1, <2>1, <2>4, RecognisedAreBuilt
  <2> QED
    BY <2>5, <2>6 DEF parts
<1> QED
  BY <1>7, <1>8 DEF parts, z

-----------------------------------------------------------------------------
(* Normal forms: blanks around a text and the case of its letters.         *)

\* Two characters that lower() does not tell apart, and two texts of them.
LowerChar(c) == IF c \in DOMAIN LowerOf THEN LowerOf[c] ELSE c
Same(c, d) == LowerChar(c) = LowerChar(d)
Alike(s, z) == Len(s) = Len(z) /\ \A i \in 1..Len(s) : Same(s[i], z[i])

\* Case makes no other character out of a blank, a dot or a slash.
LEMMA SameClass ==
    ASSUME NEW c, NEW d, Same(c, d), NEW B, Letters \intersect B = {}
    PROVE  c \in B <=> d \in B
<1>1. \A u \in DOMAIN LowerOf : u \in Letters /\ LowerOf[u] \in Letters
  BY DEF Letters
<1>2. c = d \/ (c \in Letters /\ d \in Letters)
  BY <1>1 DEF Same, LowerChar
<1> QED
  BY <1>2

\* Lower-case letters are left as they are.
LEMMA LowerTwice ==
    ASSUME NEW c
    PROVE  /\ LowerChar(LowerChar(c)) = LowerChar(c)
           /\ c \in TextChar => LowerChar(c) \in TextChar
<1>1. \A u \in DOMAIN LowerOf : LowerOf[u] \notin DOMAIN LowerOf /\ LowerOf[u] \in TextChar
  BY TextAssumption DEF Letters
<1> QED
  BY <1>1 DEF LowerChar

\* lower() gives a text that is alike.
LEMMA LowerIs ==
    ASSUME NEW s \in Seq(TextChar)
    PROVE  /\ Lower(s) \in Seq(TextChar) /\ Len(Lower(s)) = Len(s)
           /\ \A i \in 1..Len(s) : Lower(s)[i] = LowerChar(s[i])
           /\ Alike(s, Lower(s))
<1> DEFINE n == Len(s)
<1>1. n \in Nat /\ DOMAIN s = 1..n /\ \A i \in 1..n : s[i] \in TextChar
  BY LenProperties, ElementOfSeq
<1>2. Lower(s) = [i \in 1..n |-> LowerChar(s[i])]
  BY <1>1 DEF Lower, LowerChar
<1>3. \A i \in 1..n : LowerChar(s[i]) \in TextChar
  BY <1>1, LowerTwice
<1>4. Lower(s) \in [1..n -> TextChar]
  BY <1>2, <1>3
<1>5. Lower(s) \in Seq(TextChar) /\ Len(Lower(s)) = n
  BY <1>1, <1>4
<1>6. \A i \in 1..n : Lower(s)[i] = LowerChar(s[i])
  BY <1>2
<1>7. \A i \in 1..n : Same(s[i], Lower(s)[i])
  BY <1>6, LowerTwice DEF Same
<1> QED
  BY <1>5, <1>6, <1>7 DEF Alike

\* The same text in other case is alike.
LEMMA UpperCasedIs ==
    ASSUME NEW s \in Seq(TextChar)
    PROVE  UpperCased(s) \in Seq(TextChar) /\ Alike(s, UpperCased(s))
<1> DEFINE n == Len(s)
           Up(c) == IF \E u \in DOMAIN LowerOf : LowerOf[u] = c
                    THEN CHOOSE u \in DOMAIN LowerOf : LowerOf[u] = c ELSE c
<1>1. n \in Nat /\ DOMAIN s = 1..n /\ \A i \in 1..n : s[i] \in TextChar
  BY LenProperties, ElementOfSeq
<1>2. ASSUME NEW c \in TextChar PROVE Up(c) \in TextChar /\ Same(c, Up(c))
  <2>1. CASE \E u \in DOMAIN LowerOf : LowerOf[u] = c
    <3>1. PICK u \in DOMAIN LowerOf : u = Up(c) /\ LowerOf[u] = c
      BY <2>1
    <3>2. u \in TextChar /\ c \notin DOMAIN LowerOf
      BY <3>1, TextAssumption DEF Letters
    <3>3. LowerChar(u) = c /\ LowerChar(c) = c
      BY <3>1, <3>2 DEF LowerChar
    <3> QED
      BY <3>1, <3>2, <3>3 DEF Same
  <2>2. CASE ~ \E u \in DOMAIN LowerOf : LowerOf[u] = c
    BY <2>2 DEF Same
  <2> QED
    BY <2>1, <2>2
<1>3. UpperCased(s) = [i \in 1..n |-> Up(s[i])]
  BY <1>1 DEF UpperCased
<1> HIDE DEF Up
<1>4. \A i \in 1..n : Up(s[i]) \in TextChar /\ Same(s[i], Up(s[i]))
  BY <1>1, <1>2
<1>5. UpperCased(s) \in [1..n -> TextChar]
  BY <1>3, <1>4
<1>6. UpperCased(s) \in Seq(TextChar) /\ Len(UpperCased(s)) = n
  BY <1>1, <1>5
<1>7. \A i \in 1..n : Same(s[i], UpperCased(s)[i])
  BY <1>3, <1>4
<1> QED
  BY <1>6, <1>7 DEF Alike

\* lower() does not tell texts apart that are alike.
LEMMA AlikeLower ==
    ASSUME NEW s \in Seq(TextChar), NEW z \in Seq(TextChar), Alike(s, z)
    PROVE  Lower(s) = Lower(z)
<1>1. /\ Lower(s) \in Seq(TextChar) /\ Len(Lower(s)) = Len(s)
      /\ \A i \in 1..Len(s) : Lower(s)[i] = LowerChar(s[i])
  BY LowerIs
<1>2. /\ Lower(z) \in Seq(TextChar) /\ Len(Lower(z)) = Len(z)
      /\ \A i \in 1..Len(z) : Lower(z)[i] = LowerChar(z[i])
  BY LowerIs
<1>3. Len(s) = Len(z) /\ \A i \in 1..Len(s) : LowerChar(s[i]) = LowerChar(z[i])
  BY DEF Alike, Same
<1>4. Len(Lower(s)) = Len(Lower(z)) /\ \A i \in 1..Len(Lower(s)) : Lower(s)[i] = Lower(z)[i]
  BY <1>1, <1>2, <1>3
<1> QED
  BY <1>1, <1>2, <1>4, SeqEqual

\* The same substrings of texts that are alike.
LEMMA AlikeSubSeq ==
    ASSUME NEW s \in Seq(TextChar), NEW z \in Seq(TextChar), Alike(s, z),
           NEW a \in 1..Len(s), NEW b \in 1..Len(s)
    PROVE  /\ SubSeq(s, a, b) \in Seq(TextChar) /\ SubSeq(z, a, b) \in Seq(TextChar)
           /\ Alike(SubSeq(s, a, b), SubSeq(z, a, b))
<1>1. Len(s) = Len(z) /\ \A i \in 1..Len(s) : Same(s[i], z[i])
  BY DEF Alike
<1>2. Len(s) \in Nat
  BY LenProperties
<1>3. \A i \in a..b : i \in 1..Len(s)
  BY <1>2
<1>4. \A i \in a..b : s[i] \in TextChar /\ z[i] \in TextChar
  BY <1>1, <1>3, ElementOfSeq
<1>5. a \in Int /\ b \in Int
  OBVIOUS
<1> DEFINE n == IF a <= b THEN b - a + 1 ELSE 0
           p == SubSeq(s, a, b)
           q == SubSeq(z, a, b)
<1>6. /\ p \in Seq(TextChar) /\ Len(p) = n
      /\ \A i \in 1..(b - a + 1) : p[i] = s[a + i - 1]
  BY <1>4, <1>5, SubSeqProperties
<1>7. /\ q \in Seq(TextChar) /\ Len(q) = n
      /\ \A i \in 1..(b - a + 1) : q[i] = z[a + i - 1]
  BY <1>4, <1>5, SubSeqProperties
<1>8. \A i \in 1..n : i \in 1..(b - a + 1) /\ a + i - 1 \in a..b
  BY <1>5
<1> HIDE DEF n, p, q
<1>9. \A i \in 1..n : Same(p[i], q[i])
  BY <1>1, <1>3, <1>6, <1>7, <1>8
<1> QED
  BY <1>6, <1>7, <1>9 DEF Alike, p, q

\* The characters of B stand at the same positions of texts that are alike.
LEMMA AlikePositions ==
    ASSUME NEW s \in Seq(TextChar), NEW z \in Seq(TextChar), Alike(s, z),
           NEW B, Letters \intersect B = {}
    PROVE  /\ DOMAIN s = 1..Len(s) /\ DOMAIN z = 1..Len(s)
           /\ \A i \in 1..Len(s) : s[i] \in B <=> z[i] \in B
           /\ Outside(s, B) = Outside(z, B) /\ Outside(s, B) \subseteq 1..Len(s)
<1>1. Len(s) = Len(z) /\ \A i \in 1..Len(s) : Same(s[i], z[i])
  BY DEF Alike
<1>2. DOMAIN s = 1..Len(s) /\ DOMAIN z = 1..Len(s)
  BY <1>1, LenProperties
<1>3. \A i \in 1..Len(s) : s[i] \in B <=> z[i] \in B
  BY <1>1, SameClass
<1> QED
  BY <1>2, <1>3 DEF Outside

\* strip() keeps texts alike.
LEMMA AlikeStrip ==
    ASSUME NEW s \in Seq(TextChar), NEW z \in Seq(TextChar), Alike(s, z)
    PROVE  Alike(Strip(s), Strip(z))
<1> DEFINE K == Outside(s, Blank)
<1>1. Letters \intersect Blank = {}
  BY TextAssumption
<1>2. K = Outside(z, Blank) /\ K \subseteq 1..Len(s)
  BY <1>1, AlikePositions
<1>3. /\ Strip(s) = IF K = {} THEN <<>> ELSE SubSeq(s, Min(K), Max(K))
      /\ Strip(z) = IF K = {} THEN <<>> ELSE SubSeq(z, Min(K), Max(K))
  BY <1>2 DEF Strip, StripAll, Outside
<1> HIDE DEF K
<1>4. CASE K = {}
  <2>1. Alike(<<>>, <<>>)
    BY DEF Alike
  <2> QED
    BY <1>3, <1>4, <2>1
<1>5. CASE K # {}
  <2>1. Len(s) \in Nat
    BY LenProperties
  <2>2. PICK lo \in K, hi \in K : \A k \in K : lo <= k /\ k <= hi
    BY <1>2, <1>5, <2>1, EndsExist
  <2>3. Min(K) = lo /\ Max(K) = hi
    <3>1. K \subseteq Int
      BY <1>2
    <3> QED
      BY <2>2, <3>1, MinMaxAre
  <2>4. lo \in 1..Len(s) /\ hi \in 1..Len(s)
    BY <1>2
  <2>5. Alike(SubSeq(s, lo, hi), SubSeq(z, lo, hi))
    BY <2>4, AlikeSubSeq
  <2> QED
    BY <1>3, <1>5, <2>3, <2>5
<1> QED
  BY <1>4, <1>5

\* What strip() returns, it leaves as it is; and it does not see blanks that are added.
LEMMA StripAgain ==
    ASSUME NEW s \in Seq(TextChar)
    PROVE  /\ Strip(s) \in Seq(TextChar) /\ Trimmed(Strip(s), Blank)
           /\ Trimmed(s, Blank) => Strip(s) = s
           /\ Padded(s) \in Seq(TextChar) /\ Strip(Padded(s)) = Strip(s)
<1> DEFINE p == Strip(s)
<1>1. p \in Seq(TextChar) /\ Trimmed(p, Blank) /\ IsPadded(s, p, Blank \intersect TextChar)
  BY StripShape DEF Strip
<1>2. ASSUME Trimmed(s, Blank) PROVE Strip(s) = s
  <2>1. <<>> \in Seq(Blank)
    BY EmptySeq
  <2>2. StripAll((<<>> \o s) \o <<>>, Blank) = s
    BY <1>2, <2>1, StripIs
  <2>3. (<<>> \o s) \o <<>> = s
    BY ConcatEmptySeq
  <2> QED
    BY <2>2, <2>3 DEF Strip
<1> DEFINE b == CHOOSE b \in Blank : TRUE
           e == <<b>>
<1>3. Padded(s) = (e \o s) \o e
  BY DEF Padded
<1>4. e \in Seq(Blank) /\ e \in Seq(TextChar)
  <2>1. b \in Blank /\ b \in TextChar
    BY TextAssumption
  <2> HIDE DEF b
  <2> QED
    BY <2>1
<1> HIDE DEF p, e
<1>5. (e \o s) \o e \in Seq(TextChar)
  <2>1. e \o s \in Seq(TextChar)
    BY <1>4, ConcatProperties
  <2> QED
    BY <1>4, <2>1, ConcatProperties
<1>6. StripAll((e \o s) \o e, Blank) = p
  <2>1. PICK u \in Seq(Blank \intersect TextChar), v \in Seq(Blank \intersect TextChar) :
           s = (u \o p) \o v
    BY <1>1 DEF IsPadded
  <2>2. u \in Seq(Blank) /\ v \in Seq(Blank) /\ u \in Seq(TextChar) /\ v \in Seq(TextChar)
    BY SeqMonotonic
  <2>3. e \o u \in Seq(Blank) /\ v \o e \in Seq(Blank)
    BY <1>4, <2>2, ConcatProperties
  <2>4. StripAll(((e \o u) \o p) \o (v \o e), Blank) = p
    BY <1>1, <2>3, StripIs
  <2>5. IsJoin((e \o s) \o e, (e \o u) \o p, v \o e)
    <3> DEFINE w == u \o p
    <3>1. w \in Seq(TextChar)
      BY <1>1, <2>2, ConcatProperties
    <3>2. IsJoin(((e \o u) \o p), e, w)
      <4>1. (e \o u) \o p = e \o (u \o p)
        <5>1. JoinsAlike(e, u, p)
          BY <1>1, <1>4, <2>2, JoinsAssociate
        <5> QED
          BY <5>1 DEF JoinsAlike
      <4> QED
        BY <4>1 DEF IsJoin
    <3> HIDE DEF w
    <3>3. (e \o w) \o v = e \o (w \o v)
      <4>1. JoinsAlike(e, w, v)
        BY <1>4, <2>2, <3>1, JoinsAssociate
      <4> QED
        BY <4>1 DEF JoinsAlike
    <3>4. e \o w \in Seq(TextChar)
      BY <1>4, <3>1, ConcatProperties
    <3>5. IsJoin(((e \o w) \o v) \o e, e \o w, v \o e)
      <4> DEFINE x == e \o w
      <4>1. x \in Seq(TextChar)
        BY <3>4
      <4> HIDE DEF x
      <4>2. (x \o v) \o e = x \o (v \o e)
        <5>1. JoinsAlike(x, v, e)
          BY <1>4, <2>2, <4>1, JoinsAssociate
        <5> QED
          BY <5>1 DEF JoinsAlike
      <4> QED
        BY <4>2 DEF x, IsJoin
    <3> QED
      BY <2>1, <3>2, <3>3, <3>5 DEF IsJoin, w
  <2> QED
    BY <2>4, <2>5 DEF IsJoin
<1> QED
  BY <1>1, <1>2, <1>3, <1>5, <1>6 DEF Strip, p

\* Case decides neither whether a file name is valid nor what its extension is.
LEMMA AlikeFilename ==
    ASSUME NEW s \in Seq(TextChar), NEW z \in Seq(TextChar), Alike(s, z)
    PROVE  /\ ValidateFilename(s) => ValidateFilename(z)
           /\ Extension(s) = Extension(z)
<1> DEFINE n == Len(s)
           K == {i \in DOMAIN s : s[i] = "."}
           Bad == Control \union {"/", "\\"}
<1>1. n \in Nat /\ n = Len(z)
  BY LenProperties DEF Alike
<1>2. Letters \intersect {"."} = {} /\ Letters \intersect Bad = {}
  BY TextAssumption
<1>3. /\ DOMAIN s = 1..n /\ DOMAIN z = 1..n
      /\ \A i \in 1..n : s[i] = "." <=> z[i] = "."
  <2>1. /\ DOMAIN s = 1..n /\ DOMAIN z = 1..n
        /\ \A i \in 1..n : s[i] \in {"."} <=> z[i] \in {"."}
    BY <1>2, AlikePositions
  <2> QED
    BY <2>1
<1>4. \A i \in 1..n : s[i] \in Bad <=> z[i] \in Bad
  <2> HIDE DEF Bad
  <2> QED
    BY <1>2, AlikePositions
<1>5. ValidateFilename(s) => ValidateFilename(z)
  <2> SUFFICES ASSUME ValidateFilename(s) PROVE ValidateFilename(z)
    OBVIOUS
  <2>1. s # <<>> /\ s # <<".">> /\ s # <<".", ".">> /\ \A i \in 1..n : s[i] \notin Bad
    BY <1>3 DEF ValidateFilename
  <2>2. z # <<>>
    <3> SUFFICES ASSUME z = <<>> PROVE FALSE
      OBVIOUS
    <3>1. n = 0
      BY <1>1, EmptySeq
    <3> QED
      BY <2>1, <3>1, EmptySeq
  <2>3. z # <<".">>
    <3> SUFFICES ASSUME z = <<".">> PROVE FALSE
      OBVIOUS
    <3>1. n = 1 /\ 1 \in 1..n /\ z[1] = "."
      BY <1>1
    <3>2. s[1] = "." /\ Len(s) = 1
      BY <1>3, <3>1
    <3>3. s = <<".">>
      BY <3>2
    <3> QED
      BY <2>1, <3>3
  <2>4. z # <<".", ".">>
    <3> SUFFICES ASSUME z = <<".", ".">> PROVE FALSE
      OBVIOUS
    <3>1. n = 2 /\ 1 \in 1..n /\ 2 \in 1..n /\ z[1] = "." /\ z[2] = "."
      BY <1>1
    <3>2. s[1] = "." /\ s[2] = "." /\ Len(s) = 2
      BY <1>3, <3>1
    <3>3. s = <<".", ".">>
      BY <3>2
    <3> QED
      BY <2>1, <3>3
  <2>5. \A i \in DOMAIN z : z[i] \notin Control \union {"/", "\\"}
    BY <1>3, <1>4, <2>1
  <2> QED
    BY <2>2, <2>3, <2>4, <2>5 DEF ValidateFilename
<1>6. K = {i \in DOMAIN z : z[i] = "."} /\ K \subseteq 1..n
  BY <1>3
<1> DEFINE none == K \ {1} = {} \/ Max(K) = n
<1>7. /\ Suffix(s) = IF none THEN <<>> ELSE SubSeq(s, Max(K), n)
      /\ Suffix(z) = IF none THEN <<>> ELSE SubSeq(z, Max(K), n)
  BY <1>1, <1>6 DEF Suffix
<1> HIDE DEF K
<1>8. CASE none
  BY <1>5, <1>7, <1>8 DEF Extension
<1>9. CASE ~ none
  <2>1. PICK k \in K : k # 1
    BY <1>9
  <2>2. K # {} /\ n # 0
    BY <1>6, <2>1
  <2>3. PICK lo \in K, hi \in K : \A i \in K : lo <= i /\ i <= hi
    BY <1>1, <1>6, <2>2, EndsExist
  <2>4. Max(K) = hi
    <3>1. K \subseteq Int
      BY <1>6
    <3> QED
      BY <2>3, <3>1, MinMaxAre
  <2>5. hi \in 1..n /\ n \in 1..n
    BY <1>1, <1>6, <2>2
  <2>6. /\ SubSeq(s, hi, n) \in Seq(TextChar) /\ SubSeq(z, hi, n) \in Seq(TextChar)
        /\ Alike(SubSeq(s, hi, n), SubSeq(z, hi, n))
    BY <2>5, AlikeSubSeq
  <2>7. Lower(SubSeq(s, hi, n)) = Lower(SubSeq(z, hi, n))
    BY <2>6, AlikeLower
  <2> QED
    BY <1>5, <1>7, <1>9, <2>4, <2>7 DEF Extension
<1> HIDE DEF none
<1> QED
  BY <1>8, <1>9

\* The normal form of a text, stripped and in lower case, is that of every
\* spelling of it, and of the normal form itself.
LEMMA NormalForm ==
    ASSUME NEW s \in Seq(TextChar)
    PROVE  LET normal == Lower(Strip(s))
           IN  /\ Lower(Strip(Padded(s))) = normal
               /\ Lower(Strip(UpperCased(s))) = normal
               /\ Lower(Strip(normal)) = normal
<1> DEFINE p == Strip(s)
           l == Lower(p)
<1>1. p \in Seq(TextChar) /\ Trimmed(p, Blank) /\ Strip(Padded(s)) = p
  BY StripAgain
<1>2. Lower(Strip(UpperCased(s))) = l
  <2>1. UpperCased(s) \in Seq(TextChar) /\ Alike(s, UpperCased(s))
    BY UpperCasedIs
  <2>2. Strip(UpperCased(s)) \in Seq(TextChar) /\ Alike(p, Strip(UpperCased(s)))
    BY <2>1, AlikeStrip, StripAgain
  <2> HIDE DEF p
  <2> QED
    BY <1>1, <2>2, AlikeLower
<1> HIDE DEF p
<1>3. l \in Seq(TextChar) /\ Len(l) = Len(p) /\ Alike(p, l)
  BY <1>1, LowerIs
<1>4. Lower(l) = l
  BY <1>1, <1>3, AlikeLower
<1>5. Trimmed(l, Blank)
  <2>1. CASE p = <<>>
    <3>1. l = <<>>
      <4>1. Len(l) = 0
        BY <1>3, <2>1, EmptySeq
      <4> HIDE DEF l
      <4> QED
        BY <1>3, <4>1, EmptySeq
    <3> QED
      BY <3>1 DEF Trimmed
  <2>2. CASE p # <<>>
    <3>1. Letters \intersect Blank = {}
      BY TextAssumption
    <3>2. \A i \in 1..Len(p) : p[i] \in Blank <=> l[i] \in Blank
      <4> HIDE DEF l
      <4> QED
        BY <1>1, <1>3, <3>1, AlikePositions
    <3>3. 1 \in 1..Len(p) /\ Len(p) \in 1..Len(p)
      <4>1. Len(p) \in Nat \ {0}
        BY <1>1, <2>2, EmptySeq
      <4> QED
        BY <4>1
    <3> HIDE DEF l
    <3> QED
      BY <1>1, <1>3, <2>2, <3>2, <3>3 DEF Trimmed
  <2> QED
    BY <2>1, <2>2
<1>6. Strip(l) = l
  <2> HIDE DEF l
  <2> QED
    BY <1>3, <1>5, StripAgain
<1> QED
  BY <1>1, <1>2, <1>4, <1>6 DEF p

\* What stripping, lowering, padding and other case make of the length of a text.
LEMMA LengthsAre ==
    ASSUME NEW s \in Seq(TextChar)
    PROVE  /\ Len(s) \in Nat
           /\ Len(UpperCased(s)) = Len(s)
           /\ Len(Padded(s)) \in Nat /\ Len(s) <= Len(Padded(s))
           /\ Len(Strip(s)) \in Nat /\ Len(Strip(s)) <= Len(s)
           /\ Len(Lower(Strip(s))) = Len(Strip(s))
<1> DEFINE p == Strip(s)
<1>1. Len(s) \in Nat /\ Len(UpperCased(s)) = Len(s)
  BY UpperCasedIs, LenProperties DEF Alike
<1>2. p \in Seq(TextChar) /\ IsPadded(s, p, Blank \intersect TextChar)
  BY StripShape DEF Strip
<1>3. Len(Lower(p)) = Len(p)
  BY <1>2, LowerIs
<1>4. Len(p) \in Nat /\ Len(p) <= Len(s)
  <2> HIDE DEF p
  <2>1. PICK u \in Seq(Blank \intersect TextChar), v \in Seq(Blank \intersect TextChar) :
           s = (u \o p) \o v
    BY <1>2 DEF IsPadded
  <2>2. u \in Seq(TextChar) /\ v \in Seq(TextChar)
    BY SeqMonotonic
  <2>3. u \o p \in Seq(TextChar) /\ Len(u \o p) = Len(u) + Len(p)
    BY <1>2, <2>2, ConcatProperties
  <2>4. Len((u \o p) \o v) = Len(u \o p) + Len(v)
    BY <2>2, <2>3, ConcatProperties
  <2>5. Len(u) \in Nat /\ Len(p) \in Nat /\ Len(v) \in Nat
    BY <1>2, <2>2, LenProperties
  <2>6. Len(s) = Len(u) + Len(p) + Len(v)
    BY <2>1, <2>3, <2>4
  <2> QED
    BY <2>5, <2>6
<1> DEFINE b == CHOOSE b \in Blank : TRUE
           e == <<b>>
<1>5. Padded(s) = (e \o s) \o e
  BY DEF Padded
<1>6. e \in Seq(TextChar) /\ Len(e) = 1
  <2>1. b \in TextChar
    BY TextAssumption
  <2> HIDE DEF b
  <2> QED
    BY <2>1
<1>7. Len((e \o s) \o e) = Len(s) + 2
  <2> HIDE DEF e
  <2> DEFINE w == e \o s
  <2>1. w \in Seq(TextChar) /\ Len(w) = Len(e) + Len(s)
    BY <1>6, ConcatProperties
  <2>2. Len(w) = 1 + Len(s)
    BY <1>6, <2>1
  <2> HIDE DEF w
  <2>3. Len(w \o e) = Len(w) + Len(e)
    BY <1>6, <2>1, ConcatProperties
  <2>4. Len(w \o e) = Len(s) + 2
    BY <1>1, <1>6, <2>2, <2>3
  <2> QED
    BY <2>4 DEF w
<1>8. Len(Padded(s)) = Len(s) + 2
  BY <1>5, <1>7
<1> QED
  BY <1>1, <1>3, <1>4, <1>8 DEF p

\* An e-mail address, a MIME type or a file name, however long, means the same
\* however it is spelled, as far as the limits on what is sent allow the spelling,
\* and its normal form is accepted as it is (auth/schemas.py:31, 37, 43,
\* auth/service.py:55, 67, files/schemas.py:16-17, files/service.py:71-81).
THEOREM EverySpelling ==
    ASSUME text \in Seq(TextChar)
    PROVE  SpellingDoesNotMatter
<1> DEFINE p == Strip(text)
           l == Lower(p)
           up == UpperCased(text)
           pad == Padded(text)
<1>1. Lower(Strip(pad)) = l /\ Lower(Strip(up)) = l /\ Lower(Strip(l)) = l
  BY NormalForm
<1>2. p \in Seq(TextChar) /\ Strip(text) = p /\ Strip(pad) = p /\ Strip(p) = p
  BY StripAgain
<1>3. up \in Seq(TextChar) /\ Alike(text, up)
  BY UpperCasedIs
<1>4. Strip(up) \in Seq(TextChar) /\ Alike(p, Strip(up)) /\ Alike(Strip(up), p)
  <2>1. Strip(up) \in Seq(TextChar) /\ Alike(p, Strip(up))
    BY <1>3, AlikeStrip, StripAgain
  <2> HIDE DEF p, up
  <2>2. Alike(Strip(up), p)
    BY <2>1 DEF Alike, Same
  <2> QED
    BY <2>1, <2>2
<1>5. /\ Len(text) \in Nat /\ Len(up) = Len(text)
      /\ Len(pad) \in Nat /\ Len(text) <= Len(pad)
      /\ Len(p) \in Nat /\ Len(p) <= Len(text) /\ Len(l) = Len(p)
  BY LengthsAre
<1>6. MaxEmail \in Nat /\ MaxDeclared \in Nat
  BY LimitsAssumption
<1>7. \A limit : Spellings(limit) = {up} \union {t \in {pad} : Len(t) <= limit}
  BY DEF Spellings
<1>8. /\ NormalizeEmail(text) = IF EmailPattern(l) THEN l ELSE Refused
      /\ DeclaredMimeType(text) = IF MimeTypePattern(l) THEN l ELSE Refused
  BY DEF NormalizeEmail, DeclaredMimeType, l, p
<1> HIDE DEF p, l, up, pad
<1>9. ASSUME NEW t \in {up, pad, l}
      PROVE  /\ NormalizeEmail(t) = NormalizeEmail(text)
             /\ DeclaredMimeType(t) = DeclaredMimeType(text)
  <2>1. Lower(Strip(t)) = l
    BY <1>1
  <2> QED
    BY <1>8, <2>1 DEF NormalizeEmail, DeclaredMimeType
<1>10. ASSUME NEW limit \in Nat, NEW t \in Spellings(limit)
       PROVE  t \in {up, pad} /\ (Len(t) <= limit <=> Len(text) <= limit)
  BY <1>5, <1>7
<1>11. ASSUME NEW t \in Spellings(MaxEmail)
       PROVE  RequestEmail(t) = RequestEmail(text)
  BY <1>6, <1>9, <1>10 DEF RequestEmail
<1>12. ASSUME RequestEmail(text) # Refused
       PROVE  /\ RequestEmail(RequestEmail(text)) = RequestEmail(text)
              /\ NormalizeEmail(RequestEmail(text)) = RequestEmail(text)
  <2>1. Len(text) <= MaxEmail /\ RequestEmail(text) = NormalizeEmail(text)
    BY <1>12 DEF RequestEmail
  <2>2. RequestEmail(text) = l
    BY <1>8, <1>12, <2>1
  <2>3. Len(l) <= MaxEmail
    BY <1>5, <1>6, <2>1
  <2>4. NormalizeEmail(l) = l
    BY <1>9, <2>1, <2>2
  <2>5. RequestEmail(l) = l
    BY <2>3, <2>4 DEF RequestEmail
  <2> QED
    BY <2>2, <2>4, <2>5
<1>13. ASSUME NEW t \in Spellings(MaxDeclared)
       PROVE  RequestMimeType(t) = RequestMimeType(text)
  BY <1>6, <1>9, <1>10 DEF RequestMimeType
<1>14. ASSUME RequestMimeType(text) # Refused
       PROVE  RequestMimeType(RequestMimeType(text)) = RequestMimeType(text)
  <2>1. Len(text) <= MaxDeclared /\ RequestMimeType(text) = DeclaredMimeType(text)
    BY <1>14 DEF RequestMimeType
  <2>2. RequestMimeType(text) = l
    BY <1>8, <1>14, <2>1
  <2>3. Len(l) <= MaxDeclared /\ DeclaredMimeType(l) = l
    BY <1>5, <1>6, <1>9, <2>1, <2>2
  <2>4. RequestMimeType(l) = l
    BY <2>3 DEF RequestMimeType
  <2> QED
    BY <2>2, <2>4
<1> DEFINE Accepted(x) == ValidateFilename(x) /\ Extension(x) \in SupportedFileExtensions
<1>15. \A t : RequestFilename(t) =
                IF Len(t) <= MaxDeclared /\ Accepted(Strip(t)) THEN Strip(t) ELSE Refused
  BY DEF RequestFilename, OriginalFilename
<1>16. \A x : Accepted(x) => x # Refused
  BY DEF ValidateFilename, Refused
<1>17. Accepted(Strip(up)) <=> Accepted(p)
  <2>1. /\ ValidateFilename(p) => ValidateFilename(Strip(up))
        /\ Extension(p) = Extension(Strip(up))
    BY <1>2, <1>4, AlikeFilename
  <2>2. ValidateFilename(Strip(up)) => ValidateFilename(p)
    BY <1>2, <1>4, AlikeFilename
  <2> QED
    BY <2>1, <2>2
<1>18. Extension(Strip(up)) = Extension(p)
  BY <1>2, <1>4, AlikeFilename
<1> HIDE DEF Accepted
<1>19. ASSUME NEW t \in Spellings(MaxDeclared)
       PROVE  /\ RequestFilename(t) = Refused <=> RequestFilename(text) = Refused
              /\ Extension(RequestFilename(t)) = Extension(RequestFilename(text))
              /\ Strip(t) = Strip(text) => RequestFilename(t) = RequestFilename(text)
  <2>1. t \in {up, pad} /\ (Len(t) <= MaxDeclared <=> Len(text) <= MaxDeclared)
    BY <1>6, <1>10
  <2>2. /\ Accepted(Strip(t)) <=> Accepted(p)
        /\ Extension(Strip(t)) = Extension(p)
    BY <1>2, <1>17, <1>18, <2>1
  <2>3. CASE Len(text) <= MaxDeclared /\ Accepted(p)
    <3>1. RequestFilename(t) = Strip(t) /\ RequestFilename(text) = p
      BY <1>2, <1>15, <2>1, <2>2, <2>3
    <3>2. Strip(t) # Refused /\ p # Refused
      BY <1>16, <2>2, <2>3
    <3> QED
      BY <1>2, <2>2, <3>1, <3>2
  <2>4. CASE ~ (Len(text) <= MaxDeclared /\ Accepted(p))
    <3>1. RequestFilename(t) = Refused /\ RequestFilename(text) = Refused
      BY <1>2, <1>15, <2>1, <2>2, <2>4
    <3> QED
      BY <3>1
  <2> QED
    BY <2>3, <2>4
<1>20. ASSUME RequestFilename(text) # Refused
       PROVE  RequestFilename(RequestFilename(text)) = RequestFilename(text)
  <2>1. Len(text) <= MaxDeclared /\ Accepted(p) /\ RequestFilename(text) = p
    BY <1>2, <1>15, <1>20
  <2>2. Len(p) <= MaxDeclared
    BY <1>5, <1>6, <2>1
  <2> QED
    BY <1>2, <1>15, <2>1, <2>2
<1> QED
  BY <1>11, <1>12, <1>13, <1>14, <1>19, <1>20 DEF SpellingDoesNotMatter

-----------------------------------------------------------------------------
(* The three invariants of the typing behaviours.                          *)

\* Type correctness: what is typed are strings over the two alphabets.
TypeOK ==
    /\ setting \in Seq(Char)
    /\ name \in Seq(Char)
    /\ text \in Seq(TextChar)

\* Every step of the typing keeps the types: what the routes and the event
\* endpoint read are strings.
THEOREM TypesKept == RSpec => []TypeOK
<1>1. RInit => TypeOK
  <2> SUFFICES ASSUME RInit PROVE TypeOK
    OBVIOUS
  <2>1. setting = <<>> /\ name = <<>> /\ text = <<>>
    BY DEF RInit, Init
  <2> QED
    BY <2>1, EmptySeq DEF TypeOK
<1>2. TypeOK /\ [RNext]_<<vars, text>> => TypeOK'
  <2> SUFFICES ASSUME TypeOK, [RNext]_<<vars, text>> PROVE TypeOK'
    OBVIOUS
  <2>1. ASSUME NEW c \in TextChar, TypeText(c) PROVE TypeOK'
    <3>1. text' = Append(text, c) /\ setting' = setting /\ name' = name
      BY <2>1 DEF TypeText, vars
    <3>2. Append(text, c) \in Seq(TextChar)
      BY AppendProperties DEF TypeOK
    <3> QED
      BY <3>1, <3>2 DEF TypeOK
  <2>2. ASSUME NEW c \in Char, TypeSetting(c), text' = text PROVE TypeOK'
    <3>1. setting' = Append(setting, c) /\ name' = name
      BY <2>2 DEF TypeSetting
    <3>2. Append(setting, c) \in Seq(Char)
      BY AppendProperties DEF TypeOK
    <3> QED
      BY <2>2, <3>1, <3>2 DEF TypeOK
  <2>3. ASSUME NEW c \in Char, TypeName(c), text' = text PROVE TypeOK'
    <3>1. name' = Append(name, c) /\ setting' = setting
      BY <2>3 DEF TypeName
    <3>2. Append(name, c) \in Seq(Char)
      BY AppendProperties DEF TypeOK
    <3> QED
      BY <2>3, <3>1, <3>2 DEF TypeOK
  <2>4. CASE UNCHANGED <<vars, text>>
    BY <2>4 DEF TypeOK, vars
  <2> QED
    BY <2>1, <2>2, <2>3, <2>4 DEF RNext, Next
<1> QED
  BY <1>1, <1>2, PTL DEF RSpec

\* Whatever the setting and the object name, the segment-level recogniser that
\* the pipeline's model uses accepts the names that handle_upload_finalized
\* accepts and reads the same file id (files/service.py:131-144).
THEOREM RecognitionAlwaysAgrees == RSpec => []RecognitionAgrees
<1>1. TypeOK => RecognitionAgrees
  BY SegmentsAgree DEF TypeOK, RecognitionAgrees
<1> QED
  BY <1>1, TypesKept, PTL

\* Whatever the setting, a key built from any two non-empty parts of any name is
\* recognised with these parts, unless the setting strips to the empty string
\* (files/service.py:85-90 against 131-144).
THEOREM BuiltKeyAlwaysRecognised == RSpec => []BuiltKeyIsRecognised
<1>1. TypeOK => BuiltKeyIsRecognised
  <2> SUFFICES ASSUME TypeOK, NEW owner \in Identifiers, NEW file \in Identifiers
               PROVE  LET key == BuildKey(setting, owner, file)
                      IN  /\ SplitSlash(key) = Keys(setting)!StorageKey(owner, file)
                          /\ EventParts(setting, key) =
                               IF StripSlash(setting) = <<>> THEN <<>> ELSE <<owner, file>>
    BY DEF BuiltKeyIsRecognised
  <2>1. setting \in Seq(Char) /\ name \in Seq(Char)
    BY DEF TypeOK
  <2>2. Identifiers \subseteq Part
    <3> DEFINE D == Seq(Char \ {"/"})
    <3>1. SplitSlash(name) \in Seq(D)
      BY <2>1, SplitType DEF SplitSlash
    <3> HIDE DEF D
    <3>2. Range(SplitSlash(name)) \subseteq D
      BY <3>1, RangeOfSeq
    <3> QED
      BY <3>2 DEF Identifiers, Part, D
  <2>3. owner \in Part /\ file \in Part
    BY <2>2
  <2>4. owner \in Seq(Char \ {"/"}) /\ file \in Seq(Char \ {"/"})
    BY <2>3 DEF Part
  <2>5. SplitSlash(BuildKey(setting, owner, file)) = Keys(setting)!StorageKey(owner, file)
    <3>1. IsJoin(SplitSlash(BuildKey(setting, owner, file)),
                 SplitSlash(StripSlash(setting)), <<owner, file>>)
      BY <2>1, <2>4, SegmentsOfName
    <3>2. Keys(setting)!Root = SplitSlash(StripSlash(setting))
      BY <2>1, RootIs
    <3>3. Keys(setting)!StorageKey(owner, file) = Keys(setting)!Root \o <<owner, file>>
      BY DEF Keys!StorageKey
    <3> QED
      BY <3>1, <3>2, <3>3 DEF IsJoin
  <2>6. EventParts(setting, BuildKey(setting, owner, file)) =
           IF StripSlash(setting) = <<>> THEN <<>> ELSE <<owner, file>>
    BY <2>1, <2>3, RecognisedAreBuilt
  <2> QED
    BY <2>5, <2>6
<1> QED
  BY <1>1, TypesKept, PTL

\* Whatever text a client sends as an e-mail address, a MIME type or a file
\* name, its spelling does not matter within the limits of the schemas
\* (auth/schemas.py:31, 43, files/schemas.py:16-17, files/service.py:71-81).
THEOREM SpellingNeverMatters == RSpec => []SpellingDoesNotMatter
<1>1. TypeOK => SpellingDoesNotMatter
  BY EverySpelling DEF TypeOK
<1> QED
  BY <1>1, TypesKept, PTL
=============================================================================
