--------------------------- MODULE PostingProofs ----------------------------
(***************************************************************************)
(* What the loops over posting lists compute, for lists of any length.     *)
(***************************************************************************)
EXTENDS Postings, SequenceTheorems, FiniteSetTheorems, WellFoundedInduction, TLAPS

-----------------------------------------------------------------------------
(* Recursion.                                                              *)
LEMMA LeastNat ==
  ASSUME NEW S \in SUBSET Nat, S # {}
  PROVE  \E n \in S : \A m \in S : n <= m
<1>1. PICK n \in S : \A m \in S : ~ (<<m, n>> \in OpToRel(<, Nat))
  BY NatLessThanWellFounded, WFMin
<1>2. ASSUME NEW m \in S
      PROVE  n <= m
  <2>1. n \in Nat /\ m \in Nat /\ <<m, n>> \in Nat \X Nat
    OBVIOUS
  <2>2. ~(m < n)
    BY <1>1, <2>1 DEF OpToRel
  <2> QED
    BY <2>1, <2>2
<1> QED
  BY <1>2

(* A recursive function exists if each argument leads to one of less       *)
(* measure, until the recursion ends; V has all its values.                *)
Descends(D, V, Ends, last, next, step, mu, M) ==
  /\ V # {} /\ Ends \subseteq D
  /\ last \in [Ends -> V]
  /\ next \in [D \ Ends -> D]
  /\ \A x \in D \ Ends, v \in V : step[<<x, v>>] \in V
  /\ mu \in [D -> Nat] /\ M \in Nat
  /\ \A x \in D : mu[x] < M
  /\ \A x \in D \ Ends : mu[next[x]] < mu[x]

Follows(f, D, Ends, last, next, step) ==
  \A x \in D : /\ x \in Ends => f[x] = last[x]
               /\ x \notin Ends => f[x] = step[<<x, f[next[x]]>>]

LEMMA RecursionExists ==
  ASSUME NEW D, NEW V, NEW Ends, NEW last, NEW next, NEW step, NEW mu, NEW M,
         Descends(D, V, Ends, last, next, step, mu, M)
  PROVE  \E f \in [D -> V] : Follows(f, D, Ends, last, next, step)
<1>0. PICK v0 \in V : TRUE
  BY DEF Descends
<1> USE DEF Descends
<1> DEFINE F(f, x) == IF x \in Ends THEN last[x] ELSE step[<<x, f[next[x]]>>]
           Right(f, n) == \A x \in D : mu[x] < n => f[x] = F(f, x)
           Bad == {n \in Nat : ~ \E f \in [D -> V] : Right(f, n)}
<1>1. Bad = {}
  <2> SUFFICES ASSUME Bad # {} PROVE FALSE
    OBVIOUS
  <2>1. PICK n \in Bad : \A m \in Bad : n <= m
    BY LeastNat
  <2>2. n # 0
    <3>1. [x \in D |-> v0] \in [D -> V] /\ Right([x \in D |-> v0], 0)
      <4> HIDE DEF F
      <4> QED
        OBVIOUS
    <3> HIDE DEF Right
    <3> QED
      BY <2>1, <3>1
  <2>3. n \in Nat /\ n - 1 \in Nat /\ n - 1 \notin Bad
    <3> HIDE DEF Right
    <3> QED
      BY <2>1, <2>2
  <2>4. PICK f \in [D -> V] : Right(f, n - 1)
    <3> HIDE DEF Right
    <3> QED
      BY <2>3
  <2>5. PICK g : g = [x \in D |-> IF mu[x] = n - 1 THEN F(f, x) ELSE f[x]]
    OBVIOUS
  <2>6. \A x \in D : F(f, x) \in V
    OBVIOUS
  <2>7. g \in [D -> V]
    <3> HIDE DEF F
    <3> QED
      BY <2>4, <2>5, <2>6
  <2>8. \A x \in D : g[x] = IF mu[x] = n - 1 THEN F(f, x) ELSE f[x]
    <3> HIDE DEF F
    <3> QED
      BY <2>5
  <2>9. ASSUME NEW x \in D, mu[x] < n
        PROVE  F(g, x) = F(f, x)
    <3>1. CASE x \in Ends
      BY <3>1
    <3>2. CASE x \notin Ends
      <4>1. next[x] \in D /\ mu[next[x]] < mu[x] /\ mu[x] \in Nat /\ mu[next[x]] \in Nat
        BY <3>2
      <4>2. mu[next[x]] # n - 1
        BY <2>3, <2>9, <4>1
      <4>3. g[next[x]] = f[next[x]]
        BY <2>8, <4>1, <4>2
      <4> QED
        BY <4>3
    <3> QED
      BY <3>1, <3>2
  <2>10. Right(g, n)
    <3> SUFFICES ASSUME NEW x \in D, mu[x] < n
                 PROVE  g[x] = F(g, x)
      OBVIOUS
    <3>1. F(g, x) = F(f, x)
      BY <2>9
    <3> HIDE DEF F
    <3>2. CASE mu[x] = n - 1
      BY <2>8, <3>1, <3>2
    <3>3. CASE mu[x] # n - 1
      <4>1. mu[x] \in Nat /\ mu[x] < n - 1
        BY <2>3, <3>3
      <4> QED
        BY <2>4, <2>8, <3>1, <3>3, <4>1
    <3> QED
      BY <3>2, <3>3
  <2> HIDE DEF Right
  <2> QED
    BY <2>1, <2>7, <2>10
<1>2. PICK f \in [D -> V] : Right(f, M)
  <2> HIDE DEF Right
  <2> QED
    BY <1>1
<1>3. \A x \in D : f[x] = F(f, x)
  <2> HIDE DEF F
  <2> QED
    BY <1>2
<1> QED
  BY <1>3 DEF Follows

(* What follows for an argument from those of less measure holds for all.  *)
Passes(D, mu, Good) ==
  /\ mu \in [D -> Nat] /\ Good \subseteq D
  /\ \A x \in D : (\A y \in D : mu[y] < mu[x] => y \in Good) => x \in Good

LEMMA MeasureInduction ==
  ASSUME NEW D, NEW mu, NEW Good, Passes(D, mu, Good)
  PROVE  D = Good
<1> USE DEF Passes
<1> DEFINE Bad == {n \in Nat : \E x \in D \ Good : mu[x] = n}
<1> SUFFICES ASSUME D # Good PROVE FALSE
  OBVIOUS
<1>1. Bad # {}
  OBVIOUS
<1>2. PICK n \in Bad : \A m \in Bad : n <= m
  BY <1>1, LeastNat
<1>3. PICK x \in D \ Good : mu[x] = n
  BY <1>2
<1>4. PICK y \in D : mu[y] < mu[x] /\ y \notin Good
  BY <1>3
<1>5. mu[y] \in Bad /\ mu[y] \in Nat /\ n \in Nat
  BY <1>4
<1> QED
  BY <1>2, <1>3, <1>4, <1>5

-----------------------------------------------------------------------------
(* Ascending lists.                                                        *)
Increasing(s) == \A i, j \in DOMAIN s : i < j => s[i] < s[j]

Below(S, x) == {y \in S : y < x}

(* In a finite set of numbers the numbers of lesser elements are those     *)
(* from nought on, each once.                                              *)
LEMMA RanksRise ==
  ASSUME NEW S \in SUBSET Int, IsFiniteSet(S), NEW x \in S, NEW z \in Int, x < z
  PROVE  Cardinality(Below(S, x)) < Cardinality(Below(S, z))
<1>1. Below(S, x) \in SUBSET S /\ Below(S, z) \in SUBSET S
  BY DEF Below
<1>2. /\ IsFiniteSet(Below(S, x)) /\ IsFiniteSet(Below(S, z))
  BY <1>1, FS_Subset
<1>3. x \notin Below(S, x)
  BY DEF Below
<1>4. IsFiniteSet(Below(S, x) \cup {x})
      /\ Cardinality(Below(S, x) \cup {x}) = Cardinality(Below(S, x)) + 1
  BY <1>2, <1>3, FS_AddElement
<1>5. (Below(S, x) \cup {x}) \in SUBSET Below(S, z)
  <2>1. x \in Below(S, z)
    BY DEF Below
  <2>2. \A y \in Below(S, x) : y \in Below(S, z)
    BY DEF Below
  <2> QED
    BY <2>1, <2>2
<1>6. Cardinality(Below(S, x) \cup {x}) <= Cardinality(Below(S, z))
  BY <1>2, <1>5, FS_Subset
<1>7. Cardinality(Below(S, x)) \in Nat /\ Cardinality(Below(S, z)) \in Nat
  BY <1>2, FS_CardinalityType
<1> QED
  BY <1>4, <1>6, <1>7

LEMMA RanksFill ==
  ASSUME NEW S \in SUBSET Int, IsFiniteSet(S)
  PROVE  /\ Cardinality(S) \in Nat
         /\ \A x \in S : Cardinality(Below(S, x)) \in 0..(Cardinality(S) - 1)
         /\ \A n \in 0..(Cardinality(S) - 1) : \E x \in S : Cardinality(Below(S, x)) = n
         /\ \A x, z \in S : x < z <=> Cardinality(Below(S, x)) < Cardinality(Below(S, z))
<1>1. Cardinality(S) \in Nat
  BY FS_CardinalityType
<1>2. ASSUME NEW x \in S
      PROVE  Cardinality(Below(S, x)) \in 0..(Cardinality(S) - 1)
  <2>1. Below(S, x) \in SUBSET (S \ {x})
    BY DEF Below
  <2>2. IsFiniteSet(S \ {x}) /\ Cardinality(S \ {x}) = Cardinality(S) - 1
    BY FS_RemoveElement
  <2>3. IsFiniteSet(Below(S, x)) /\ Cardinality(Below(S, x)) <= Cardinality(S \ {x})
    BY <2>1, <2>2, FS_Subset
  <2>4. Cardinality(Below(S, x)) \in Nat
    BY <2>3, FS_CardinalityType
  <2> QED
    BY <1>1, <2>2, <2>3, <2>4
<1>3. \A x, z \in S : x < z => Cardinality(Below(S, x)) < Cardinality(Below(S, z))
  BY RanksRise
<1>4. \A x, z \in S : x < z <=> Cardinality(Below(S, x)) < Cardinality(Below(S, z))
  <2> SUFFICES ASSUME NEW x \in S, NEW z \in S
               PROVE  x < z <=> Cardinality(Below(S, x)) < Cardinality(Below(S, z))
    OBVIOUS
  <2>1. Cardinality(Below(S, x)) \in Int /\ Cardinality(Below(S, z)) \in Int
    BY <1>1, <1>2
  <2>2. x < z \/ x = z \/ z < x
    OBVIOUS
  <2> QED
    BY <1>3, <2>1, <2>2
<1>5. \A n \in 0..(Cardinality(S) - 1) : \E x \in S : Cardinality(Below(S, x)) = n
  <2> DEFINE C == 0..(Cardinality(S) - 1)
             f == [x \in S |-> Cardinality(Below(S, x))]
  <2>1. f \in [S -> C]
    BY <1>2
  <2>2. \A x, z \in S : f[x] = f[z] => x = z
    <3> SUFFICES ASSUME NEW x \in S, NEW z \in S, f[x] = f[z]
                 PROVE  x = z
      OBVIOUS
    <3>1. x \in Int /\ z \in Int /\ f[x] \in Int /\ f[z] \in Int
      BY <1>1, <1>2
    <3>2. ~(x < z) /\ ~(z < x)
      BY <1>3, <3>1
    <3> QED
      BY <3>1, <3>2
  <2>3. f \in Injection(S, C)
    <3> HIDE DEF f, C
    <3> QED
      BY <2>1, <2>2 DEF Injection, IsInjective
  <2>4. IsFiniteSet(C) /\ Cardinality(C) = Cardinality(S)
    <3>1. PICK c \in Nat : c = Cardinality(S)
      BY <1>1
    <3>2. IsFiniteSet(0..(c - 1)) /\ Cardinality(0..(c - 1)) = IF 0 > c - 1 THEN 0 ELSE c - 1 - 0 + 1
      BY FS_Interval
    <3> QED
      BY <3>1, <3>2
  <2>5. f \in Surjection(S, C)
    <3> HIDE DEF f, C
    <3> QED
      BY <2>3, <2>4, FS_Injection
  <2>6. \A n \in C : \E x \in S : f[x] = n
    <3> HIDE DEF f, C
    <3> QED
      BY <2>5 DEF Surjection
  <2> QED
    BY <2>6
<1> QED
  BY <1>1, <1>2, <1>4, <1>5

(* Ascending lists the elements of a finite set of numbers in order, each  *)
(* once.                                                                   *)
LEMMA AscendingIs ==
  ASSUME NEW S \in SUBSET Int, IsFiniteSet(S)
  PROVE  /\ Cardinality(S) \in Nat
         /\ Ascending(S) \in [1..Cardinality(S) -> S]
         /\ Ascending(S) \in Seq(S)
         /\ Len(Ascending(S)) = Cardinality(S)
         /\ DOMAIN Ascending(S) = 1..Cardinality(S)
         /\ ToSet(Ascending(S)) = S
         /\ Increasing(Ascending(S))
         /\ \A n \in 1..Cardinality(S) : Cardinality(Below(S, Ascending(S)[n])) = n - 1
<1>0. PICK c : c = Cardinality(S)
  OBVIOUS
<1>1. c \in Nat
  BY <1>0, RanksFill
<1>2. PICK A : A = Ascending(S)
  OBVIOUS
<1>3. /\ DOMAIN A = 1..c
      /\ A = [n \in 1..c |-> A[n]]
      /\ \A n \in 1..c : A[n] = CHOOSE x \in S : Cardinality(Below(S, x)) = n - 1
  <2> DEFINE Pick(n) == CHOOSE x \in S : Cardinality(Below(S, x)) = n - 1
  <2>1. A = [n \in 1..c |-> Pick(n)]
    BY <1>0, <1>2 DEF Ascending, Below
  <2> HIDE DEF Pick
  <2>2. DOMAIN A = 1..c /\ A = [n \in 1..c |-> A[n]] /\ \A n \in 1..c : A[n] = Pick(n)
    BY <2>1
  <2> QED
    BY <2>2 DEF Pick
<1>4. ASSUME NEW n \in 1..c
      PROVE  A[n] \in S /\ Cardinality(Below(S, A[n])) = n - 1
  <2>1. n - 1 \in 0..(c - 1)
    BY <1>1
  <2>2. \E x \in S : Cardinality(Below(S, x)) = n - 1
    BY <1>0, <2>1, RanksFill
  <2> QED
    BY <1>3, <2>2
<1>5. A \in [1..c -> S]
  BY <1>3, <1>4
<1>6. A \in Seq(S) /\ Len(A) = c
  BY <1>1, <1>3, <1>5
<1>7. ASSUME NEW x \in S
      PROVE  x \in ToSet(A)
  <2>1. Cardinality(Below(S, x)) \in 0..(c - 1)
    BY <1>0, RanksFill
  <2>2. PICK n \in 1..c : n - 1 = Cardinality(Below(S, x))
    <3>1. Cardinality(Below(S, x)) + 1 \in 1..c
      BY <1>1, <2>1
    <3> QED
      BY <2>1, <3>1
  <2>3. PICK y \in S : y = A[n] /\ Cardinality(Below(S, y)) = n - 1
    BY <1>4
  <2>4. ~(y < x) /\ ~(x < y)
    <3>1. ~(n - 1 < n - 1)
      BY <1>1
    <3> QED
      BY <2>2, <2>3, <3>1, RanksFill
  <2>5. y = x
    BY <2>4
  <2> QED
    BY <1>3, <2>3, <2>5 DEF ToSet
<1>8. ToSet(A) = S
  <2>1. ToSet(A) \subseteq S
    BY <1>3, <1>4 DEF ToSet
  <2> QED
    BY <1>7, <2>1
<1>9. Increasing(A)
  <2> SUFFICES ASSUME NEW i \in 1..c, NEW j \in 1..c, i < j
               PROVE  A[i] < A[j]
    BY <1>3 DEF Increasing
  <2>1. PICK x \in S : x = A[i] /\ Cardinality(Below(S, x)) = i - 1
    BY <1>4
  <2>2. PICK z \in S : z = A[j] /\ Cardinality(Below(S, z)) = j - 1
    BY <1>4
  <2>3. i - 1 < j - 1
    BY <1>1
  <2>4. x < z
    BY <2>1, <2>2, <2>3, RanksFill
  <2> QED
    BY <2>1, <2>2, <2>4
<1> QED
  BY <1>0, <1>1, <1>2, <1>3, <1>4, <1>5, <1>6, <1>8, <1>9

(* There is but one ascending list of a set.                               *)
LEMMA IncreasingIsAscending ==
  ASSUME NEW s \in Seq(Int), Increasing(s)
  PROVE  /\ IsFiniteSet(ToSet(s))
         /\ s = Ascending(ToSet(s))
<1> DEFINE S == ToSet(s)
           n == Len(s)
<1>1. n \in Nat /\ s \in [1..n -> S] /\ DOMAIN s = 1..n /\ S \in SUBSET Int
  BY DEF ToSet
<1>2. \A i, j \in 1..n : s[i] = s[j] => i = j
  <2> SUFFICES ASSUME NEW i \in 1..n, NEW j \in 1..n, i # j
               PROVE  s[i] # s[j]
    OBVIOUS
  <2>1. s[i] \in Int /\ s[j] \in Int /\ (i < j => s[i] < s[j]) /\ (j < i => s[j] < s[i])
    BY <1>1 DEF Increasing
  <2> QED
    BY <2>1
<1>3. s \in Surjection(1..n, S)
  <2>1. \A x \in S : \E i \in 1..n : s[i] = x
    BY <1>1 DEF ToSet
  <2> HIDE DEF S, n
  <2> QED
    BY <1>1, <2>1 DEF Surjection
<1>4. s \in Injection(1..n, S)
  <2> HIDE DEF S, n
  <2> QED
    BY <1>1, <1>2 DEF Injection, IsInjective
<1>5. IsFiniteSet(1..n) /\ Cardinality(1..n) = n
  <2>1. PICK c \in Nat : c = n
    BY <1>1
  <2>2. IsFiniteSet(1..c) /\ Cardinality(1..c) = IF 1 > c THEN 0 ELSE c - 1 + 1
    BY FS_Interval
  <2> QED
    BY <2>1, <2>2
<1>6. IsFiniteSet(S) /\ Cardinality(S) = n
  <2> HIDE DEF S, n
  <2> QED
    BY <1>3, <1>4, <1>5, FS_Surjection
<1>7. PICK A : A = Ascending(S)
  OBVIOUS
<1>8. /\ DOMAIN A = 1..n /\ A \in [1..n -> S]
      /\ \A i \in 1..n : Cardinality(Below(S, A[i])) = i - 1
  <2> HIDE DEF S, n
  <2> QED
    BY <1>1, <1>6, <1>7, AscendingIs
<1>9. ASSUME NEW k \in 1..n
      PROVE  Cardinality(Below(S, s[k])) = k - 1
  <2> DEFINE B == Below(S, s[k])
             I == 1..(k - 1)
             g == [i \in I |-> s[i]]
  <2>1. ASSUME NEW i \in I
        PROVE  i \in 1..n /\ s[i] \in B
    <3>1. i \in 1..n /\ i < k /\ k \in 1..n
      BY <1>1
    <3>2. s[i] < s[k] /\ s[i] \in S
      BY <1>1, <3>1 DEF Increasing
    <3> HIDE DEF S
    <3> QED
      BY <3>1, <3>2 DEF Below
  <2>2. \A x \in B : \E i \in I : s[i] = x
    <3> SUFFICES ASSUME NEW x \in B
                 PROVE  \E i \in I : s[i] = x
      OBVIOUS
    <3>1. PICK i \in 1..n : s[i] = x
      BY <1>1 DEF Below, ToSet
    <3>2. x < s[k] /\ x \in Int /\ s[k] \in Int
      BY <1>1 DEF Below
    <3>3. i # k /\ ~(k < i)
      BY <1>1, <3>1, <3>2 DEF Increasing
    <3> QED
      BY <3>1, <3>3
  <2>3. g \in Surjection(I, B)
    <3>1. g \in [I -> B]
      <4> HIDE DEF B, I
      <4> QED
        BY <2>1
    <3>2. \A x \in B : \E i \in I : g[i] = x
      <4> HIDE DEF B, I
      <4> QED
        BY <2>2
    <3> HIDE DEF g, B, I
    <3> QED
      BY <3>1, <3>2 DEF Surjection
  <2>4. g \in Injection(I, B)
    <3>1. g \in [I -> B]
      <4> HIDE DEF B, I
      <4> QED
        BY <2>1
    <3>2. \A i, j \in I : g[i] = g[j] => i = j
      <4> HIDE DEF B, I
      <4> QED
        BY <2>1, <1>2
    <3> HIDE DEF g, B, I
    <3> QED
      BY <3>1, <3>2 DEF Injection, IsInjective
  <2>5. IsFiniteSet(I) /\ Cardinality(I) = k - 1
    <3>1. PICK c \in Nat : c = k - 1
      BY <1>1
    <3>2. IsFiniteSet(1..c) /\ Cardinality(1..c) = IF 1 > c THEN 0 ELSE c - 1 + 1
      BY FS_Interval
    <3> QED
      BY <3>1, <3>2
  <2> HIDE DEF g, B, I
  <2>6. Cardinality(B) = Cardinality(I)
    BY <2>3, <2>4, <2>5, FS_Surjection
  <2> QED
    BY <2>5, <2>6 DEF B
<1>10. ASSUME NEW k \in 1..n
       PROVE  A[k] = s[k]
  <2>1. A[k] \in S /\ s[k] \in S /\ A[k] \in Int /\ s[k] \in Int
    BY <1>1, <1>8
  <2>2. Cardinality(Below(S, A[k])) = Cardinality(Below(S, s[k]))
    BY <1>8, <1>9
  <2>3. Cardinality(Below(S, s[k])) \in Int
    BY <1>9
  <2>4. ~(A[k] < s[k]) /\ ~(s[k] < A[k])
    <3> HIDE DEF S, n
    <3> QED
      BY <1>1, <1>6, <2>1, <2>2, <2>3, RanksFill
  <2> QED
    BY <2>1, <2>4
<1> HIDE DEF S, n
<1>11. s = A
  BY <1>1, <1>8, <1>10
<1> QED
  BY <1>6, <1>7, <1>11 DEF S

-----------------------------------------------------------------------------
(* Merging.                                                                *)
CursorsLeft(a, b) == [at \in Cursors(a, b) |-> Len(a) + Len(b) + 2 - at[1] - at[2]]

LEMMA CursorsAre ==
  ASSUME NEW a \in Seq(Int), NEW b \in Seq(Int)
  PROVE  /\ Len(a) \in Nat /\ Len(b) \in Nat
         /\ \A x \in Cursors(a, b) : /\ x[1] \in 1..(Len(a) + 1) /\ x[2] \in 1..(Len(b) + 1)
                                     /\ x = <<x[1], x[2]>>
         /\ \A i \in 1..(Len(a) + 1), j \in 1..(Len(b) + 1) :
              /\ <<i, j>> \in Cursors(a, b)
              /\ CursorsLeft(a, b)[<<i, j>>] = Len(a) + Len(b) + 2 - i - j
         /\ CursorsLeft(a, b) \in [Cursors(a, b) -> Nat]
         /\ \A x \in Cursors(a, b) : CursorsLeft(a, b)[x] < Len(a) + Len(b) + 1
<1>1. Len(a) \in Nat /\ Len(b) \in Nat
  OBVIOUS
<1>2. \A x \in Cursors(a, b) : /\ x[1] \in 1..(Len(a) + 1) /\ x[2] \in 1..(Len(b) + 1)
                               /\ x = <<x[1], x[2]>>
  BY DEF Cursors
<1>3. \A i \in 1..(Len(a) + 1), j \in 1..(Len(b) + 1) :
        /\ <<i, j>> \in Cursors(a, b)
        /\ CursorsLeft(a, b)[<<i, j>>] = Len(a) + Len(b) + 2 - i - j
  BY DEF Cursors, CursorsLeft
<1>4. ASSUME NEW x \in Cursors(a, b)
      PROVE  /\ CursorsLeft(a, b)[x] \in Nat
             /\ CursorsLeft(a, b)[x] < Len(a) + Len(b) + 1
  <2>1. CursorsLeft(a, b)[x] = Len(a) + Len(b) + 2 - x[1] - x[2]
    BY <1>2, <1>3
  <2> QED
    BY <1>1, <1>2, <2>1
<1>5. CursorsLeft(a, b) \in [Cursors(a, b) -> Nat]
  <2>1. CursorsLeft(a, b) = [x \in Cursors(a, b) |-> CursorsLeft(a, b)[x]]
    BY DEF CursorsLeft
  <2> QED
    BY <1>4, <2>1
<1> QED
  BY <1>1, <1>2, <1>3, <1>4, <1>5

LEMMA CursorsMove ==
  ASSUME NEW a \in Seq(Int), NEW b \in Seq(Int),
         NEW i \in 1..Len(a), NEW j \in 1..Len(b),
         NEW n \in {<<i + 1, j>>, <<i, j + 1>>, <<i + 1, j + 1>>}
  PROVE  /\ <<i, j>> \in Cursors(a, b) /\ n \in Cursors(a, b)
         /\ CursorsLeft(a, b)[n] < CursorsLeft(a, b)[<<i, j>>]
<1>1. PICK la \in Nat : la = Len(a)
  OBVIOUS
<1>2. PICK lb \in Nat : lb = Len(b)
  OBVIOUS
<1>3. \A p \in 1..(la + 1), q \in 1..(lb + 1) :
        /\ <<p, q>> \in Cursors(a, b)
        /\ CursorsLeft(a, b)[<<p, q>>] = la + lb + 2 - p - q
  BY <1>1, <1>2, CursorsAre
<1>4. ASSUME NEW k \in i..(i + 1), NEW m \in j..(j + 1)
      PROVE  /\ <<k, m>> \in Cursors(a, b)
             /\ CursorsLeft(a, b)[<<k, m>>] = la + lb + 2 - k - m
  <2>1. k \in 1..(la + 1) /\ m \in 1..(lb + 1)
    BY <1>1, <1>2
  <2> QED
    BY <1>3, <2>1
<1>5. /\ i \in i..(i + 1) /\ i + 1 \in i..(i + 1)
      /\ j \in j..(j + 1) /\ j + 1 \in j..(j + 1)
  OBVIOUS
<1>6. /\ <<i, j>> \in Cursors(a, b) /\ <<i + 1, j>> \in Cursors(a, b)
      /\ <<i, j + 1>> \in Cursors(a, b) /\ <<i + 1, j + 1>> \in Cursors(a, b)
  BY <1>4, <1>5
<1>7. /\ CursorsLeft(a, b)[<<i, j>>] = la + lb + 2 - i - j
      /\ CursorsLeft(a, b)[<<i + 1, j>>] = la + lb + 2 - (i + 1) - j
      /\ CursorsLeft(a, b)[<<i, j + 1>>] = la + lb + 2 - i - (j + 1)
      /\ CursorsLeft(a, b)[<<i + 1, j + 1>>] = la + lb + 2 - (i + 1) - (j + 1)
  BY <1>4, <1>5, Zenon
<1>8. /\ la + lb + 2 - (i + 1) - j < la + lb + 2 - i - j
      /\ la + lb + 2 - i - (j + 1) < la + lb + 2 - i - j
      /\ la + lb + 2 - (i + 1) - (j + 1) < la + lb + 2 - i - j
  OBVIOUS
<1> QED
  BY <1>6, <1>7, <1>8, Zenon

MergesFrom(out, a, b) ==
  out = [at \in Cursors(a, b) |->
           LET i == at[1]
               j == at[2]
           IN  IF i > Len(a) \/ j > Len(b) THEN SubSeq(a, i, Len(a)) \o SubSeq(b, j, Len(b))
               ELSE IF a[i] < b[j] THEN <<a[i]>> \o out[<<i + 1, j>>]
               ELSE IF a[i] > b[j] THEN <<b[j]>> \o out[<<i, j + 1>>]
               ELSE <<a[i]>> \o out[<<i + 1, j + 1>>]]

MergeCases(out, a, b) ==
  \A i \in 1..(Len(a) + 1), j \in 1..(Len(b) + 1) :
    /\ i > Len(a) \/ j > Len(b) =>
         out[<<i, j>>] = SubSeq(a, i, Len(a)) \o SubSeq(b, j, Len(b))
    /\ i <= Len(a) /\ j <= Len(b) =>
         /\ a[i] < b[j] => out[<<i, j>>] = <<a[i]>> \o out[<<i + 1, j>>]
         /\ a[i] > b[j] => out[<<i, j>>] = <<b[j]>> \o out[<<i, j + 1>>]
         /\ a[i] = b[j] => out[<<i, j>>] = <<a[i]>> \o out[<<i + 1, j + 1>>]

LEMMA MergeUnfolds ==
  ASSUME NEW a \in Seq(Int), NEW b \in Seq(Int)
  PROVE  \E out : MergeSortedUint32(a, b) = out[<<1, 1>>] /\ MergeCases(out, a, b)
<1> DEFINE D == Cursors(a, b)
           V == Seq(Int)
           Ends == {x \in D : x[1] > Len(a) \/ x[2] > Len(b)}
           last == [x \in Ends |-> SubSeq(a, x[1], Len(a)) \o SubSeq(b, x[2], Len(b))]
           next == [x \in D \ Ends |->
                      IF a[x[1]] < b[x[2]] THEN <<x[1] + 1, x[2]>>
                      ELSE IF a[x[1]] > b[x[2]] THEN <<x[1], x[2] + 1>>
                      ELSE <<x[1] + 1, x[2] + 1>>]
           taken(x) == IF a[x[1]] < b[x[2]] THEN a[x[1]]
                       ELSE IF a[x[1]] > b[x[2]] THEN b[x[2]] ELSE a[x[1]]
           step == [p \in D \X V |-> <<taken(p[1])>> \o p[2]]
           mu == CursorsLeft(a, b)
<1>1. Len(a) \in Nat /\ Len(b) \in Nat
  OBVIOUS
<1>2. \A x \in D : /\ x[1] \in 1..(Len(a) + 1) /\ x[2] \in 1..(Len(b) + 1)
                   /\ x = <<x[1], x[2]>>
  BY CursorsAre
<1>3. \A x \in D \ Ends : x[1] \in 1..Len(a) /\ x[2] \in 1..Len(b)
                          /\ a[x[1]] \in Int /\ b[x[2]] \in Int
  <2> SUFFICES ASSUME NEW x \in D \ Ends
               PROVE  x[1] \in 1..Len(a) /\ x[2] \in 1..Len(b)
                      /\ a[x[1]] \in Int /\ b[x[2]] \in Int
    OBVIOUS
  <2>1. x[1] \in 1..Len(a) /\ x[2] \in 1..Len(b)
    BY <1>1, <1>2
  <2> QED
    BY <2>1
<1>4. last \in [Ends -> V]
  <2>1. ASSUME NEW x \in Ends
        PROVE  SubSeq(a, x[1], Len(a)) \o SubSeq(b, x[2], Len(b)) \in V
    <3>1. x[1] \in 1..(Len(a) + 1) /\ x[2] \in 1..(Len(b) + 1)
      BY <1>2
    <3>2. SubSeq(a, x[1], Len(a)) \in V /\ SubSeq(b, x[2], Len(b)) \in V
      BY <1>1, <3>1
    <3> QED
      BY <3>2
  <2> QED
    BY <2>1
<1>5. next \in [D \ Ends -> D]
  <2>1. ASSUME NEW x \in D \ Ends
        PROVE  /\ <<x[1] + 1, x[2]>> \in D
               /\ <<x[1], x[2] + 1>> \in D
               /\ <<x[1] + 1, x[2] + 1>> \in D
    <3>1. x[1] \in 1..Len(a) /\ x[2] \in 1..Len(b)
      BY <1>3
    <3> QED
      BY <1>1, <3>1 DEF Cursors
  <2> HIDE DEF D, Ends
  <2> QED
    BY <2>1
<1>6. \A x \in D \ Ends, v \in V : step[<<x, v>>] = <<taken(x)>> \o v /\ step[<<x, v>>] \in V
  <2> SUFFICES ASSUME NEW x \in D \ Ends, NEW v \in V
               PROVE  step[<<x, v>>] = <<taken(x)>> \o v /\ step[<<x, v>>] \in V
    OBVIOUS
  <2>1. taken(x) \in Int
    BY <1>3
  <2>2. step[<<x, v>>] = <<taken(x)>> \o v
    <3> HIDE DEF taken
    <3> QED
      OBVIOUS
  <2> HIDE DEF taken, step
  <2>3. <<taken(x)>> \o v \in V
    BY <2>1
  <2> QED
    BY <2>2, <2>3
<1>7. \A x \in D \ Ends : mu[next[x]] < mu[x]
  <2> SUFFICES ASSUME NEW x \in D \ Ends
               PROVE  mu[next[x]] < mu[x]
    OBVIOUS
  <2>1. x[1] \in 1..Len(a) /\ x[2] \in 1..Len(b)
    BY <1>3
  <2>2. x = <<x[1], x[2]>>
    BY <1>2
  <2>3. next[x] \in {<<x[1] + 1, x[2]>>, <<x[1], x[2] + 1>>, <<x[1] + 1, x[2] + 1>>}
    OBVIOUS
  <2> HIDE DEF next, D, Ends
  <2>4. mu[next[x]] < mu[<<x[1], x[2]>>]
    BY <2>1, <2>3, CursorsMove
  <2> HIDE DEF mu
  <2> QED
    BY <2>2, <2>4
<1>8. PICK f \in [D -> V] : Follows(f, D, Ends, last, next, step)
  <2>1. mu \in [D -> Nat] /\ Len(a) + Len(b) + 1 \in Nat
        /\ \A x \in D : mu[x] < Len(a) + Len(b) + 1
    BY CursorsAre
  <2>2. <<>> \in V /\ Ends \subseteq D
    OBVIOUS
  <2>3. \A x \in D \ Ends, v \in V : step[<<x, v>>] \in V
    BY <1>6
  <2> HIDE DEF D, V, Ends, last, next, step, mu
  <2>4. Descends(D, V, Ends, last, next, step, mu, Len(a) + Len(b) + 1)
    BY <1>4, <1>5, <1>7, <2>1, <2>2, <2>3 DEF Descends
  <2> QED
    BY <2>4, RecursionExists
<1> DEFINE G(g, x) == IF x[1] > Len(a) \/ x[2] > Len(b)
                      THEN SubSeq(a, x[1], Len(a)) \o SubSeq(b, x[2], Len(b))
                      ELSE IF a[x[1]] < b[x[2]] THEN <<a[x[1]]>> \o g[<<x[1] + 1, x[2]>>]
                      ELSE IF a[x[1]] > b[x[2]] THEN <<b[x[2]]>> \o g[<<x[1], x[2] + 1>>]
                      ELSE <<a[x[1]]>> \o g[<<x[1] + 1, x[2] + 1>>]
<1>9. ASSUME NEW x \in D
      PROVE  f[x] = G(f, x)
  <2>1. CASE x \in Ends
    <3>1. f[x] = SubSeq(a, x[1], Len(a)) \o SubSeq(b, x[2], Len(b))
      BY <1>8, <2>1 DEF Follows
    <3> QED
      BY <2>1, <3>1
  <2>2. CASE x \notin Ends
    <3>1. f[x] = <<taken(x)>> \o f[next[x]]
      <4> HIDE DEF step, taken, next, Ends, D, V
      <4> QED
        BY <1>5, <1>6, <1>8, <2>2 DEF Follows
    <3>2. next[x] = IF a[x[1]] < b[x[2]] THEN <<x[1] + 1, x[2]>>
                    ELSE IF a[x[1]] > b[x[2]] THEN <<x[1], x[2] + 1>>
                    ELSE <<x[1] + 1, x[2] + 1>>
      BY <2>2
    <3>3. ~(x[1] > Len(a) \/ x[2] > Len(b))
      BY <2>2
    <3> HIDE DEF next, Ends
    <3> QED
      BY ONLY <3>1, <3>2, <3>3
  <2> QED
    BY <2>1, <2>2
<1>10. MergesFrom(f, a, b)
  <2>1. f = [x \in D |-> G(f, x)]
    <3> HIDE DEF G, D, V
    <3> QED
      BY <1>8, <1>9
  <2> QED
    BY <2>1 DEF MergesFrom
<1> HIDE DEF D, V, Ends, last, next, step, mu, G
<1> DEFINE P(g) == MergesFrom(g, a, b)
           out == CHOOSE g : P(g)
<1>11. MergesFrom(out, a, b)
  <2>1. \E g : P(g)
    BY <1>10
  <2>2. P(out)
    <3> HIDE DEF P
    <3> QED
      BY <2>1, Zenon
  <2> QED
    BY <2>2
<1>12. MergeSortedUint32(a, b) = out[<<1, 1>>]
  BY Zenon DEF MergeSortedUint32, MergesFrom
<1> HIDE DEF P, out
<1>13. PICK g : g = out
  OBVIOUS
<1>14. g = [x \in D |-> G(g, x)]
  <2>1. MergesFrom(g, a, b)
    BY <1>11, <1>13
  <2> QED
    BY <2>1 DEF MergesFrom, G, D
<1>15. \A x \in D : g[x] = G(g, x)
  BY <1>14
<1>16. ASSUME NEW i \in 1..(Len(a) + 1), NEW j \in 1..(Len(b) + 1)
       PROVE  /\ i > Len(a) \/ j > Len(b) =>
                   g[<<i, j>>] = SubSeq(a, i, Len(a)) \o SubSeq(b, j, Len(b))
              /\ i <= Len(a) /\ j <= Len(b) =>
                   /\ a[i] < b[j] => g[<<i, j>>] = <<a[i]>> \o g[<<i + 1, j>>]
                   /\ a[i] > b[j] => g[<<i, j>>] = <<b[j]>> \o g[<<i, j + 1>>]
                   /\ a[i] = b[j] => g[<<i, j>>] = <<a[i]>> \o g[<<i + 1, j + 1>>]
  <2>1. PICK x \in D : x = <<i, j>> /\ x[1] = i /\ x[2] = j
    <3>1. <<i, j>> \in D
      BY CursorsAre DEF D
    <3> QED
      BY <3>1
  <2>2. g[<<i, j>>] = IF i > Len(a) \/ j > Len(b)
                      THEN SubSeq(a, i, Len(a)) \o SubSeq(b, j, Len(b))
                      ELSE IF a[i] < b[j] THEN <<a[i]>> \o g[<<i + 1, j>>]
                      ELSE IF a[i] > b[j] THEN <<b[j]>> \o g[<<i, j + 1>>]
                      ELSE <<a[i]>> \o g[<<i + 1, j + 1>>]
    BY <1>15, <2>1 DEF G
  <2>3. i <= Len(a) => i \in 1..Len(a) /\ ~(i > Len(a)) /\ a[i] \in Int
    BY <1>1
  <2>4. j <= Len(b) => j \in 1..Len(b) /\ ~(j > Len(b)) /\ b[j] \in Int
    BY <1>1
  <2>5. \A p, q \in Int : (p < q => ~(p > q)) /\ (p > q => ~(p < q)) /\ (p = q => ~(p < q) /\ ~(p > q))
    OBVIOUS
  <2> QED
    BY <2>2, <2>3, <2>4, <2>5, Zenon
<1>17. MergeSortedUint32(a, b) = g[<<1, 1>>]
  BY <1>12, <1>13
<1>18. MergeCases(g, a, b)
  BY <1>16, Zenon DEF MergeCases
<1> QED
  BY <1>17, <1>18

(* What is left of a list from an index on.                                *)
From(s, i) == {s[k] : k \in i..Len(s)}

LEMMA ConsIncreases ==
  ASSUME NEW h \in Int, NEW t \in Seq(Int), Increasing(t), \A y \in ToSet(t) : h < y
  PROVE  /\ <<h>> \o t \in Seq(Int)
         /\ Increasing(<<h>> \o t)
         /\ ToSet(<<h>> \o t) = {h} \cup ToSet(t)
<1>1. PICK s : s = <<h>> \o t
  OBVIOUS
<1>2. PICK n \in Nat : n = Len(t) /\ DOMAIN t = 1..n
  OBVIOUS
<1>3. s \in Seq(Int) /\ DOMAIN s = 1..(n + 1) /\ s[1] = h /\ \A k \in 2..(n + 1) : s[k] = t[k - 1]
  BY <1>1, <1>2
<1>4. \A k \in 1..(n + 1) : k = 1 \/ (k \in 2..(n + 1) /\ k - 1 \in 1..n)
  BY <1>2
<1>5. Increasing(s)
  <2> SUFFICES ASSUME NEW i \in 1..(n + 1), NEW j \in 1..(n + 1), i < j
               PROVE  s[i] < s[j]
    BY <1>3 DEF Increasing
  <2>1. j \in 2..(n + 1) /\ j - 1 \in 1..n
    BY <1>2
  <2>2. s[j] = t[j - 1] /\ t[j - 1] \in ToSet(t)
    BY <1>2, <1>3, <2>1 DEF ToSet
  <2>3. CASE i = 1
    BY <1>3, <2>2, <2>3
  <2>4. CASE i # 1
    <3>1. i \in 2..(n + 1) /\ i - 1 \in 1..n /\ i - 1 < j - 1
      BY <1>2, <2>4
    <3>2. t[i - 1] < t[j - 1]
      BY <1>2, <2>1, <3>1 DEF Increasing
    <3> QED
      BY <1>3, <2>2, <3>1, <3>2
  <2> QED
    BY <2>3, <2>4
<1>6. ToSet(s) = {h} \cup ToSet(t)
  <2>1. ASSUME NEW y \in ToSet(s)
        PROVE  y \in {h} \cup ToSet(t)
    <3>1. PICK k \in 1..(n + 1) : y = s[k]
      BY <1>3 DEF ToSet
    <3> QED
      BY <1>2, <1>3, <1>4, <3>1 DEF ToSet
  <2>2. h \in ToSet(s)
    <3>1. 1 \in 1..(n + 1)
      BY <1>2
    <3> QED
      BY <1>3, <3>1 DEF ToSet
  <2>3. ASSUME NEW y \in ToSet(t)
        PROVE  y \in ToSet(s)
    <3>1. PICK k \in 1..n : y = t[k]
      BY <1>2 DEF ToSet
    <3>2. k + 1 \in 2..(n + 1) /\ k + 1 \in 1..(n + 1) /\ (k + 1) - 1 = k
      BY <1>2
    <3>3. s[k + 1] = t[k]
      BY <1>3, <3>2
    <3> QED
      BY <1>3, <3>1, <3>2, <3>3 DEF ToSet
  <2> QED
    BY <2>1, <2>2, <2>3
<1> QED
  BY <1>1, <1>3, <1>5, <1>6

LEMMA FromIs ==
  ASSUME NEW s \in Seq(Int)
  PROVE  /\ Len(s) \in Nat
         /\ From(s, 1) = ToSet(s)
         /\ \A i \in 1..(Len(s) + 1) : From(s, i) \subseteq Int /\ (i > Len(s) => From(s, i) = {})
         /\ \A i \in 1..Len(s) : s[i] \in Int /\ From(s, i) = {s[i]} \cup From(s, i + 1)
         /\ Increasing(s) => \A i \in 1..Len(s) : \A y \in From(s, i + 1) : s[i] < y
<1>1. PICK n \in Nat : n = Len(s) /\ DOMAIN s = 1..n /\ \A k \in 1..n : s[k] \in Int
  OBVIOUS
<1>2. From(s, 1) = ToSet(s)
  BY <1>1 DEF From, ToSet
<1>3. ASSUME NEW i \in 1..(n + 1)
      PROVE  From(s, i) \subseteq Int /\ (i > n => From(s, i) = {})
  BY <1>1 DEF From
<1>4. ASSUME NEW i \in 1..n
      PROVE  From(s, i) = {s[i]} \cup From(s, i + 1)
  <2>1. \A k \in i..n : k = i \/ k \in (i + 1)..n
    BY <1>1
  <2>2. i \in i..n /\ \A k \in (i + 1)..n : k \in i..n
    BY <1>1
  <2> QED
    BY <1>1, <2>1, <2>2 DEF From
<1>5. ASSUME Increasing(s), NEW i \in 1..n, NEW y \in From(s, i + 1)
      PROVE  s[i] < y
  <2>1. PICK k \in (i + 1)..n : y = s[k]
    BY <1>1 DEF From
  <2>2. k \in 1..n /\ i < k
    BY <1>1
  <2> QED
    BY <1>1, <1>5, <2>1, <2>2 DEF Increasing
<1> QED
  BY <1>1, <1>2, <1>3, <1>4, <1>5

LEMMA RestIs ==
  ASSUME NEW s \in Seq(Int), Increasing(s), NEW i \in 1..(Len(s) + 1)
  PROVE  /\ SubSeq(s, i, Len(s)) \in Seq(Int)
         /\ Increasing(SubSeq(s, i, Len(s)))
         /\ ToSet(SubSeq(s, i, Len(s))) = From(s, i)
         /\ i > Len(s) => SubSeq(s, i, Len(s)) = <<>>
<1>1. PICK n \in Nat : n = Len(s) /\ DOMAIN s = 1..n /\ \A k \in 1..n : s[k] \in Int
  OBVIOUS
<1>2. PICK r : r = SubSeq(s, i, n)
  OBVIOUS
<1>3. PICK m \in Nat : m = n - i + 1
  <2>1. n - i + 1 \in Nat
    BY <1>1
  <2> QED
    BY <2>1
<1>4. r \in Seq(Int) /\ DOMAIN r = 1..m /\ \A k \in 1..m : r[k] = s[k + i - 1]
  BY <1>1, <1>2, <1>3
<1>5. \A k \in 1..m : k + i - 1 \in i..n /\ k + i - 1 \in 1..n
  BY <1>1, <1>3
<1>6. Increasing(r)
  <2> SUFFICES ASSUME NEW p \in 1..m, NEW q \in 1..m, p < q
               PROVE  r[p] < r[q]
    BY <1>4 DEF Increasing
  <2>1. p + i - 1 < q + i - 1
    BY <1>3
  <2>2. s[p + i - 1] < s[q + i - 1]
    BY <1>1, <1>5, <2>1 DEF Increasing
  <2> QED
    BY <1>4, <2>2
<1>7. ToSet(r) = From(s, i)
  <2>1. \A y \in ToSet(r) : y \in From(s, i)
    BY <1>1, <1>4, <1>5 DEF ToSet, From
  <2>2. ASSUME NEW y \in From(s, i)
        PROVE  y \in ToSet(r)
    <3>1. PICK k \in i..n : y = s[k]
      BY <1>1 DEF From
    <3>2. k - i + 1 \in 1..m /\ (k - i + 1) + i - 1 = k
      BY <1>1, <1>3
    <3>3. r[k - i + 1] = s[k]
      BY <1>4, <3>2
    <3> QED
      BY <1>4, <3>1, <3>2, <3>3 DEF ToSet
  <2> QED
    BY <2>1, <2>2
<1>8. i > n => r = <<>>
  <2> SUFFICES ASSUME i > n PROVE r = <<>>
    OBVIOUS
  <2>1. m = 0
    BY <1>1, <1>3
  <2> QED
    BY <1>4, <2>1
<1> QED
  BY <1>1, <1>2, <1>4, <1>6, <1>7, <1>8

(* The ascending list of a set.                                            *)
IsListOf(s, A) == s \in Seq(Int) /\ Increasing(s) /\ ToSet(s) = A

Precedes(h, A) == \A y \in A : h < y

LEMMA ConsLists ==
  ASSUME NEW h \in Int, NEW t, NEW A, NEW s, NEW B,
         IsListOf(t, A), Precedes(h, A), s = <<h>> \o t, B = {h} \cup A
  PROVE  IsListOf(s, B)
BY ConsIncreases DEF IsListOf, Precedes

(* Merging two ascending lists gives the ascending list of what is in      *)
(* either.                                                                 *)

LEMMA MergeIs ==
  ASSUME NEW a \in Seq(Int), NEW b \in Seq(Int), Increasing(a), Increasing(b)
  PROVE  IsListOf(MergeSortedUint32(a, b), ToSet(a) \cup ToSet(b))
<1>1. PICK out : MergeSortedUint32(a, b) = out[<<1, 1>>] /\ MergeCases(out, a, b)
  BY MergeUnfolds
<1> DEFINE Good == {x \in Cursors(a, b) :
                      IsListOf(out[x], From(a, x[1]) \cup From(b, x[2]))}
<1>2. ASSUME NEW x \in Cursors(a, b),
             \A y \in Cursors(a, b) : CursorsLeft(a, b)[y] < CursorsLeft(a, b)[x] => y \in Good
      PROVE  x \in Good
  <2>1. PICK i \in 1..(Len(a) + 1), j \in 1..(Len(b) + 1) :
          x = <<i, j>> /\ i = x[1] /\ j = x[2]
    BY CursorsAre
  <2>2. /\ Len(a) \in Nat /\ Len(b) \in Nat
        /\ i <= Len(a) => i \in 1..Len(a)
        /\ j <= Len(b) => j \in 1..Len(b)
    OBVIOUS
  <2> SUFFICES IsListOf(out[<<i, j>>], From(a, i) \cup From(b, j))
    BY <2>1
  <2>3. CASE i > Len(a)
    <3>1. out[<<i, j>>] = SubSeq(a, i, Len(a)) \o SubSeq(b, j, Len(b))
      BY <1>1, <2>3 DEF MergeCases
    <3>2. SubSeq(a, i, Len(a)) = <<>> /\ From(a, i) = {}
      BY <2>3, RestIs, FromIs
    <3>3. IsListOf(SubSeq(b, j, Len(b)), From(b, j))
      BY RestIs DEF IsListOf
    <3>4. <<>> \o SubSeq(b, j, Len(b)) = SubSeq(b, j, Len(b))
      BY <3>3, ConcatEmptySeq DEF IsListOf
    <3>5. From(a, i) \cup From(b, j) = From(b, j)
      BY <3>2
    <3> QED
      BY <3>1, <3>2, <3>3, <3>4, <3>5, Zenon
  <2>4. CASE j > Len(b)
    <3>1. out[<<i, j>>] = SubSeq(a, i, Len(a)) \o SubSeq(b, j, Len(b))
      BY <1>1, <2>4 DEF MergeCases
    <3>2. SubSeq(b, j, Len(b)) = <<>> /\ From(b, j) = {}
      BY <2>4, RestIs, FromIs
    <3>3. IsListOf(SubSeq(a, i, Len(a)), From(a, i))
      BY RestIs DEF IsListOf
    <3>4. SubSeq(a, i, Len(a)) \o <<>> = SubSeq(a, i, Len(a))
      BY <3>3, ConcatEmptySeq DEF IsListOf
    <3>5. From(a, i) \cup From(b, j) = From(a, i)
      BY <3>2
    <3> QED
      BY <3>1, <3>2, <3>3, <3>4, <3>5, Zenon
  <2>5. ASSUME i <= Len(a), j <= Len(b)
        PROVE  IsListOf(out[<<i, j>>], From(a, i) \cup From(b, j))
    <3>1. i \in 1..Len(a) /\ j \in 1..Len(b)
      BY <2>2, <2>5
    <3>2. /\ a[i] \in Int /\ From(a, i) = {a[i]} \cup From(a, i + 1)
          /\ \A y \in From(a, i + 1) : a[i] < y /\ y \in Int
      <4>1. i + 1 \in 1..(Len(a) + 1)
        BY <2>2, <3>1
      <4> QED
        BY <3>1, <4>1, FromIs
    <3>3. /\ b[j] \in Int /\ From(b, j) = {b[j]} \cup From(b, j + 1)
          /\ \A y \in From(b, j + 1) : b[j] < y /\ y \in Int
      <4>1. j + 1 \in 1..(Len(b) + 1)
        BY <2>2, <3>1
      <4> QED
        BY <3>1, <4>1, FromIs
    <3>4. /\ IsListOf(out[<<i + 1, j>>], From(a, i + 1) \cup From(b, j))
          /\ IsListOf(out[<<i, j + 1>>], From(a, i) \cup From(b, j + 1))
          /\ IsListOf(out[<<i + 1, j + 1>>], From(a, i + 1) \cup From(b, j + 1))
      <4>1. \A n \in {<<i + 1, j>>, <<i, j + 1>>, <<i + 1, j + 1>>} : n \in Good
        BY <1>2, <2>1, <3>1, CursorsMove
      <4> QED
        BY <4>1
    <3>5. CASE a[i] < b[j]
      <4>1. out[<<i, j>>] = <<a[i]>> \o out[<<i + 1, j>>]
        BY <1>1, <2>5, <3>5 DEF MergeCases
      <4>2. Precedes(a[i], From(a, i + 1) \cup From(b, j))
        BY <3>2, <3>3, <3>5 DEF Precedes
      <4>3. From(a, i) \cup From(b, j) = {a[i]} \cup (From(a, i + 1) \cup From(b, j))
        BY <3>2, <3>3, <3>5
      <4>4. IsListOf(out[<<i + 1, j>>], From(a, i + 1) \cup From(b, j))
        BY <3>4
      <4> QED
        BY <3>2, <3>3, <4>1, <4>2, <4>3, <4>4, ConsLists, Zenon
    <3>6. CASE a[i] > b[j]
      <4>1. out[<<i, j>>] = <<b[j]>> \o out[<<i, j + 1>>]
        BY <1>1, <2>5, <3>6 DEF MergeCases
      <4>2. Precedes(b[j], From(a, i) \cup From(b, j + 1))
        BY <3>2, <3>3, <3>6 DEF Precedes
      <4>3. From(a, i) \cup From(b, j) = {b[j]} \cup (From(a, i) \cup From(b, j + 1))
        BY <3>2, <3>3, <3>6
      <4>4. IsListOf(out[<<i, j + 1>>], From(a, i) \cup From(b, j + 1))
        BY <3>4
      <4> QED
        BY <3>2, <3>3, <4>1, <4>2, <4>3, <4>4, ConsLists, Zenon
    <3>7. CASE a[i] = b[j]
      <4>1. out[<<i, j>>] = <<a[i]>> \o out[<<i + 1, j + 1>>]
        BY <1>1, <2>5, <3>7 DEF MergeCases
      <4>2. Precedes(a[i], From(a, i + 1) \cup From(b, j + 1))
        BY <3>2, <3>3, <3>7 DEF Precedes
      <4>3. From(a, i) \cup From(b, j) = {a[i]} \cup (From(a, i + 1) \cup From(b, j + 1))
        BY <3>2, <3>3, <3>7
      <4>4. IsListOf(out[<<i + 1, j + 1>>], From(a, i + 1) \cup From(b, j + 1))
        BY <3>4
      <4> QED
        BY <3>2, <3>3, <4>1, <4>2, <4>3, <4>4, ConsLists, Zenon
    <3> QED
      BY <3>2, <3>3, <3>5, <3>6, <3>7
  <2> QED
    BY <2>2, <2>3, <2>4, <2>5
<1>3. Cursors(a, b) = Good
  <2>1. CursorsLeft(a, b) \in [Cursors(a, b) -> Nat] /\ Good \in SUBSET Cursors(a, b)
    BY CursorsAre
  <2> HIDE DEF Good
  <2>2. Passes(Cursors(a, b), CursorsLeft(a, b), Good)
    BY <1>2, <2>1 DEF Passes
  <2> QED
    BY <2>2, MeasureInduction, Zenon
<1>4. <<1, 1>> \in Cursors(a, b)
  <2>1. 1 \in 1..(Len(a) + 1) /\ 1 \in 1..(Len(b) + 1)
    OBVIOUS
  <2> QED
    BY <2>1, CursorsAre
<1>5. IsListOf(out[<<1, 1>>], From(a, 1) \cup From(b, 1))
  <2>1. PICK x \in Good : x = <<1, 1>>
    BY <1>3, <1>4
  <2>2. x[1] = 1 /\ x[2] = 1 /\ IsListOf(out[x], From(a, x[1]) \cup From(b, x[2]))
    BY <2>1
  <2> QED
    BY <2>1, <2>2
<1> QED
  BY <1>1, <1>5, FromIs

-----------------------------------------------------------------------------
(* Phrases.                                                                *)
FindsFrom(out, a, b, gap) ==
  out = [at \in Cursors(a, b) |->
           LET i == at[1]
               j == at[2]
           IN  IF i > Len(a) \/ j > Len(b) THEN <<>>
               ELSE IF b[j] = a[i] + gap THEN <<b[j]>> \o out[<<i + 1, j + 1>>]
               ELSE IF b[j] < a[i] + gap THEN out[<<i, j + 1>>]
               ELSE out[<<i + 1, j>>]]

FindCases(out, a, b, gap) ==
  \A i \in 1..(Len(a) + 1), j \in 1..(Len(b) + 1) :
    /\ i > Len(a) \/ j > Len(b) => out[<<i, j>>] = <<>>
    /\ i <= Len(a) /\ j <= Len(b) =>
         /\ b[j] = a[i] + gap => out[<<i, j>>] = <<b[j]>> \o out[<<i + 1, j + 1>>]
         /\ b[j] < a[i] + gap => out[<<i, j>>] = out[<<i, j + 1>>]
         /\ b[j] > a[i] + gap => out[<<i, j>>] = out[<<i + 1, j>>]

LEMMA FindUnfolds ==
  ASSUME NEW a \in Seq(Int), NEW b \in Seq(Int), NEW gap \in Int
  PROVE  \E out : FindWithGap(a, b, gap) = out[<<1, 1>>] /\ FindCases(out, a, b, gap)
<1> DEFINE D == Cursors(a, b)
           V == Seq(Int)
           Ends == {x \in D : x[1] > Len(a) \/ x[2] > Len(b)}
           last == [x \in Ends |-> <<>>]
           next == [x \in D \ Ends |->
                      IF b[x[2]] = a[x[1]] + gap THEN <<x[1] + 1, x[2] + 1>>
                      ELSE IF b[x[2]] < a[x[1]] + gap THEN <<x[1], x[2] + 1>>
                      ELSE <<x[1] + 1, x[2]>>]
           longer(x, v) == IF b[x[2]] = a[x[1]] + gap THEN <<b[x[2]]>> \o v ELSE v
           step == [p \in D \X V |-> longer(p[1], p[2])]
           mu == CursorsLeft(a, b)
<1>1. Len(a) \in Nat /\ Len(b) \in Nat
  OBVIOUS
<1>2. \A x \in D : /\ x[1] \in 1..(Len(a) + 1) /\ x[2] \in 1..(Len(b) + 1)
                   /\ x = <<x[1], x[2]>>
  BY CursorsAre
<1>3. \A x \in D \ Ends : x[1] \in 1..Len(a) /\ x[2] \in 1..Len(b)
                          /\ a[x[1]] \in Int /\ b[x[2]] \in Int
  <2> SUFFICES ASSUME NEW x \in D \ Ends
               PROVE  x[1] \in 1..Len(a) /\ x[2] \in 1..Len(b)
                      /\ a[x[1]] \in Int /\ b[x[2]] \in Int
    OBVIOUS
  <2>1. x[1] \in 1..Len(a) /\ x[2] \in 1..Len(b)
    BY <1>1, <1>2
  <2> QED
    BY <2>1
<1>4. last \in [Ends -> V]
  OBVIOUS
<1>5. next \in [D \ Ends -> D]
  <2>1. ASSUME NEW x \in D \ Ends
        PROVE  /\ <<x[1] + 1, x[2]>> \in D
               /\ <<x[1], x[2] + 1>> \in D
               /\ <<x[1] + 1, x[2] + 1>> \in D
    <3>1. x[1] \in 1..Len(a) /\ x[2] \in 1..Len(b)
      BY <1>3
    <3> QED
      BY <1>1, <3>1 DEF Cursors
  <2> HIDE DEF D, Ends
  <2> QED
    BY <2>1
<1>6. \A x \in D \ Ends, v \in V : step[<<x, v>>] = longer(x, v) /\ step[<<x, v>>] \in V
  <2> SUFFICES ASSUME NEW x \in D \ Ends, NEW v \in V
               PROVE  step[<<x, v>>] = longer(x, v) /\ step[<<x, v>>] \in V
    OBVIOUS
  <2>1. step[<<x, v>>] = longer(x, v)
    <3> HIDE DEF longer
    <3> QED
      OBVIOUS
  <2>2. <<b[x[2]]>> \o v \in V
    <3>1. PICK h \in Int : h = b[x[2]]
      BY <1>3
    <3> QED
      BY <3>1
  <2>3. longer(x, v) \in V
    BY <2>2
  <2> HIDE DEF longer, step
  <2> QED
    BY <2>1, <2>3
<1>7. \A x \in D \ Ends : mu[next[x]] < mu[x]
  <2> SUFFICES ASSUME NEW x \in D \ Ends
               PROVE  mu[next[x]] < mu[x]
    OBVIOUS
  <2>1. x[1] \in 1..Len(a) /\ x[2] \in 1..Len(b)
    BY <1>3
  <2>2. x = <<x[1], x[2]>>
    BY <1>2
  <2>3. next[x] \in {<<x[1] + 1, x[2]>>, <<x[1], x[2] + 1>>, <<x[1] + 1, x[2] + 1>>}
    OBVIOUS
  <2> HIDE DEF next, D, Ends
  <2>4. mu[next[x]] < mu[<<x[1], x[2]>>]
    BY <2>1, <2>3, CursorsMove
  <2> HIDE DEF mu
  <2> QED
    BY <2>2, <2>4
<1>8. PICK f \in [D -> V] : Follows(f, D, Ends, last, next, step)
  <2>1. mu \in [D -> Nat] /\ Len(a) + Len(b) + 1 \in Nat
        /\ \A x \in D : mu[x] < Len(a) + Len(b) + 1
    BY CursorsAre
  <2>2. <<>> \in V /\ Ends \subseteq D
    OBVIOUS
  <2>3. \A x \in D \ Ends, v \in V : step[<<x, v>>] \in V
    BY <1>6
  <2> HIDE DEF D, V, Ends, last, next, step, mu
  <2>4. Descends(D, V, Ends, last, next, step, mu, Len(a) + Len(b) + 1)
    BY <1>4, <1>5, <1>7, <2>1, <2>2, <2>3 DEF Descends
  <2> QED
    BY <2>4, RecursionExists
<1> DEFINE G(g, x) == IF x[1] > Len(a) \/ x[2] > Len(b) THEN <<>>
                      ELSE IF b[x[2]] = a[x[1]] + gap
                        THEN <<b[x[2]]>> \o g[<<x[1] + 1, x[2] + 1>>]
                      ELSE IF b[x[2]] < a[x[1]] + gap THEN g[<<x[1], x[2] + 1>>]
                      ELSE g[<<x[1] + 1, x[2]>>]
<1>9. ASSUME NEW x \in D
      PROVE  f[x] = G(f, x)
  <2>1. CASE x \in Ends
    <3>1. f[x] = <<>>
      BY <1>8, <2>1 DEF Follows
    <3> QED
      BY <2>1, <3>1
  <2>2. CASE x \notin Ends
    <3>1. f[x] = longer(x, f[next[x]])
      <4> HIDE DEF step, longer, next, Ends, D, V
      <4> QED
        BY <1>5, <1>6, <1>8, <2>2 DEF Follows
    <3>2. next[x] = IF b[x[2]] = a[x[1]] + gap THEN <<x[1] + 1, x[2] + 1>>
                    ELSE IF b[x[2]] < a[x[1]] + gap THEN <<x[1], x[2] + 1>>
                    ELSE <<x[1] + 1, x[2]>>
      BY <2>2
    <3>3. ~(x[1] > Len(a) \/ x[2] > Len(b))
      BY <2>2
    <3> HIDE DEF next, Ends
    <3> QED
      BY ONLY <3>1, <3>2, <3>3
  <2> QED
    BY <2>1, <2>2
<1>10. FindsFrom(f, a, b, gap)
  <2>1. f = [x \in D |-> G(f, x)]
    <3> HIDE DEF G, D, V
    <3> QED
      BY <1>8, <1>9
  <2> QED
    BY <2>1 DEF FindsFrom
<1> HIDE DEF D, V, Ends, last, next, step, mu, G
<1> DEFINE P(g) == FindsFrom(g, a, b, gap)
           out == CHOOSE g : P(g)
<1>11. FindsFrom(out, a, b, gap)
  <2>1. \E g : P(g)
    BY <1>10
  <2>2. P(out)
    <3> HIDE DEF P
    <3> QED
      BY <2>1, Zenon
  <2> QED
    BY <2>2
<1>12. FindWithGap(a, b, gap) = out[<<1, 1>>]
  BY Zenon DEF FindWithGap, FindsFrom
<1> HIDE DEF P, out
<1>13. PICK g : g = out
  OBVIOUS
<1>14. g = [x \in D |-> G(g, x)]
  <2>1. FindsFrom(g, a, b, gap)
    BY <1>11, <1>13
  <2> QED
    BY <2>1 DEF FindsFrom, G, D
<1>15. \A x \in D : g[x] = G(g, x)
  BY <1>14
<1>16. ASSUME NEW i \in 1..(Len(a) + 1), NEW j \in 1..(Len(b) + 1)
       PROVE  /\ i > Len(a) \/ j > Len(b) => g[<<i, j>>] = <<>>
              /\ i <= Len(a) /\ j <= Len(b) =>
                   /\ b[j] = a[i] + gap => g[<<i, j>>] = <<b[j]>> \o g[<<i + 1, j + 1>>]
                   /\ b[j] < a[i] + gap => g[<<i, j>>] = g[<<i, j + 1>>]
                   /\ b[j] > a[i] + gap => g[<<i, j>>] = g[<<i + 1, j>>]
  <2>1. PICK x \in D : x = <<i, j>> /\ x[1] = i /\ x[2] = j
    <3>1. <<i, j>> \in D
      BY CursorsAre DEF D
    <3> QED
      BY <3>1
  <2>2. g[<<i, j>>] = IF i > Len(a) \/ j > Len(b) THEN <<>>
                      ELSE IF b[j] = a[i] + gap THEN <<b[j]>> \o g[<<i + 1, j + 1>>]
                      ELSE IF b[j] < a[i] + gap THEN g[<<i, j + 1>>]
                      ELSE g[<<i + 1, j>>]
    BY <1>15, <2>1 DEF G
  <2>3. i <= Len(a) => i \in 1..Len(a) /\ ~(i > Len(a)) /\ a[i] \in Int
    BY <1>1
  <2>4. j <= Len(b) => j \in 1..Len(b) /\ ~(j > Len(b)) /\ b[j] \in Int
    BY <1>1
  <2>6. i <= Len(a) => a[i] + gap \in Int
    BY <2>3
  <2>5. \A p, q \in Int : (p < q => ~(p > q)) /\ (p > q => ~(p < q)) /\ (p = q => ~(p < q) /\ ~(p > q))
    OBVIOUS
  <2> QED
    BY <2>2, <2>3, <2>4, <2>5, <2>6, Zenon
<1>17. FindWithGap(a, b, gap) = g[<<1, 1>>]
  BY <1>12, <1>13
<1>18. FindCases(g, a, b, gap)
  BY <1>16, Zenon DEF FindCases
<1> QED
  BY <1>17, <1>18

Behind(A, B, gap) == {y \in B : y - gap \in A}

(* h is the least of A, the others are A1.                                 *)
Leads(h, A1, A) == h \in Int /\ A1 \subseteq Int /\ Precedes(h, A1) /\ A = {h} \cup A1

LEMMA BehindStep ==
  ASSUME NEW gap \in Int, NEW h, NEW k, NEW A, NEW B, NEW A1, NEW B1,
         Leads(h, A1, A), Leads(k, B1, B)
  PROVE  /\ k = h + gap \/ k < h + gap \/ k > h + gap
         /\ k = h + gap => Behind(A, B, gap) = {k} \cup Behind(A1, B1, gap)
         /\ k < h + gap => Behind(A, B, gap) = Behind(A, B1, gap)
         /\ k > h + gap => Behind(A, B, gap) = Behind(A1, B, gap)
<1> USE DEF Leads
<1>1. /\ k - gap \in Int /\ (k = h + gap <=> k - gap = h)
      /\ (k < h + gap <=> k - gap < h) /\ (k > h + gap <=> h < k - gap)
  OBVIOUS
<1>2. \A y \in A1 : y \in Int /\ h < y
  BY DEF Precedes
<1>3. \A y \in B1 : y \in Int /\ k < y /\ y - gap \in Int /\ k - gap < y - gap
  BY DEF Precedes
<1>4. ASSUME k = h + gap
      PROVE  Behind({h} \cup A1, {k} \cup B1, gap) = {k} \cup Behind(A1, B1, gap)
  <2>1. \A y \in B1 : y - gap # h
    BY <1>1, <1>3, <1>4
  <2>2. k - gap = h
    BY <1>1, <1>4
  <2> QED
    BY <2>1, <2>2 DEF Behind
<1>5. ASSUME k < h + gap
      PROVE  Behind({h} \cup A1, {k} \cup B1, gap) = Behind({h} \cup A1, B1, gap)
  <2>1. k - gap \notin {h} \cup A1
    BY <1>1, <1>2, <1>5
  <2> QED
    BY <2>1 DEF Behind
<1>6. ASSUME k > h + gap
      PROVE  Behind({h} \cup A1, {k} \cup B1, gap) = Behind(A1, {k} \cup B1, gap)
  <2>1. \A y \in {k} \cup B1 : y - gap # h
    BY <1>1, <1>3, <1>6
  <2> QED
    BY <2>1 DEF Behind
<1>7. k = h + gap \/ k < h + gap \/ k > h + gap
  OBVIOUS
<1> QED
  BY <1>4, <1>5, <1>6, <1>7

(* A step of the search: s from s1, s2 or s3.                              *)
FindsOn(gap, h, A1, A, k, B1, B, s, s1, s2, s3) ==
  /\ Leads(h, A1, A) /\ Leads(k, B1, B)
  /\ IsListOf(s1, Behind(A1, B1, gap))
  /\ IsListOf(s2, Behind(A, B1, gap))
  /\ IsListOf(s3, Behind(A1, B, gap))
  /\ k = h + gap => s = <<k>> \o s1
  /\ k < h + gap => s = s2
  /\ k > h + gap => s = s3

LEMMA FindStep ==
  ASSUME NEW gap \in Int, NEW h, NEW A1, NEW A, NEW k, NEW B1, NEW B,
         NEW s, NEW s1, NEW s2, NEW s3,
         FindsOn(gap, h, A1, A, k, B1, B, s, s1, s2, s3)
  PROVE  IsListOf(s, Behind(A, B, gap))
<1> USE DEF FindsOn
<1>1. CASE k = h + gap
  <2>1. Behind(A, B, gap) = {k} \cup Behind(A1, B1, gap)
    BY <1>1, BehindStep
  <2>2. k \in Int /\ Precedes(k, Behind(A1, B1, gap))
    BY DEF Leads, Precedes, Behind
  <2>3. IsListOf(s1, Behind(A1, B1, gap)) /\ s = <<k>> \o s1
    BY <1>1
  <2> QED
    BY <2>1, <2>2, <2>3, ConsLists
<1>2. CASE k < h + gap
  <2>1. Behind(A, B, gap) = Behind(A, B1, gap)
    BY <1>2, BehindStep
  <2> QED
    BY <1>2, <2>1
<1>3. CASE k > h + gap
  <2>1. Behind(A, B, gap) = Behind(A1, B, gap)
    BY <1>3, BehindStep
  <2> QED
    BY <1>3, <2>1
<1> QED
  BY <1>1, <1>2, <1>3, BehindStep

(* Of two ascending lists it finds what stands gap behind.                 *)
LEMMA FindCasesAre ==
  ASSUME NEW a \in Seq(Int), NEW b \in Seq(Int), NEW gap \in Int,
         Increasing(a), Increasing(b), NEW out, FindCases(out, a, b, gap)
  PROVE  IsListOf(out[<<1, 1>>], Behind(ToSet(a), ToSet(b), gap))
<1>1. FindCases(out, a, b, gap)
  OBVIOUS
<1> DEFINE Good == {x \in Cursors(a, b) : IsListOf(out[x], Behind(From(a, x[1]), From(b, x[2]), gap))}
<1>2. ASSUME NEW x \in Cursors(a, b),
             \A y \in Cursors(a, b) : CursorsLeft(a, b)[y] < CursorsLeft(a, b)[x] => y \in Good
      PROVE  x \in Good
  <2>1. PICK i \in 1..(Len(a) + 1), j \in 1..(Len(b) + 1) :
          x = <<i, j>> /\ i = x[1] /\ j = x[2]
    BY CursorsAre
  <2>2. /\ Len(a) \in Nat /\ Len(b) \in Nat
        /\ i <= Len(a) => i \in 1..Len(a)
        /\ j <= Len(b) => j \in 1..Len(b)
    OBVIOUS
  <2> SUFFICES IsListOf(out[<<i, j>>], Behind(From(a, i), From(b, j), gap))
    BY <2>1
  <2>3. CASE i > Len(a) \/ j > Len(b)
    <3>1. out[<<i, j>>] = <<>>
      BY <1>1, <2>3 DEF FindCases
    <3>2. From(a, i) = {} \/ From(b, j) = {}
      BY <2>3, FromIs
    <3>3. Behind(From(a, i), From(b, j), gap) = {}
      BY <3>2 DEF Behind
    <3>4. IsListOf(<<>>, {})
      BY DEF IsListOf, Increasing, ToSet
    <3> QED
      BY <3>1, <3>3, <3>4, Zenon
  <2>5. ASSUME i <= Len(a), j <= Len(b)
        PROVE  IsListOf(out[<<i, j>>], Behind(From(a, i), From(b, j), gap))
    <3>1. i \in 1..Len(a) /\ j \in 1..Len(b)
      BY <2>2, <2>5
    <3>2. /\ a[i] \in Int /\ From(a, i) = {a[i]} \cup From(a, i + 1)
          /\ \A y \in From(a, i + 1) : a[i] < y /\ y \in Int
      <4>1. i + 1 \in 1..(Len(a) + 1)
        BY <2>2, <3>1
      <4> QED
        BY <3>1, <4>1, FromIs
    <3>3. /\ b[j] \in Int /\ From(b, j) = {b[j]} \cup From(b, j + 1)
          /\ \A y \in From(b, j + 1) : b[j] < y /\ y \in Int
      <4>1. j + 1 \in 1..(Len(b) + 1)
        BY <2>2, <3>1
      <4> QED
        BY <3>1, <4>1, FromIs
    <3>4. /\ IsListOf(out[<<i + 1, j>>], Behind(From(a, i + 1), From(b, j), gap))
          /\ IsListOf(out[<<i, j + 1>>], Behind(From(a, i), From(b, j + 1), gap))
          /\ IsListOf(out[<<i + 1, j + 1>>], Behind(From(a, i + 1), From(b, j + 1), gap))
      <4>1. \A n \in {<<i + 1, j>>, <<i, j + 1>>, <<i + 1, j + 1>>} : n \in Good
        BY <1>2, <2>1, <3>1, CursorsMove
      <4> QED
        BY <4>1
    <3>8. /\ From(a, i + 1) \in SUBSET Int /\ From(b, j + 1) \in SUBSET Int
          /\ Precedes(a[i], From(a, i + 1)) /\ Precedes(b[j], From(b, j + 1))
      BY <3>2, <3>3 DEF Precedes
    <3>9. Leads(a[i], From(a, i + 1), From(a, i)) /\ Leads(b[j], From(b, j + 1), From(b, j))
      BY <3>2, <3>3, <3>8 DEF Leads
    <3>10. /\ b[j] = a[i] + gap => out[<<i, j>>] = <<b[j]>> \o out[<<i + 1, j + 1>>]
           /\ b[j] < a[i] + gap => out[<<i, j>>] = out[<<i, j + 1>>]
           /\ b[j] > a[i] + gap => out[<<i, j>>] = out[<<i + 1, j>>]
      BY <1>1, <2>5 DEF FindCases
    <3>11. FindsOn(gap, a[i], From(a, i + 1), From(a, i), b[j], From(b, j + 1), From(b, j),
                    out[<<i, j>>], out[<<i + 1, j + 1>>], out[<<i, j + 1>>], out[<<i + 1, j>>])
      BY <3>4, <3>9, <3>10, Zenon DEF FindsOn
    <3> QED
      BY <3>11, FindStep, Zenon
  <2> QED
    BY <2>2, <2>3, <2>5
<1>3. Cursors(a, b) = Good
  <2>1. CursorsLeft(a, b) \in [Cursors(a, b) -> Nat] /\ Good \in SUBSET Cursors(a, b)
    BY CursorsAre
  <2> HIDE DEF Good
  <2>2. Passes(Cursors(a, b), CursorsLeft(a, b), Good)
    BY <1>2, <2>1 DEF Passes
  <2> QED
    BY <2>2, MeasureInduction, Zenon
<1>4. <<1, 1>> \in Cursors(a, b)
  <2>1. 1 \in 1..(Len(a) + 1) /\ 1 \in 1..(Len(b) + 1)
    OBVIOUS
  <2> QED
    BY <2>1, CursorsAre
<1>5. IsListOf(out[<<1, 1>>], Behind(From(a, 1), From(b, 1), gap))
  <2>1. PICK x \in Good : x = <<1, 1>>
    BY <1>3, <1>4
  <2>2. x[1] = 1 /\ x[2] = 1 /\ IsListOf(out[x], Behind(From(a, x[1]), From(b, x[2]), gap))
    BY <2>1
  <2> QED
    BY <2>1, <2>2
<1> QED
  BY <1>5, FromIs, Zenon

LEMMA FindIs ==
  ASSUME NEW a \in Seq(Int), NEW b \in Seq(Int), NEW gap \in Int,
         Increasing(a), Increasing(b)
  PROVE  IsListOf(FindWithGap(a, b, gap), Behind(ToSet(a), ToSet(b), gap))
<1>1. PICK out : FindWithGap(a, b, gap) = out[<<1, 1>>] /\ FindCases(out, a, b, gap)
  BY FindUnfolds
<1>2. IsListOf(out[<<1, 1>>], Behind(ToSet(a), ToSet(b), gap))
  BY <1>1, FindCasesAre, Zenon
<1> QED
  BY <1>1, <1>2, Zenon

(* Of any two lists, be they ascending or not, it finds nothing else.      *)
Within(s, A) == s \in Seq(Int) /\ ToSet(s) \subseteq A

LEMMA ConsWithin ==
  ASSUME NEW h \in Int, NEW t, NEW A, Within(t, A), h \in A
  PROVE  Within(<<h>> \o t, A)
<1>1. PICK n \in Nat : n = Len(t) /\ DOMAIN t = 1..n /\ t \in Seq(Int)
  BY DEF Within
<1>2. PICK s : s = <<h>> \o t /\ s \in Seq(Int) /\ DOMAIN s = 1..(n + 1) /\ s[1] = h
               /\ \A k \in 2..(n + 1) : s[k] = t[k - 1]
  <2>1. PICK s : s = <<h>> \o t
    OBVIOUS
  <2>2. s \in Seq(Int) /\ Len(s) = n + 1
    BY <1>1, <2>1
  <2>3. DOMAIN s = 1..(n + 1)
    BY <2>2
  <2>4. s[1] = h
    BY <1>1, <2>1
  <2>5. ASSUME NEW k \in 2..(n + 1)
        PROVE  s[k] = t[k - 1]
    BY <1>1, <2>1
  <2> QED
    BY <2>1, <2>2, <2>3, <2>4, <2>5
<1>3. ASSUME NEW k \in 1..(n + 1) PROVE s[k] \in A
  <2>1. k # 1 => k \in 2..(n + 1) /\ k - 1 \in 1..n
    OBVIOUS
  <2>2. \A i \in 1..n : t[i] \in A
    BY <1>1 DEF Within, ToSet
  <2> QED
    BY <1>2, <2>1, <2>2
<1> QED
  BY <1>2, <1>3 DEF Within, ToSet

LEMMA FindWithin ==
  ASSUME NEW a \in Seq(Int), NEW b \in Seq(Int), NEW gap \in Int
  PROVE  Within(FindWithGap(a, b, gap), Behind(ToSet(a), ToSet(b), gap))
<1>1. PICK out : FindWithGap(a, b, gap) = out[<<1, 1>>] /\ FindCases(out, a, b, gap)
  BY FindUnfolds
<1>2. PICK A : A = Behind(ToSet(a), ToSet(b), gap)
  OBVIOUS
<1> DEFINE Good == {x \in Cursors(a, b) : Within(out[x], A)}
<1>3. ASSUME NEW x \in Cursors(a, b),
             \A y \in Cursors(a, b) : CursorsLeft(a, b)[y] < CursorsLeft(a, b)[x] => y \in Good
      PROVE  x \in Good
  <2>1. PICK i \in 1..(Len(a) + 1), j \in 1..(Len(b) + 1) :
          x = <<i, j>> /\ i = x[1] /\ j = x[2]
    BY CursorsAre
  <2>2. /\ Len(a) \in Nat /\ Len(b) \in Nat
        /\ i <= Len(a) => i \in 1..Len(a)
        /\ j <= Len(b) => j \in 1..Len(b)
    OBVIOUS
  <2> SUFFICES Within(out[<<i, j>>], A)
    BY <2>1
  <2>3. CASE i > Len(a) \/ j > Len(b)
    <3>1. out[<<i, j>>] = <<>>
      BY <1>1, <2>3 DEF FindCases
    <3>2. Within(<<>>, A)
      BY DEF Within, ToSet
    <3> QED
      BY <3>1, <3>2
  <2>4. ASSUME i <= Len(a), j <= Len(b)
        PROVE  Within(out[<<i, j>>], A)
    <3>1. i \in 1..Len(a) /\ j \in 1..Len(b)
      BY <2>2, <2>4
    <3>2. PICK h \in Int, k \in Int : h = a[i] /\ k = b[j] /\ h \in ToSet(a) /\ k \in ToSet(b)
      <4>1. a[i] \in Int /\ b[j] \in Int
        BY <3>1
      <4>2. i \in DOMAIN a /\ j \in DOMAIN b
        BY <3>1
      <4>3. a[i] \in ToSet(a) /\ b[j] \in ToSet(b)
        BY <4>2 DEF ToSet
      <4> QED
        BY <4>1, <4>3
    <3>3. /\ Within(out[<<i + 1, j>>], A)
          /\ Within(out[<<i, j + 1>>], A)
          /\ Within(out[<<i + 1, j + 1>>], A)
      <4>1. \A n \in {<<i + 1, j>>, <<i, j + 1>>, <<i + 1, j + 1>>} : n \in Good
        BY <1>3, <2>1, <3>1, CursorsMove
      <4> QED
        BY <4>1
    <3>4. /\ k = h + gap => out[<<i, j>>] = <<k>> \o out[<<i + 1, j + 1>>]
          /\ k < h + gap => out[<<i, j>>] = out[<<i, j + 1>>]
          /\ k > h + gap => out[<<i, j>>] = out[<<i + 1, j>>]
      BY <1>1, <2>4, <3>2 DEF FindCases
    <3>5. k = h + gap => k \in A
      <4>1. k = h + gap => k - gap = h
        OBVIOUS
      <4> QED
        BY <1>2, <3>2, <4>1 DEF Behind
    <3>6. k = h + gap => Within(<<k>> \o out[<<i + 1, j + 1>>], A)
      BY <3>3, <3>5, ConsWithin
    <3>7. k = h + gap \/ k < h + gap \/ k > h + gap
      OBVIOUS
    <3> QED
      BY <3>3, <3>4, <3>6, <3>7, Zenon
  <2> QED
    BY <2>2, <2>3, <2>4
<1>4. Cursors(a, b) = Good
  <2>1. CursorsLeft(a, b) \in [Cursors(a, b) -> Nat] /\ Good \in SUBSET Cursors(a, b)
    BY CursorsAre
  <2> HIDE DEF Good
  <2>2. Passes(Cursors(a, b), CursorsLeft(a, b), Good)
    BY <1>3, <2>1 DEF Passes
  <2> QED
    BY <2>2, MeasureInduction, Zenon
<1>5. <<1, 1>> \in Cursors(a, b)
  <2>1. 1 \in 1..(Len(a) + 1) /\ 1 \in 1..(Len(b) + 1)
    OBVIOUS
  <2> QED
    BY <2>1, CursorsAre
<1>6. Within(out[<<1, 1>>], A)
  BY <1>4, <1>5
<1> QED
  BY <1>1, <1>2, <1>6, Zenon

-----------------------------------------------------------------------------
(* The encoding.                                                           *)

(* f has the joins of the first lists of ls, of elements of E.              *)
Joins(f, ls, E) ==
  /\ f[0] = <<>>
  /\ \A i \in 0..Len(ls) : f[i] \in Seq(E)
  /\ \A i \in 1..Len(ls) : f[i] = f[i - 1] \o ls[i]

JoinsFrom(f, ls) == f = [i \in 1..Len(ls) |-> IF i = 1 THEN ls[i] ELSE f[i - 1] \o ls[i]]

LEMMA JoinsExist ==
  ASSUME NEW E, NEW ls \in Seq(Seq(E)), ls # <<>>
  PROVE  \E f : JoinsFrom(f, ls)
<1> DEFINE n == Len(ls)
           D == 1..n
           V == Seq(E)
           Ends == {1}
           last == [x \in Ends |-> ls[x]]
           next == [x \in D \ Ends |-> x - 1]
           step == [p \in D \X V |-> p[2] \o ls[p[1]]]
           mu == [x \in D |-> x]
<1>1. n \in Nat /\ n >= 1 /\ 1 \in D /\ (\A x \in D : ls[x] \in V /\ x \in Nat)
  OBVIOUS
<1>2. last \in [Ends -> V] /\ mu \in [D -> Nat] /\ \A x \in D : mu[x] < n + 1
  BY <1>1
<1>3. \A x \in D \ Ends : x - 1 \in D /\ x - 1 < x
  BY <1>1
<1>4. next \in [D \ Ends -> D] /\ \A x \in D \ Ends : mu[next[x]] < mu[x] /\ next[x] = x - 1
  BY <1>3
<1>5. ASSUME NEW x \in D \ Ends, NEW v \in V
      PROVE  step[<<x, v>>] = v \o ls[x] /\ step[<<x, v>>] \in V
  <2>1. ls[x] \in V
    BY <1>1
  <2>2. v \o ls[x] \in V
    BY <2>1
  <2> HIDE DEF V, D
  <2>3. step[<<x, v>>] = v \o ls[x]
    OBVIOUS
  <2> QED
    BY <2>2, <2>3
<1>6. PICK f \in [D -> V] : Follows(f, D, Ends, last, next, step)
  <2>1. <<>> \in V /\ Ends \subseteq D
    BY <1>1
  <2>2. \A x \in D \ Ends, v \in V : step[<<x, v>>] \in V
    BY <1>5
  <2>3. n + 1 \in Nat
    BY <1>1
  <2> HIDE DEF n, D, V, Ends, last, next, step, mu
  <2>4. Descends(D, V, Ends, last, next, step, mu, n + 1)
    BY <1>2, <1>4, <2>1, <2>2, <2>3 DEF Descends
  <2> QED
    BY <2>4, RecursionExists
<1>7. ASSUME NEW x \in D
      PROVE  f[x] = IF x = 1 THEN ls[x] ELSE f[x - 1] \o ls[x]
  <2>1. CASE x = 1
    <3>1. f[x] = last[x]
      BY <1>6, <2>1 DEF Follows
    <3> QED
      BY <2>1, <3>1
  <2>2. CASE x # 1
    <3>1. x \in D \ Ends
      BY <2>2
    <3>2. f[x] = step[<<x, f[next[x]]>>] /\ f[next[x]] \in V /\ next[x] = x - 1
      <4> HIDE DEF D, V, Ends, next, step, last
      <4> QED
        BY <1>4, <1>6, <3>1 DEF Follows
    <3>3. step[<<x, f[x - 1]>>] = f[x - 1] \o ls[x]
      BY <1>5, <3>1, <3>2
    <3> HIDE DEF step
    <3> QED
      BY <2>2, <3>2, <3>3
  <2> QED
    BY <2>1, <2>2
<1>8. JoinsFrom(f, ls)
  <2> DEFINE e(x) == IF x = 1 THEN ls[x] ELSE f[x - 1] \o ls[x]
  <2>1. f = [x \in D |-> e(x)]
    <3> HIDE DEF e, D, V
    <3> QED
      BY <1>6, <1>7 DEF e
  <2> QED
    BY <2>1 DEF JoinsFrom
<1> QED
  BY <1>8

LEMMA FlattenJoins ==
  ASSUME NEW E, NEW ls \in Seq(Seq(E))
  PROVE  \E f : Joins(f, ls, E) /\ FlattenSeq(ls) = f[Len(ls)]
<1>1. Len(ls) \in Nat /\ <<>> \in Seq(E) /\ \A i \in 1..Len(ls) : ls[i] \in Seq(E)
  OBVIOUS
<1>2. CASE ls = <<>>
  <2>1. Len(ls) = 0 /\ FlattenSeq(ls) = <<>>
    BY <1>2 DEF FlattenSeq
  <2>2. PICK f : f = [i \in 0..0 |-> <<>>]
    OBVIOUS
  <2>3. f[0] = <<>> /\ \A i \in 0..0 : f[i] = <<>>
    BY <2>2
  <2>4. Joins(f, ls, E)
    <3>1. 0..Len(ls) = 0..0 /\ 1..Len(ls) = {} /\ 0 \in 0..0
      BY <2>1
    <3> QED
      BY <1>1, <2>3, <3>1, Zenon DEF Joins
  <2> QED
    BY <2>1, <2>3, <2>4
<1>3. CASE ls # <<>>
  <2>0. Len(ls) # 0 /\ Len(ls) \in 1..Len(ls)
    BY <1>1, <1>3
  <2> DEFINE P(g) == JoinsFrom(g, ls)
             out == CHOOSE g : P(g)
  <2>1. \E g : P(g)
    BY <1>3, JoinsExist
  <2>2. P(out)
    <3> HIDE DEF P
    <3> QED
      BY <2>1, Zenon
  <2>3. FlattenSeq(ls) = out[Len(ls)]
    BY <2>0, Zenon DEF FlattenSeq, JoinsFrom
  <2>4. PICK g : g = out
    OBVIOUS
  <2>5. JoinsFrom(g, ls) /\ FlattenSeq(ls) = g[Len(ls)]
    BY <2>2, <2>3, <2>4
  <2> HIDE DEF P, out
  <2>6. \A i \in 1..Len(ls) : g[i] = IF i = 1 THEN ls[i] ELSE g[i - 1] \o ls[i]
    BY <2>5, Zenon DEF JoinsFrom
  <2>7. PICK f : f = [i \in 0..Len(ls) |-> IF i = 0 THEN <<>> ELSE g[i]]
    OBVIOUS
  <2>8. f[0] = <<>> /\ \A i \in 1..Len(ls) : f[i] = g[i]
    BY <1>1, <2>7
  <2>9. ASSUME NEW i \in 1..Len(ls), f[i - 1] \in Seq(E)
        PROVE  f[i] = f[i - 1] \o ls[i] /\ f[i] \in Seq(E)
    <3>1. ls[i] \in Seq(E)
      BY <1>1
    <3>2. CASE i = 1
      <4>1. f[i] = ls[i] /\ f[i - 1] = <<>>
        BY <2>6, <2>8, <3>2
      <4>2. <<>> \o ls[i] = ls[i]
        BY <3>1, ConcatEmptySeq
      <4> QED
        BY <3>1, <4>1, <4>2
    <3>3. CASE i # 1
      <4>1. i - 1 \in 1..Len(ls)
        BY <1>1, <3>3
      <4>2. f[i] = f[i - 1] \o ls[i]
        BY <2>6, <2>8, <3>3, <4>1
      <4>3. f[i - 1] \o ls[i] \in Seq(E)
        BY <2>9, <3>1, ConcatProperties
      <4> QED
        BY <4>2, <4>3
    <3> QED
      BY <3>2, <3>3
  <2> DEFINE D == 0..Len(ls)
             Good == {i \in D : f[i] \in Seq(E)}
             mu == [i \in D |-> i]
  <2>10. D = Good
    <3>1. mu \in [D -> Nat] /\ Good \subseteq D
      BY <1>1
    <3>2. ASSUME NEW i \in D, \A y \in D : mu[y] < mu[i] => y \in Good
          PROVE  i \in Good
      <4>1. CASE i = 0
        BY <1>1, <2>8, <4>1
      <4>2. CASE i # 0
        <5>1. i - 1 \in D /\ mu[i - 1] < mu[i] /\ i \in 1..Len(ls)
          BY <1>1, <4>2
        <5>2. f[i - 1] \in Seq(E)
          BY <3>2, <5>1
        <5> QED
          BY <2>9, <5>1, <5>2
      <4> QED
        BY <4>1, <4>2
    <3> HIDE DEF D, Good, mu
    <3>3. Passes(D, mu, Good)
      BY <3>1, <3>2 DEF Passes
    <3> QED
      BY <3>3, MeasureInduction
  <2>11. \A i \in 1..Len(ls) : i - 1 \in D
    BY <1>1
  <2>12. \A i \in 1..Len(ls) : f[i] = f[i - 1] \o ls[i]
    BY <2>9, <2>10, <2>11
  <2>13. Joins(f, ls, E)
    BY <2>8, <2>10, <2>12 DEF Joins
  <2> QED
    BY <2>0, <2>5, <2>8, <2>13
<1> QED
  BY <1>2, <1>3

(* Where the elements of each list are in the join of all.                 *)
Placed(f, ls, k) ==
  /\ Len(f[k]) = Len(f[k - 1]) + Len(ls[k])
  /\ Len(f[k]) <= Len(f[Len(ls)])
  /\ \A y \in 1..Len(ls[k]) : f[Len(ls)][Len(f[k - 1]) + y] = ls[k][y]

LEMMA JoinsPlace ==
  ASSUME NEW E, NEW ls \in Seq(Seq(E)), NEW f, Joins(f, ls, E), NEW k \in 1..Len(ls)
  PROVE  Placed(f, ls, k)
<1>1. PICK n \in Nat : n = Len(ls) /\ \A i \in 1..n : ls[i] \in Seq(E)
  OBVIOUS
<1>2. /\ \A i \in 0..n : f[i] \in Seq(E)
      /\ \A i \in 1..n : f[i] = f[i - 1] \o ls[i]
  BY <1>1 DEF Joins
<1>3. ASSUME NEW i \in 1..n
      PROVE  /\ Len(f[i - 1]) \in Nat /\ Len(f[i]) \in Nat /\ Len(ls[i]) \in Nat
             /\ Len(f[i]) = Len(f[i - 1]) + Len(ls[i])
             /\ \A y \in 1..Len(f[i - 1]) : f[i][y] = f[i - 1][y]
             /\ \A y \in 1..Len(ls[i]) : f[i][Len(f[i - 1]) + y] = ls[i][y]
  <2>1. f[i - 1] \in Seq(E) /\ ls[i] \in Seq(E) /\ f[i] = f[i - 1] \o ls[i]
    <3>1. i - 1 \in 0..n
      BY <1>1
    <3> QED
      BY <1>1, <1>2, <3>1
  <2>2. PICK s \in Seq(E), t \in Seq(E) : s = f[i - 1] /\ t = ls[i]
    BY <2>1
  <2>3. /\ s \o t \in Seq(E) /\ Len(s \o t) = Len(s) + Len(t) /\ Len(s) \in Nat /\ Len(t) \in Nat
        /\ \A y \in 1..Len(s) : (s \o t)[y] = s[y]
        /\ \A y \in 1..Len(t) : (s \o t)[Len(s) + y] = t[y]
    OBVIOUS
  <2>4. s = f[i - 1] /\ t = ls[i] /\ s \o t = f[i]
    BY <2>1, <2>2
  <2>5. /\ Len(f[i - 1]) \in Nat /\ Len(ls[i]) \in Nat
        /\ Len(f[i]) = Len(f[i - 1]) + Len(ls[i])
    BY <2>3, <2>4, Zenon
  <2>6. \A y \in 1..Len(f[i - 1]) : f[i][y] = f[i - 1][y]
    BY <2>3, <2>4, Zenon
  <2>7. \A y \in 1..Len(ls[i]) : f[i][Len(f[i - 1]) + y] = ls[i][y]
    BY <2>3, <2>4, Zenon
  <2>8. Len(f[i]) \in Nat
    <3>1. \A p, q \in Nat : p + q \in Nat
      OBVIOUS
    <3> QED
      BY <2>5, <3>1, Zenon
  <2> QED
    BY <2>5, <2>6, <2>7, <2>8, Zenon
<1> DEFINE D == k..n
           Good == {m \in D : /\ Len(f[k]) <= Len(f[m])
                              /\ \A y \in 1..Len(f[k]) : f[m][y] = f[k][y]}
           mu == [m \in D |-> m]
<1>4. D = Good
  <2>1. mu \in [D -> Nat] /\ Good \subseteq D
    BY <1>1
  <2>2. ASSUME NEW m \in D, \A y \in D : mu[y] < mu[m] => y \in Good
        PROVE  m \in Good
    <3>0. k \in 1..n /\ m \in 1..n /\ Len(f[k]) \in Nat
      BY <1>1, <1>3
    <3>1. CASE m = k
      BY <3>0, <3>1
    <3>2. CASE m # k
      <4>1. m - 1 \in D /\ mu[m - 1] < mu[m] /\ m \in 1..n
        BY <1>1, <3>2
      <4>2. m - 1 \in Good
        BY <2>2, <4>1
      <4>3. Len(f[k]) <= Len(f[m - 1]) /\ \A y \in 1..Len(f[k]) : f[m - 1][y] = f[k][y]
        BY <4>2
      <4>4. /\ Len(f[m - 1]) \in Nat /\ Len(f[m]) \in Nat /\ Len(ls[m]) \in Nat
            /\ Len(f[m]) = Len(f[m - 1]) + Len(ls[m])
            /\ \A y \in 1..Len(f[m - 1]) : f[m][y] = f[m - 1][y]
        BY <1>3, <4>1
      <4>8. \A p, q, r, t \in Nat :
              (p <= q /\ r = q + t) => (p <= r /\ \A y \in 1..p : y \in 1..q)
        OBVIOUS
      <4>5. Len(f[k]) <= Len(f[m])
        BY <3>0, <4>3, <4>4, <4>8, Zenon
      <4>6. \A y \in 1..Len(f[k]) : y \in 1..Len(f[m - 1])
        BY <3>0, <4>3, <4>4, <4>8, Zenon
      <4>7. \A y \in 1..Len(f[k]) : f[m][y] = f[k][y]
        BY <4>3, <4>4, <4>6
      <4> QED
        BY <4>5, <4>7
    <3> QED
      BY <3>1, <3>2
  <2> HIDE DEF D, Good, mu
  <2>3. Passes(D, mu, Good)
    BY <2>1, <2>2 DEF Passes
  <2> QED
    BY <2>3, MeasureInduction
<1>5. Len(f[k]) <= Len(f[n]) /\ \A y \in 1..Len(f[k]) : f[n][y] = f[k][y]
  <2>1. n \in D
    BY <1>1
  <2>2. n \in Good
    BY <1>4, <2>1
  <2> QED
    BY <2>2
<1>6. /\ Len(f[k - 1]) \in Nat /\ Len(f[k]) \in Nat /\ Len(ls[k]) \in Nat
      /\ Len(f[k]) = Len(f[k - 1]) + Len(ls[k])
      /\ \A y \in 1..Len(ls[k]) : f[k][Len(f[k - 1]) + y] = ls[k][y]
  BY <1>1, <1>3
<1>7. \A y \in 1..Len(ls[k]) : Len(f[k - 1]) + y \in 1..Len(f[k])
  <2>1. \A p, q, r \in Nat : r = p + q => \A y \in 1..q : p + y \in 1..r
    OBVIOUS
  <2> QED
    BY <1>6, <2>1, Zenon
<1> HIDE DEF D, Good
<1> QED
  BY <1>1, <1>5, <1>6, <1>7 DEF Placed

(* Where the documents of an encoded list are: the k-th from off[k - 1] on. *)
Layout(data, pl, order, off) ==
  /\ data \in Seq(Nat) /\ data # <<>> /\ data[1] = Len(order)
  /\ off[0] = 2
  /\ \A k \in 0..Len(order) : off[k] \in 1..(Len(data) + 1)
  /\ \A k \in 1..Len(order) :
       /\ pl[order[k]] \in Seq(Nat)
       /\ off[k] = off[k - 1] + 2 + Len(pl[order[k]])
       /\ data[off[k - 1]] = order[k]
       /\ data[off[k - 1] + 1] = Len(pl[order[k]])
       /\ \A j \in 1..Len(pl[order[k]]) : data[off[k - 1] + 1 + j] = pl[order[k]][j]

LEMMA EncodeIs ==
  ASSUME NEW order \in Seq(Nat), NEW pl \in [ToSet(order) -> Seq(Nat)]
  PROVE  \E off : Layout(Encode(pl, order), pl, order, off)
<1>1. PICK n \in Nat : n = Len(order) /\ DOMAIN order = 1..n
  OBVIOUS
<1>2. \A k \in 1..n : order[k] \in Nat /\ pl[order[k]] \in Seq(Nat) /\ Len(pl[order[k]]) \in Nat
  BY <1>1 DEF ToSet
<1> DEFINE entry(i) == <<order[i], Len(pl[order[i]])>> \o pl[order[i]]
<1>3. PICK ls : ls = [i \in 1..n |-> entry(i)]
  OBVIOUS
<1>4. ASSUME NEW i \in 1..n
      PROVE  /\ ls[i] \in Seq(Nat) /\ Len(ls[i]) = 2 + Len(pl[order[i]])
             /\ ls[i][1] = order[i] /\ ls[i][2] = Len(pl[order[i]])
             /\ \A j \in 1..Len(pl[order[i]]) : ls[i][2 + j] = pl[order[i]][j]
  <2>1. PICK d \in Nat, s \in Seq(Nat) : d = order[i] /\ s = pl[order[i]]
    BY <1>2
  <2>2. ls[i] = <<d, Len(s)>> \o s
    BY <1>3, <2>1
  <2>3. Len(s) \in Nat
    OBVIOUS
  <2>4. PICK p \in Seq(Nat) : p = <<d, Len(s)>> /\ Len(p) = 2 /\ p[1] = d /\ p[2] = Len(s)
    <3>1. PICK m \in Nat : m = Len(s)
      BY <2>3
    <3>2. <<d, m>> \in Seq(Nat) /\ Len(<<d, m>>) = 2 /\ <<d, m>>[1] = d /\ <<d, m>>[2] = m
      OBVIOUS
    <3> QED
      BY <3>1, <3>2
  <2>5. /\ p \o s \in Seq(Nat) /\ Len(p \o s) = 2 + Len(s)
        /\ (p \o s)[1] = p[1] /\ (p \o s)[2] = p[2]
        /\ \A j \in 1..Len(s) : (p \o s)[2 + j] = s[j]
    BY <2>4
  <2> QED
    BY <2>1, <2>2, <2>4, <2>5
<1>5. ls \in Seq(Seq(Nat)) /\ Len(ls) = n
  <2> HIDE DEF entry
  <2>1. DOMAIN ls = 1..n /\ ls = [i \in 1..n |-> ls[i]]
    BY <1>3
  <2>2. ls \in [1..n -> Seq(Nat)]
    BY <1>4, <2>1
  <2> QED
    BY <1>1, <2>1, <2>2
<1>6. Encode(pl, order) = <<n>> \o FlattenSeq(ls)
  BY <1>1, <1>3 DEF Encode
<1>7. PICK f : Joins(f, ls, Nat) /\ FlattenSeq(ls) = f[n]
  BY <1>5, FlattenJoins
<1>8. PICK data : data = Encode(pl, order)
  OBVIOUS
<1>9. PICK flat \in Seq(Nat) : flat = f[n]
  <2>1. n \in 0..n
    BY <1>1
  <2> QED
    BY <1>5, <1>7, <2>1 DEF Joins
<1>10. /\ data \in Seq(Nat) /\ data # <<>> /\ data[1] = n
       /\ Len(data) = 1 + Len(flat) /\ Len(flat) \in Nat
       /\ \A x \in 1..Len(flat) : data[1 + x] = flat[x]
  <2>1. data = <<n>> \o flat
    BY <1>6, <1>7, <1>8, <1>9
  <2> QED
    BY <1>1, <2>1
<1>11. \A k \in 0..n : f[k] \in Seq(Nat) /\ Len(f[k]) \in Nat
  <2>1. \A k \in 0..n : f[k] \in Seq(Nat)
    BY <1>5, <1>7 DEF Joins
  <2>2. \A s \in Seq(Nat) : Len(s) \in Nat
    OBVIOUS
  <2> QED
    BY <2>1, <2>2, Zenon
<1>12. f[0] = <<>> /\ Len(f[0]) = 0
  BY <1>7 DEF Joins
<1>13. ASSUME NEW k \in 1..n
       PROVE  /\ k - 1 \in 0..n /\ k \in 0..n
              /\ Len(f[k]) = Len(f[k - 1]) + (2 + Len(pl[order[k]]))
              /\ Len(f[k]) <= Len(flat)
              /\ flat[Len(f[k - 1]) + 1] = order[k]
              /\ flat[Len(f[k - 1]) + 2] = Len(pl[order[k]])
              /\ \A j \in 1..Len(pl[order[k]]) : flat[Len(f[k - 1]) + (2 + j)] = pl[order[k]][j]
  <2>1. k - 1 \in 0..n /\ k \in 0..n
    BY <1>1
  <2>2. Placed(f, ls, k)
    BY <1>5, <1>7, JoinsPlace
  <2>3. /\ Len(f[k]) = Len(f[k - 1]) + Len(ls[k])
        /\ Len(f[k]) <= Len(flat)
        /\ \A y \in 1..Len(ls[k]) : flat[Len(f[k - 1]) + y] = ls[k][y]
    BY <1>5, <1>9, <2>2 DEF Placed
  <2>4. Len(pl[order[k]]) \in Nat
    BY <1>2
  <2>5. Len(ls[k]) = 2 + Len(pl[order[k]])
    BY <1>4
  <2>6. \A m \in Nat : 1 \in 1..(2 + m) /\ 2 \in 1..(2 + m) /\ \A j \in 1..m : 2 + j \in 1..(2 + m)
    OBVIOUS
  <2>7. 1 \in 1..Len(ls[k]) /\ 2 \in 1..Len(ls[k])
        /\ \A j \in 1..Len(pl[order[k]]) : 2 + j \in 1..Len(ls[k])
    BY <2>4, <2>5, <2>6
  <2>8. \A j \in 1..Len(pl[order[k]]) : flat[Len(f[k - 1]) + (2 + j)] = pl[order[k]][j]
    BY <1>4, <2>3, <2>7, Zenon
  <2> QED
    BY <1>4, <2>1, <2>3, <2>5, <2>7, <2>8, Zenon
<1>14. PICK off : off = [k \in 0..n |-> 2 + Len(f[k])]
  OBVIOUS
<1>15. \A k \in 0..n : off[k] = 2 + Len(f[k])
  BY <1>14
<1>16. \A k \in 0..n : Len(f[k]) <= Len(flat)
  <2> SUFFICES ASSUME NEW k \in 0..n PROVE Len(f[k]) <= Len(flat)
    OBVIOUS
  <2>1. CASE k = 0
    BY <1>10, <1>12, <2>1
  <2>2. CASE k # 0
    <3>1. k \in 1..n
      BY <1>1, <2>2
    <3> QED
      BY <1>13, <3>1, Zenon
  <2> QED
    BY <2>1, <2>2
<1>17. \A k \in 0..n : off[k] \in 1..(Len(data) + 1)
  <2>1. \A p, q, r \in Nat : (p <= q /\ r = 1 + q) => 2 + p \in 1..(r + 1)
    OBVIOUS
  <2>2. Len(data) \in Nat
    BY <1>10
  <2> QED
    BY <1>10, <1>11, <1>15, <1>16, <2>1, <2>2, Zenon
<1>18. off[0] = 2
  BY <1>1, <1>12, <1>15
<1>19. ASSUME NEW k \in 1..n
       PROVE  /\ off[k] = off[k - 1] + 2 + Len(pl[order[k]])
              /\ data[off[k - 1]] = order[k]
              /\ data[off[k - 1] + 1] = Len(pl[order[k]])
              /\ \A j \in 1..Len(pl[order[k]]) : data[off[k - 1] + 1 + j] = pl[order[k]][j]
  <2>1. PICK a \in Nat : a = Len(f[k - 1])
    BY <1>11, <1>13
  <2>2. PICK m \in Nat : m = Len(pl[order[k]])
    BY <1>2
  <2>3. off[k - 1] = 2 + a /\ off[k] = 2 + (a + (2 + m))
    BY <1>13, <1>15, <2>1, <2>2, Zenon
  <2>4. a + (2 + m) <= Len(flat)
    BY <1>13, <2>1, <2>2
  <2>5. \A j \in 1..m : a + (2 + j) \in 1..Len(flat) /\ 1 + (a + (2 + j)) = (2 + a) + 1 + j
    BY <1>10, <2>4
  <2>6. /\ a + 1 \in 1..Len(flat) /\ 1 + (a + 1) = 2 + a
        /\ a + 2 \in 1..Len(flat) /\ 1 + (a + 2) = (2 + a) + 1
    BY <1>10, <2>4
  <2>7. off[k] = off[k - 1] + 2 + m
    BY <2>3
  <2>8. data[2 + a] = flat[a + 1] /\ data[(2 + a) + 1] = flat[a + 2]
    BY <1>10, <2>6
  <2>9. \A j \in 1..m : data[(2 + a) + 1 + j] = flat[a + (2 + j)]
    BY <1>10, <2>5
  <2>10. flat[a + 1] = order[k] /\ flat[a + 2] = m
         /\ \A j \in 1..m : flat[a + (2 + j)] = pl[order[k]][j]
    BY <1>13, <2>1, <2>2, Zenon
  <2> QED
    BY <2>2, <2>3, <2>7, <2>8, <2>9, <2>10, Zenon
<1>20. Layout(data, pl, order, off)
  BY <1>1, <1>2, <1>10, <1>17, <1>18, <1>19, Zenon DEF Layout
<1> QED
  BY <1>8, <1>20

(* The places of the data, and how much is left from each.                 *)
Offsets(data) == Nat \X (1..(Len(data) + 1))

Beyond(data, off) ==
  IF off + 1 + data[off + 1] > Len(data) THEN Len(data) + 1 ELSE off + 2 + data[off + 1]

Got(data, off) ==
  [j \in 1..data[off + 1] |-> IF off + 1 + j <= Len(data) THEN data[off + 1 + j] ELSE 0]

Decodes(pl, data, i, off) ==
  IF i = data[1] \/ off + 1 > Len(data) THEN <<>>
  ELSE With(pl[<<i + 1, Beyond(data, off)>>], data[off], Got(data, off))

DecodesFrom(pl, data) ==
  pl = [at \in Offsets(data) |-> Decodes(pl, data, at[1], at[2])]

PostingLists == UNION {[S -> Seq(Nat)] : S \in SUBSET Nat}

LEMMA BeyondIsFurther ==
  ASSUME NEW data \in Seq(Nat), NEW off \in 1..(Len(data) + 1), ~(off + 1 > Len(data))
  PROVE  /\ data[off] \in Nat /\ data[off + 1] \in Nat
         /\ Beyond(data, off) \in 1..(Len(data) + 1)
         /\ off < Beyond(data, off)
         /\ Got(data, off) \in Seq(Nat)
<1>1. PICK n \in Nat : n = Len(data) /\ \A k \in 1..n : data[k] \in Nat
  OBVIOUS
<1>2. off \in 1..n /\ off + 1 \in 1..n
  BY <1>1
<1>3. PICK m \in Nat : m = data[off + 1]
  BY <1>1, <1>2
<1>4. Beyond(data, off) = IF off + 1 + m > n THEN n + 1 ELSE off + 2 + m
  BY <1>1, <1>3 DEF Beyond
<1>5. Beyond(data, off) \in 1..(n + 1) /\ off < Beyond(data, off)
  BY <1>2, <1>4
<1>6. Got(data, off) = [j \in 1..m |-> IF off + 1 + j <= n THEN data[off + 1 + j] ELSE 0]
  BY <1>1, <1>3 DEF Got
<1>7. ASSUME NEW j \in 1..m
      PROVE  (IF off + 1 + j <= n THEN data[off + 1 + j] ELSE 0) \in Nat
  <2>1. off + 1 + j <= n => off + 1 + j \in 1..n
    BY <1>2
  <2> QED
    BY <1>1, <2>1
<1>8. Got(data, off) \in [1..m -> Nat]
  BY <1>6, <1>7
<1> QED
  BY <1>1, <1>2, <1>5, <1>8

LEMMA DecodeUnfolds ==
  ASSUME NEW data \in Seq(Nat), data # <<>>
  PROVE  \E pl : /\ DecodePostingList(data) = pl[<<0, 2>>]
                 /\ \A i \in Nat, off \in 1..(Len(data) + 1) :
                      pl[<<i, off>>] = Decodes(pl, data, i, off)
<1> DEFINE D == Offsets(data)
           V == PostingLists
           Ends == {x \in D : x[1] = data[1] \/ x[2] + 1 > Len(data)}
           last == [x \in Ends |-> <<>>]
           next == [x \in D \ Ends |-> <<x[1] + 1, Beyond(data, x[2])>>]
           longer(x, v) == With(v, data[x[2]], Got(data, x[2]))
           step == [p \in D \X V |-> longer(p[1], p[2])]
           mu == [x \in D |-> Len(data) + 1 - x[2]]
<1>1. PICK n \in Nat : n = Len(data)
  OBVIOUS
<1>2. \A x \in D : x[1] \in Nat /\ x[2] \in 1..(n + 1) /\ x = <<x[1], x[2]>>
  BY <1>1 DEF Offsets
<1>3. ASSUME NEW x \in D \ Ends
      PROVE  /\ data[x[2]] \in Nat /\ Beyond(data, x[2]) \in 1..(n + 1)
             /\ x[2] < Beyond(data, x[2])
             /\ Got(data, x[2]) \in Seq(Nat)
  <2>1. x[2] \in 1..(Len(data) + 1) /\ ~(x[2] + 1 > Len(data))
    BY <1>1, <1>2
  <2> QED
    BY <1>1, <2>1, BeyondIsFurther
<1>4. <<>> \in V
  <2>1. <<>> \in [{} -> Seq(Nat)] /\ {} \in SUBSET Nat
    OBVIOUS
  <2> QED
    BY <2>1 DEF PostingLists
<1>5. last \in [Ends -> V]
  <2> HIDE DEF V, Ends
  <2> QED
    BY <1>4
<1>6. ASSUME NEW x \in D \ Ends
      PROVE  /\ <<x[1] + 1, Beyond(data, x[2])>> \in D
             /\ next[x] = <<x[1] + 1, Beyond(data, x[2])>>
  <2>1. x[1] + 1 \in Nat /\ Beyond(data, x[2]) \in 1..(Len(data) + 1)
    BY <1>1, <1>2, <1>3
  <2> HIDE DEF Ends
  <2> QED
    BY <2>1 DEF Offsets
<1>7. next \in [D \ Ends -> D]
  <2> HIDE DEF D, Ends
  <2> QED
    BY <1>6
<1>8. mu \in [D -> Nat] /\ \A x \in D : mu[x] < n + 1
  BY <1>1, <1>2
<1>9. \A x \in D \ Ends : mu[next[x]] < mu[x]
  <2> SUFFICES ASSUME NEW x \in D \ Ends
               PROVE  mu[next[x]] < mu[x]
    OBVIOUS
  <2>1. PICK y \in D : y = next[x] /\ y[2] = Beyond(data, x[2])
    BY <1>6
  <2>2. mu[y] = n + 1 - y[2] /\ mu[x] = n + 1 - x[2]
    BY <1>1
  <2>3. x[2] \in 1..(n + 1) /\ y[2] \in 1..(n + 1) /\ x[2] < y[2]
    BY <1>2, <1>3, <2>1
  <2> HIDE DEF mu, next, D, Ends
  <2>4. mu[y] < mu[x]
    BY <2>2, <2>3
  <2> QED
    BY <2>1, <2>4
<1>10. ASSUME NEW x \in D \ Ends, NEW v \in V
       PROVE  step[<<x, v>>] = longer(x, v) /\ step[<<x, v>>] \in V
  <2>1. step[<<x, v>>] = longer(x, v)
    <3> HIDE DEF longer, V, D, Ends
    <3> QED
      OBVIOUS
  <2>2. PICK S \in SUBSET Nat : v \in [S -> Seq(Nat)]
    BY DEF PostingLists
  <2>3. PICK d \in Nat, s \in Seq(Nat) : d = data[x[2]] /\ s = Got(data, x[2])
    BY <1>3
  <2>4. longer(x, v) = [e \in {d} \cup S |-> IF e \in S THEN v[e] ELSE s]
    <3>1. DOMAIN v = S
      BY <2>2
    <3> QED
      BY <2>3, <3>1 DEF With
  <2>5. [e \in {d} \cup S |-> IF e \in S THEN v[e] ELSE s] \in [{d} \cup S -> Seq(Nat)]
    BY <2>2
  <2>6. {d} \cup S \in SUBSET Nat
    OBVIOUS
  <2>7. longer(x, v) \in V
    BY <2>4, <2>5, <2>6 DEF PostingLists
  <2> HIDE DEF longer, step
  <2> QED
    BY <2>1, <2>7
<1>11. PICK f \in [D -> V] : Follows(f, D, Ends, last, next, step)
  <2>1. V # {} /\ Ends \subseteq D /\ n + 1 \in Nat
    BY <1>4
  <2>2. \A x \in D \ Ends, v \in V : step[<<x, v>>] \in V
    BY <1>10
  <2> HIDE DEF D, V, Ends, last, next, step, mu
  <2>3. Descends(D, V, Ends, last, next, step, mu, n + 1)
    BY <1>5, <1>7, <1>8, <1>9, <2>1, <2>2 DEF Descends
  <2> QED
    BY <2>3, RecursionExists
<1>12. ASSUME NEW x \in D
       PROVE  f[x] = Decodes(f, data, x[1], x[2])
  <2>1. CASE x \in Ends
    <3>1. f[x] = <<>>
      BY <1>11, <2>1 DEF Follows
    <3> QED
      BY <2>1, <3>1 DEF Decodes
  <2>2. CASE x \notin Ends
    <3>1. f[x] = longer(x, f[next[x]])
      <4> HIDE DEF step, longer, next, Ends, D, V
      <4> QED
        BY <1>7, <1>10, <1>11, <2>2 DEF Follows
    <3>2. next[x] = <<x[1] + 1, Beyond(data, x[2])>>
      BY <1>6, <2>2
    <3>3. ~(x[1] = data[1] \/ x[2] + 1 > Len(data))
      BY <2>2
    <3> HIDE DEF next, Ends
    <3> QED
      BY ONLY <3>1, <3>2, <3>3 DEF Decodes, longer
  <2> QED
    BY <2>1, <2>2
<1>13. DecodesFrom(f, data)
  <2> DEFINE e(x) == Decodes(f, data, x[1], x[2])
  <2>1. f = [x \in D |-> e(x)]
    <3> HIDE DEF e, D, V
    <3> QED
      BY <1>11, <1>12 DEF e
  <2> QED
    BY <2>1 DEF DecodesFrom
<1> HIDE DEF D, V, Ends, last, next, step, mu, longer
<1> DEFINE P(g) == DecodesFrom(g, data)
           out == CHOOSE g : P(g)
<1>14. DecodesFrom(out, data)
  <2>1. \E g : P(g)
    BY <1>13
  <2>2. P(out)
    <3> HIDE DEF P
    <3> QED
      BY <2>1, Zenon
  <2> QED
    BY <2>2
<1>15. DecodePostingList(data) = out[<<0, 2>>]
  BY Zenon DEF DecodePostingList, DecodesFrom, Decodes, Offsets, Beyond, Got
<1> HIDE DEF P, out
<1>16. PICK g : g = out
  OBVIOUS
<1>17. DecodesFrom(g, data)
  BY <1>14, <1>16
<1>18. ASSUME NEW i \in Nat, NEW off \in 1..(Len(data) + 1)
       PROVE  g[<<i, off>>] = Decodes(g, data, i, off)
  <2> DEFINE e(x) == Decodes(g, data, x[1], x[2])
  <2>1. g = [x \in Offsets(data) |-> e(x)]
    BY <1>17 DEF DecodesFrom
  <2>2. PICK x \in Offsets(data) : x = <<i, off>> /\ x[1] = i /\ x[2] = off
    <3>1. <<i, off>> \in Offsets(data)
      BY DEF Offsets
    <3> QED
      BY <3>1
  <2>3. g[x] = e(x)
    <3> HIDE DEF e
    <3> QED
      BY <2>1
  <2> QED
    BY <2>2, <2>3
<1>19. DecodePostingList(data) = g[<<0, 2>>]
  BY <1>15, <1>16
<1> QED
  BY <1>18, <1>19

(* A list without its first k documents.                                   *)
FromEntry(pl, order, k) == [e \in {order[m] : m \in (k + 1)..Len(order)} |-> pl[e]]

(* What is read of the k-th entry.                                         *)
ReadsEntry(data, pl, order, off, k) ==
  /\ off[k - 1] + 1 <= Len(data)
  /\ Beyond(data, off[k - 1]) = off[k]
  /\ data[off[k - 1]] = order[k]
  /\ Got(data, off[k - 1]) = pl[order[k]]

LEMMA EntryIs ==
  ASSUME NEW data, NEW pl, NEW order \in Seq(Nat), NEW off,
         Layout(data, pl, order, off), NEW k \in 1..Len(order)
  PROVE  ReadsEntry(data, pl, order, off, k)
<1>1. PICK n \in Nat : n = Len(data)
  BY DEF Layout
<1>2. PICK s \in Seq(Nat) : s = pl[order[k]]
  BY DEF Layout
<1>3. PICK m \in Nat : m = Len(s) /\ DOMAIN s = 1..m
  OBVIOUS
<1>4. k - 1 \in 0..Len(order) /\ k \in 0..Len(order)
  OBVIOUS
<1>5. PICK p \in Nat : p = off[k - 1] /\ p \in 1..(n + 1)
  <2>1. off[k - 1] \in 1..(n + 1)
    BY <1>1, <1>4, Zenon DEF Layout
  <2> QED
    BY <2>1
<1>6. off[k] = p + 2 + m /\ p + 2 + m \in 1..(n + 1)
  BY <1>1, <1>2, <1>3, <1>4, <1>5 DEF Layout
<1>7. data[p] = order[k] /\ data[p + 1] = m /\ \A j \in 1..m : data[p + 1 + j] = s[j]
  BY <1>2, <1>3, <1>5 DEF Layout
<1>8. p + 1 <= n /\ ~(p + 1 + m > n)
  BY <1>6
<1>9. Beyond(data, p) = p + 2 + m
  BY <1>1, <1>7, <1>8 DEF Beyond
<1>10. Got(data, p) = s
  <2>1. Got(data, p) = [j \in 1..m |-> IF p + 1 + j <= n THEN data[p + 1 + j] ELSE 0]
    BY <1>1, <1>7 DEF Got
  <2>2. \A j \in 1..m : (IF p + 1 + j <= n THEN data[p + 1 + j] ELSE 0) = s[j]
    BY <1>7, <1>8
  <2>3. s = [j \in 1..m |-> s[j]]
    BY <1>3
  <2> QED
    BY <2>1, <2>2, <2>3
<1> QED
  BY <1>1, <1>2, <1>5, <1>6, <1>7, <1>8, <1>9, <1>10 DEF ReadsEntry

LEMMA FromEntryIs ==
  ASSUME NEW pl, NEW order \in Seq(Nat), NEW k \in 1..Len(order)
  PROVE  With(FromEntry(pl, order, k), order[k], pl[order[k]]) = FromEntry(pl, order, k - 1)
<1> DEFINE S(i) == {order[m] : m \in (i + 1)..Len(order)}
<1>1. S(k - 1) = {order[k]} \cup S(k)
  <2>1. ((k - 1) + 1)..Len(order) = {k} \cup ((k + 1)..Len(order))
    OBVIOUS
  <2> QED
    BY <2>1
<1>2. PICK T : T = S(k)
  OBVIOUS
<1>3. PICK f : f = FromEntry(pl, order, k)
  OBVIOUS
<1>4. f = [e \in T |-> pl[e]]
  BY <1>2, <1>3 DEF FromEntry
<1>5. DOMAIN f = T /\ \A e \in T : f[e] = pl[e]
  BY <1>4
<1>6. With(f, order[k], pl[order[k]])
        = [e \in {order[k]} \cup T |-> IF e \in T THEN f[e] ELSE pl[order[k]]]
  BY <1>5 DEF With
<1>7. \A e \in {order[k]} \cup T : (IF e \in T THEN f[e] ELSE pl[order[k]]) = pl[e]
  BY <1>5
<1>8. With(f, order[k], pl[order[k]]) = [e \in {order[k]} \cup T |-> pl[e]]
  BY <1>6, <1>7
<1>9. FromEntry(pl, order, k - 1) = [e \in {order[k]} \cup T |-> pl[e]]
  BY <1>1, <1>2 DEF FromEntry
<1> QED
  BY <1>3, <1>8, <1>9

(* Decoding gives back the list that was encoded.                          *)
LEMMA DecodeIs ==
  ASSUME NEW order \in Seq(Nat), NEW pl \in [ToSet(order) -> Seq(Nat)]
  PROVE  DecodePostingList(Encode(pl, order)) = pl
<1>1. PICK off : Layout(Encode(pl, order), pl, order, off)
  BY EncodeIs
<1>2. PICK data : data = Encode(pl, order)
  OBVIOUS
<1>3. Layout(data, pl, order, off)
  BY <1>1, <1>2
<1>4. PICK n \in Nat : n = Len(order) /\ DOMAIN order = 1..n
  OBVIOUS
<1>5. data \in Seq(Nat) /\ data # <<>> /\ data[1] = n /\ off[0] = 2
      /\ \A k \in 0..n : off[k] \in 1..(Len(data) + 1)
  BY <1>3, <1>4 DEF Layout
<1>6. PICK g : /\ DecodePostingList(data) = g[<<0, 2>>]
               /\ \A i \in Nat, o \in 1..(Len(data) + 1) :
                    g[<<i, o>>] = Decodes(g, data, i, o)
  BY <1>5, DecodeUnfolds
<1> DEFINE D == 0..n
           mu == [k \in D |-> n - k]
           Good == {k \in D : g[<<k, off[k]>>] = FromEntry(pl, order, k)}
<1>7. ASSUME NEW k \in D, \A j \in D : mu[j] < mu[k] => j \in Good
      PROVE  k \in Good
  <2>1. g[<<k, off[k]>>] = Decodes(g, data, k, off[k])
    BY <1>5, <1>6
  <2>2. CASE k = n
    <3>1. g[<<k, off[k]>>] = <<>>
      BY <1>5, <2>1, <2>2 DEF Decodes
    <3>2. (k + 1)..Len(order) = {}
      BY <1>4, <2>2
    <3>3. FromEntry(pl, order, k) = <<>>
      <4>1. PICK T : T = {order[m] : m \in (k + 1)..Len(order)}
        OBVIOUS
      <4>2. T = {}
        BY <3>2, <4>1
      <4>3. FromEntry(pl, order, k) = [e \in T |-> pl[e]]
        BY <4>1 DEF FromEntry
      <4> QED
        BY <4>2, <4>3
    <3> QED
      BY <3>1, <3>3
  <2>3. CASE k # n
    <3>1. PICK i \in 1..Len(order) : i = k + 1 /\ i \in D /\ i - 1 = k /\ mu[i] < mu[k]
      <4>1. k + 1 \in 1..n /\ k + 1 \in D /\ (k + 1) - 1 = k
        BY <2>3
      <4>2. mu[k + 1] = n - (k + 1) /\ mu[k] = n - k
        BY <4>1
      <4>3. mu[k + 1] < mu[k]
        <5> HIDE DEF mu
        <5> QED
          BY <4>1, <4>2
      <4> HIDE DEF mu, D
      <4> QED
        BY <1>4, <4>1, <4>3
    <3>2. g[<<k + 1, off[i]>>] = FromEntry(pl, order, i)
      BY <1>7, <3>1
    <3>3. /\ off[k] + 1 <= Len(data) /\ Beyond(data, off[k]) = off[i]
          /\ data[off[k]] = order[i] /\ Got(data, off[k]) = pl[order[i]]
      <4> HIDE DEF mu, D
      <4>1. ReadsEntry(data, pl, order, off, i)
        BY <1>3, EntryIs, Zenon
      <4> QED
        BY <3>1, <4>1 DEF ReadsEntry
    <3>4. ~(k = data[1] \/ off[k] + 1 > Len(data))
      BY <1>5, <2>3, <3>3
    <3>5. g[<<k, off[k]>>] = With(FromEntry(pl, order, i), order[i], pl[order[i]])
      <4>1. Decodes(g, data, k, off[k])
              = With(g[<<k + 1, Beyond(data, off[k])>>], data[off[k]], Got(data, off[k]))
        BY ONLY <3>4 DEF Decodes
      <4> QED
        BY <2>1, <3>2, <3>3, <4>1
    <3>6. g[<<k, off[k]>>] = FromEntry(pl, order, k)
      BY <3>1, <3>5, FromEntryIs
    <3> QED
      BY <3>6
  <2> QED
    BY <2>2, <2>3
<1>8. D = Good
  <2>1. mu \in [D -> Nat] /\ Good \subseteq D
    BY <1>4
  <2>2. \A k \in D : (\A j \in D : mu[j] < mu[k] => j \in Good) => k \in Good
    <3> HIDE DEF D, mu, Good
    <3> QED
      BY <1>7
  <2> HIDE DEF D, mu, Good
  <2>3. Passes(D, mu, Good)
    BY <2>1, <2>2 DEF Passes
  <2> QED
    BY <2>3, MeasureInduction
<1>9. g[<<0, 2>>] = FromEntry(pl, order, 0)
  <2>1. 0 \in D
    BY <1>4
  <2>2. 0 \in Good
    BY <1>8, <2>1
  <2> QED
    BY <1>5, <2>2
<1>10. FromEntry(pl, order, 0) = pl
  <2>1. ToSet(order) = {order[m] : m \in (0 + 1)..Len(order)}
    BY <1>4 DEF ToSet
  <2>2. pl = [e \in ToSet(order) |-> pl[e]]
    OBVIOUS
  <2> QED
    BY <2>1, <2>2 DEF FromEntry
<1> QED
  BY <1>2, <1>6, <1>9, <1>10

LEMMA EmptyList ==
  ASSUME NEW S, NEW s \in Seq(S)
  PROVE  s # <<>> <=> ToSet(s) # {}
<1>1. PICK n \in Nat : n = Len(s) /\ DOMAIN s = 1..n
  OBVIOUS
<1>2. s # <<>> <=> n # 0
  BY <1>1, EmptySeq
<1>3. n # 0 <=> 1..n # {}
  <2>1. n # 0 => 1 \in 1..n
    OBVIOUS
  <2>2. n = 0 => 1..n = {}
    OBVIOUS
  <2> QED
    BY <2>1, <2>2
<1> QED
  BY <1>1, <1>2, <1>3 DEF ToSet

(* The lists of the m words of a phrase, and the gaps between them.        *)
PhraseLists(lists, words, m) ==
  /\ m \in Nat /\ DOMAIN words = 1..m
  /\ \A n \in 1..m : lists[n] \in Seq(Int) /\ words[n].gapBefore \in Int

Rising(lists, m) == \A n \in 1..m : Increasing(lists[n])

AnchorsFrom(f, lists, words) ==
  f = [n \in DOMAIN words |->
         IF n = 1 THEN lists[1] ELSE FindWithGap(f[n - 1], lists[n], words[n].gapBefore)]

AnchorCases(f, lists, words, m) ==
  \A n \in 1..m : /\ n = 1 => f[n] = lists[1]
                  /\ n # 1 => f[n] = FindWithGap(f[n - 1], lists[n], words[n].gapBefore)

(* MatchPhrase keeps the positions of each word that the words before it   *)
(* lead to.                                                                *)
LEMMA MatchUnfolds ==
  ASSUME NEW lists, NEW words, NEW m, PhraseLists(lists, words, m)
  PROVE  \E f : /\ AnchorCases(f, lists, words, m)
                /\ MatchPhrase(lists, words) <=> \A n \in (1..m) \ {1} : f[n] # <<>>
<1> DEFINE D == 1..m
           V == Seq(Int)
           Ends == D \cap {1}
           last == [x \in Ends |-> lists[x]]
           next == [x \in D \ Ends |-> x - 1]
           step == [p \in D \X V |-> FindWithGap(p[2], lists[p[1]], words[p[1]].gapBefore)]
           mu == [x \in D |-> x]
<1>1. m \in Nat /\ DOMAIN words = D
      /\ \A n \in D : lists[n] \in V /\ words[n].gapBefore \in Int
  BY DEF PhraseLists
<1>2. last \in [Ends -> V] /\ mu \in [D -> Nat] /\ \A x \in D : mu[x] < m + 1
  BY <1>1
<1>3. \A x \in D \ Ends : x - 1 \in D /\ x - 1 < x
  BY <1>1
<1>4. next \in [D \ Ends -> D] /\ \A x \in D \ Ends : mu[next[x]] < mu[x] /\ next[x] = x - 1
  BY <1>3
<1>5. ASSUME NEW x \in D, NEW v \in V
      PROVE  /\ step[<<x, v>>] = FindWithGap(v, lists[x], words[x].gapBefore)
             /\ step[<<x, v>>] \in V
  <2>1. lists[x] \in Seq(Int) /\ words[x].gapBefore \in Int
    BY <1>1
  <2>2. Within(FindWithGap(v, lists[x], words[x].gapBefore),
               Behind(ToSet(v), ToSet(lists[x]), words[x].gapBefore))
    BY <2>1, FindWithin
  <2>3. FindWithGap(v, lists[x], words[x].gapBefore) \in V
    BY <2>2 DEF Within
  <2> HIDE DEF V, D
  <2>4. step[<<x, v>>] = FindWithGap(v, lists[x], words[x].gapBefore)
    OBVIOUS
  <2> QED
    BY <2>3, <2>4
<1>6. PICK f \in [D -> V] : Follows(f, D, Ends, last, next, step)
  <2>1. <<>> \in V /\ Ends \subseteq D
    OBVIOUS
  <2>2. \A x \in D \ Ends, v \in V : step[<<x, v>>] \in V
    BY <1>5
  <2>3. m + 1 \in Nat
    BY <1>1
  <2> HIDE DEF D, V, Ends, last, next, step, mu
  <2>4. Descends(D, V, Ends, last, next, step, mu, m + 1)
    BY <1>2, <1>4, <2>1, <2>2, <2>3 DEF Descends
  <2> QED
    BY <2>4, RecursionExists
<1>7. ASSUME NEW x \in D
      PROVE  f[x] = IF x = 1 THEN lists[1]
                    ELSE FindWithGap(f[x - 1], lists[x], words[x].gapBefore)
  <2>1. CASE x = 1
    <3>1. f[x] = last[x]
      BY <1>6, <2>1 DEF Follows
    <3> QED
      BY <2>1, <3>1
  <2>2. CASE x # 1
    <3>1. x \in D \ Ends
      BY <2>2
    <3>2. f[x] = step[<<x, f[next[x]]>>] /\ f[next[x]] \in V /\ next[x] = x - 1
      <4> HIDE DEF D, V, Ends, next, step, last
      <4> QED
        BY <1>4, <1>6, <3>1 DEF Follows
    <3>3. step[<<x, f[x - 1]>>] = FindWithGap(f[x - 1], lists[x], words[x].gapBefore)
      BY <1>5, <3>1, <3>2
    <3> HIDE DEF step
    <3> QED
      BY <2>2, <3>2, <3>3
  <2> QED
    BY <2>1, <2>2
<1>8. AnchorsFrom(f, lists, words)
  <2> DEFINE e(x) == IF x = 1 THEN lists[1]
                     ELSE FindWithGap(f[x - 1], lists[x], words[x].gapBefore)
  <2>1. f = [x \in D |-> e(x)]
    <3> HIDE DEF e, D, V
    <3> QED
      BY <1>6, <1>7 DEF e
  <2> QED
    BY <1>1, <2>1 DEF AnchorsFrom
<1> HIDE DEF D, V, Ends, last, next, step, mu
<1> DEFINE P(g) == AnchorsFrom(g, lists, words)
           out == CHOOSE g : P(g)
<1>9. AnchorsFrom(out, lists, words)
  <2>1. \E g : P(g)
    BY <1>8
  <2>2. P(out)
    <3> HIDE DEF P
    <3> QED
      BY <2>1, Zenon
  <2> QED
    BY <2>2
<1>10. MatchPhrase(lists, words) <=> \A n \in DOMAIN words \ {1} : out[n] # <<>>
  BY Zenon DEF MatchPhrase, AnchorsFrom
<1> HIDE DEF P, out
<1>11. PICK g : g = out
  OBVIOUS
<1>12. AnchorsFrom(g, lists, words)
  BY <1>9, <1>11
<1>13. AnchorCases(g, lists, words, m)
  <2> DEFINE e(x) == IF x = 1 THEN lists[1]
                     ELSE FindWithGap(g[x - 1], lists[x], words[x].gapBefore)
  <2>1. g = [x \in D |-> e(x)]
    BY <1>1, <1>12 DEF AnchorsFrom
  <2>2. ASSUME NEW x \in D PROVE g[x] = e(x)
    <3> HIDE DEF e
    <3> QED
      BY <2>1
  <2>3. \A x \in D : /\ x = 1 => g[x] = lists[1]
                     /\ x # 1 => g[x] = FindWithGap(g[x - 1], lists[x], words[x].gapBefore)
    BY <2>2
  <2> QED
    BY <2>3 DEF AnchorCases, D
<1>14. MatchPhrase(lists, words) <=> \A n \in (1..m) \ {1} : g[n] # <<>>
  BY <1>1, <1>10, <1>11 DEF D
<1> QED
  BY <1>13, <1>14

(* The places of the n-th word of a phrase whose words stand at the        *)
(* distances of kept, the words before it included.                        *)
Chain(lists, kept, n) ==
  {p \in Int : \A i \in 1..n : p - kept[n] + kept[i] \in ToSet(lists[i])}

Gaps(words, kept, m) ==
  \A n \in 1..m : /\ kept[n] \in Int
                  /\ n # 1 => words[n].gapBefore = kept[n] - kept[n - 1]

LEMMA ChainStep ==
  ASSUME NEW lists, NEW words, NEW kept, NEW m, PhraseLists(lists, words, m),
         Gaps(words, kept, m), NEW n \in 1..m, n # 1
  PROVE  Chain(lists, kept, n)
           = Behind(Chain(lists, kept, n - 1), ToSet(lists[n]), words[n].gapBefore)
<1>1. m \in Nat /\ n - 1 \in 1..m /\ 1..n = (1..(n - 1)) \cup {n}
  BY DEF PhraseLists
<1>2. PICK k \in Int, j \in Int : k = kept[n] /\ j = kept[n - 1] /\ words[n].gapBefore = k - j
  BY <1>1 DEF Gaps
<1>3. \A i \in 1..n : kept[i] \in Int
  BY <1>1 DEF Gaps
<1>4. PICK A : A = ToSet(lists[n]) /\ A \subseteq Int
  <2>1. PICK s \in Seq(Int) : s = lists[n]
    BY DEF PhraseLists
  <2>2. ToSet(s) \subseteq Int
    BY DEF ToSet
  <2> QED
    BY <2>1, <2>2
<1>5. ASSUME NEW p \in Int
      PROVE  p \in Chain(lists, kept, n)
               <=> p \in A /\ p - (k - j) \in Chain(lists, kept, n - 1)
  <2>1. p - (k - j) \in Int /\ p - k + k = p
    OBVIOUS
  <2>2. \A i \in 1..(n - 1) : (p - (k - j)) - j + kept[i] = p - k + kept[i]
    BY <1>1, <1>3
  <2>3. p \in Chain(lists, kept, n) <=> \A i \in 1..n : p - k + kept[i] \in ToSet(lists[i])
    BY <1>2 DEF Chain
  <2>4. p - (k - j) \in Chain(lists, kept, n - 1)
          <=> \A i \in 1..(n - 1) : p - k + kept[i] \in ToSet(lists[i])
    <3>1. p - (k - j) \in Chain(lists, kept, n - 1)
            <=> \A i \in 1..(n - 1) : (p - (k - j)) - j + kept[i] \in ToSet(lists[i])
      BY <1>2, <2>1 DEF Chain
    <3> QED
      BY <2>2, <3>1, Zenon
  <2>5. p - k + kept[n] = p
    BY <1>2
  <2> QED
    BY <1>1, <1>4, <2>3, <2>4, <2>5, Zenon
<1>6. Behind(Chain(lists, kept, n - 1), A, k - j) = {y \in A : y - (k - j) \in Chain(lists, kept, n - 1)}
  BY DEF Behind
<1>7. Chain(lists, kept, n) \subseteq Int
  BY DEF Chain
<1>8. Chain(lists, kept, n) = {y \in A : y - (k - j) \in Chain(lists, kept, n - 1)}
  BY <1>4, <1>5, <1>7
<1> QED
  BY <1>2, <1>4, <1>6, <1>8

(* Of ascending lists, the anchors are the places that all the words up to *)
(* theirs lead to.                                                         *)
LEMMA AnchorsAre ==
  ASSUME NEW lists, NEW words, NEW kept, NEW m, PhraseLists(lists, words, m),
         Rising(lists, m), Gaps(words, kept, m),
         NEW f, AnchorCases(f, lists, words, m)
  PROVE  \A n \in 1..m : IsListOf(f[n], Chain(lists, kept, n))
<1> DEFINE D == 1..m
           mu == [n \in D |-> n]
           Good == {n \in D : IsListOf(f[n], Chain(lists, kept, n))}
<1>1. m \in Nat /\ \A n \in D : lists[n] \in Seq(Int) /\ Increasing(lists[n])
                                /\ words[n].gapBefore \in Int
  BY DEF PhraseLists, Rising
<1>2. ASSUME NEW n \in D, \A j \in D : mu[j] < mu[n] => j \in Good
      PROVE  n \in Good
  <2>1. CASE n = 1
    <3>1. f[n] = lists[1]
      BY <2>1 DEF AnchorCases
    <3>2. ToSet(lists[1]) \subseteq Int
      BY <1>1, <2>1 DEF ToSet
    <3>3. kept[1] \in Int
      BY <2>1 DEF Gaps
    <3>4. \A p \in Int : p - kept[1] + kept[1] = p
      BY <3>3
    <3>5. Chain(lists, kept, n) = {p \in Int : p \in ToSet(lists[1])}
      BY <2>1, <3>4 DEF Chain
    <3>6. Chain(lists, kept, n) = ToSet(lists[1])
      BY <3>2, <3>5
    <3>7. IsListOf(lists[1], ToSet(lists[1]))
      BY <1>1, <2>1 DEF IsListOf
    <3> QED
      BY <3>1, <3>6, <3>7
  <2>2. CASE n # 1
    <3>1. n - 1 \in D /\ mu[n - 1] < mu[n]
      BY <1>1, <2>2
    <3>2. IsListOf(f[n - 1], Chain(lists, kept, n - 1))
      <4> HIDE DEF D, mu
      <4> QED
        BY <1>2, <3>1
    <3>3. PICK a \in Seq(Int) : a = f[n - 1] /\ Increasing(a) /\ ToSet(a) = Chain(lists, kept, n - 1)
      BY <3>2 DEF IsListOf
    <3>4. f[n] = FindWithGap(a, lists[n], words[n].gapBefore)
      BY <2>2, <3>3 DEF AnchorCases
    <3>5. IsListOf(f[n], Behind(ToSet(a), ToSet(lists[n]), words[n].gapBefore))
      BY <1>1, <3>3, <3>4, FindIs
    <3>6. Chain(lists, kept, n)
            = Behind(Chain(lists, kept, n - 1), ToSet(lists[n]), words[n].gapBefore)
      BY <2>2, ChainStep
    <3> QED
      BY <3>3, <3>5, <3>6
  <2> QED
    BY <2>1, <2>2
<1>3. D = Good
  <2>1. mu \in [D -> Nat] /\ Good \subseteq D
    BY <1>1
  <2> HIDE DEF D, mu, Good
  <2>2. Passes(D, mu, Good)
    BY <1>2, <2>1 DEF Passes
  <2> QED
    BY <2>2, MeasureInduction
<1> QED
  BY <1>3

(* Of any lists, they are among these places.                              *)
LEMMA AnchorsWithin ==
  ASSUME NEW lists, NEW words, NEW kept, NEW m, PhraseLists(lists, words, m),
         Gaps(words, kept, m),
         NEW f, AnchorCases(f, lists, words, m)
  PROVE  \A n \in 1..m : Within(f[n], Chain(lists, kept, n))
<1> DEFINE D == 1..m
           mu == [n \in D |-> n]
           Good == {n \in D : Within(f[n], Chain(lists, kept, n))}
<1>1. m \in Nat /\ \A n \in D : lists[n] \in Seq(Int) /\ words[n].gapBefore \in Int
  BY DEF PhraseLists
<1>2. ASSUME NEW n \in D, \A j \in D : mu[j] < mu[n] => j \in Good
      PROVE  n \in Good
  <2>1. CASE n = 1
    <3>1. f[n] = lists[1]
      BY <2>1 DEF AnchorCases
    <3>2. ToSet(lists[1]) \subseteq Int
      BY <1>1, <2>1 DEF ToSet
    <3>3. kept[1] \in Int
      BY <2>1 DEF Gaps
    <3>4. \A p \in Int : p - kept[1] + kept[1] = p
      BY <3>3
    <3>5. Chain(lists, kept, n) = {p \in Int : p \in ToSet(lists[1])}
      BY <2>1, <3>4 DEF Chain
    <3>6. Chain(lists, kept, n) = ToSet(lists[1])
      BY <3>2, <3>5
    <3>7. Within(lists[1], ToSet(lists[1]))
      BY <1>1, <2>1 DEF Within
    <3> QED
      BY <3>1, <3>6, <3>7
  <2>2. CASE n # 1
    <3>1. n - 1 \in D /\ mu[n - 1] < mu[n]
      BY <1>1, <2>2
    <3>2. Within(f[n - 1], Chain(lists, kept, n - 1))
      <4> HIDE DEF D, mu
      <4> QED
        BY <1>2, <3>1
    <3>3. PICK a \in Seq(Int) : a = f[n - 1] /\ ToSet(a) \subseteq Chain(lists, kept, n - 1)
      BY <3>2 DEF Within
    <3>4. f[n] = FindWithGap(a, lists[n], words[n].gapBefore)
      BY <2>2, <3>3 DEF AnchorCases
    <3>5. Within(f[n], Behind(ToSet(a), ToSet(lists[n]), words[n].gapBefore))
      BY <1>1, <3>4, FindWithin
    <3>6. Behind(ToSet(a), ToSet(lists[n]), words[n].gapBefore)
            \subseteq Behind(Chain(lists, kept, n - 1), ToSet(lists[n]), words[n].gapBefore)
      BY <3>3 DEF Behind
    <3>7. Chain(lists, kept, n)
            = Behind(Chain(lists, kept, n - 1), ToSet(lists[n]), words[n].gapBefore)
      BY <2>2, ChainStep
    <3> QED
      BY <3>5, <3>6, <3>7 DEF Within
  <2> QED
    BY <2>1, <2>2
<1>3. D = Good
  <2>1. mu \in [D -> Nat] /\ Good \subseteq D
    BY <1>1
  <2> HIDE DEF D, mu, Good
  <2>2. Passes(D, mu, Good)
    BY <1>2, <2>1 DEF Passes
  <2> QED
    BY <2>2, MeasureInduction
<1> QED
  BY <1>3

(* With ascending lists, a phrase matches exactly if its last word has a   *)
(* place that all the words lead to.                                       *)
LEMMA MatchIs ==
  ASSUME NEW lists, NEW words, NEW kept, NEW m, PhraseLists(lists, words, m),
         Rising(lists, m), Gaps(words, kept, m), m # 0, lists[1] # <<>>
  PROVE  MatchPhrase(lists, words)
           <=> \E p \in Int : \A i \in 1..m : p - kept[m] + kept[i] \in ToSet(lists[i])
<1>1. PICK f : /\ AnchorCases(f, lists, words, m)
               /\ MatchPhrase(lists, words) <=> \A n \in (1..m) \ {1} : f[n] # <<>>
  BY MatchUnfolds
<1>2. \A n \in 1..m : IsListOf(f[n], Chain(lists, kept, n))
  BY <1>1, AnchorsAre
<1>3. m \in Nat /\ m \in 1..m /\ 1 \in 1..m
  BY DEF PhraseLists
<1>4. f[1] # <<>>
  BY <1>1, <1>3 DEF AnchorCases
<1>5. ASSUME NEW n \in 1..m
      PROVE  f[n] # <<>> <=> Chain(lists, kept, n) # {}
  <2>1. PICK s \in Seq(Int) : s = f[n] /\ ToSet(s) = Chain(lists, kept, n)
    BY <1>2 DEF IsListOf
  <2>2. s # <<>> <=> ToSet(s) # {}
    BY EmptyList
  <2> QED
    BY <2>1, <2>2
<1>6. ASSUME NEW n \in 1..m, Chain(lists, kept, m) # {}
      PROVE  Chain(lists, kept, n) # {}
  <2>1. PICK p \in Int : \A i \in 1..m : p - kept[m] + kept[i] \in ToSet(lists[i])
    BY <1>6 DEF Chain
  <2>2. \A i \in 1..m : kept[i] \in Int
    BY DEF Gaps
  <2>3. PICK q \in Int : q = p - kept[m] + kept[n]
    BY <1>3, <2>2
  <2>4. \A i \in 1..n : i \in 1..m /\ q - kept[n] + kept[i] = p - kept[m] + kept[i]
    BY <1>3, <2>2, <2>3
  <2>5. q \in Chain(lists, kept, n)
    BY <2>1, <2>4 DEF Chain
  <2> QED
    BY <2>5
<1>7. MatchPhrase(lists, words) <=> Chain(lists, kept, m) # {}
  <2>1. ASSUME MatchPhrase(lists, words) PROVE Chain(lists, kept, m) # {}
    <3>1. f[m] # <<>>
      BY <1>1, <1>3, <1>4, <2>1
    <3> QED
      BY <1>3, <1>5, <3>1
  <2>2. ASSUME Chain(lists, kept, m) # {} PROVE MatchPhrase(lists, words)
    BY <1>1, <1>5, <1>6, <2>2
  <2> QED
    BY <2>1, <2>2
<1> QED
  BY <1>7 DEF Chain

(* With any lists, it matches only then.                                   *)
LEMMA MatchWithin ==
  ASSUME NEW lists, NEW words, NEW kept, NEW m, PhraseLists(lists, words, m),
         Gaps(words, kept, m), m # 0, lists[1] # <<>>, MatchPhrase(lists, words)
  PROVE  \E p \in Int : \A i \in 1..m : p - kept[m] + kept[i] \in ToSet(lists[i])
<1>1. PICK f : /\ AnchorCases(f, lists, words, m)
               /\ MatchPhrase(lists, words) <=> \A n \in (1..m) \ {1} : f[n] # <<>>
  BY MatchUnfolds
<1>2. m \in Nat /\ m \in 1..m /\ 1 \in 1..m
  BY DEF PhraseLists
<1>3. f[m] # <<>>
  BY <1>1, <1>2 DEF AnchorCases
<1>4. Within(f[m], Chain(lists, kept, m))
  BY <1>1, <1>2, AnchorsWithin
<1>5. PICK s \in Seq(Int) : s = f[m] /\ ToSet(s) \subseteq Chain(lists, kept, m)
  BY <1>4 DEF Within
<1>6. Chain(lists, kept, m) # {}
  BY <1>3, <1>5, EmptyList
<1> QED
  BY <1>6 DEF Chain

Kept(phrase) == {i \in DOMAIN phrase : phrase[i] \notin Stops}

(* words are those of the phrase that are looked for, kept where they      *)
(* stand.                                                                  *)
LooksFor(words, phrase, kept, m) ==
  /\ m \in Nat /\ DOMAIN words = 1..m /\ Len(words) = m
  /\ words = <<>> <=> m = 0
  /\ \A n \in 1..m : kept[n] \in Kept(phrase)
  /\ \A i \in Kept(phrase) : \E n \in 1..m : kept[n] = i
  /\ \A n \in 1..m : /\ words[n].stemmed = Stem[phrase[kept[n]]]
                     /\ words[n].gapBefore \in Int
  /\ Gaps(words, kept, m)

LEMMA QueryIs ==
  ASSUME NEW phrase \in Seq(Words)
  PROVE  \E kept, m : LooksFor(QueryWords(phrase), phrase, kept, m)
<1>1. PICK K : K = Kept(phrase) /\ K = {i \in DOMAIN phrase : phrase[i] \notin Stops}
  BY DEF Kept
<1>2. K \in SUBSET Int /\ IsFiniteSet(K)
  <2>1. Len(phrase) \in Nat /\ DOMAIN phrase = 1..Len(phrase)
    OBVIOUS
  <2>2. PICK l \in Nat : l = Len(phrase)
    BY <2>1
  <2>3. IsFiniteSet(1..l)
    BY FS_Interval
  <2>4. K \subseteq 1..l
    BY <1>1, <2>1, <2>2
  <2>5. IsFiniteSet(K)
    BY <2>3, <2>4, FS_Subset
  <2> QED
    BY <2>4, <2>5
<1>3. PICK m \in Nat : m = Cardinality(K)
  BY <1>2, AscendingIs
<1>4. PICK kept : kept = Ascending(K) /\ kept \in [1..m -> K] /\ ToSet(kept) = K
  BY <1>2, <1>3, AscendingIs
<1>5. PICK words : words = QueryWords(phrase)
  OBVIOUS
<1>6. words = [n \in 1..m |-> [stemmed   |-> Stem[phrase[kept[n]]],
                               gapBefore |-> IF n = 1 THEN kept[1] ELSE kept[n] - kept[n - 1]]]
  <2>1. DOMAIN kept = 1..m
    BY <1>4
  <2> QED
    BY <1>1, <1>4, <1>5, <2>1 DEF QueryWords
<1>7. DOMAIN words = 1..m /\ (words = <<>> <=> m = 0)
  <2>1. DOMAIN words = 1..m
    BY <1>6
  <2>2. m = 0 => words = <<>>
    BY <1>6
  <2>3. m # 0 => 1 \in 1..m
    OBVIOUS
  <2>4. words = <<>> => DOMAIN words = {}
    OBVIOUS
  <2> QED
    BY <2>1, <2>2, <2>3, <2>4
<1>8. ASSUME NEW n \in 1..m
      PROVE  /\ kept[n] \in K /\ kept[n] \in Int
             /\ words[n].stemmed = Stem[phrase[kept[n]]]
             /\ words[n].gapBefore = IF n = 1 THEN kept[1] ELSE kept[n] - kept[n - 1]
             /\ words[n].gapBefore \in Int
  <2>1. kept[n] \in K /\ kept[n] \in Int
    BY <1>2, <1>4
  <2>2. /\ words[n].stemmed = Stem[phrase[kept[n]]]
        /\ words[n].gapBefore = IF n = 1 THEN kept[1] ELSE kept[n] - kept[n - 1]
    BY <1>6
  <2>3. n # 1 => kept[n - 1] \in Int
    <3>1. n # 1 => n - 1 \in 1..m
      OBVIOUS
    <3> QED
      BY <1>2, <1>4, <3>1
  <2> QED
    BY <2>1, <2>2, <2>3
<1>9. Gaps(words, kept, m)
  BY <1>8 DEF Gaps
<1>10. \A i \in K : \E n \in 1..m : kept[n] = i
  BY <1>4 DEF ToSet
<1>11. Len(words) = m
  <2>1. words \in [1..m -> {words[n] : n \in 1..m}]
    BY <1>6
  <2> QED
    BY <2>1
<1>12. LooksFor(words, phrase, kept, m)
  BY <1>1, <1>7, <1>8, <1>9, <1>10, <1>11 DEF LooksFor
<1> QED
  BY <1>5, <1>12
=============================================================================
