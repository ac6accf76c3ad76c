---------------------------- MODULE TableProofs -----------------------------
(***************************************************************************)
(* Lemmas on sets of numbers, sums and tables that the proofs about files, *)
(* the tree, the merge and the scan have in common.                        *)
(***************************************************************************)
EXTENDS Tables, Sequences, TLAPS, SequenceTheorems, FiniteSetTheorems,
        WellFoundedInduction

(* A set of numbers that is not empty has a least element, Min.            *)
LEMMA MinOfNats ==
  ASSUME NEW S \in SUBSET Nat, S # {}
  PROVE  Min(S) \in S /\ \A x \in S : Min(S) <= x
<1>1. PICK x \in S : \A y \in S : ~ (<<y, x>> \in OpToRel(<, Nat))
  BY NatLessThanWellFounded, WFMin
<1>2. \A y \in S : x <= y
  <2> SUFFICES ASSUME NEW y \in S
               PROVE  x <= y
    OBVIOUS
  <2>1. x \in Nat /\ y \in Nat /\ <<y, x>> \in Nat \X Nat
    OBVIOUS
  <2>2. ~(y < x)
    BY <1>1, <2>1 DEF OpToRel
  <2> QED
    BY <2>1, <2>2
<1> DEFINE P(m) == m \in S /\ \A y \in S : m <= y
<1>3. \E m \in S : \A y \in S : m <= y
  BY <1>2
<1> QED
  BY <1>3, Zenon DEF Min

(* Min is determined by what it promises.                                  *)
LEMMA MinIs ==
  ASSUME NEW S \in SUBSET Nat, NEW m \in S, \A x \in S : m <= x
  PROVE  Min(S) = m
<1>1. Min(S) \in S /\ Min(S) <= m
  BY MinOfNats
<1>2. m <= Min(S) /\ m \in Nat /\ Min(S) \in Nat
  BY <1>1
<1> QED
  BY <1>1, <1>2

(* A finite set of numbers that is not empty has a greatest element, Max.  *)
LEMMA MaxOfFinite ==
  ASSUME NEW S \in SUBSET Nat, IsFiniteSet(S), S # {}
  PROVE  Max(S) \in S /\ \A x \in S : x <= Max(S)
<1> DEFINE HasMax(T) == \E m \in T : \A x \in T : x <= m
           Bad == {n \in Nat : \E T \in SUBSET Nat : /\ IsFiniteSet(T) /\ T # {}
                                                   /\ Cardinality(T) = n /\ ~HasMax(T)}
<1>1. Bad = {}
  <2> SUFFICES ASSUME Bad # {} PROVE FALSE
    OBVIOUS
  <2>0. Bad \in SUBSET Nat
    OBVIOUS
  <2> HIDE DEF Bad
  <2>1. PICK n : n \in Bad /\ \A m \in Bad : n <= m
    BY <2>0, MinOfNats
  <2> USE DEF Bad
  <2>2. PICK T \in SUBSET Nat : /\ IsFiniteSet(T) /\ T # {}
                                /\ Cardinality(T) = n /\ ~HasMax(T)
    BY <2>1
  <2>3. PICK x : x \in T
    BY <2>2
  <2>4. IsFiniteSet(T \ {x}) /\ Cardinality(T \ {x}) = n - 1
    BY <2>2, <2>3, FS_RemoveElement
  <2>5. Cardinality(T \ {x}) \in Nat
    BY <2>4, FS_CardinalityType
  <2>6. n - 1 \in Nat /\ n \in Nat /\ n - 1 \notin Bad
    BY <2>1, <2>4, <2>5
  <2>7. CASE T \ {x} = {}
    <3>1. T = {x} /\ x \in Nat
      BY <2>2, <2>3, <2>7
    <3>2. x <= x
      BY <3>1
    <3> QED
      BY <2>2, <3>1, <3>2
  <2>8. CASE T \ {x} # {}
    <3>1. HasMax(T \ {x})
      BY <2>4, <2>6, <2>8
    <3>2. PICK m \in T \ {x} : \A y \in T \ {x} : y <= m
      BY <3>1
    <3>3. m \in Nat /\ x \in Nat /\ m \in T
      BY <2>3, <3>2
    <3>4. CASE x <= m
      BY <2>2, <3>2, <3>3, <3>4
    <3>5. CASE m <= x
      <4>1. \A y \in T : y <= x
        <5> SUFFICES ASSUME NEW y \in T PROVE y <= x
          OBVIOUS
        <5>1. y \in Nat /\ (y = x \/ y <= m)
          BY <3>2
        <5> QED
          BY <3>3, <3>5, <5>1
      <4> QED
        BY <2>2, <2>3, <4>1
    <3> QED
      BY <3>3, <3>4, <3>5
  <2> QED
    BY <2>7, <2>8
<1>2. HasMax(S)
  BY <1>1, FS_CardinalityType
<1>3. PICK m \in S : \A x \in S : m >= x
  BY <1>2
<1>4. Max(S) \in S /\ \A y \in S : Max(S) >= y
  BY <1>3, Zenon DEF Max
<1> QED
  BY <1>4

(* The keys that stand among the first of a set: when not all do, there    *)
(* are as many as may.                                                     *)
Foremost(P, limit) == {k \in P : Cardinality({j \in P : j < k}) < limit}

LEMMA BelowIsFinite ==
  ASSUME NEW P \in SUBSET Nat, IsFiniteSet(P)
  PROVE  /\ \A k : IsFiniteSet({j \in P : j < k}) /\ Cardinality({j \in P : j < k}) \in Nat
         /\ \A a, b \in Nat : a <= b =>
              Cardinality({j \in P : j < a}) <= Cardinality({j \in P : j < b})
<1>1. \A k : {j \in P : j < k} \in SUBSET P
  OBVIOUS
<1>2. \A k : IsFiniteSet({j \in P : j < k}) /\ Cardinality({j \in P : j < k}) \in Nat
  BY <1>1, FS_Subset, FS_CardinalityType
<1>3. \A a, b \in Nat : a <= b => {j \in P : j < a} \in SUBSET {j \in P : j < b}
  <2> SUFFICES ASSUME NEW a \in Nat, NEW b \in Nat, a <= b, NEW j \in P, j < a
               PROVE  j < b
    OBVIOUS
  <2> QED
    OBVIOUS
<1>4. \A a, b \in Nat : a <= b =>
        Cardinality({j \in P : j < a}) <= Cardinality({j \in P : j < b})
  BY <1>2, <1>3, FS_Subset
<1> QED
  BY <1>2, <1>4

LEMMA ForemostAre ==
  ASSUME NEW P \in SUBSET Nat, IsFiniteSet(P), NEW limit \in Nat \ {0}
  PROVE  /\ Cardinality(Foremost(P, limit)) <= limit
         /\ \A k \in P \ Foremost(P, limit) :
              /\ Cardinality(Foremost(P, limit)) = limit
              /\ \A j \in Foremost(P, limit) : j < k
<1> DEFINE Rk(k) == Cardinality({j \in P : j < k})
           S == Foremost(P, limit)
<1>1. S \in SUBSET P /\ S \in SUBSET Nat /\ S = {k \in P : Rk(k) < limit}
  BY DEF Foremost
<1>2. IsFiniteSet(S) /\ Cardinality(S) \in Nat
  BY <1>1, FS_Subset, FS_CardinalityType
<1>3. /\ \A k : IsFiniteSet({j \in P : j < k}) /\ Rk(k) \in Nat
      /\ \A a, b \in Nat : a <= b => Rk(a) <= Rk(b)
  BY BelowIsFinite
<1> HIDE DEF S
<1>4. Cardinality(S) <= limit
  <2>1. CASE S = {}
    BY <2>1, FS_EmptySet
  <2>2. CASE S # {}
    <3>1. PICK x : x \in S /\ \A y \in S : y <= x
      BY <1>1, <1>2, <2>2, MaxOfFinite
    <3>2. S \in SUBSET ({j \in P : j < x} \cup {x})
      BY <1>1, <3>1
    <3>3. /\ IsFiniteSet({j \in P : j < x} \cup {x})
          /\ Cardinality({j \in P : j < x} \cup {x}) = Rk(x) + 1
      <4>1. x \notin {j \in P : j < x}
        BY <1>1, <3>1
      <4> QED
        BY <1>3, <4>1, FS_AddElement
    <3>4. Cardinality(S) <= Rk(x) + 1
      <4>1. PICK T : T = {j \in P : j < x} \cup {x}
        OBVIOUS
      <4>2. IsFiniteSet(T) /\ S \in SUBSET T /\ Cardinality(T) = Rk(x) + 1
        BY <3>2, <3>3, <4>1
      <4>3. Cardinality(S) <= Cardinality(T)
        BY ONLY <4>2, FS_Subset
      <4> QED
        BY <4>2, <4>3
    <3>5. Rk(x) < limit /\ Rk(x) \in Nat
      BY <1>1, <1>3, <3>1
    <3> HIDE DEF Rk
    <3> QED
      BY <1>2, <3>4, <3>5
  <2> QED
    BY <2>1, <2>2
<1>5. ASSUME NEW k \in P \ S
      PROVE  Cardinality(S) = limit /\ \A j \in S : j < k
  <2>0. \A a \in P \ S : \A j \in S : j < a
    <3> SUFFICES ASSUME NEW a \in P \ S, NEW j \in S, ~(j < a)
                 PROVE  FALSE
      OBVIOUS
    <3>1. a \in Nat /\ j \in Nat /\ a <= j
      BY <1>1
    <3>2. Rk(a) <= Rk(j) /\ Rk(a) \in Nat /\ Rk(j) \in Nat
      BY <1>3, <3>1
    <3>3. Rk(j) < limit /\ ~(Rk(a) < limit)
      BY <1>1
    <3> HIDE DEF Rk
    <3> QED
      BY <3>2, <3>3
  <2>1. PICK m \in P \ S : \A a \in P \ S : m <= a
    BY MinOfNats
  <2>2. S = {j \in P : j < m}
    <3>1. ASSUME NEW j \in P, j < m
          PROVE  j \in S
      BY <2>1, <3>1
    <3> QED
      BY <1>1, <2>0, <2>1, <3>1
  <2>3. Cardinality(S) = Rk(m) /\ ~(Rk(m) < limit) /\ Rk(m) \in Nat
    BY <1>1, <1>3, <2>1, <2>2
  <2> HIDE DEF Rk
  <2>4. Cardinality(S) = limit
    BY <1>4, <2>3
  <2> QED
    BY <2>0, <2>4
<1> QED
  BY <1>4, <1>5 DEF S

-----------------------------------------------------------------------------
(* Blocks of the sparse index.                                             *)

LEMMA DivMod ==
  ASSUME NEW n \in Nat, NEW s \in Nat \ {0}
  PROVE  /\ n \div s \in Nat /\ n % s \in 0..(s - 1)
         /\ n = s * (n \div s) + (n % s)
<1>1. n \div s \in Int /\ n \div s >= 0
  OBVIOUS
<1>2. n % s \in 0..(s - 1)
  OBVIOUS
<1>3. n = s * (n \div s) + (n % s)
  OBVIOUS
<1> QED
  BY <1>1, <1>2, <1>3

LEMMA TimesGrows ==
  ASSUME NEW s \in Nat, NEW a \in Nat, NEW b \in Nat, a <= b
  PROVE  s * a <= s * b
<1>1. b - a \in Nat /\ s * (b - a) \in Nat
  OBVIOUS
<1>2. s * b = s * a + s * (b - a)
  OBVIOUS
<1> QED
  BY <1>1, <1>2

(* A block begins at or after every multiple of the step that is not       *)
(* beyond one of its ranks.                                                *)
LEMMA BlockBegins ==
  ASSUME NEW s \in Nat \ {0}, NEW a \in Nat, NEW b \in Nat, NEW c \in Nat,
         a % s = 0, a <= b, c \div s = b \div s
  PROVE  a <= c
<1> DEFINE qa == a \div s
           qb == b \div s
<1>1. /\ qa \in Nat /\ qb \in Nat /\ s \in Nat
      /\ a = s * qa
      /\ b = s * qb + (b % s) /\ b % s \in Nat /\ b % s < s
      /\ c = s * qb + (c % s) /\ c % s \in Nat
  <2>1. /\ a \div s \in Nat /\ a = s * (a \div s) + (a % s)
    BY DivMod
  <2>2. /\ b \div s \in Nat /\ b % s \in 0..(s - 1) /\ b = s * (b \div s) + (b % s)
    BY DivMod
  <2>3. /\ c % s \in 0..(s - 1) /\ c = s * (c \div s) + (c % s)
    BY DivMod
  <2>4. s * qa \in Nat
    BY <2>1
  <2>5. a = s * qa
    BY <2>1, <2>4
  <2>6. c = s * qb + (c % s)
    BY <2>3
  <2> QED
    BY <2>1, <2>2, <2>3, <2>5, <2>6
<1> HIDE DEF qa, qb
<1>2. qa <= qb
  <2> SUFFICES ASSUME qb + 1 <= qa PROVE FALSE
    BY <1>1
  <2>1. s * (qb + 1) <= s * qa
    BY <1>1, TimesGrows
  <2>2. s * (qb + 1) = s * qb + s
    BY <1>1
  <2>3. s * qb \in Nat
    BY <1>1
  <2>4. b < s * qb + s
    BY <1>1, <2>3
  <2> QED
    BY <1>1, <2>1, <2>2, <2>3, <2>4
<1>3. s * qa <= s * qb /\ s * qa \in Nat /\ s * qb \in Nat
  BY <1>1, <1>2, TimesGrows
<1> QED
  BY <1>1, <1>3

LEMMA RankGrows ==
  ASSUME NEW d, IsFiniteSet(Records(d))
  PROVE  /\ \A k : Rank(d, k) \in Nat
         /\ \A a, b \in Nat : a <= b => Rank(d, a) <= Rank(d, b)
<1>1. Records(d) \in SUBSET Nat
  BY KeysAreOrdered DEF Records
<1>2. PICK P : P = Records(d)
  OBVIOUS
<1> QED
  BY <1>1, <1>2, BelowIsFinite DEF Rank

LEMMA RankIsStrict ==
  ASSUME NEW d, IsFiniteSet(Records(d)), NEW a \in Records(d), NEW b \in Nat, a < b
  PROVE  Rank(d, a) < Rank(d, b)
<1>1. Records(d) \in SUBSET Nat
  BY KeysAreOrdered DEF Records
<1>2. PICK P, Q : P = {j \in Records(d) : j < a} /\ Q = {j \in Records(d) : j < b}
  OBVIOUS
<1>3. IsFiniteSet(Q) /\ P \in SUBSET Q /\ a \in Q /\ a \notin P
  <2>1. Q \in SUBSET Records(d)
    BY <1>2
  <2>2. \A j \in Records(d) : j < a => j < b
    BY <1>1
  <2>3. ~(a < a)
    BY <1>1
  <2> QED
    BY <1>2, <2>1, <2>2, <2>3, FS_Subset
<1>4. Cardinality(P) <= Cardinality(Q) /\ Cardinality(P) # Cardinality(Q)
  BY <1>3, FS_Subset
<1>5. Cardinality(P) \in Nat /\ Cardinality(Q) \in Nat
  BY <1>3, FS_Subset, FS_CardinalityType
<1> QED
  BY <1>2, <1>4, <1>5 DEF Rank

(* Of the elements of a finite set of numbers one has each rank.           *)
LEMMA RankIsTaken ==
  ASSUME NEW P \in SUBSET Nat, IsFiniteSet(P), NEW n \in Nat, n < Cardinality(P)
  PROVE  \E x \in P : Cardinality({j \in P : j < x}) = n
<1> DEFINE below(x) == {j \in P : j < x}
           Q == {x \in P : Cardinality(below(x)) >= n}
           R == {x \in P : Cardinality(below(x)) < n}
<1>1. /\ \A k : IsFiniteSet(below(k)) /\ Cardinality(below(k)) \in Nat
      /\ \A a, b \in Nat : a <= b => Cardinality(below(a)) <= Cardinality(below(b))
  BY BelowIsFinite
<1>2. IsFiniteSet(R) /\ Cardinality(R) \in Nat /\ Cardinality(R) <= n
  <2>1. R \in SUBSET P
    OBVIOUS
  <2>2. CASE n = 0
    <3>1. R = {}
      BY <1>1, <2>2
    <3> HIDE DEF R
    <3> QED
      BY <2>2, <3>1, FS_EmptySet
  <2>3. CASE n # 0
    <3>1. R = Foremost(P, n) /\ n \in Nat \ {0}
      BY <2>3 DEF Foremost
    <3> QED
      BY <2>1, <3>1, ForemostAre, FS_Subset, FS_CardinalityType
  <2> QED
    BY <2>2, <2>3
<1>3. Q # {}
  <2> SUFFICES ASSUME Q = {} PROVE FALSE
    OBVIOUS
  <2>1. R = P
    BY <1>1
  <2>2. Cardinality(P) \in Nat
    BY FS_CardinalityType
  <2> HIDE DEF R
  <2> QED
    BY <1>2, <2>1, <2>2
<1>4. Q \in SUBSET Nat
  OBVIOUS
<1>5. PICK m : m \in Q /\ \A x \in Q : m <= x
  BY <1>3, <1>4, MinOfNats
<1>6. below(m) = R
  <2>1. ASSUME NEW x \in P, x < m
        PROVE  x \in R
    <3>1. x \notin Q
      BY <1>4, <1>5, <2>1
    <3> QED
      BY <1>1, <3>1
  <2>2. ASSUME NEW x \in R
        PROVE  x \in P /\ x < m
    <3>1. ~(m <= x)
      <4> SUFFICES ASSUME m <= x PROVE FALSE
        OBVIOUS
      <4>1. Cardinality(below(m)) <= Cardinality(below(x))
        BY <1>1, <1>4, <1>5
      <4>2. Cardinality(below(m)) >= n /\ Cardinality(below(x)) < n
        BY <1>5
      <4>3. Cardinality(below(m)) \in Nat /\ Cardinality(below(x)) \in Nat
        BY <1>1
      <4> HIDE DEF below
      <4> QED
        BY <4>1, <4>2, <4>3
    <3> QED
      BY <1>4, <1>5, <3>1
  <2> QED
    BY <2>1, <2>2
<1>7. Cardinality(below(m)) = n
  <2>1. Cardinality(below(m)) >= n /\ Cardinality(below(m)) \in Nat
    BY <1>1, <1>5
  <2> HIDE DEF below, R
  <2> QED
    BY <1>2, <1>6, <2>1
<1> QED
  BY <1>5, <1>7

(* A scan reads every record of its range, and those before it in its      *)
(* block: what it has read without error Get reads too.                    *)
LEMMA ScannedIsGot ==
  ASSUME NEW d, IsFiniteSet(Records(d)), NEW lo \in Nat, NEW past, NEW k \in Records(d),
         lo <= k, \A j \in Records(d) : j <= k => j \notin past,
         \A j \in ScanReads(d, lo, past) : Readable(j, d[j])
  PROVE  SSTGet(d, k) = d[k]
<1> DEFINE before == {j \in Indexed(d) : j <= lo}
           start  == StartRank(d, lo)
<1>1. Records(d) \in SUBSET Nat /\ k \in Nat
  BY KeysAreOrdered DEF Records
<1>2. /\ \A j : Rank(d, j) \in Nat
      /\ \A a, b \in Nat : a <= b => Rank(d, a) <= Rank(d, b)
  BY RankGrows
<1>3. start \in Nat /\ start % IndexStep = 0 /\ start <= Rank(d, k)
  <2>1. CASE before = {}
    <3>1. start = 0
      BY <2>1 DEF StartRank
    <3>2. 0 % IndexStep = 0
      BY StepIsPositive
    <3> QED
      BY <1>2, <3>1, <3>2
  <2>2. CASE before # {}
    <3>1. start = Rank(d, Max(before))
      BY <2>2 DEF StartRank
    <3>2. before \in SUBSET Records(d) /\ before \in SUBSET Nat
      BY <1>1 DEF Indexed
    <3>3. IsFiniteSet(before)
      BY <3>2, FS_Subset
    <3>4. Max(before) \in before
      BY <2>2, <3>2, <3>3, MaxOfFinite
    <3>5. PICK m : m = Max(before)
      OBVIOUS
    <3>6. m \in Nat /\ m <= k /\ Rank(d, m) % IndexStep = 0
      <4>1. m \in Nat /\ m \in Indexed(d) /\ m <= lo
        BY <3>2, <3>4, <3>5
      <4> QED
        BY <1>1, <4>1 DEF Indexed
    <3> QED
      BY <1>1, <1>2, <3>1, <3>5, <3>6
  <2> QED
    BY <2>1, <2>2
<1>4. ASSUME NEW j \in Records(d), j <= k, Block(d, j) = Block(d, k)
      PROVE  Readable(j, d[j])
  <2>1. Rank(d, j) \div IndexStep = Rank(d, k) \div IndexStep
    BY <1>4 DEF Block
  <2>2. start <= Rank(d, j)
    BY <1>2, <1>3, <2>1, StepIsPositive, BlockBegins
  <2>3. \A i \in Records(d) : i < j => i \notin past
    <3> SUFFICES ASSUME NEW i \in Records(d), i < j PROVE i \notin past
      OBVIOUS
    <3>1. i <= k
      BY <1>1, <1>4
    <3> QED
      BY <3>1
  <2>4. j \in ScanReads(d, lo, past)
    BY <1>2, <1>3, <2>2, <2>3 DEF ScanReads
  <2> QED
    BY <2>4
<1> QED
  BY <1>4 DEF SSTGet

LEMMA MaxIs ==
  ASSUME NEW S \in SUBSET Nat, NEW m \in S, \A x \in S : x <= m
  PROVE  Max(S) = m
<1>1. Max(S) = CHOOSE x \in S : \A y \in S : x >= y
  BY DEF Max
<1>2. m \in S /\ \A y \in S : m >= y
  BY Zenon
<1>3. Max(S) \in S /\ \A y \in S : Max(S) >= y
  BY <1>1, <1>2, Zenon
<1>4. PICK x : x = Max(S)
  OBVIOUS
<1>5. x \in Nat /\ m \in Nat /\ x >= m /\ x <= m
  BY <1>3, <1>4
<1> QED
  BY <1>4, <1>5

(* The block of a record is what a reader finds from the last index entry  *)
(* at or below it.                                                         *)
LEMMA BlockIsRead ==
  ASSUME NEW d, IsFiniteSet(Records(d)), NEW k \in Records(d), NEW j \in Records(d), j <= k
  PROVE  Block(d, j) = Block(d, k) <=> Rank(d, j) >= StartRank(d, k)
<1> DEFINE before == {i \in Indexed(d) : i <= k}
           start  == StartRank(d, k)
           b      == Block(d, k)
<1>1. Records(d) \in SUBSET Nat /\ k \in Nat /\ j \in Nat
  BY KeysAreOrdered DEF Records
<1>2. /\ \A i : Rank(d, i) \in Nat
      /\ \A i, l \in Nat : i <= l => Rank(d, i) <= Rank(d, l)
  BY RankGrows
<1>3. b \in Nat /\ IndexStep * b <= Rank(d, k) /\ IndexStep * b \in Nat
  <2>1. Rank(d, k) = IndexStep * b + (Rank(d, k) % IndexStep)
        /\ Rank(d, k) % IndexStep \in 0..(IndexStep - 1) /\ b \in Nat
    BY <1>2, StepIsPositive, DivMod DEF Block
  <2>2. IndexStep * b \in Nat
    BY <2>1, StepIsPositive
  <2> QED
    BY <1>2, <2>1, <2>2, StepIsPositive
<1>4. PICK x \in Records(d) : Rank(d, x) = IndexStep * b
  <2>1. CASE IndexStep * b = Rank(d, k)
    BY <2>1
  <2>2. CASE IndexStep * b < Rank(d, k)
    <3>1. Rank(d, k) <= Cardinality(Records(d)) /\ Cardinality(Records(d)) \in Nat
      <4>1. {i \in Records(d) : i < k} \in SUBSET Records(d)
        OBVIOUS
      <4> QED
        BY <4>1, FS_Subset, FS_CardinalityType DEF Rank
    <3>2. IndexStep * b < Cardinality(Records(d))
      BY <1>2, <1>3, <2>2, <3>1
    <3> QED
      BY <1>1, <1>3, <3>2, RankIsTaken DEF Rank
  <2> QED
    BY <1>2, <1>3, <2>1, <2>2
<1>5. x <= k
  <2> SUFFICES ASSUME ~(x <= k) PROVE FALSE
    OBVIOUS
  <2>1. k < x /\ x \in Nat
    BY <1>1
  <2>2. Rank(d, k) < Rank(d, x)
    BY <2>1, RankIsStrict
  <2> QED
    BY <1>2, <1>3, <1>4, <2>2
<1>6. x \in before
  <2>1. (IndexStep * b) % IndexStep = 0
    <3>1. \A s \in Nat \ {0}, a \in Nat : (s * a) % s = 0
      <4> SUFFICES ASSUME NEW s \in Nat \ {0}, NEW a \in Nat
                   PROVE  (s * a) % s = 0
        OBVIOUS
      <4> DEFINE n == s * a
      <4>1. n \in Nat
        OBVIOUS
      <4>2. n = s * (n \div s) + (n % s) /\ n \div s \in Nat /\ n % s \in 0..(s - 1)
        BY <4>1, DivMod
      <4>3. s * a - s * (n \div s) = n % s
        BY <4>1, <4>2
      <4>4. a <= n \div s \/ a >= n \div s + 1
        BY <4>2
      <4>5. CASE a <= n \div s
        BY <4>2, <4>3, <4>5, TimesGrows
      <4>6. CASE a >= n \div s + 1
        <5>1. s * (n \div s + 1) <= s * a
          BY <4>2, <4>6, TimesGrows
        <5>2. s * (n \div s + 1) = s * (n \div s) + s
          BY <4>2
        <5> QED
          BY <4>2, <4>3, <5>1, <5>2
      <4> QED
        BY <4>4, <4>5, <4>6
    <3> QED
      BY <1>3, <3>1, StepIsPositive
  <2> QED
    BY <1>4, <1>5, <2>1 DEF Indexed
<1>7. start = IndexStep * b
  <2>1. before \in SUBSET Nat
    BY <1>1 DEF Indexed
  <2>2. \A i \in before : i <= x
    <3> SUFFICES ASSUME NEW i \in before, ~(i <= x) PROVE FALSE
      OBVIOUS
    <3>1. /\ i \in Records(d) /\ i \in Nat /\ x \in Nat /\ x < i /\ i <= k
          /\ Rank(d, i) % IndexStep = 0
      BY <1>1, <2>1 DEF Indexed
    <3>2. Rank(d, x) < Rank(d, i) /\ Rank(d, i) <= Rank(d, k)
      BY <1>1, <1>2, <3>1, RankIsStrict
    <3>3. PICK r : r = Rank(d, i)
      OBVIOUS
    <3>4. r \in Nat /\ r % IndexStep = 0 /\ IndexStep * b < r /\ r <= Rank(d, k)
      BY <1>2, <1>4, <3>1, <3>2, <3>3
    <3>5. r = IndexStep * (r \div IndexStep) /\ r \div IndexStep \in Nat
      BY <3>4, StepIsPositive, DivMod
    <3>6. r \div IndexStep >= b + 1
      <4> SUFFICES ASSUME r \div IndexStep <= b PROVE FALSE
        BY <1>3, <3>5
      <4>1. IndexStep * (r \div IndexStep) <= IndexStep * b
        BY <1>3, <3>5, StepIsPositive, TimesGrows
      <4> QED
        BY <1>3, <3>4, <3>5, <4>1
    <3>7. IndexStep * (b + 1) <= r
      BY <1>3, <3>5, <3>6, StepIsPositive, TimesGrows
    <3>8. IndexStep * (b + 1) = IndexStep * b + IndexStep
      BY <1>3, StepIsPositive
    <3>9. Rank(d, k) < IndexStep * b + IndexStep
      <4>1. Rank(d, k) = IndexStep * b + (Rank(d, k) % IndexStep)
            /\ Rank(d, k) % IndexStep \in 0..(IndexStep - 1)
        BY <1>2, StepIsPositive, DivMod DEF Block
      <4> QED
        BY <1>2, <1>3, <4>1, StepIsPositive
    <3> QED
      BY <1>2, <1>3, <3>4, <3>7, <3>8, <3>9, StepIsPositive
  <2> HIDE DEF before
  <2>3. Max(before) = x
    BY <1>6, <2>1, <2>2, MaxIs
  <2> QED
    BY <1>4, <1>6, <2>3 DEF StartRank, before
<1>8. ASSUME Rank(d, j) >= start
      PROVE  Block(d, j) = b
  <2>1. PICK r : r = Rank(d, j)
    OBVIOUS
  <2>2. r \in Nat /\ IndexStep * b <= r /\ r <= Rank(d, k)
    BY <1>1, <1>2, <1>7, <1>8, <2>1
  <2>3. r = IndexStep * (r \div IndexStep) + (r % IndexStep) /\ r \div IndexStep \in Nat
        /\ r % IndexStep \in 0..(IndexStep - 1)
    BY <2>2, StepIsPositive, DivMod
  <2>4. PICK c : c = r \div IndexStep
    OBVIOUS
  <2>5. Rank(d, k) = IndexStep * b + (Rank(d, k) % IndexStep)
        /\ Rank(d, k) % IndexStep \in 0..(IndexStep - 1)
    BY <1>2, StepIsPositive, DivMod DEF Block
  <2>6. c \in Nat /\ IndexStep * c \in Nat /\ IndexStep * (c + 1) = IndexStep * c + IndexStep
        /\ IndexStep * (b + 1) = IndexStep * b + IndexStep
    BY <1>3, <2>3, <2>4, StepIsPositive
  <2>7. ~(c < b)
    <3> SUFFICES ASSUME c < b PROVE FALSE
      OBVIOUS
    <3>1. IndexStep * (c + 1) <= IndexStep * b
      <4>1. c + 1 <= b /\ c + 1 \in Nat
        BY <1>3, <2>6
      <4> QED
        BY <1>3, <4>1, StepIsPositive, TimesGrows
    <3> QED
      BY <1>3, <2>2, <2>3, <2>4, <2>6, <3>1, StepIsPositive
  <2>8. ~(b < c)
    <3> SUFFICES ASSUME b < c PROVE FALSE
      OBVIOUS
    <3>1. IndexStep * (b + 1) <= IndexStep * c
      <4>1. b + 1 <= c /\ b + 1 \in Nat
        BY <1>3, <2>6
      <4> QED
        BY <2>6, <4>1, StepIsPositive, TimesGrows
    <3>2. PICK q, m, mb, mc : /\ q = Rank(d, k) /\ m = Rank(d, k) % IndexStep
                              /\ mb = IndexStep * b /\ mc = IndexStep * c
      OBVIOUS
    <3>3. /\ q = mb + m /\ m < IndexStep /\ mb + IndexStep <= mc /\ mc <= r /\ r <= q
          /\ q \in Int /\ m \in Int /\ mb \in Int /\ mc \in Int /\ r \in Int /\ IndexStep \in Int
      BY <1>2, <1>3, <2>2, <2>3, <2>4, <2>5, <2>6, <3>1, <3>2, StepIsPositive
    <3> QED
      BY ONLY <3>3
  <2> QED
    BY <1>3, <2>1, <2>4, <2>6, <2>7, <2>8 DEF Block
<1>9. ASSUME Block(d, j) = b
      PROVE  Rank(d, j) >= start
  <2>1. Rank(d, j) = IndexStep * b + (Rank(d, j) % IndexStep)
        /\ Rank(d, j) % IndexStep \in 0..(IndexStep - 1)
    BY <1>2, <1>9, StepIsPositive, DivMod DEF Block
  <2> QED
    BY <1>2, <1>3, <1>7, <2>1
<1> QED
  BY <1>8, <1>9

(* A table out of the range of a scan has no record in it, but perhaps one *)
(* of the empty key.                                                       *)
LEMMA OutOfRangeHasNone ==
  ASSUME NEW d, IsFiniteSet(Records(d)), NEW lo, NEW past, NEW k \in Records(d),
         OutOfRange(d, lo, past), k # EmptyKey, lo \in Nat, lo <= k
  PROVE  \E j \in Records(d) : j <= k /\ j \in past
<1>1. Records(d) \in SUBSET Nat /\ k \in Nat
  BY KeysAreOrdered DEF Records
<1>2. ~(MaxKey(d) < lo)
  <2>1. Max(Records(d)) \in Records(d) /\ k <= Max(Records(d))
    BY <1>1, MaxOfFinite
  <2>2. MaxKey(d) = Max(Records(d))
    BY DEF MaxKey
  <2> QED
    BY <1>1, <2>1, <2>2
<1>3. MinKey(d) \in past
  BY <1>2 DEF OutOfRange
<1> DEFINE proper == Records(d) \ {EmptyKey}
<1>4. proper \in SUBSET Nat /\ k \in proper
  BY <1>1
<1>5. Min(proper) \in proper /\ Min(proper) <= k
  BY <1>4, MinOfNats
<1>6. MinKey(d) = Min(proper)
  BY <1>4 DEF MinKey
<1> QED
  BY <1>3, <1>5, <1>6

-----------------------------------------------------------------------------
(* Sums over finite sets: what MapThenSumSet comes to, whichever element   *)
(* it chooses first.                                                       *)

(* h sums g over the subsets of S, as the fold of the library does.        *)
Sums(h, g, S) ==
  h = [s \in SUBSET S |-> IF s = {} THEN 0
                          ELSE g[CHOOSE x \in s : TRUE] + h[s \ {CHOOSE x \in s : TRUE}]]

(* h sums g over the subsets of S, whichever element is taken first.       *)
AddsUp(h, g, S) ==
  /\ h \in [SUBSET S -> Nat]
  /\ h[{}] = 0
  /\ \A s \in SUBSET S : \A x \in s : h[s] = g[x] + h[s \ {x}]

Total(g, S) == (CHOOSE h : Sums(h, g, S))[S]

LEMMA AddingUpSums ==
  ASSUME NEW S, NEW g, NEW h, AddsUp(h, g, S)
  PROVE  Sums(h, g, S)
<1>1. h = [s \in SUBSET S |-> h[s]]
  BY DEF AddsUp
<1>2. ASSUME NEW s \in SUBSET S
      PROVE  h[s] = IF s = {} THEN 0
                    ELSE g[CHOOSE x \in s : TRUE] + h[s \ {CHOOSE x \in s : TRUE}]
  <2>1. CASE s = {}
    BY <2>1 DEF AddsUp
  <2>2. CASE s # {}
    <3>1. (CHOOSE x \in s : TRUE) \in s
      BY <2>2
    <3> QED
      BY <2>2, <3>1 DEF AddsUp
  <2> QED
    BY <2>1, <2>2
<1> QED
  BY <1>1, <1>2, Zenon DEF Sums

(* One more element.                                                       *)
OneMore(more, h, g, S, y) ==
  AddsUp(more, g, S \cup {y}) /\ more[S \cup {y}] = g[y] + h[S]

LEMMA AddsUpNext ==
  ASSUME NEW S, NEW y, y \notin S, NEW g \in [S \cup {y} -> Nat], NEW g0,
         \A x \in S : g0[x] = g[x], NEW h, AddsUp(h, g0, S)
  PROVE  \E more : OneMore(more, h, g, S, y)
<1> DEFINE T == S \cup {y}
           more == [s \in SUBSET T |-> IF y \in s THEN g[y] + h[s \ {y}] ELSE h[s]]
<1>1. \A s \in SUBSET T : /\ s \ {y} \in SUBSET S /\ h[s \ {y}] \in Nat
                          /\ y \notin s => s \in SUBSET S /\ s \ {y} = s
  BY DEF AddsUp
<1>2. g[y] \in Nat
  OBVIOUS
<1>3. more \in [SUBSET T -> Nat]
  <2> SUFFICES ASSUME NEW s \in SUBSET T
               PROVE  (IF y \in s THEN g[y] + h[s \ {y}] ELSE h[s]) \in Nat
    OBVIOUS
  <2>1. h[s \ {y}] \in Nat /\ (y \notin s => h[s] \in Nat)
    BY <1>1
  <2> QED
    BY <1>2, <2>1
<1>4. more[{}] = 0
  BY DEF AddsUp
<1>5. ASSUME NEW s \in SUBSET T, NEW x \in s
      PROVE  more[s] = g[x] + more[s \ {x}]
  <2>0. s \ {x} \in SUBSET T
    OBVIOUS
  <2>1. CASE x = y
    <3>1. y \notin s \ {x} /\ s \ {x} = s \ {y}
      BY <2>1
    <3> QED
      BY <2>0, <2>1, <3>1
  <2>2. CASE x # y /\ y \in s
    <3>1. y \in s \ {x} /\ (s \ {x}) \ {y} = (s \ {y}) \ {x}
      BY <2>2
    <3>2. x \in s \ {y} /\ s \ {y} \in SUBSET S /\ x \in S
      BY <1>1, <2>2
    <3>3. h[s \ {y}] = g[x] + h[(s \ {y}) \ {x}]
      BY <3>2 DEF AddsUp
    <3>4. h[(s \ {y}) \ {x}] \in Nat /\ g[x] \in Nat
      BY <3>2 DEF AddsUp
    <3>5. more[s] = g[y] + h[s \ {y}] /\ more[s \ {x}] = g[y] + h[(s \ {y}) \ {x}]
      BY <2>0, <2>2, <3>1
    <3> HIDE DEF more
    <3> QED
      BY <1>2, <3>3, <3>4, <3>5
  <2>3. CASE y \notin s
    <3>1. s \in SUBSET S /\ x \in S /\ y \notin s \ {x}
      BY <1>1, <2>3
    <3>2. h[s] = g[x] + h[s \ {x}]
      BY <3>1 DEF AddsUp
    <3> QED
      BY <2>0, <2>3, <3>1, <3>2
  <2> QED
    BY <2>1, <2>2, <2>3
<1>6. AddsUp(more, g, T)
  <2> HIDE DEF more
  <2> QED
    BY <1>3, <1>4, <1>5 DEF AddsUp
<1>7. more[T] = g[y] + h[S]
  <2>1. T \in SUBSET T /\ y \in T /\ T \ {y} = S
    OBVIOUS
  <2> QED
    BY <2>1
<1> QED
  BY <1>6, <1>7 DEF OneMore

LEMMA AddsUpExists ==
  ASSUME NEW S, IsFiniteSet(S), NEW g \in [S -> Nat]
  PROVE  \E h : AddsUp(h, g, S)
<1> DEFINE Bad == {n \in Nat : \E T \in SUBSET S : Cardinality(T) = n /\ ~ \E h : AddsUp(h, g, T)}
<1>1. Bad = {}
  <2> SUFFICES ASSUME Bad # {} PROVE FALSE
    OBVIOUS
  <2>1. Bad \in SUBSET Nat
    OBVIOUS
  <2>2. PICK n : n \in Bad /\ \A m \in Bad : n <= m
    BY <2>1, MinOfNats
  <2>3. PICK T \in SUBSET S : Cardinality(T) = n /\ ~ \E h : AddsUp(h, g, T)
    BY <2>2
  <2>4. IsFiniteSet(T) /\ n \in Nat
    BY <2>2, FS_Subset
  <2>5. T # {}
    <3>1. AddsUp([s \in SUBSET {} |-> 0], g, {})
      BY DEF AddsUp
    <3> QED
      BY <2>3, <3>1
  <2>6. PICK y : y \in T
    BY <2>5
  <2>7. PICK U : U = T \ {y}
    OBVIOUS
  <2>8. U \in SUBSET S /\ U \cup {y} = T /\ y \notin U
    BY <2>6, <2>7
  <2>9. Cardinality(U) = n - 1 /\ n - 1 \in Nat
    <3>1. Cardinality(U) = n - 1 /\ Cardinality(U) \in Nat
      BY <2>3, <2>4, <2>6, <2>7, FS_RemoveElement, FS_CardinalityType
    <3> QED
      BY <3>1
  <2>10. \E h : AddsUp(h, g, U)
    <3>1. n - 1 \notin Bad
      BY <2>2, <2>4
    <3> QED
      BY <2>8, <2>9, <3>1
  <2>11. PICK h : AddsUp(h, g, U)
    BY <2>10
  <2>12. PICK gt : gt = [x \in T |-> g[x]]
    OBVIOUS
  <2>13. gt \in [U \cup {y} -> Nat] /\ \A x \in U : g[x] = gt[x]
    BY <2>3, <2>8, <2>12
  <2>14. PICK more : AddsUp(more, gt, U \cup {y})
    BY <2>8, <2>11, <2>13, AddsUpNext DEF OneMore
  <2>15. AddsUp(more, g, T)
    BY <2>8, <2>12, <2>14 DEF AddsUp
  <2> QED
    BY <2>3, <2>15
<1>2. Cardinality(S) \in Nat
  BY FS_CardinalityType
<1> QED
  BY <1>1, <1>2

(* All functions that sum have the same values.                            *)
LEMMA SumsAgree ==
  ASSUME NEW S, IsFiniteSet(S), NEW g \in [S -> Nat], NEW h, AddsUp(h, g, S),
         NEW f, Sums(f, g, S)
  PROVE  f[S] = h[S]
<1> DEFINE Bad == {n \in Nat : \E T \in SUBSET S : Cardinality(T) = n /\ f[T] # h[T]}
<1>1. Bad = {}
  <2> SUFFICES ASSUME Bad # {} PROVE FALSE
    OBVIOUS
  <2>1. Bad \in SUBSET Nat
    OBVIOUS
  <2>2. PICK n : n \in Bad /\ \A m \in Bad : n <= m
    BY <2>1, MinOfNats
  <2>3. PICK T \in SUBSET S : Cardinality(T) = n /\ f[T] # h[T]
    BY <2>2
  <2>4. IsFiniteSet(T) /\ n \in Nat
    BY <2>2, FS_Subset
  <2>5. PICK y : y = CHOOSE x \in T : TRUE
    OBVIOUS
  <2>6. f[T] = IF T = {} THEN 0 ELSE g[y] + f[T \ {y}]
    BY <2>5, Zenon DEF Sums
  <2>7. T # {}
    BY <2>3, <2>6 DEF AddsUp
  <2>8. y \in T
    BY <2>5, <2>7
  <2>9. PICK U : U = T \ {y}
    OBVIOUS
  <2>10. U \in SUBSET S /\ Cardinality(U) = n - 1 /\ n - 1 \in Nat
    <3>1. Cardinality(U) = n - 1 /\ Cardinality(U) \in Nat
      BY <2>3, <2>4, <2>8, <2>9, FS_RemoveElement, FS_CardinalityType
    <3> QED
      BY <2>9, <3>1
  <2>11. f[U] = h[U]
    <3>1. n - 1 \notin Bad
      BY <2>2, <2>4
    <3> QED
      BY <2>10, <3>1
  <2>12. h[T] = g[y] + h[U]
    BY <2>8, <2>9 DEF AddsUp
  <2> QED
    BY <2>3, <2>6, <2>7, <2>9, <2>11, <2>12
<1>2. Cardinality(S) \in Nat
  BY FS_CardinalityType
<1> QED
  BY <1>1, <1>2

LEMMA TotalIs ==
  ASSUME NEW S, IsFiniteSet(S), NEW g \in [S -> Nat], NEW h, AddsUp(h, g, S)
  PROVE  Total(g, S) = h[S]
<1>1. Sums(h, g, S)
  BY AddingUpSums
<1>2. Sums(CHOOSE f : Sums(f, g, S), g, S)
  BY <1>1, Zenon
<1> QED
  BY <1>2, SumsAgree DEF Total

LEMMA TotalOfNone ==
  ASSUME NEW g \in [{} -> Nat]
  PROVE  Total(g, {}) = 0
<1>1. PICK h : AddsUp(h, g, {})
  BY AddsUpExists, FS_EmptySet
<1> QED
  BY <1>1, TotalIs, FS_EmptySet DEF AddsUp

LEMMA TotalNext ==
  ASSUME NEW S, IsFiniteSet(S), NEW y, y \notin S, NEW T, T = S \cup {y},
         NEW g \in [T -> Nat], NEW g0 \in [S -> Nat], \A x \in S : g0[x] = g[x]
  PROVE  Total(g, T) = g[y] + Total(g0, S) /\ Total(g0, S) \in Nat
<1>1. PICK h : AddsUp(h, g0, S)
  BY AddsUpExists
<1>2. PICK more : OneMore(more, h, g, S, y)
  BY <1>1, AddsUpNext
<1>3. IsFiniteSet(T)
  BY FS_AddElement
<1>4. Total(g0, S) = h[S] /\ h[S] \in Nat
  BY <1>1, TotalIs DEF AddsUp
<1>5. Total(g, T) = more[T]
  BY <1>2, <1>3, TotalIs DEF OneMore
<1> QED
  BY <1>2, <1>4, <1>5 DEF OneMore
=============================================================================
