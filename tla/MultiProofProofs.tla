-------------------------- MODULE MultiProofProofs --------------------------
(***************************************************************************)
(* Theorems about Merkle, MultiProof and ProverGuests for trees of any      *)
(* number of leaves and any set of targets.                                *)
(***************************************************************************)
EXTENDS ProverGuests, FiniteSetTheorems, SequenceTheorems, WellFoundedInduction, TLAPS

-----------------------------------------------------------------------------
(* Induction over the natural numbers, for a set of numbers.               *)
LEMMA Least ==
  ASSUME NEW T \in SUBSET Nat, T # {}
  PROVE  \E x \in T : \A y \in T : x <= y
<1> DEFINE less == {ss \in Nat \X Nat : ss[1] < ss[2]}
<1>1. IsWellFoundedOn(less, Nat)
  BY NatLessThanWellFounded, Zenon DEF OpToRel
<1>2. \A x, y \in Nat : x < y => <<x, y>> \in less
  OBVIOUS
<1> HIDE DEF less
<1>3. PICK t \in T : \A u \in T : <<u, t>> \notin less
  BY <1>1, WFMin
<1>4. \A u \in T : ~(u < t)
  BY <1>2, <1>3
<1>5. QED
  BY <1>4

LEMMA Induction ==
  ASSUME NEW S, 0 \in S, \A n \in Nat : n \in S => n + 1 \in S
  PROVE  Nat \subseteq S
<1> SUFFICES ASSUME ~(Nat \subseteq S)
             PROVE  FALSE
  OBVIOUS
<1> DEFINE T == Nat \ S
<1>1. T \in SUBSET Nat /\ T # {}
  OBVIOUS
<1> HIDE DEF T
<1>2. PICK x \in T : \A y \in T : x <= y
  BY <1>1, Least
<1>3. x \in Nat /\ x # 0 /\ x \notin S
  BY DEF T
<1>4. x - 1 \in Nat /\ x - 1 \notin T
  BY <1>1, <1>2, <1>3
<1>5. x - 1 \in S
  BY <1>4 DEF T
<1>6. QED
  BY <1>3, <1>4, <1>5

(* Powers of two, as the numbers of subsets.                               *)
LEMMA TwoPower == \A n \in Nat : 2^n \in Nat /\ 2^n >= 1 /\ 2^(n + 1) = 2 * 2^n
<1> SUFFICES ASSUME NEW n \in Nat
             PROVE  2^n \in Nat /\ 2^n >= 1 /\ 2^(n + 1) = 2 * 2^n
  OBVIOUS
<1> DEFINE A == SUBSET (1..n)
           B == {X \cup {n + 1} : X \in A}
<1>1. /\ IsFiniteSet(1..n) /\ Cardinality(1..n) = n
      /\ IsFiniteSet(1..(n + 1)) /\ Cardinality(1..(n + 1)) = n + 1
  BY FS_Interval
<1>2. IsFiniteSet(A) /\ Cardinality(A) = 2^n
  BY <1>1, FS_SUBSET
<1>3. Cardinality(SUBSET (1..(n + 1))) = 2^(n + 1)
  BY <1>1, FS_SUBSET
<1>4. SUBSET (1..(n + 1)) = A \cup B
  <2>1. \A X \in SUBSET (1..(n + 1)) : n + 1 \notin X => X \in A
    OBVIOUS
  <2>2. ASSUME NEW X \in SUBSET (1..(n + 1)), n + 1 \in X
        PROVE  X \in B
    <3>1. X \ {n + 1} \in A /\ X = (X \ {n + 1}) \cup {n + 1}
      BY <2>2
    <3>2. QED
      BY <3>1
  <2>3. 1..n \subseteq 1..(n + 1) /\ n + 1 \in 1..(n + 1)
    OBVIOUS
  <2>4. A \subseteq SUBSET (1..(n + 1))
    BY <2>3
  <2>5. B \subseteq SUBSET (1..(n + 1))
    BY <2>3
  <2> HIDE DEF A, B
  <2>6. QED
    BY <2>1, <2>2, <2>4, <2>5
<1>5. \A X \in A : n + 1 \notin X
  OBVIOUS
<1>6. IsFiniteSet(B) /\ Cardinality(B) = Cardinality(A)
  <2> DEFINE f == [X \in A |-> X \cup {n + 1}]
  <2>1. f \in [A -> B] /\ \A Y \in B : \E X \in A : f[X] = Y
    OBVIOUS
  <2>2. \A X, Y \in A : f[X] = f[Y] => X = Y
    BY <1>5
  <2>3. f \in Bijection(A, B)
    BY <2>1, <2>2 DEF Bijection, Injection, Surjection, IsInjective
  <2>4. ExistsBijection(A, B)
    BY <2>3 DEF ExistsBijection
  <2>5. QED
    BY <1>2, <2>4, FS_Bijection
<1>7. A \cap B = {}
  BY <1>5
<1> HIDE DEF A, B
<1>8. Cardinality(A \cup B) = Cardinality(A) + Cardinality(B)
  <2>1. /\ Cardinality(A \cup B) = Cardinality(A) + Cardinality(B) - Cardinality(A \cap B)
        /\ Cardinality(A \cap B) = 0
    BY <1>2, <1>6, <1>7, FS_Union, FS_EmptySet
  <2>2. Cardinality(A) \in Nat /\ Cardinality(B) \in Nat
    BY <1>2, <1>6, FS_CardinalityType
  <2>3. QED
    BY <2>1, <2>2
<1>9. 2^n \in Nat /\ 2^(n + 1) = 2 * 2^n
  <2>1. Cardinality(A) \in Nat
    BY <1>2, FS_CardinalityType
  <2>2. 2^(n + 1) = Cardinality(A) + Cardinality(A)
    BY <1>3, <1>4, <1>6, <1>8
  <2>3. QED
    BY <1>2, <2>1, <2>2
<1>10. Cardinality(A) # 0
  <2>1. {} \in A
    BY DEF A
  <2>2. QED
    BY <1>2, <2>1, FS_EmptySet
<1>11. QED
  BY <1>2, <1>9, <1>10

LEMMA PowerAbove == \A n \in Nat : 2^n > n
<1> DEFINE S == {n \in Nat : 2^n > n}
<1>1. 0 \in S
  OBVIOUS
<1>2. ASSUME NEW n \in Nat, n \in S
      PROVE  n + 1 \in S
  <2>1. 2^n \in Nat /\ 2^(n + 1) \in Nat /\ 2^(n + 1) = 2 * 2^n /\ 2^n > n
    BY <1>2, TwoPower
  <2>2. QED
    BY <2>1
<1> HIDE DEF S
<1>3. Nat \subseteq S
  BY <1>1, <1>2, Induction
<1>4. QED
  BY <1>3 DEF S

LEMMA PowerGrows ==
  ASSUME NEW k \in Nat
  PROVE  \A g \in Nat : g < k => 2^g < 2^k
<1> DEFINE S == {n \in Nat : \A g \in Nat : g < n => 2^g < 2^n}
<1>1. 0 \in S
  OBVIOUS
<1>2. ASSUME NEW n \in Nat, n \in S
      PROVE  n + 1 \in S
  <2>1. 2^n \in Nat /\ 2^n >= 1 /\ 2^(n + 1) \in Nat /\ 2^(n + 1) = 2 * 2^n
    BY <1>2, TwoPower
  <2>2. ASSUME NEW g \in Nat, g < n + 1
        PROVE  2^g < 2^(n + 1)
    <3>1. CASE g = n
      BY <2>1, <3>1
    <3>2. CASE g < n
      <4>1. 2^g < 2^n /\ 2^g \in Nat
        BY <1>2, <3>2, TwoPower
      <4>2. QED
        BY <2>1, <4>1
    <3>3. QED
      BY <2>2, <3>1, <3>2
  <2>3. QED
    BY <2>2
<1> HIDE DEF S
<1>3. Nat \subseteq S
  BY <1>1, <1>2, Induction
<1>4. QED
  BY <1>3 DEF S

-----------------------------------------------------------------------------
(* The shape of the tree. *)
LEMMA HeightIs ==
  ASSUME NEW n \in Nat
  PROVE  /\ Height(n) \in Nat /\ 2^Height(n) >= n
         /\ \A g \in Nat : g < Height(n) => 2^g < n
<1> DEFINE T == {h \in Nat : 2^h >= n}
<1>1. n \in T /\ T \in SUBSET Nat
  BY PowerAbove, TwoPower
<1> HIDE DEF T
<1>2. PICK x \in T : \A y \in T : x <= y
  BY <1>1, Least
<1>3. x \in 0..n /\ 2^x >= n
  BY <1>1, <1>2 DEF T
<1>4. \A g \in 0..(x - 1) : 2^g < n
  <2> SUFFICES ASSUME NEW g \in 0..(x - 1)
               PROVE  2^g < n
    OBVIOUS
  <2>1. g \in Nat /\ g \notin T /\ 2^g \in Nat
    BY <1>2, <1>3, TwoPower
  <2>2. QED
    BY <2>1 DEF T
<1>5. \E h \in 0..n : 2^h >= n /\ \A g \in 0..(h - 1) : 2^g < n
  BY <1>3, <1>4
<1>6. Height(n) \in 0..n /\ 2^Height(n) >= n /\ \A g \in 0..(Height(n) - 1) : 2^g < n
  BY <1>5 DEF Height
<1>7. QED
  BY <1>6

LEMMA HeightOfPower ==
  ASSUME NEW k \in Nat
  PROVE  Height(2^k) = k
<1> DEFINE n == 2^k
           h == Height(n)
<1>1. n \in Nat
  BY TwoPower
<1>2. h \in Nat /\ 2^h >= n /\ \A g \in Nat : g < h => 2^g < n
  BY <1>1, HeightIs
<1>3. ~(k < h)
  BY <1>1, <1>2
<1>4. ~(h < k)
  BY <1>1, <1>2, PowerGrows, TwoPower
<1>5. QED
  BY <1>2, <1>3, <1>4

LEMMA LayersExist ==
  ASSUME NEW leaves, NEW n \in Nat
  PROVE  \E f : f = [h \in 0..n |-> IF h = 0 THEN leaves ELSE Parents(f[h - 1])]
<1> DEFINE S == {m \in Nat : \E f : f = [h \in 0..m |-> IF h = 0 THEN leaves ELSE Parents(f[h - 1])]}
<1>1. 0 \in S
  <2> DEFINE f == [h \in 0..0 |-> leaves]
  <2>1. f = [h \in 0..0 |-> IF h = 0 THEN leaves ELSE Parents(f[h - 1])]
    OBVIOUS
  <2> HIDE DEF f
  <2>2. QED
    BY <2>1
<1>2. ASSUME NEW m \in Nat, m \in S
      PROVE  m + 1 \in S
  <2>1. PICK f : f = [h \in 0..m |-> IF h = 0 THEN leaves ELSE Parents(f[h - 1])]
    BY <1>2
  <2> DEFINE g == [h \in 0..(m + 1) |-> IF h = m + 1 THEN Parents(f[m]) ELSE f[h]]
  <2>2. \A h \in 0..(m + 1) : g[h] = IF h = 0 THEN leaves ELSE Parents(g[h - 1])
    BY <2>1
  <2>3. g = [h \in 0..(m + 1) |-> g[h]]
    OBVIOUS
  <2> HIDE DEF g
  <2>4. g = [h \in 0..(m + 1) |-> IF h = 0 THEN leaves ELSE Parents(g[h - 1])]
    BY <2>2, <2>3
  <2>5. QED
    BY <2>4
<1> HIDE DEF S
<1>3. Nat \subseteq S
  BY <1>1, <1>2, Induction
<1>4. QED
  BY <1>3 DEF S

LEMMA LayersAre ==
  ASSUME NEW s, Len(s) \in Nat
  PROVE  /\ DOMAIN Layers(s) = 0..Height(Len(s))
         /\ Layers(s)[0] = Pad(s)
         /\ \A h \in 1..Height(Len(s)) : Layers(s)[h] = Parents(Layers(s)[h - 1])
<1> DEFINE H == Height(Len(s))
           L == Layers(s)
<1>1. H \in Nat
  BY HeightIs
<1>2. L = [h \in 0..H |-> IF h = 0 THEN Pad(s) ELSE Parents(L[h - 1])]
  BY <1>1, LayersExist, SMTT(30) DEF Layers
<1> HIDE DEF H, L
<1>3. QED
  BY <1>1, <1>2 DEF H, L

LEMMA ByIndex ==
  ASSUME NEW n \in Nat, NEW f, f = [i \in 1..n |-> f[i]]
  PROVE  f \in Seq(Range(f)) /\ Len(f) = n /\ DOMAIN f = 1..n
<1>1. DOMAIN f = 1..n
  OBVIOUS
<1>2. f \in [1..n -> Range(f)]
  <2>1. \A i \in 1..n : f[i] \in Range(f)
    BY <1>1 DEF Range
  <2>2. QED
    BY <2>1, Zenon
<1>3. f \in Seq(Range(f))
  BY <1>2
<1>4. Len(f) \in Nat /\ 1..Len(f) = 1..n
  BY <1>1, <1>3
<1>5. \A m \in Nat : Cardinality(1..m) = m
  BY FS_Interval
<1>6. Len(f) = n
  BY <1>4, <1>5
<1>7. QED
  BY <1>1, <1>3, <1>6

LEMMA RangeIs ==
  ASSUME NEW V, NEW f \in Seq(V)
  PROVE  f \in Seq(Range(f)) /\ Len(f) \in Nat /\ DOMAIN f = 1..Len(f)
<1> DEFINE n == Len(f)
<1>1. n \in Nat /\ DOMAIN f = 1..n /\ f = [i \in 1..n |-> f[i]]
  OBVIOUS
<1> HIDE DEF n
<1>2. f \in Seq(Range(f))
  BY <1>1, ByIndex
<1>3. QED
  BY <1>1, <1>2 DEF n

LEMMA PadIs ==
  ASSUME NEW s, Len(s) \in Nat
  PROVE  /\ Pad(s) \in Seq(Range(Pad(s))) /\ Len(Pad(s)) = 2^Height(Len(s))
         /\ DOMAIN Pad(s) = 1..2^Height(Len(s))
         /\ \A i \in 1..2^Height(Len(s)) : Pad(s)[i] = IF i <= Len(s) THEN s[i] ELSE Zero
<1> DEFINE n == 2^Height(Len(s))
           f == Pad(s)
<1>1. n \in Nat
  BY HeightIs, TwoPower
<1>2. f = [i \in 1..n |-> IF i <= Len(s) THEN s[i] ELSE Zero]
  BY Zenon DEF Pad
<1> HIDE DEF n, f
<1>3. f = [i \in 1..n |-> f[i]]
  BY <1>2
<1>4. f \in Seq(Range(f)) /\ Len(f) = n /\ DOMAIN f = 1..n
  BY <1>1, <1>3, ByIndex
<1>5. \A i \in 1..n : f[i] = IF i <= Len(s) THEN s[i] ELSE Zero
  BY <1>2
<1>6. QED
  BY <1>4, <1>5, Zenon DEF n, f

LEMMA ParentsAre ==
  ASSUME NEW nodes, NEW m \in Nat, Len(nodes) = 2 * m
  PROVE  /\ Parents(nodes) \in Seq(Range(Parents(nodes))) /\ Len(Parents(nodes)) = m
         /\ DOMAIN Parents(nodes) = 1..m
         /\ \A i \in 1..m : Parents(nodes)[i] = HashNode(nodes[2 * i - 1], nodes[2 * i])
<1> DEFINE f == Parents(nodes)
<1>1. Len(nodes) \div 2 = m
  OBVIOUS
<1>2. f = [i \in 1..m |-> f[i]] /\ \A i \in 1..m : f[i] = HashNode(nodes[2 * i - 1], nodes[2 * i])
  BY <1>1 DEF Parents
<1> HIDE DEF f
<1>3. f \in Seq(Range(f)) /\ Len(f) = m /\ DOMAIN f = 1..m
  BY <1>2, ByIndex
<1>4. QED
  BY <1>2, <1>3 DEF f

LEMMA LayerLength ==
  ASSUME NEW s, Len(s) \in Nat
  PROVE  \A h \in 0..Height(Len(s)) :
           /\ Layers(s)[h] \in Seq(Range(Layers(s)[h]))
           /\ Len(Layers(s)[h]) = 2^(Height(Len(s)) - h)
<1> DEFINE H == Height(Len(s))
           Fits(h) == Layers(s)[h] \in Seq(Range(Layers(s)[h])) /\ Len(Layers(s)[h]) = 2^(H - h)
           S == {h \in Nat : h <= H => Fits(h)}
<1>1. H \in Nat
  BY HeightIs
<1>2. 0 \in S
  BY <1>1, LayersAre, PadIs
<1>3. ASSUME NEW h \in Nat, h \in S
      PROVE  h + 1 \in S
  <2> SUFFICES ASSUME h + 1 <= H
               PROVE  Fits(h + 1)
    OBVIOUS
  <2> DEFINE m == 2^(H - (h + 1))
  <2>1. Len(Layers(s)[h]) = 2^(H - h)
    BY <1>1, <1>3
  <2>2. H - (h + 1) \in Nat /\ (H - (h + 1)) + 1 = H - h
    BY <1>1
  <2>3. m \in Nat /\ 2^(H - h) = 2 * m
    BY <2>2, TwoPower
  <2>4. h + 1 \in 1..H /\ (h + 1) - 1 = h
    BY <1>1
  <2>5. Layers(s)[h + 1] = Parents(Layers(s)[h])
    BY <2>4, LayersAre
  <2> HIDE DEF m
  <2>6. Len(Layers(s)[h]) = 2 * m
    BY <2>1, <2>3
  <2>7. /\ Layers(s)[h + 1] \in Seq(Range(Layers(s)[h + 1]))
        /\ Len(Layers(s)[h + 1]) = m
    BY <2>3, <2>5, <2>6, ParentsAre
  <2>8. QED
    BY <2>7 DEF m
<1> HIDE DEF S, Fits
<1>4. Nat \subseteq S
  BY <1>2, <1>3, Induction
<1>5. QED
  BY <1>1, <1>4 DEF S, Fits

(* A node is the digest of the two below it. *)
LEMMA NodeIs ==
  ASSUME NEW s, Len(s) \in Nat, NEW h \in 1..Height(Len(s)), NEW i \in 1..2^(Height(Len(s)) - h)
  PROVE  Layers(s)[h][i] = HashNode(Layers(s)[h - 1][2 * i - 1], Layers(s)[h - 1][2 * i])
<1> DEFINE H == Height(Len(s))
           m == 2^(H - h)
<1>1. H \in Nat /\ h - 1 \in 0..H
  BY HeightIs
<1>2. H - h \in Nat /\ (H - h) + 1 = H - (h - 1)
  BY <1>1
<1>3. m \in Nat /\ 2^(H - (h - 1)) = 2 * m
  <2>1. \A n \in Nat : 2^n \in Nat /\ 2^(n + 1) = 2 * 2^n
    BY TwoPower
  <2> HIDE DEF H
  <2>2. 2^(H - h) \in Nat /\ 2^((H - h) + 1) = 2 * 2^(H - h)
    BY <1>2, <2>1
  <2>3. QED
    BY <1>2, <2>2
<1>4. Len(Layers(s)[h - 1]) = 2 * m
  BY <1>1, <1>3, LayerLength
<1>5. Layers(s)[h] = Parents(Layers(s)[h - 1])
  BY LayersAre
<1> HIDE DEF m
<1>6. QED
  BY <1>3, <1>4, <1>5, ParentsAre DEF m

-----------------------------------------------------------------------------
(* The members of a set of slots, by their rank. *)
LEMMA AscendingIs ==
  ASSUME NEW S \in SUBSET Nat, IsFiniteSet(S)
  PROVE  /\ Cardinality(S) \in Nat
         /\ Ascending(S) \in Seq(S) /\ Len(Ascending(S)) = Cardinality(S)
         /\ \A x \in S : \E k \in 1..Cardinality(S) : Ascending(S)[k] = x
         /\ \A k \in 1..Cardinality(S) : \A j \in 1..Cardinality(S) :
              j < k => Ascending(S)[j] < Ascending(S)[k]
<1> DEFINE c == Cardinality(S)
           Below(x) == {y \in S : y <= x}
           r == [x \in S |-> Cardinality(Below(x))]
           A == Ascending(S)
<1>1. c \in Nat /\ IsFiniteSet(1..c) /\ Cardinality(1..c) = c
  <2>1. c \in Nat
    BY FS_CardinalityType
  <2>2. QED
    BY <2>1, FS_Interval
<1>2. \A x \in S : IsFiniteSet(Below(x)) /\ Cardinality(Below(x)) <= c
  <2>1. \A x \in S : Below(x) \in SUBSET S
    OBVIOUS
  <2> HIDE DEF Below
  <2>2. QED
    BY <2>1, FS_Subset
<1>3. \A x \in S : Cardinality(Below(x)) \in Nat
  BY <1>2, FS_CardinalityType
<1>4. \A x \in S : r[x] \in 1..c
  <2> SUFFICES ASSUME NEW x \in S
               PROVE  r[x] \in 1..c
    OBVIOUS
  <2>1. x \in Below(x)
    OBVIOUS
  <2>2. r[x] = Cardinality(Below(x))
    OBVIOUS
  <2> HIDE DEF Below, r
  <2>3. Cardinality(Below(x)) # 0
    BY <1>2, <2>1, FS_EmptySet
  <2>4. QED
    BY <1>1, <1>2, <1>3, <2>2, <2>3
<1>5. \A x, z \in S : x < z => r[x] < r[z]
  <2> SUFFICES ASSUME NEW x \in S, NEW z \in S, x < z
               PROVE  r[x] < r[z]
    OBVIOUS
  <2>0. /\ \A y \in S : y <= x => y <= z
        /\ z <= z /\ ~(z <= x)
    <3>1. S \subseteq Nat /\ x \in Nat /\ z \in Nat
      OBVIOUS
    <3>2. \A y \in S : y \in Nat
      OBVIOUS
    <3>3. QED
      BY <3>1, <3>2
  <2>1. Below(x) \in SUBSET Below(z) /\ z \in Below(z) /\ z \notin Below(x)
    BY <2>0
  <2>2. r[x] = Cardinality(Below(x)) /\ r[z] = Cardinality(Below(z))
    OBVIOUS
  <2> HIDE DEF Below, r
  <2>3. Cardinality(Below(x)) <= Cardinality(Below(z)) /\ Cardinality(Below(z)) # Cardinality(Below(x))
    BY <1>2, <2>1, FS_Subset
  <2>4. QED
    BY <1>3, <2>2, <2>3
<1>6. r \in [S -> 1..c] /\ \A x, z \in S : r[x] = r[z] => x = z
  <2>1. r \in [S -> 1..c]
    <3>1. r = [x \in S |-> r[x]]
      OBVIOUS
    <3> HIDE DEF r
    <3>2. QED
      BY <1>4, <3>1
  <2>2. QED
    BY <1>4, <1>5, <2>1
<1>7. \A k \in 1..c : \E x \in S : r[x] = k
  <2> HIDE DEF r
  <2>1. r \in Injection(S, 1..c)
    BY <1>6 DEF Injection, IsInjective
  <2>2. r \in Surjection(S, 1..c)
    BY <1>1, <2>1, FS_Injection
  <2>3. QED
    BY <2>2 DEF Surjection
<1>8. \A k \in 1..c : A[k] = CHOOSE x \in S : Cardinality(Below(x)) = k
  BY DEF Ascending
<1>9. \A k \in 1..c : A[k] \in S /\ r[A[k]] = k
  <2> SUFFICES ASSUME NEW k \in 1..c
               PROVE  A[k] \in S /\ r[A[k]] = k
    OBVIOUS
  <2>1. \A x \in S : r[x] = Cardinality(Below(x))
    OBVIOUS
  <2> HIDE DEF Below, r, A
  <2>2. PICK x \in S : Cardinality(Below(x)) = k
    BY <1>7, <2>1
  <2>3. A[k] \in S /\ Cardinality(Below(A[k])) = k
    BY <1>8, <2>2
  <2>4. QED
    BY <2>1, <2>3
<1>10. A \in [1..c -> S]
  <2>1. A = [k \in 1..c |-> CHOOSE x \in S : Cardinality(Below(x)) = k]
    BY DEF Ascending
  <2> HIDE DEF A, r, Below
  <2>2. QED
    BY <1>9, <2>1
<1> HIDE DEF r, A
<1>11. A \in Seq(S) /\ Len(A) = c
  <2>1. A = [k \in 1..c |-> A[k]]
    BY <1>10
  <2>2. Len(A) = c
    BY <1>1, <2>1, ByIndex
  <2>3. QED
    BY <1>1, <1>10, <2>2
<1>12. \A x \in S : \E k \in 1..c : A[k] = x
  BY <1>4, <1>6, <1>9
<1>13. \A j, k \in 1..c : j < k => A[j] < A[k]
  <2> SUFFICES ASSUME NEW j \in 1..c, NEW k \in 1..c, j < k, ~(A[j] < A[k])
               PROVE  FALSE
    OBVIOUS
  <2>1. /\ A[j] \in S /\ A[k] \in S /\ r[A[j]] = j /\ r[A[k]] = k
        /\ A[j] \in Nat /\ A[k] \in Nat
    BY <1>9
  <2>2. A[k] = A[j] \/ A[k] < A[j]
    BY <2>1
  <2>3. QED
    BY <1>1, <1>5, <2>1, <2>2
<1>14. QED
  BY <1>1, <1>11, <1>12, <1>13 DEF A

LEMMA SlotsAreFinite ==
  ASSUME NEW n \in Nat, NEW S \in SUBSET (1..n)
  PROVE  IsFiniteSet(S) /\ S \in SUBSET Nat /\ Cardinality(S) \in Nat /\ Cardinality(S) <= n
<1>1. IsFiniteSet(1..n) /\ Cardinality(1..n) = n
  BY FS_Interval
<1>2. IsFiniteSet(S) /\ Cardinality(S) <= Cardinality(1..n)
  BY <1>1, FS_Subset
<1>3. QED
  BY <1>1, <1>2, FS_CardinalityType

-----------------------------------------------------------------------------
(* What the verifier is given, and which guest is given what. *)
InputInv ==
  /\ Len(tree) \in Nat \ {0} /\ Len(tree) <= Len(OldLeaf) /\ Len(tree) <= Len(NewLeaf)
  /\ tree \in [1..Len(tree) -> Range(OldLeaf) \cup {Zero}]
  /\ targets \in SUBSET (1..Len(tree)) /\ claimed \in SUBSET (1..Len(tree))
  /\ side \in {"old", "new"} /\ layer \in {NoLayer} \cup 0..Height(Len(tree))
  /\ guest \in {"none", "current", "updated", "items", "tree", "proven", "aborted"}
  /\ signed \in BOOLEAN

GuestInv ==
  /\ guest \in {"current", "updated"} => targets # {}
  /\ guest \in {"items", "tree"} => targets = {}

LEMMA TreesAre ==
  ASSUME NEW t \in Trees
  PROVE  /\ Len(t) \in Nat \ {0} /\ Len(t) <= Len(OldLeaf) /\ Len(t) <= Len(NewLeaf)
         /\ t \in [1..Len(t) -> Range(OldLeaf) \cup {Zero}]
         /\ DOMAIN t = 1..Len(t)
<1>1. PICK n \in Sizes : \E zeros \in SUBSET (1..n) :
        t = [i \in 1..n |-> IF i \in zeros THEN Zero ELSE OldLeaf[i]]
  BY DEF Trees
<1>2. PICK zeros : t = [i \in 1..n |-> IF i \in zeros THEN Zero ELSE OldLeaf[i]]
  BY <1>1
<1>3. /\ n \in 1..Len(OldLeaf) /\ n <= Len(NewLeaf)
      /\ OldLeaf \in Seq(Range(OldLeaf)) /\ NewLeaf \in Seq(Range(NewLeaf))
  BY MultiProofAssumption
<1>4. n \in Nat \ {0} /\ Len(OldLeaf) \in Nat
  BY <1>3
<1>5. Len(t) = n /\ DOMAIN t = 1..n
  <2>1. t = [i \in 1..n |-> t[i]]
    BY <1>2
  <2>2. QED
    BY <1>4, <2>1, ByIndex
<1>6. \A i \in 1..n : t[i] \in Range(OldLeaf) \cup {Zero}
  <2>1. DOMAIN OldLeaf = 1..Len(OldLeaf)
    BY <1>3
  <2>2. \A i \in 1..n : OldLeaf[i] \in Range(OldLeaf)
    BY <1>3, <1>4, <2>1 DEF Range
  <2>3. QED
    BY <1>2, <2>2
<1>7. QED
  BY <1>2, <1>3, <1>4, <1>5, <1>6

LEMMA InitInputs == GuestInit => InputInv /\ GuestInv
<1> SUFFICES ASSUME GuestInit
             PROVE  InputInv /\ GuestInv
  OBVIOUS
<1>1. tree \in Trees
  BY DEF GuestInit, Outside, Init, UpdateInit, InsertInit
<1>2. /\ Len(tree) \in Nat \ {0} /\ Len(tree) <= Len(OldLeaf) /\ Len(tree) <= Len(NewLeaf)
      /\ tree \in [1..Len(tree) -> Range(OldLeaf) \cup {Zero}]
      /\ DOMAIN tree = 1..Len(tree)
  BY <1>1, TreesAre
<1>3. targets \in SUBSET (1..Len(tree)) /\ claimed \in SUBSET (1..Len(tree))
  BY <1>2 DEF GuestInit, Outside, Init, UpdateInit, InsertInit
<1>4. /\ side \in {"old", "new"} /\ layer \in {NoLayer} \cup 0..Height(Len(tree))
      /\ guest \in {"none", "current", "updated", "items", "tree", "proven", "aborted"}
      /\ signed \in BOOLEAN
  <2>1. CASE Outside
    BY <2>1 DEF GuestInit, Outside, Init
  <2>2. CASE UpdateInit
    BY <2>2 DEF GuestInit, UpdateInit
  <2>3. CASE InsertInit
    BY <2>3 DEF GuestInit, InsertInit
  <2>4. QED
    BY <2>1, <2>2, <2>3 DEF GuestInit
<1>5. GuestInv
  BY DEF GuestInit, Outside, Init, UpdateInit, InsertInit, GuestInv
<1>6. QED
  BY <1>2, <1>3, <1>4, <1>5 DEF InputInv

(* A step of the verifier, in either copy of the loop, leaves its inputs     *)
(* alone.                                                                  *)
LEMMA VerifyKeeps == Verify => UNCHANGED <<Inputs, guest, signed, buffers>>
BY DEF Verify, StartSingle, Start, HashPair, HashWithProof, Hash, GuestHashPair,
       GuestHashWithProof, GuestHash, RunsDry, Leftover, Compare

LEMMA StepInputs == InputInv /\ GuestInv /\ [GuestNext]_guestVars => InputInv' /\ GuestInv'
<1> SUFFICES ASSUME InputInv, GuestInv, [GuestNext]_guestVars
             PROVE  InputInv' /\ GuestInv'
  OBVIOUS
<1> USE DEF InputInv, GuestInv
<1>1. CASE UNCHANGED guestVars
  BY <1>1 DEF guestVars, vars, Inputs, Loop
<1>2. CASE Verify
  <2>1. UNCHANGED <<Inputs, guest, signed>>
    BY <1>2, VerifyKeeps
  <2>2. QED
    BY <2>1 DEF Inputs
<1>3. CASE CurrentVerified
  BY <1>3 DEF CurrentVerified
<1>4. CASE UpdatedVerified
  BY <1>4 DEF UpdatedVerified, vars, Inputs, Loop
<1>5. CASE VerificationFails
  BY <1>5 DEF VerificationFails, vars, Inputs, Loop
<1>6. CASE InsertItems
  BY <1>6 DEF InsertItems, vars, Inputs, Loop
<1>7. CASE InsertLevel
  BY <1>7 DEF InsertLevel, vars, Inputs, Loop
<1>8. CASE InsertCompare
  BY <1>8 DEF InsertCompare, vars, Inputs, Loop
<1>9. QED
  BY <1>1, <1>2, <1>3, <1>4, <1>5, <1>6, <1>7, <1>8 DEF GuestNext

LEMMA Claimed ==
  ASSUME InputInv
  PROVE  /\ Cardinality(claimed) \in Nat /\ Cardinality(claimed) <= Len(tree)
         /\ ClaimedLeaves \in Seq(Range(ClaimedLeaves))
         /\ Len(ClaimedLeaves) = Cardinality(claimed) /\ DOMAIN ClaimedLeaves = 1..Cardinality(claimed)
         /\ \A k \in 1..Cardinality(claimed) :
              ClaimedLeaves[k] = TheLeaves[Ascending(claimed)[k]]
         /\ Cardinality(claimed) = 0 <=> claimed = {}
<1> DEFINE c == Cardinality(claimed)
           cs == Ascending(claimed)
           f == ClaimedLeaves
<1>1. Len(tree) \in Nat /\ claimed \in SUBSET (1..Len(tree))
  BY DEF InputInv
<1>2. IsFiniteSet(claimed) /\ claimed \in SUBSET Nat /\ c \in Nat /\ c <= Len(tree)
  BY <1>1, SlotsAreFinite
<1>3. cs \in Seq(claimed) /\ Len(cs) = c
  BY <1>2, AscendingIs
<1>4. DOMAIN cs = 1..c
  <2> HIDE DEF c, cs
  <2>1. QED
    BY <1>3
<1>5. f = [k \in 1..c |-> TheLeaves[cs[k]]]
  <2>1. f = [k \in DOMAIN cs |-> TheLeaves[cs[k]]]
    BY Zenon DEF ClaimedLeaves
  <2> HIDE DEF c, cs, f
  <2>2. QED
    BY <1>4, <2>1
<1>6. c = 0 <=> claimed = {}
  BY <1>2, FS_EmptySet
<1> HIDE DEF c, cs, f
<1>7. f = [k \in 1..c |-> f[k]] /\ \A k \in 1..c : f[k] = TheLeaves[cs[k]]
  BY <1>5
<1>8. f \in Seq(Range(f)) /\ Len(f) = c /\ DOMAIN f = 1..c
  BY <1>2, <1>7, ByIndex
<1>9. QED
  BY <1>2, <1>6, <1>7, <1>8 DEF c, cs, f

LEMMA TheTree ==
  ASSUME InputInv
  PROVE  /\ Len(tree) \in Nat /\ DOMAIN tree = 1..Len(tree)
         /\ Len(Replaced) = Len(tree) /\ Len(TheLeaves) = Len(tree)
         /\ \A i \in 1..Len(tree) : i \notin targets => Replaced[i] = tree[i]
<1>1. Len(tree) \in Nat /\ tree \in [1..Len(tree) -> Range(OldLeaf) \cup {Zero}]
  BY DEF InputInv
<1>2. DOMAIN tree = 1..Len(tree)
  BY <1>1
<1> DEFINE n == Len(tree)
           r == Replaced
<1>3. r = [i \in 1..n |-> IF i \in targets THEN NewLeaf[i] ELSE tree[i]]
  BY <1>2 DEF Replaced
<1> HIDE DEF n, r
<1>4. Len(r) = n
  <2>1. r = [i \in 1..n |-> r[i]]
    BY <1>3
  <2>2. QED
    BY <1>1, <2>1, ByIndex DEF n
<1>5. \A i \in 1..n : i \notin targets => r[i] = tree[i]
  BY <1>3
<1>6. Len(TheLeaves) = n
  BY <1>4 DEF TheLeaves, n, r
<1>7. QED
  BY <1>1, <1>2, <1>4, <1>5, <1>6 DEF n, r

LEMMA SameLeaves ==
  (UNCHANGED <<tree, targets, claimed, side>>) =>
    /\ TheLeaves' = TheLeaves /\ ClaimedLeaves' = ClaimedLeaves /\ ExpectedRoot' = ExpectedRoot
    /\ Replaced' = Replaced /\ TheFlags' = TheFlags
<1> SUFFICES ASSUME UNCHANGED <<tree, targets, claimed, side>>
             PROVE  /\ TheLeaves' = TheLeaves /\ ClaimedLeaves' = ClaimedLeaves
                    /\ ExpectedRoot' = ExpectedRoot
                    /\ Replaced' = Replaced /\ TheFlags' = TheFlags
  OBVIOUS
<1>1. Replaced' = Replaced /\ TheFlags' = TheFlags
  BY DEF Replaced, TheFlags
<1>2. TheLeaves' = TheLeaves
  BY <1>1 DEF TheLeaves
<1>3. ClaimedLeaves' = ClaimedLeaves /\ ExpectedRoot' = ExpectedRoot
  BY <1>2 DEF ClaimedLeaves, ExpectedRoot
<1>4. QED
  BY <1>1, <1>2, <1>3

-----------------------------------------------------------------------------
(* The two hashes.  They are ideal: no two nodes have the all-zero digest    *)
(* under either of them, and what marks the digests of the guests is not     *)
(* itself a digest.                                                        *)
ZeroIsNoDigest == \A a, b : {a, b} # Zero
MarkTells == \A a, b : {a, b} # Raw /\ {a, b, Raw} # Zero

(* What a guest may compute, and what merkle.rs may. *)
Marked(x) == x = Zero \/ Raw \in x
Unmarked(x) == x = Zero \/ Raw \notin x

LEMMA NodesAreMarked ==
  ASSUME MarkTells, NEW x, NEW y
  PROVE  Marked(GuestNode(x, y)) /\ (GuestNode(x, y) = Zero <=> x = Zero /\ y = Zero)
<1>1. CASE x = Zero /\ y = Zero
  BY <1>1 DEF GuestNode, Marked
<1>2. CASE ~(x = Zero /\ y = Zero)
  <2>1. GuestNode(x, y) = {x, y, Raw} /\ {x, y, Raw} # Zero
    BY <1>2 DEF GuestNode, MarkTells
  <2>2. Raw \in {x, y, Raw}
    OBVIOUS
  <2>3. QED
    BY <1>2, <2>1, <2>2 DEF Marked
<1>3. QED
  BY <1>1, <1>2

(* There is one node at the top.                                           *)
LEMMA AtTop == \A h \in Nat : h - h = 0 /\ 2^(h - h) = 1 /\ 1 \in 1..2^(h - h)
<1> SUFFICES ASSUME NEW h \in Nat
             PROVE  h - h = 0 /\ 2^(h - h) = 1 /\ 1 \in 1..2^(h - h)
  OBVIOUS
<1>1. h - h = 0 /\ 2^0 = 1
  OBVIOUS
<1>2. PICK w : w = 2^(h - h)
  OBVIOUS
<1>3. w = 1
  BY <1>1, <1>2, Zenon
<1>4. 1 \in 1..w
  BY <1>3
<1>5. QED
  BY <1>1, <1>2, <1>3, <1>4, Zenon

(* Over zero leaves there are only zero nodes.                             *)
LEMMA ZeroLayers ==
  ASSUME NEW s, Len(s) \in Nat, \A i \in 1..Len(s) : s[i] = Zero
  PROVE  \A h \in 0..Height(Len(s)) : \A i \in 1..2^(Height(Len(s)) - h) : Layers(s)[h][i] = Zero
<1> DEFINE H == Height(Len(s))
           L == Layers(s)
           Zeros(h) == \A i \in 1..2^(H - h) : L[h][i] = Zero
           S == {h \in Nat : h <= H => Zeros(h)}
<1>1. H \in Nat
  BY HeightIs
<1>2. 0 \in S
  <2>1. L[0] = Pad(s) /\ H - 0 = H
    BY <1>1, LayersAre
  <2>2. \A i \in 1..2^H : Pad(s)[i] = IF i <= Len(s) THEN s[i] ELSE Zero
    BY PadIs
  <2> DEFINE w == 2^H
  <2>3. w \in Nat
    BY <1>1, TwoPower
  <2> HIDE DEF w
  <2>4. \A i \in 1..w : i <= Len(s) => i \in 1..Len(s)
    BY <2>3
  <2>5. \A i \in 1..w : Pad(s)[i] = Zero
    BY <2>2, <2>4 DEF w
  <2>6. QED
    BY <2>1, <2>5 DEF w
<1>3. ASSUME NEW h \in Nat, h \in S
      PROVE  h + 1 \in S
  <2> SUFFICES ASSUME h + 1 <= H, NEW i \in 1..2^(H - (h + 1))
               PROVE  L[h + 1][i] = Zero
    OBVIOUS
  <2>1. h + 1 \in 1..H /\ (h + 1) - 1 = h /\ h <= H
    BY <1>1
  <2>2. L[h + 1][i] = HashNode(L[h][2 * i - 1], L[h][2 * i])
    BY <2>1, NodeIs
  <2>3. 2 * i - 1 \in 1..2^(H - h) /\ 2 * i \in 1..2^(H - h)
    <3> DEFINE w == 2^(H - (h + 1))
    <3>1. w \in Nat /\ 2^(H - h) = 2 * w
      <4>1. H - (h + 1) \in Nat /\ (H - (h + 1)) + 1 = H - h
        BY <1>1, <2>1
      <4>2. QED
        BY <4>1, TwoPower
    <3>2. i \in 1..w
      OBVIOUS
    <3> HIDE DEF w
    <3>3. QED
      BY <3>1, <3>2
  <2>4. Zeros(h)
    BY <1>3, <2>1
  <2>5. QED
    BY <2>2, <2>3, <2>4 DEF HashNode
<1> HIDE DEF S, Zeros
<1>4. Nat \subseteq S
  BY <1>2, <1>3, Induction
<1>5. QED
  BY <1>1, <1>4 DEF S, Zeros

(* A zero root has only zero leaves below it.                              *)
LEMMA ZeroRoot ==
  ASSUME ZeroIsNoDigest, NEW s, Len(s) \in Nat \ {0}
  PROVE  MerkleRoot(s) = Zero <=> \A i \in 1..Len(s) : s[i] = Zero
<1> DEFINE H == Height(Len(s))
           L == Layers(s)
           Zeros(g) == \A i \in 1..2^g : L[H - g][i] = Zero
           S == {g \in Nat : g <= H => Zeros(g)}
<1>1. Len(s) \in Nat /\ H \in Nat /\ H - H = 0 /\ H \in 0..H
  <2>1. Len(s) \in Nat
    OBVIOUS
  <2>2. H \in Nat
    BY <2>1, HeightIs
  <2> HIDE DEF H
  <2>3. QED
    BY <2>1, <2>2
<1>2. MerkleRoot(s) = L[H][1]
  <2>1. s # <<>>
    OBVIOUS
  <2>2. QED
    BY <2>1 DEF MerkleRoot
<1>3. ASSUME \A i \in 1..Len(s) : s[i] = Zero
      PROVE  MerkleRoot(s) = Zero
  <2>1. \A i \in 1..2^(H - H) : L[H][i] = Zero
    BY <1>1, <1>3, ZeroLayers
  <2>2. 1 \in 1..2^(H - H)
    BY <1>1, AtTop
  <2>3. QED
    BY <1>2, <2>1, <2>2
<1>4. ASSUME MerkleRoot(s) = Zero
      PROVE  \A i \in 1..Len(s) : s[i] = Zero
  <2>1. 0 \in S
    <3>1. 2^0 = 1 /\ H - 0 = H
      BY <1>1
    <3>2. \A i \in 1..1 : L[H][i] = Zero
      <4>1. \A i \in 1..1 : i = 1
        OBVIOUS
      <4>2. L[H][1] = Zero
        BY <1>2, <1>4
      <4> HIDE DEF L, H
      <4>3. QED
        BY <4>1, <4>2
    <3>3. QED
      BY <3>1, <3>2
  <2>2. ASSUME NEW g \in Nat, g \in S
        PROVE  g + 1 \in S
    <3> SUFFICES ASSUME g + 1 <= H, NEW i \in 1..2^(g + 1)
                 PROVE  L[H - (g + 1)][i] = Zero
      OBVIOUS
    <3>1. g <= H /\ H - g \in 1..H /\ (H - g) - 1 = H - (g + 1) /\ H - (H - g) = g
      BY <1>1
    <3> DEFINE j == (i + 1) \div 2
               w == 2^g
    <3>2. w \in Nat /\ 2^(g + 1) = 2 * w
      BY TwoPower
    <3>3. j \in 1..w /\ (i = 2 * j - 1 \/ i = 2 * j)
      <4>1. i \in 1..(2 * w)
        BY <3>2
      <4> HIDE DEF w
      <4>2. QED
        BY <3>2, <4>1
    <3> HIDE DEF j
    <3>4. L[H - g][j] = HashNode(L[H - (g + 1)][2 * j - 1], L[H - (g + 1)][2 * j])
      <4>1. H - g \in 1..Height(Len(s)) /\ j \in 1..2^(Height(Len(s)) - (H - g))
        BY <3>1, <3>3
      <4>2. L[H - g][j] = HashNode(L[(H - g) - 1][2 * j - 1], L[(H - g) - 1][2 * j])
        BY <4>1, NodeIs
      <4>3. QED
        BY <3>1, <4>2
    <3>5. L[H - g][j] = Zero
      BY <2>2, <3>1, <3>3
    <3>6. L[H - (g + 1)][2 * j - 1] = Zero /\ L[H - (g + 1)][2 * j] = Zero
      BY <3>4, <3>5 DEF HashNode, ZeroIsNoDigest
    <3>7. QED
      BY <3>3, <3>6
  <2> HIDE DEF S, Zeros
  <2>3. Nat \subseteq S
    BY <2>1, <2>2, Induction
  <2>4. \A i \in 1..2^H : L[0][i] = Zero
    BY <1>1, <2>3 DEF S, Zeros
  <2>5. SUFFICES ASSUME NEW i \in 1..Len(s)
                 PROVE  s[i] = Zero
    OBVIOUS
  <2>6. i \in 1..2^H /\ i <= Len(s)
    <3>1. 2^H >= Len(s) /\ 2^H \in Nat
      BY <1>1, HeightIs, TwoPower
    <3> DEFINE w == 2^H
    <3>2. w >= Len(s) /\ w \in Nat
      BY <3>1
    <3> HIDE DEF w
    <3>3. i \in 1..w /\ i <= Len(s)
      BY <3>2
    <3>4. QED
      BY <3>3 DEF w
  <2>7. L[0][i] = s[i]
    BY <2>6, LayersAre, PadIs
  <2>8. QED
    BY <2>4, <2>6, <2>7
<1>5. QED
  BY <1>3, <1>4

(* A root of merkle.rs that is a digest is not one of a guest.             *)
LEMMA RootUnmarked ==
  ASSUME MarkTells, NEW s, Len(s) \in Nat, Len(s) >= 2, Raw # Zero,
         \A i \in 1..Len(s) : s[i] # Raw
  PROVE  Unmarked(MerkleRoot(s))
<1> DEFINE H == Height(Len(s))
           L == Layers(s)
<1>1. H \in Nat /\ H >= 1
  <2>1. H \in Nat /\ 2^H >= Len(s)
    BY HeightIs
  <2>2. 2^0 = 1
    OBVIOUS
  <2>3. H # 0
    <3> SUFFICES ASSUME H = 0
                 PROVE  FALSE
      OBVIOUS
    <3>1. 2^H = 1
      BY <2>2
    <3> HIDE DEF H
    <3>2. QED
      BY <2>1, <3>1
  <2>4. QED
    BY <2>1, <2>3
<1>2. MerkleRoot(s) = L[H][1]
  <2>1. s # <<>>
    OBVIOUS
  <2>2. QED
    BY <2>1 DEF MerkleRoot
<1>3. H \in 1..H /\ 1 \in 1..2^(H - H)
  <2>1. 1 \in 1..2^(H - H)
    BY <1>1, AtTop, Zenon
  <2> HIDE DEF H
  <2>2. H \in 1..H
    BY <1>1
  <2>3. QED
    BY <2>1, <2>2
<1>4. L[H][1] = HashNode(L[H - 1][2 * 1 - 1], L[H - 1][2 * 1])
  BY <1>3, NodeIs
<1>5. ASSUME NEW i \in 1..2
      PROVE  L[H - 1][i] # Raw
  <2>1. H - (H - 1) = 1 /\ 2^1 = 2 /\ H - 1 \in 0..H
    BY <1>1
  <2>2. CASE H = 1
    <3>1. L[H - 1] = Pad(s) /\ 2^H = 2
      BY <2>1, <2>2, LayersAre
    <3>2. i \in 1..2^H
      BY <3>1
    <3>3. Pad(s)[i] = IF i <= Len(s) THEN s[i] ELSE Zero
      BY <3>2, PadIs
    <3>4. QED
      BY <3>1, <3>3
  <2>3. CASE H # 1
    <3>1. H - 1 \in 1..H /\ i \in 1..2^(H - (H - 1))
      <4>1. H - 1 \in 1..H
        BY <1>1, <2>3
      <4>2. PICK w : w = 2^(H - (H - 1))
        OBVIOUS
      <4>3. w = 2
        BY <2>1, <4>2, Zenon
      <4>4. i \in 1..w
        BY <4>3
      <4>5. QED
        BY <4>1, <4>2, <4>4, Zenon
    <3>2. L[H - 1][i] = HashNode(L[(H - 1) - 1][2 * i - 1], L[(H - 1) - 1][2 * i])
      BY <3>1, NodeIs
    <3>3. QED
      BY <3>2 DEF HashNode, MarkTells
  <2>4. QED
    BY <2>2, <2>3
<1>6. L[H - 1][2 * 1 - 1] # Raw /\ L[H - 1][2 * 1] # Raw
  BY <1>5
<1> DEFINE x == L[H - 1][2 * 1 - 1]
           y == L[H - 1][2 * 1]
<1>7. MerkleRoot(s) = HashNode(x, y) /\ x # Raw /\ y # Raw
  BY <1>2, <1>4, <1>6
<1> HIDE DEF H, L, x, y
<1>8. CASE x = Zero /\ y = Zero
  BY <1>7, <1>8 DEF HashNode, Unmarked
<1>9. CASE ~(x = Zero /\ y = Zero)
  <2>1. MerkleRoot(s) = {x, y}
    BY <1>7, <1>9 DEF HashNode
  <2>2. Raw \notin {x, y}
    BY <1>7
  <2>3. QED
    BY <2>1, <2>2 DEF Unmarked
<1>10. QED
  BY <1>8, <1>9

-----------------------------------------------------------------------------
(* The insert guest.  Its buffer is a layer of a tree of its own: the       *)
(* padded leaves first, then digests of guests only.                       *)
GuestLayer(s, nodes, g) ==
  /\ g \in 0..Height(Len(s)) /\ Len(nodes) = 2^(Height(Len(s)) - g)
  /\ g = 0 => nodes = Pad(s)
  /\ g > 0 => \A i \in 1..Len(nodes) : Marked(nodes[i])
  /\ (\A i \in 1..Len(nodes) : nodes[i] = Zero) <=> (\A i \in 1..Len(s) : s[i] = Zero)

LEMMA GuestParentsAre ==
  ASSUME NEW nodes, NEW m \in Nat, Len(nodes) = 2 * m
  PROVE  /\ Len(GuestParents(nodes)) = m
         /\ \A i \in 1..m : GuestParents(nodes)[i] = GuestNode(nodes[2 * i - 1], nodes[2 * i])
<1> DEFINE f == GuestParents(nodes)
<1>1. Len(nodes) \div 2 = m
  OBVIOUS
<1>2. /\ f = [i \in 1..m |-> f[i]]
      /\ \A i \in 1..m : f[i] = GuestNode(nodes[2 * i - 1], nodes[2 * i])
  BY <1>1 DEF GuestParents
<1> HIDE DEF f
<1>3. Len(f) = m
  BY <1>2, ByIndex
<1>4. QED
  BY <1>2, <1>3 DEF f

LEMMA PadIsLayer ==
  ASSUME NEW s, Len(s) \in Nat
  PROVE  GuestLayer(s, Pad(s), 0)
<1> DEFINE H == Height(Len(s))
           w == 2^H
           p == Pad(s)
<1>1. H \in Nat /\ w \in Nat /\ w >= Len(s) /\ H - 0 = H
  <2>1. H \in Nat /\ w >= Len(s)
    BY HeightIs
  <2>2. \A n \in Nat : 2^n \in Nat /\ n - 0 = n
    BY TwoPower
  <2>3. QED
    BY <2>1, <2>2
<1>2. Len(p) = w /\ \A i \in 1..w : p[i] = IF i <= Len(s) THEN s[i] ELSE Zero
  BY PadIs
<1> HIDE DEF H, w, p
<1>3. (\A i \in 1..w : p[i] = Zero) <=> (\A i \in 1..Len(s) : s[i] = Zero)
  <2>1. ASSUME \A i \in 1..w : p[i] = Zero, NEW i \in 1..Len(s)
        PROVE  s[i] = Zero
    <3>1. i \in 1..w /\ i <= Len(s)
      BY <1>1
    <3>2. QED
      BY <1>2, <2>1, <3>1
  <2>2. ASSUME \A i \in 1..Len(s) : s[i] = Zero, NEW i \in 1..w
        PROVE  p[i] = Zero
    <3>1. i <= Len(s) => i \in 1..Len(s)
      BY <1>1
    <3>2. QED
      BY <1>2, <2>2, <3>1
  <2>3. QED
    BY <2>1, <2>2
<1>4. 0 \in 0..H
  BY <1>1
<1>5. QED
  BY <1>1, <1>2, <1>3, <1>4 DEF GuestLayer, H, w, p

LEMMA GuestLayerUp ==
  ASSUME MarkTells, NEW s, Len(s) \in Nat, NEW nodes, NEW g, GuestLayer(s, nodes, g),
         Len(nodes) > 1
  PROVE  GuestLayer(s, GuestParents(nodes), g + 1)
<1> DEFINE H == Height(Len(s))
           m == 2^(H - (g + 1))
           up == GuestParents(nodes)
<1>1. H \in Nat /\ g \in 0..H
  BY HeightIs DEF GuestLayer
<1>2. Len(nodes) = 2^(H - g)
  BY DEF GuestLayer
<1>3. g # H
  <2>1. 2^(H - H) = 1
    BY <1>1, AtTop
  <2> HIDE DEF H
  <2>2. QED
    BY <1>2, <2>1
<1>4. g + 1 \in 0..H /\ H - (g + 1) \in Nat /\ (H - (g + 1)) + 1 = H - g
  BY <1>1, <1>3
<1>5. m \in Nat /\ Len(nodes) = 2 * m
  <2>1. m \in Nat /\ 2^((H - (g + 1)) + 1) = 2 * m
    BY <1>4, TwoPower
  <2>2. QED
    BY <1>2, <1>4, <2>1
<1> HIDE DEF m, H
<1>6. /\ Len(up) = m
      /\ \A i \in 1..m : up[i] = GuestNode(nodes[2 * i - 1], nodes[2 * i])
  BY <1>5, GuestParentsAre
<1> HIDE DEF up
<1>7. \A i \in 1..m : Marked(up[i])
  BY <1>6, NodesAreMarked
<1>8. (\A i \in 1..m : up[i] = Zero) <=> (\A i \in 1..Len(nodes) : nodes[i] = Zero)
  <2>1. ASSUME \A i \in 1..m : up[i] = Zero, NEW i \in 1..Len(nodes)
        PROVE  nodes[i] = Zero
    <3>1. PICK j \in 1..m : i = 2 * j - 1 \/ i = 2 * j
      <4> DEFINE j == (i + 1) \div 2
      <4>1. i \in 1..(2 * m)
        BY <1>5
      <4>2. j \in 1..m /\ (i = 2 * j - 1 \/ i = 2 * j)
        BY <1>5, <4>1
      <4> HIDE DEF j
      <4>3. QED
        BY <4>2
    <3>2. GuestNode(nodes[2 * j - 1], nodes[2 * j]) = Zero
      BY <1>6, <2>1
    <3>3. nodes[2 * j - 1] = Zero /\ nodes[2 * j] = Zero
      BY <3>2, NodesAreMarked
    <3>4. QED
      BY <3>1, <3>3
  <2>2. ASSUME \A i \in 1..Len(nodes) : nodes[i] = Zero, NEW i \in 1..m
        PROVE  up[i] = Zero
    <3>1. 2 * i - 1 \in 1..Len(nodes) /\ 2 * i \in 1..Len(nodes)
      BY <1>5
    <3>2. QED
      BY <1>6, <2>2, <3>1 DEF GuestNode
  <2>3. QED
    BY <2>1, <2>2
<1>9. (\A i \in 1..Len(nodes) : nodes[i] = Zero) <=> (\A i \in 1..Len(s) : s[i] = Zero)
  BY DEF GuestLayer
<1>10. g + 1 # 0 /\ Len(up) = 2^(H - (g + 1))
  BY <1>1, <1>6 DEF m
<1>11. QED
  BY <1>4, <1>6, <1>7, <1>8, <1>9, <1>10 DEF GuestLayer, H, up

LEMMA HeightOfOne ==
  ASSUME NEW n \in Nat \ {0}
  PROVE  Height(n) = 0 <=> n = 1
<1>1. 2^0 = 1
  OBVIOUS
<1>2. Height(1) = 0
  <2>1. Height(2^0) = 0
    BY HeightOfPower
  <2>2. QED
    BY <1>1, <2>1
<1>3. ASSUME Height(n) = 0
      PROVE  n = 1
  <2>1. n \in Nat
    OBVIOUS
  <2>2. 2^Height(n) >= n
    BY <2>1, HeightIs
  <2>3. 2^0 >= n
    BY <1>3, <2>2
  <2>4. QED
    BY <1>1, <2>3
<1>4. QED
  BY <1>2, <1>3

(* The last buffer against the root of a tree at least as large.            *)
LEMMA GuestRoot ==
  ASSUME ZeroIsNoDigest, MarkTells, Raw # Zero,
         NEW s, Len(s) \in Nat \ {0}, NEW t, Len(t) \in Nat \ {0}, Len(s) <= Len(t),
         \A i \in 1..Len(t) : t[i] # Raw,
         NEW nodes, NEW g, GuestLayer(s, nodes, g), Len(nodes) <= 1
  PROVE  nodes[1] = MerkleRoot(t)
           <=> /\ MerkleRoot(s) = MerkleRoot(t)
               /\ Len(s) <= 1 \/ MerkleRoot(t) = Zero
<1> DEFINE H == Height(Len(s))
<1>1. Len(s) \in Nat /\ Len(t) \in Nat
  OBVIOUS
<1>2. H \in Nat /\ g \in 0..H /\ Len(nodes) = 2^(H - g)
  BY <1>1, HeightIs DEF GuestLayer
<1>3. g = H /\ Len(nodes) = 1
  <2>1. H - g \in Nat
    BY <1>2
  <2>2. 2^(H - g) >= 1 /\ 2^(H - g) \in Nat /\ 2^0 = 1
    BY <2>1, TwoPower
  <2>3. H - g > 0 => 2^0 < 2^(H - g)
    BY <2>1, PowerGrows
  <2> DEFINE w == 2^(H - g)
             one == 2^0
  <2>4. w >= 1 /\ w \in Nat /\ one = 1 /\ (H - g > 0 => one < w) /\ Len(nodes) = w
    BY <1>2, <2>2, <2>3
  <2> HIDE DEF w, one, H
  <2>5. QED
    BY <1>2, <2>1, <2>4
<1>4. s # <<>> /\ MerkleRoot(s) = Layers(s)[H][1]
  <2>1. s # <<>>
    OBVIOUS
  <2>2. QED
    BY <2>1 DEF MerkleRoot
<1>5. H = 0 <=> Len(s) = 1
  BY HeightOfOne
<1>6. MerkleRoot(s) = Zero <=> nodes[1] = Zero
  <2>1. (\A i \in 1..Len(nodes) : nodes[i] = Zero) <=> (\A i \in 1..Len(s) : s[i] = Zero)
    BY DEF GuestLayer
  <2>2. (\A i \in 1..Len(nodes) : nodes[i] = Zero) <=> nodes[1] = Zero
    <3>1. \A i : i \in 1..Len(nodes) <=> i = 1
      BY <1>3
    <3>2. QED
      BY <3>1
  <2>3. QED
    BY <2>1, <2>2, ZeroRoot
<1>7. CASE Len(s) = 1
  <2>1. nodes = Pad(s) /\ H = 0
    BY <1>3, <1>5, <1>7 DEF GuestLayer
  <2>2. Layers(s)[0] = Pad(s)
    BY <1>1, LayersAre
  <2>3. nodes[1] = MerkleRoot(s)
    BY <1>4, <2>1, <2>2
  <2>4. QED
    BY <1>7, <2>3
<1>8. CASE Len(s) # 1
  <2>1. Len(s) >= 2 /\ Len(t) >= 2 /\ ~(Len(s) <= 1)
    <3> DEFINE n == Len(s)
               m == Len(t)
    <3>1. n \in Nat \ {0} /\ m \in Nat \ {0} /\ n <= m /\ n # 1
      BY <1>8
    <3> HIDE DEF n, m
    <3>2. n >= 2 /\ m >= 2 /\ ~(n <= 1)
      BY ONLY <3>1
    <3>3. QED
      BY <3>2 DEF n, m
  <2>2. Unmarked(MerkleRoot(t))
    BY <1>1, <2>1, RootUnmarked
  <2>3. Marked(nodes[1])
    <3>1. g > 0
      BY <1>2, <1>3, <1>5, <1>8
    <3>2. 1 \in 1..Len(nodes)
      BY <1>3
    <3>3. QED
      BY <3>1, <3>2 DEF GuestLayer
  <2>4. nodes[1] = MerkleRoot(t) => nodes[1] = Zero
    BY <2>2, <2>3 DEF Marked, Unmarked
  <2>5. QED
    BY <1>6, <2>1, <2>4
<1>9. QED
  BY <1>7, <1>8

LEMMA LeavesApart ==
  ASSUME InputInv
  PROVE  Raw # Zero /\ \A i \in 1..Len(tree) : TheLeaves[i] # Raw
<1>1. Raw # Zero /\ Raw \notin Range(OldLeaf) \cup Range(NewLeaf)
  BY GuestAssumption
<1>2. \A i \in 1..Len(tree) : tree[i] \in Range(OldLeaf) \cup {Zero}
  BY DEF InputInv
<1>3. \A i \in 1..Len(tree) : NewLeaf[i] \in Range(NewLeaf)
  <2>1. NewLeaf \in Seq(Range(NewLeaf)) /\ Len(tree) \in Nat /\ Len(tree) <= Len(NewLeaf)
    BY MultiProofAssumption DEF InputInv
  <2>2. Len(NewLeaf) \in Nat /\ DOMAIN NewLeaf = 1..Len(NewLeaf)
    BY <2>1
  <2>3. \A i \in 1..Len(tree) : i \in DOMAIN NewLeaf
    BY <2>1, <2>2
  <2>4. QED
    BY <2>3 DEF Range
<1>4. \A i \in 1..Len(tree) : Replaced[i] = IF i \in targets THEN NewLeaf[i] ELSE tree[i]
  BY TheTree DEF Replaced
<1>5. QED
  BY <1>1, <1>2, <1>3, <1>4 DEF TheLeaves

InsertInv ==
  /\ guest = "tree" =>
       /\ signed
       /\ claimed = {} => buffers[1] = <<>>
       /\ claimed # {} => \E g \in Nat : GuestLayer(ClaimedLeaves, buffers[1], g)
  /\ OnlyUnhashedInsertsProven

LEMMA InitInsert == GuestInit => InsertInv
  BY DEF GuestInit, Outside, UpdateInit, InsertInit, InsertInv, OnlyUnhashedInsertsProven, Ended

LEMMA StepInsert ==
  ASSUME ZeroIsNoDigest, MarkTells, InputInv, GuestInv, InsertInv, [GuestNext]_guestVars
  PROVE  InsertInv'
<1>1. CASE UNCHANGED guestVars
  <2>1. UNCHANGED <<tree, targets, claimed, side, guest, signed, buffers>>
    BY <1>1 DEF guestVars, vars, Inputs
  <2>2. ClaimedLeaves' = ClaimedLeaves /\ ExpectedRoot' = ExpectedRoot
    BY <2>1, SameLeaves
  <2>3. QED
    BY <2>1, <2>2 DEF InsertInv, OnlyUnhashedInsertsProven, Ended, IsInsert
<1>2. CASE Verify
  <2>1. UNCHANGED <<tree, targets, claimed, side, guest, signed, buffers>>
    BY <1>2, VerifyKeeps DEF Inputs
  <2>2. QED
    BY <1>2, <2>1 DEF Verify, InsertInv, OnlyUnhashedInsertsProven, Ended
<1>3. CASE CurrentVerified
  BY <1>3 DEF CurrentVerified, InsertInv, OnlyUnhashedInsertsProven, Ended
<1>4. CASE UpdatedVerified
  BY <1>4 DEF UpdatedVerified, vars, Inputs, InsertInv, OnlyUnhashedInsertsProven, IsInsert, GuestInv
<1>5. CASE VerificationFails
  BY <1>5 DEF VerificationFails, vars, Inputs, InsertInv, OnlyUnhashedInsertsProven, IsInsert, GuestInv
<1>6. CASE InsertItems
  <2>1. UNCHANGED <<tree, targets, claimed, side, signed>> /\ guest = "items"
    BY <1>6 DEF InsertItems, vars, Inputs
  <2>2. ClaimedLeaves' = ClaimedLeaves /\ ExpectedRoot' = ExpectedRoot
    BY <2>1, SameLeaves
  <2>3. /\ guest' = IF signed THEN "tree" ELSE "aborted"
        /\ buffers'[1] = IF claimed = {} THEN <<>> ELSE Pad(ClaimedLeaves)
    BY <1>6 DEF InsertItems
  <2>4. GuestLayer(ClaimedLeaves, Pad(ClaimedLeaves), 0) /\ 0 \in Nat
    <3>1. Len(ClaimedLeaves) \in Nat
      BY Claimed
    <3>2. QED
      BY <3>1, PadIsLayer
  <2>5. signed \in BOOLEAN
    BY DEF InputInv
  <2>6. CASE signed
    <3>1. claimed # {} => \E g \in Nat : GuestLayer(ClaimedLeaves, buffers'[1], g)
      BY <2>3, <2>4
    <3>2. QED
      BY <2>1, <2>2, <2>3, <2>6, <3>1 DEF InsertInv, OnlyUnhashedInsertsProven, Ended
  <2>7. CASE ~signed
    BY <2>1, <2>3, <2>7 DEF InsertInv, OnlyUnhashedInsertsProven, Ended
  <2>8. QED
    BY <2>5, <2>6, <2>7
<1>7. CASE InsertLevel
  <2>1. UNCHANGED <<tree, targets, claimed, side, guest, signed>> /\ guest = "tree"
    BY <1>7 DEF InsertLevel, vars, Inputs
  <2>2. ClaimedLeaves' = ClaimedLeaves
    BY <2>1, SameLeaves
  <2>3. buffers'[1] = GuestParents(buffers[1]) /\ Len(buffers[1]) > 1
    BY <1>7 DEF InsertLevel
  <2>4. claimed # {}
    BY <2>1, <2>3 DEF InsertInv
  <2>5. PICK g \in Nat : GuestLayer(ClaimedLeaves, buffers[1], g)
    BY <2>1, <2>4 DEF InsertInv
  <2>6. GuestLayer(ClaimedLeaves, buffers'[1], g + 1) /\ g + 1 \in Nat
    <3>1. Len(ClaimedLeaves) \in Nat
      BY Claimed
    <3>2. GuestLayer(ClaimedLeaves, GuestParents(buffers[1]), g + 1)
      BY <2>3, <2>5, <3>1, GuestLayerUp
    <3>3. QED
      BY <2>3, <3>2
  <2>7. QED
    BY <2>1, <2>2, <2>4, <2>6 DEF InsertInv, OnlyUnhashedInsertsProven, Ended
<1>8. CASE InsertCompare
  <2>1. UNCHANGED <<tree, targets, claimed, side, signed>> /\ guest = "tree"
    BY <1>8 DEF InsertCompare, vars, Inputs
  <2>2. ClaimedLeaves' = ClaimedLeaves /\ ExpectedRoot' = ExpectedRoot
    BY <2>1, SameLeaves
  <2>3. /\ Len(buffers[1]) <= 1
        /\ guest' = IF (IF claimed = {} THEN Zero ELSE buffers[1][1]) = ExpectedRoot
                    THEN "proven" ELSE "aborted"
    BY <1>8 DEF InsertCompare
  <2>4. signed
    BY <2>1 DEF InsertInv
  <2>5. (IF claimed = {} THEN Zero ELSE buffers[1][1]) = ExpectedRoot
          <=> /\ MerkleRoot(ClaimedLeaves) = ExpectedRoot
              /\ Len(ClaimedLeaves) <= 1 \/ ExpectedRoot = Zero
    <3>1. CASE claimed = {}
      <4>1. Len(ClaimedLeaves) = 0 /\ ClaimedLeaves \in Seq(Range(ClaimedLeaves))
        BY <3>1, Claimed
      <4>2. ClaimedLeaves = <<>>
        <5> DEFINE cl == ClaimedLeaves
                   R == Range(cl)
        <5>1. cl \in Seq(R) /\ Len(cl) = 0
          BY <4>1
        <5> HIDE DEF cl, R
        <5>2. cl = <<>>
          BY <5>1, EmptySeq
        <5>3. QED
          BY <5>2 DEF cl
      <4>3. MerkleRoot(ClaimedLeaves) = Zero
        BY <4>2 DEF MerkleRoot
      <4>4. QED
        BY <3>1, <4>1, <4>3
    <3>2. CASE claimed # {}
      <4>1. PICK g \in Nat : GuestLayer(ClaimedLeaves, buffers[1], g)
        BY <2>1, <3>2 DEF InsertInv
      <4>2. /\ Len(ClaimedLeaves) \in Nat \ {0} /\ Len(TheLeaves) \in Nat \ {0}
            /\ Len(ClaimedLeaves) <= Len(TheLeaves)
        BY <3>2, Claimed, TheTree DEF InputInv
      <4>3. Raw # Zero /\ \A i \in 1..Len(TheLeaves) : TheLeaves[i] # Raw
        BY LeavesApart, TheTree
      <4>4. QED
        BY <2>3, <3>2, <4>1, <4>2, <4>3, GuestRoot DEF ExpectedRoot
    <3>3. QED
      BY <3>1, <3>2
  <2>6. QED
    BY <2>1, <2>2, <2>3, <2>4, <2>5 DEF InsertInv, OnlyUnhashedInsertsProven, Ended
<1>9. QED
  BY <1>1, <1>2, <1>3, <1>4, <1>5, <1>6, <1>7, <1>8 DEF GuestNext

(* Given a root MerkleTree::root computes, the insert guest proves a signed *)
(* batch that has this root exactly if it is a single leaf, which is not    *)
(* hashed, or all zero, for batches of any size (insert.rs:25-90,           *)
(* merkle.rs:4-39).                                                        *)
THEOREM InsertsUnhashed ==
  ZeroIsNoDigest /\ MarkTells => (GuestSpec => []OnlyUnhashedInsertsProven)
<1> SUFFICES ASSUME ZeroIsNoDigest, MarkTells
             PROVE  GuestSpec => []OnlyUnhashedInsertsProven
  OBVIOUS
<1>1. GuestInit => InputInv /\ GuestInv /\ InsertInv
  BY InitInputs, InitInsert
<1>2. /\ InputInv /\ GuestInv /\ InsertInv
      /\ [GuestNext]_guestVars
      => InputInv' /\ GuestInv' /\ InsertInv'
  BY StepInputs, StepInsert
<1>3. InsertInv => OnlyUnhashedInsertsProven
  BY DEF InsertInv
<1>4. QED
  BY <1>1, <1>2, <1>3, PTL DEF GuestSpec

-----------------------------------------------------------------------------
(* The nodes above the targets. *)
ParentsOf(nodes) == {(i + 1) \div 2 : i \in nodes}

LEMMA TargetsExist ==
  ASSUME NEW ts, NEW n \in Nat
  PROVE  \E f : f = [h \in 0..n |-> IF h = 0 THEN ts ELSE ParentsOf(f[h - 1])]
<1> DEFINE S == {m \in Nat : \E f : f = [h \in 0..m |->
                     IF h = 0 THEN ts ELSE ParentsOf(f[h - 1])]}
<1>1. 0 \in S
  <2> DEFINE f == [h \in 0..0 |-> ts]
  <2>1. f = [h \in 0..0 |-> IF h = 0 THEN ts ELSE ParentsOf(f[h - 1])]
    OBVIOUS
  <2> HIDE DEF f
  <2>2. QED
    BY <2>1
<1>2. ASSUME NEW m \in Nat, m \in S
      PROVE  m + 1 \in S
  <2>1. PICK f : f = [h \in 0..m |-> IF h = 0 THEN ts ELSE ParentsOf(f[h - 1])]
    BY <1>2
  <2> DEFINE g == [h \in 0..(m + 1) |->
                     IF h = m + 1 THEN ParentsOf(f[m]) ELSE f[h]]
  <2>2. \A h \in 0..(m + 1) : g[h] = IF h = 0 THEN ts ELSE ParentsOf(g[h - 1])
    BY <2>1
  <2>3. g = [h \in 0..(m + 1) |-> g[h]]
    OBVIOUS
  <2> HIDE DEF g
  <2>4. g = [h \in 0..(m + 1) |-> IF h = 0 THEN ts ELSE ParentsOf(g[h - 1])]
    BY <2>2, <2>3
  <2>5. QED
    BY <2>4
<1> HIDE DEF S
<1>3. Nat \subseteq S
  BY <1>1, <1>2, Induction
<1>4. QED
  BY <1>3 DEF S

LEMMA TargetsAre ==
  ASSUME NEW s, Len(s) \in Nat, NEW ts \in SUBSET (1..Len(s))
  PROVE  /\ TargetsAt(s, ts)[0] = ts
         /\ \A h \in 1..Height(Len(s)) :
              TargetsAt(s, ts)[h] = ParentsOf(TargetsAt(s, ts)[h - 1])
         /\ \A h \in 0..Height(Len(s)) : TargetsAt(s, ts)[h] \in SUBSET (1..2^(Height(Len(s)) - h))
<1> DEFINE H == Height(Len(s))
           at == TargetsAt(s, ts)
           S == {h \in Nat : h <= H => at[h] \in SUBSET (1..2^(H - h))}
<1>1. H \in Nat /\ 2^H >= Len(s)
  BY HeightIs
<1>2. at = [h \in 0..H |-> IF h = 0 THEN ts ELSE ParentsOf(at[h - 1])]
  <2>1. \E f : f = [h \in 0..H |-> IF h = 0 THEN ts ELSE ParentsOf(f[h - 1])]
    <3> HIDE DEF H
    <3>1. QED
      BY <1>1, TargetsExist, ZenonT(60)
  <2>2. \E f : f = [h \in 0..H |-> IF h = 0 THEN ts ELSE {(i + 1) \div 2 : i \in f[h - 1]}]
    BY <2>1, Zenon DEF ParentsOf
  <2>3. at = CHOOSE f : f = [h \in 0..H |-> IF h = 0 THEN ts ELSE {(i + 1) \div 2 : i \in f[h - 1]}]
    BY Zenon DEF TargetsAt
  <2> HIDE DEF H, at
  <2>4. at = [h \in 0..H |-> IF h = 0 THEN ts ELSE {(i + 1) \div 2 : i \in at[h - 1]}]
    BY <2>2, <2>3, Zenon
  <2>5. QED
    BY <2>4, Zenon DEF ParentsOf
<1> HIDE DEF H, at
<1>3. /\ at[0] = ts
      /\ \A h \in 1..H : at[h] = ParentsOf(at[h - 1])
  BY <1>1, <1>2
<1>4. 0 \in S
  <2>1. 2^H \in Nat /\ H - 0 = H
    BY <1>1, TwoPower
  <2>2. ts \in SUBSET (1..2^H)
    BY <1>1, <2>1
  <2>3. at[0] \in SUBSET (1..2^(H - 0))
    BY <1>3, <2>1, <2>2
  <2>4. QED
    BY <2>3
<1>5. ASSUME NEW h \in Nat, h \in S
      PROVE  h + 1 \in S
  <2> SUFFICES ASSUME h + 1 <= H
               PROVE  at[h + 1] \in SUBSET (1..2^(H - (h + 1)))
    OBVIOUS
  <2> DEFINE m == 2^(H - (h + 1))
  <2>1. H - (h + 1) \in Nat /\ (H - (h + 1)) + 1 = H - h
    BY <1>1
  <2>2. m \in Nat /\ 2^(H - h) = 2 * m
    BY <2>1, TwoPower
  <2>3. at[h] \in SUBSET (1..2^(H - h))
    BY <1>1, <1>5
  <2>4. at[h + 1] = ParentsOf(at[h])
    BY <1>1, <1>3
  <2> HIDE DEF m, S
  <2>5. \A i \in 1..(2 * m) : (i + 1) \div 2 \in 1..m
    BY <2>2
  <2>6. at[h + 1] \in SUBSET (1..m)
    BY <2>2, <2>3, <2>4, <2>5 DEF ParentsOf
  <2>7. QED
    BY <2>6 DEF m
<1> HIDE DEF S
<1>6. Nat \subseteq S
  BY <1>4, <1>5, Induction
<1>7. \A h \in 0..H : at[h] \in SUBSET (1..2^(H - h))
  BY <1>1, <1>6 DEF S
<1>8. QED
  BY <1>3, <1>7 DEF H, at

(* The children of a parent, and its sibling. *)
LEMMA Children ==
  ASSUME NEW m \in Nat, NEW ts \in SUBSET (1..(2 * m)), NEW p \in Nat
  PROVE  /\ p \in ParentsOf(ts) <=> p >= 1 /\ (2 * p - 1 \in ts \/ 2 * p \in ts)
         /\ \A i \in ts : (i + 1) \div 2 \in 1..m /\ i \in {2 * ((i + 1) \div 2) - 1, 2 * ((i + 1) \div 2)}
         /\ ~BothTargets(p, ts) => Sibling(p, ts) \notin ts
         /\ p \in 1..m => Sibling(p, ts) \in 1..(2 * m)
<1>1. \A i \in 1..(2 * m) : /\ (i + 1) \div 2 \in 1..m
                            /\ i = 2 * ((i + 1) \div 2) - 1 \/ i = 2 * ((i + 1) \div 2)
  OBVIOUS
<1>2. (2 * p - 1 + 1) \div 2 = p /\ (2 * p + 1) \div 2 = p
  OBVIOUS
<1>3. p \in ParentsOf(ts) => p >= 1 /\ (2 * p - 1 \in ts \/ 2 * p \in ts)
  <2> SUFFICES ASSUME p \in ParentsOf(ts)
               PROVE  p >= 1 /\ (2 * p - 1 \in ts \/ 2 * p \in ts)
    OBVIOUS
  <2>1. PICK i \in ts : p = (i + 1) \div 2
    BY DEF ParentsOf
  <2>2. i \in 1..(2 * m)
    OBVIOUS
  <2>3. p \in 1..m /\ (i = 2 * p - 1 \/ i = 2 * p)
    BY <1>1, <2>1, <2>2
  <2>4. QED
    BY <2>3
<1>4. 2 * p - 1 \in ts \/ 2 * p \in ts => p \in ParentsOf(ts)
  BY <1>2 DEF ParentsOf
<1>5. ~BothTargets(p, ts) => Sibling(p, ts) \notin ts
  BY DEF BothTargets, Sibling
<1>6. p \in 1..m => Sibling(p, ts) \in 1..(2 * m)
  BY DEF Sibling
<1>7. QED
  BY <1>1, <1>3, <1>4, <1>5, <1>6

-----------------------------------------------------------------------------
(* A node that is not above a target does not depend on the targets. *)
LEMMA Unaffected ==
  ASSUME NEW s, NEW t, Len(s) \in Nat, Len(t) = Len(s), NEW ts \in SUBSET (1..Len(s)),
         \A i \in 1..Len(s) : i \notin ts => t[i] = s[i]
  PROVE  \A h \in 0..Height(Len(s)) : \A i \in 1..2^(Height(Len(s)) - h) :
           i \notin TargetsAt(s, ts)[h] => Layers(t)[h][i] = Layers(s)[h][i]
<1> DEFINE H == Height(Len(s))
           at == TargetsAt(s, ts)
           Same(h) == \A i \in 1..2^(H - h) : i \notin at[h] => Layers(t)[h][i] = Layers(s)[h][i]
           S == {h \in Nat : h <= H => Same(h)}
<1>1. H \in Nat /\ Height(Len(t)) = H
  BY HeightIs
<1>0. /\ at[0] = ts
      /\ \A g \in 0..H : at[g] \in SUBSET (1..2^(H - g))
      /\ \A g \in 1..H : at[g] = ParentsOf(at[g - 1])
  BY TargetsAre
<1>2. 0 \in S
  <2>1. at[0] = ts /\ H - 0 = H
    BY <1>0, <1>1
  <2>2. Layers(t)[0] = Pad(t) /\ Layers(s)[0] = Pad(s)
    BY LayersAre
  <2>3. /\ \A i \in 1..2^H : Pad(s)[i] = IF i <= Len(s) THEN s[i] ELSE Zero
        /\ \A i \in 1..2^H : Pad(t)[i] = IF i <= Len(s) THEN t[i] ELSE Zero
    BY <1>1, PadIs
  <2>4. 2^H \in Nat
    BY <1>1, TwoPower
  <2> HIDE DEF H, at
  <2>5. \A i \in 1..2^H : i \notin ts => Pad(t)[i] = Pad(s)[i]
    BY <2>3, <2>4
  <2>6. Same(0)
    BY <2>1, <2>2, <2>5
  <2>7. QED
    BY <2>6
<1>3. ASSUME NEW h \in Nat, h \in S
      PROVE  h + 1 \in S
  <2> SUFFICES ASSUME h + 1 <= H, NEW i \in 1..2^(H - (h + 1)), i \notin at[h + 1]
               PROVE  Layers(t)[h + 1][i] = Layers(s)[h + 1][i]
    OBVIOUS
  <2> DEFINE m == 2^(H - (h + 1))
  <2>1. H - (h + 1) \in Nat /\ (H - (h + 1)) + 1 = H - h /\ h + 1 \in 1..H /\ (h + 1) - 1 = h
    BY <1>1
  <2>2. m \in Nat /\ 2^(H - h) = 2 * m
    BY <2>1, TwoPower
  <2>3. at[h] \in SUBSET (1..(2 * m)) /\ at[h + 1] = ParentsOf(at[h])
    <3>1. h \in 0..H
      BY <1>1, <2>1
    <3> HIDE DEF H, at, m
    <3>2. QED
      BY <1>0, <2>1, <2>2, <3>1
  <2>4. Same(h)
    BY <1>1, <1>3
  <2>5. /\ Layers(s)[h + 1][i] = HashNode(Layers(s)[h][2 * i - 1], Layers(s)[h][2 * i])
        /\ Layers(t)[h + 1][i] = HashNode(Layers(t)[h][2 * i - 1], Layers(t)[h][2 * i])
    BY <1>1, <2>1, NodeIs
  <2> HIDE DEF m, H, at, S
  <2>6. i \in 1..m /\ i \in Nat
    BY <2>2 DEF m
  <2>7. 2 * i - 1 \notin at[h] /\ 2 * i \notin at[h]
    <3>1. i \in ParentsOf(at[h]) <=> i >= 1 /\ (2 * i - 1 \in at[h] \/ 2 * i \in at[h])
      BY <2>2, <2>3, <2>6, Children
    <3>2. QED
      BY <2>3, <2>6, <3>1
  <2>8. 2 * i - 1 \in 1..2^(H - h) /\ 2 * i \in 1..2^(H - h)
    BY <2>2, <2>6
  <2>9. /\ Layers(t)[h][2 * i - 1] = Layers(s)[h][2 * i - 1]
        /\ Layers(t)[h][2 * i] = Layers(s)[h][2 * i]
    BY <2>4, <2>7, <2>8
  <2>10. QED
    BY <2>5, <2>9
<1> HIDE DEF S, H, at
<1>4. Nat \subseteq S
  BY <1>2, <1>3, Induction
<1>5. \A h \in 0..H : Same(h)
  BY <1>1, <1>4 DEF S
<1>6. QED
  BY <1>5 DEF H, at

LEMMA ProofsSame ==
  ASSUME NEW s, NEW t, Len(s) \in Nat, Len(t) = Len(s), NEW ts \in SUBSET (1..Len(s)),
         \A i \in 1..Len(s) : i \notin ts => t[i] = s[i]
  PROVE  Proof(t, ts) = Proof(s, ts) /\ Flags(t, ts) = Flags(s, ts)
<1> DEFINE H == Height(Len(s))
           at == TargetsAt(s, ts)
<1>1. H \in Nat
  BY HeightIs
<1>2. TargetsAt(t, ts) = at /\ Height(Len(t)) = H
  BY DEF TargetsAt
<1>0. \A g \in 0..H : \A i \in 1..2^(H - g) : i \notin at[g] => Layers(t)[g][i] = Layers(s)[g][i]
  BY Unaffected
<1>3. Flags(t, ts) = Flags(s, ts)
  BY <1>2 DEF Flags
<1>4. ASSUME NEW h \in 1..H
      PROVE  LayerProof(Layers(t)[h - 1], at[h - 1], at[h])
             = LayerProof(Layers(s)[h - 1], at[h - 1], at[h])
  <2> DEFINE S == {p \in at[h] : ~BothTargets(p, at[h - 1])}
             ps == Ascending(S)
             m == 2^(H - h)
  <2>1. H - h \in Nat /\ (H - h) + 1 = H - (h - 1) /\ h - 1 \in 0..H /\ h \in 0..H
    BY <1>1
  <2>2. m \in Nat /\ 2^(H - (h - 1)) = 2 * m
    BY <2>1, TwoPower
  <2>3. at[h - 1] \in SUBSET (1..(2 * m)) /\ at[h] \in SUBSET (1..m)
    BY <2>1, <2>2, TargetsAre
  <2>4. S \in SUBSET (1..m)
    BY <2>3
  <2>5. ps \in Seq(S)
    <3> HIDE DEF S, m
    <3>1. IsFiniteSet(S) /\ S \in SUBSET Nat
      BY <2>2, <2>4, SlotsAreFinite
    <3>2. QED
      BY <3>1, AscendingIs
  <2>6. \A k \in DOMAIN ps : ps[k] \in S
    <3> HIDE DEF S, ps
    <3>1. QED
      BY <2>5
  <2>7. ASSUME NEW k \in DOMAIN ps
        PROVE  Layers(t)[h - 1][Sibling(ps[k], at[h - 1])] = Layers(s)[h - 1][Sibling(ps[k], at[h - 1])]
    <3>1. ps[k] \in 1..m /\ ps[k] \in Nat /\ ~BothTargets(ps[k], at[h - 1])
      BY <2>3, <2>6
    <3> DEFINE q == Sibling(ps[k], at[h - 1])
    <3> HIDE DEF m, ps, at, S
    <3>2. q \in 1..(2 * m) /\ q \notin at[h - 1]
      <4>1. \A p \in Nat : /\ p \in 1..m => Sibling(p, at[h - 1]) \in 1..(2 * m)
                           /\ ~BothTargets(p, at[h - 1]) => Sibling(p, at[h - 1]) \notin at[h - 1]
        BY <2>2 DEF BothTargets, Sibling
      <4>2. QED
        BY <3>1, <4>1, Zenon
    <3>3. q \in 1..2^(H - (h - 1))
      BY <2>2, <3>2
    <3> HIDE DEF q, H
    <3>4. Layers(t)[h - 1][q] = Layers(s)[h - 1][q]
      BY <1>0, <2>1, <3>2, <3>3
    <3>5. QED
      BY <3>4 DEF q
  <2>8. LayerProof(Layers(t)[h - 1], at[h - 1], at[h])
          = [k \in DOMAIN ps |-> Layers(t)[h - 1][Sibling(ps[k], at[h - 1])]]
    BY Zenon DEF LayerProof
  <2>9. LayerProof(Layers(s)[h - 1], at[h - 1], at[h])
          = [k \in DOMAIN ps |-> Layers(s)[h - 1][Sibling(ps[k], at[h - 1])]]
    BY Zenon DEF LayerProof
  <2> HIDE DEF ps, at
  <2>10. QED
    BY <2>7, <2>8, <2>9
<1>5. Proof(t, ts) = FlattenSeq([h \in 1..H |-> LayerProof(Layers(t)[h - 1], at[h - 1], at[h])])
  BY <1>2, Zenon DEF Proof
<1>6. Proof(s, ts) = FlattenSeq([h \in 1..H |-> LayerProof(Layers(s)[h - 1], at[h - 1], at[h])])
  BY Zenon DEF Proof
<1> HIDE DEF H, at
<1>7. [h \in 1..H |-> LayerProof(Layers(t)[h - 1], at[h - 1], at[h])]
      = [h \in 1..H |-> LayerProof(Layers(s)[h - 1], at[h - 1], at[h])]
  BY <1>4
<1>8. Proof(t, ts) = Proof(s, ts)
  BY <1>5, <1>6, <1>7, Zenon
<1>9. QED
  BY <1>3, <1>8

(* The proof for the tree after the replacement has the nodes of the proof  *)
(* for the tree before, for every tree and every set of replaced slots: the *)
(* two proofs the update handler builds agree (worker.rs:170-185).          *)
THEOREM ProofsAlwaysAgree == GuestSpec => []ProofsAgree
<1>1. GuestInit => InputInv /\ GuestInv
  BY InitInputs
<1>2. InputInv /\ GuestInv /\ [GuestNext]_guestVars => InputInv' /\ GuestInv'
  BY StepInputs
<1>3. InputInv => ProofsAgree
  <2> SUFFICES ASSUME InputInv
               PROVE  Proof(Replaced, targets) = Proof(tree, targets)
    BY DEF ProofsAgree
  <2>1. targets \in SUBSET (1..Len(tree))
    BY DEF InputInv
  <2>2. QED
    BY <2>1, TheTree, ProofsSame
<1>4. QED
  BY <1>1, <1>2, <1>3, PTL DEF GuestSpec

-----------------------------------------------------------------------------
(* How far the verifier is in one layer.  The nodes above targets in that   *)
(* layer are nodes; k of their parents have been computed, from left to     *)
(* right, for which c of the nodes and q proof nodes were read.            *)
Needing(nodes) == {p \in ParentsOf(nodes) : ~BothTargets(p, nodes)}
Done(nodes, k) == IF k = 0 THEN 0 ELSE Ascending(ParentsOf(nodes))[k]

Place(nodes, k, c, q) ==
  /\ k \in 0..Cardinality(ParentsOf(nodes))
  /\ c \in 0..Cardinality(nodes)
  /\ \A j \in 1..Cardinality(nodes) : j <= c <=> Ascending(nodes)[j] <= 2 * Done(nodes, k)
  /\ q \in 0..Cardinality(Needing(nodes))
  /\ \A j \in 1..Cardinality(Needing(nodes)) :
       j <= q <=> Ascending(Needing(nodes))[j] <= Done(nodes, k)

LEMMA Ordered ==
  ASSUME NEW n \in Nat, NEW S \in SUBSET (1..n)
  PROVE  /\ Cardinality(S) \in Nat
         /\ Ascending(S) \in Seq(S) /\ Len(Ascending(S)) = Cardinality(S)
         /\ \A k \in 1..Cardinality(S) : Ascending(S)[k] \in S /\ Ascending(S)[k] \in 1..n
         /\ \A x \in S : \E k \in 1..Cardinality(S) : Ascending(S)[k] = x
         /\ \A k \in 1..Cardinality(S) : \A j \in 1..Cardinality(S) :
              j < k => Ascending(S)[j] < Ascending(S)[k]
         /\ S # {} => Cardinality(S) >= 1
<1> DEFINE A == Ascending(S)
           c == Cardinality(S)
<1>1. IsFiniteSet(S) /\ S \in SUBSET Nat
  BY SlotsAreFinite
<1>2. /\ c \in Nat /\ A \in Seq(S) /\ Len(A) = c
      /\ \A x \in S : \E k \in 1..c : A[k] = x
      /\ \A k \in 1..c : \A j \in 1..c : j < k => A[j] < A[k]
  BY <1>1, AscendingIs
<1> HIDE DEF A, c
<1>3. \A k \in 1..c : A[k] \in S /\ A[k] \in 1..n
  <2>1. A \in Seq(S) /\ Len(A) = c
    BY <1>2
  <2>2. \A k \in 1..c : A[k] \in S
    BY <2>1
  <2>3. QED
    BY <2>2
<1>4. ASSUME S # {}
      PROVE  c >= 1
  <2>1. PICK x : x \in S
    BY <1>4
  <2>2. PICK k \in 1..c : A[k] = x
    BY <1>2, <2>1
  <2>3. QED
    BY <1>2, <2>2
<1>5. QED
  BY <1>2, <1>3, <1>4, Zenon DEF A, c

(* The next parent to compute, and the nodes below it. *)
LEMMA NextNodes ==
  ASSUME NEW m \in Nat, NEW ts \in SUBSET (1..(2 * m)), NEW k, NEW c, NEW q,
         Place(ts, k, c, q), k < Cardinality(ParentsOf(ts))
  PROVE  LET p == Ascending(ParentsOf(ts))[k + 1]
             A == Ascending(ts)
         IN /\ p \in ParentsOf(ts) /\ p \in 1..m /\ Done(ts, k) \in Nat /\ Done(ts, k) < p
            /\ Done(ts, k + 1) = p
            /\ \A x \in ParentsOf(ts) : x > Done(ts, k) => x >= p
            /\ c + 1 \in 1..Cardinality(ts)
            /\ A[c + 1] = IF 2 * p - 1 \in ts THEN 2 * p - 1 ELSE 2 * p
            /\ 2 * p - 1 \notin ts => 2 * p \in ts
            /\ BothTargets(p, ts) => c + 2 \in 1..Cardinality(ts) /\ A[c + 2] = 2 * p
<1> DEFINE P == ParentsOf(ts)
           A == Ascending(ts)
           A1 == Ascending(P)
           a == Cardinality(ts)
           a1 == Cardinality(P)
           old == Done(ts, k)
           p == A1[k + 1]
<1>1. P \in SUBSET (1..m)
  BY Children DEF ParentsOf
<1>2. /\ a1 \in Nat
      /\ \A j \in 1..a1 : A1[j] \in P /\ A1[j] \in 1..m
      /\ \A x \in P : \E j \in 1..a1 : A1[j] = x
      /\ \A j \in 1..a1 : \A i \in 1..a1 : i < j => A1[i] < A1[j]
  BY <1>1, Ordered
<1>3. /\ a \in Nat
      /\ \A j \in 1..a : A[j] \in ts /\ A[j] \in 1..(2 * m)
      /\ \A x \in ts : \E j \in 1..a : A[j] = x
      /\ \A j \in 1..a : \A i \in 1..a : i < j => A[i] < A[j]
  <2> DEFINE n == 2 * m
  <2>1. n \in Nat /\ ts \in SUBSET (1..n)
    OBVIOUS
  <2> HIDE DEF n
  <2>2. /\ a \in Nat
        /\ \A j \in 1..a : A[j] \in ts /\ A[j] \in 1..n
        /\ \A x \in ts : \E j \in 1..a : A[j] = x
        /\ \A j \in 1..a : \A i \in 1..a : i < j => A[i] < A[j]
    BY <2>1, Ordered
  <2>3. QED
    BY <2>2 DEF n
<1>4. /\ k \in 0..a1 /\ k < a1 /\ c \in 0..a
      /\ \A j \in 1..a : j <= c <=> A[j] <= 2 * old
  BY DEF Place
<1>5. old = IF k = 0 THEN 0 ELSE A1[k]
  BY DEF Done
<1>6. Done(ts, k + 1) = p
  BY <1>4 DEF Done
<1>7. \A x \in Nat : x \in P => 2 * x - 1 \in ts \/ 2 * x \in ts
  BY Children
<1>8. \A y \in ts : (y + 1) \div 2 \in P /\ (y + 1) \div 2 \in 1..m /\ y \in 1..(2 * m)
  BY Children DEF ParentsOf
<1> HIDE DEF P, A, A1, a, a1, old, p
<1>9. p \in P /\ p \in 1..m /\ old \in Nat /\ old < p
  <2>1. k + 1 \in 1..a1
    BY <1>2, <1>4
  <2>2. p \in P /\ p \in 1..m
    BY <1>2, <2>1 DEF p
  <2>3. CASE k = 0
    BY <1>5, <2>2, <2>3
  <2>4. CASE k # 0
    BY <1>2, <1>4, <1>5, <2>1, <2>2, <2>4 DEF p
  <2>5. QED
    BY <2>2, <2>3, <2>4
<1>10. \A x \in P : x > old => x >= p
  <2> SUFFICES ASSUME NEW x \in P, x > old
               PROVE  x >= p
    OBVIOUS
  <2>1. PICK j \in 1..a1 : A1[j] = x
    BY <1>2
  <2>2. j >= k + 1
    <3>1. ASSUME j <= k
          PROVE  FALSE
      <4>1. k \in 1..a1 /\ k # 0
        BY <1>2, <1>4, <2>1, <3>1
      <4>2. A1[j] <= A1[k] /\ A1[k] \in 1..m
        BY <1>2, <2>1, <3>1, <4>1
      <4>3. QED
        BY <1>5, <1>9, <2>1, <4>1, <4>2
    <3>2. QED
      BY <1>4, <2>1, <3>1
  <2>3. k + 1 \in 1..a1 /\ (k + 1 = j \/ k + 1 < j)
    BY <1>2, <1>4, <2>1, <2>2
  <2>4. QED
    BY <1>2, <1>9, <2>1, <2>3 DEF p
<1>11. 2 * p - 1 \in ts \/ 2 * p \in ts
  BY <1>7, <1>9
<1>12. \A y \in ts : y > 2 * old => y >= 2 * p - 1
  <2> SUFFICES ASSUME NEW y \in ts, y > 2 * old
               PROVE  y >= 2 * p - 1
    OBVIOUS
  <2>1. (y + 1) \div 2 \in P /\ (y + 1) \div 2 \in 1..m /\ y \in 1..(2 * m)
    BY <1>8
  <2>2. (y + 1) \div 2 > old
    BY <1>9, <2>1
  <2>3. (y + 1) \div 2 >= p
    BY <1>10, <2>1, <2>2
  <2>4. QED
    BY <1>9, <2>1, <2>3
<1>13. \A y \in ts : y > 2 * old => c + 1 \in 1..a /\ A[c + 1] <= y
  <2> SUFFICES ASSUME NEW y \in ts, y > 2 * old
               PROVE  c + 1 \in 1..a /\ A[c + 1] <= y
    OBVIOUS
  <2>1. PICK j \in 1..a : A[j] = y
    BY <1>3
  <2>2. ~(j <= c)
    BY <1>4, <1>9, <1>3, <2>1
  <2>3. c + 1 \in 1..a /\ (j = c + 1 \/ c + 1 < j)
    BY <1>3, <1>4, <2>1, <2>2
  <2>4. A[c + 1] \in 1..(2 * m) /\ A[j] \in 1..(2 * m)
    BY <1>3, <2>1, <2>3
  <2>5. QED
    BY <1>3, <2>1, <2>3, <2>4
<1>14. 2 * p > 2 * old /\ 2 * p - 1 > 2 * old
  BY <1>9
<1>15. c + 1 \in 1..a
  BY <1>11, <1>13, <1>14
<1>16. A[c + 1] \in ts /\ A[c + 1] > 2 * old /\ A[c + 1] \in 1..(2 * m) /\ A[c + 1] >= 2 * p - 1
  <2>1. A[c + 1] \in ts /\ A[c + 1] \in 1..(2 * m)
    BY <1>3, <1>15
  <2>2. A[c + 1] > 2 * old
    BY <1>4, <1>9, <1>15, <2>1
  <2>3. QED
    BY <1>12, <2>1, <2>2
<1>17. A[c + 1] = IF 2 * p - 1 \in ts THEN 2 * p - 1 ELSE 2 * p
  <2>1. CASE 2 * p - 1 \in ts
    <3>1. A[c + 1] <= 2 * p - 1
      BY <1>13, <1>14, <2>1
    <3>2. QED
      BY <1>9, <1>16, <2>1, <3>1
  <2>2. CASE 2 * p - 1 \notin ts
    <3>1. A[c + 1] <= 2 * p /\ A[c + 1] # 2 * p - 1
      BY <1>11, <1>13, <1>14, <1>16, <2>2
    <3>2. QED
      BY <1>9, <1>16, <2>2, <3>1
  <2>3. QED
    BY <2>1, <2>2
<1>18. ASSUME 2 * p - 1 \in ts, 2 * p \in ts
       PROVE  c + 2 \in 1..a /\ A[c + 2] = 2 * p
  <2>1. PICK j \in 1..a : A[j] = 2 * p
    BY <1>3, <1>18
  <2>2. A[c + 1] = 2 * p - 1
    BY <1>17, <1>18
  <2>3. j > c + 1
    <3>1. j # c + 1
      BY <1>9, <2>1, <2>2
    <3>2. ~(j < c + 1)
      <4>1. j < c + 1 => A[j] < A[c + 1]
        BY <1>3, <1>15, <2>1
      <4>2. QED
        BY <1>9, <2>1, <2>2, <4>1
    <3>3. QED
      BY <1>4, <2>1, <3>1, <3>2
  <2>4. c + 2 \in 1..a /\ (j = c + 2 \/ c + 2 < j) /\ c + 1 < c + 2
    BY <1>3, <1>4, <2>1, <2>3
  <2>5. A[c + 2] \in 1..(2 * m) /\ A[c + 1] < A[c + 2] /\ A[c + 2] <= A[j] /\ A[j] \in 1..(2 * m)
    <3>1. A[c + 2] \in 1..(2 * m) /\ A[j] \in 1..(2 * m)
      BY <1>3, <2>1, <2>4
    <3>2. A[c + 1] < A[c + 2]
      BY <1>3, <1>15, <2>4
    <3>3. A[c + 2] <= A[j]
      BY <1>3, <2>1, <2>4, <3>1
    <3>4. QED
      BY <3>1, <3>2, <3>3
  <2>6. QED
    BY <1>9, <2>1, <2>2, <2>4, <2>5
<1>19. BothTargets(p, ts) => 2 * p - 1 \in ts /\ 2 * p \in ts
  BY DEF BothTargets
<1>20. QED
  BY <1>6, <1>9, <1>10, <1>11, <1>15, <1>17, <1>18, <1>19 DEF P, A, A1, a, old, p

(* A parent of two of the nodes takes both and no proof node. *)
LEMMA AdvanceBoth ==
  ASSUME NEW m \in Nat, NEW ts \in SUBSET (1..(2 * m)), NEW k, NEW c, NEW q,
         Place(ts, k, c, q), k < Cardinality(ParentsOf(ts)),
         BothTargets(Ascending(ParentsOf(ts))[k + 1], ts)
  PROVE  Place(ts, k + 1, c + 2, q)
<1> DEFINE P == ParentsOf(ts)
           N == Needing(ts)
           A == Ascending(ts)
           B == Ascending(N)
           a == Cardinality(ts)
           b == Cardinality(N)
           old == Done(ts, k)
           p == Ascending(P)[k + 1]
<1>1. /\ p \in P /\ p \in 1..m /\ old \in Nat /\ old < p /\ Done(ts, k + 1) = p
      /\ \A x \in P : x > old => x >= p
      /\ c + 1 \in 1..a /\ A[c + 1] = IF 2 * p - 1 \in ts THEN 2 * p - 1 ELSE 2 * p
      /\ 2 * p - 1 \notin ts => 2 * p \in ts
      /\ BothTargets(p, ts) => c + 2 \in 1..a /\ A[c + 2] = 2 * p
  BY NextNodes
<1>2. /\ k \in 0..Cardinality(P) /\ k < Cardinality(P) /\ c \in 0..a /\ q \in 0..b
      /\ \A j \in 1..b : j <= q <=> B[j] <= old
  BY DEF Place
<1>3. P \in SUBSET (1..m) /\ N \in SUBSET (1..m)
  <2>1. P \in SUBSET (1..m)
    BY Children DEF ParentsOf
  <2>2. QED
    BY <2>1 DEF Needing
<1>4. /\ a \in Nat
      /\ \A j \in 1..a : A[j] \in ts /\ A[j] \in 1..(2 * m)
      /\ \A j \in 1..a : \A i \in 1..a : i < j => A[i] < A[j]
  <2> DEFINE n == 2 * m
  <2>1. n \in Nat /\ ts \in SUBSET (1..n)
    OBVIOUS
  <2> HIDE DEF n
  <2>2. /\ a \in Nat
        /\ \A j \in 1..a : A[j] \in ts /\ A[j] \in 1..n
        /\ \A j \in 1..a : \A i \in 1..a : i < j => A[i] < A[j]
    BY <2>1, Ordered
  <2>3. QED
    BY <2>2 DEF n
<1>5. /\ b \in Nat
      /\ \A j \in 1..b : B[j] \in N /\ B[j] \in 1..m
      /\ \A x \in N : \E j \in 1..b : B[j] = x
      /\ \A j \in 1..b : \A i \in 1..b : i < j => B[i] < B[j]
  BY <1>3, Ordered
<1>6. /\ \A x \in N : x \in P /\ ~BothTargets(x, ts)
      /\ \A x \in P : ~BothTargets(x, ts) => x \in N
  BY DEF Needing
<1>7. Cardinality(P) \in Nat
  BY <1>3, SlotsAreFinite
<1> HIDE DEF P, N, A, B, a, b, old, p
<1>8. BothTargets(p, ts) /\ c + 2 \in 1..a /\ A[c + 2] = 2 * p
  BY <1>1 DEF P, p
<1>9. \A j \in 1..a : j <= c + 2 <=> A[j] <= 2 * p
  <2> SUFFICES ASSUME NEW j \in 1..a
               PROVE  j <= c + 2 <=> A[j] <= 2 * p
    OBVIOUS
  <2>1. A[j] \in 1..(2 * m)
    BY <1>4
  <2>2. j < c + 2 => A[j] < A[c + 2]
    BY <1>4, <1>8
  <2>3. c + 2 < j => A[c + 2] < A[j]
    BY <1>4, <1>8
  <2>4. QED
    BY <1>1, <1>2, <1>8, <2>1, <2>2, <2>3
<1>10. \A j \in 1..b : j <= q <=> B[j] <= p
  <2> SUFFICES ASSUME NEW j \in 1..b
               PROVE  j <= q <=> B[j] <= p
    OBVIOUS
  <2>1. B[j] \in P /\ B[j] # p /\ B[j] \in 1..m
    BY <1>5, <1>6, <1>8
  <2>2. B[j] > old => B[j] >= p
    BY <1>1, <2>1
  <2>3. QED
    BY <1>1, <1>2, <2>1, <2>2
<1>11. k + 1 \in 0..Cardinality(P) /\ c + 2 \in 0..a /\ q \in 0..b /\ Done(ts, k + 1) = p
  BY <1>1, <1>2, <1>7, <1>8
<1>12. QED
  BY <1>9, <1>10, <1>11 DEF Place, P, N, A, B, a, b

(* Any other takes one, and a proof node for the sibling. *)
LEMMA AdvanceOne ==
  ASSUME NEW m \in Nat, NEW ts \in SUBSET (1..(2 * m)), NEW k, NEW c, NEW q,
         Place(ts, k, c, q), k < Cardinality(ParentsOf(ts)),
         ~BothTargets(Ascending(ParentsOf(ts))[k + 1], ts)
  PROVE  /\ Place(ts, k + 1, c + 1, q + 1)
         /\ q + 1 \in 1..Cardinality(Needing(ts))
         /\ Ascending(Needing(ts))[q + 1] = Ascending(ParentsOf(ts))[k + 1]
<1> DEFINE P == ParentsOf(ts)
           N == Needing(ts)
           A == Ascending(ts)
           B == Ascending(N)
           a == Cardinality(ts)
           b == Cardinality(N)
           old == Done(ts, k)
           p == Ascending(P)[k + 1]
<1>1. /\ p \in P /\ p \in 1..m /\ old \in Nat /\ old < p /\ Done(ts, k + 1) = p
      /\ \A x \in P : x > old => x >= p
      /\ c + 1 \in 1..a /\ A[c + 1] = IF 2 * p - 1 \in ts THEN 2 * p - 1 ELSE 2 * p
      /\ 2 * p - 1 \notin ts => 2 * p \in ts
      /\ BothTargets(p, ts) => c + 2 \in 1..a /\ A[c + 2] = 2 * p
  BY NextNodes
<1>2. /\ k \in 0..Cardinality(P) /\ k < Cardinality(P) /\ c \in 0..a /\ q \in 0..b
      /\ \A j \in 1..b : j <= q <=> B[j] <= old
  BY DEF Place
<1>3. P \in SUBSET (1..m) /\ N \in SUBSET (1..m)
  <2>1. P \in SUBSET (1..m)
    BY Children DEF ParentsOf
  <2>2. QED
    BY <2>1 DEF Needing
<1>4. /\ a \in Nat
      /\ \A j \in 1..a : A[j] \in ts /\ A[j] \in 1..(2 * m)
      /\ \A j \in 1..a : \A i \in 1..a : i < j => A[i] < A[j]
  <2> DEFINE n == 2 * m
  <2>1. n \in Nat /\ ts \in SUBSET (1..n)
    OBVIOUS
  <2> HIDE DEF n
  <2>2. /\ a \in Nat
        /\ \A j \in 1..a : A[j] \in ts /\ A[j] \in 1..n
        /\ \A j \in 1..a : \A i \in 1..a : i < j => A[i] < A[j]
    BY <2>1, Ordered
  <2>3. QED
    BY <2>2 DEF n
<1>5. /\ b \in Nat
      /\ \A j \in 1..b : B[j] \in N /\ B[j] \in 1..m
      /\ \A x \in N : \E j \in 1..b : B[j] = x
      /\ \A j \in 1..b : \A i \in 1..b : i < j => B[i] < B[j]
  BY <1>3, Ordered
<1>6. /\ \A x \in N : x \in P /\ ~BothTargets(x, ts)
      /\ \A x \in P : ~BothTargets(x, ts) => x \in N
  BY DEF Needing
<1>7. Cardinality(P) \in Nat
  BY <1>3, SlotsAreFinite
<1> HIDE DEF P, N, A, B, a, b, old, p
<1>8. ~BothTargets(p, ts) /\ p \in N
  BY <1>1, <1>6 DEF P, p
<1>9. \A j \in 1..a : j <= c + 1 <=> A[j] <= 2 * p
  <2> SUFFICES ASSUME NEW j \in 1..a
               PROVE  j <= c + 1 <=> A[j] <= 2 * p
    OBVIOUS
  <2>1. A[j] \in 1..(2 * m) /\ A[j] \in ts
    BY <1>4
  <2>2. j < c + 1 => A[j] < A[c + 1]
    BY <1>1, <1>4
  <2>3. c + 1 < j => A[c + 1] < A[j]
    BY <1>1, <1>4
  <2>4. c + 1 < j => A[j] > 2 * p
    <3>1. 2 * p - 1 \in ts => 2 * p \notin ts
      BY <1>8 DEF BothTargets
    <3>2. 2 * p - 1 \in ts => A[j] # 2 * p
      BY <2>1, <3>1
    <3>3. QED
      BY <1>1, <2>1, <2>3, <3>2
  <2>5. A[c + 1] <= 2 * p
    BY <1>1
  <2>6. j = c + 1 \/ j < c + 1 \/ c + 1 < j
    BY <1>2, <1>4
  <2>7. A[c + 1] \in 1..(2 * m)
    BY <1>1, <1>4
  <2>8. QED
    BY <1>1, <1>2, <2>1, <2>2, <2>4, <2>5, <2>6, <2>7
<1>10. PICK i \in 1..b : B[i] = p
  BY <1>5, <1>8
<1>11. i = q + 1
  <2>1. ~(i <= q)
    BY <1>1, <1>2, <1>5, <1>10
  <2>2. ASSUME q + 1 < i
        PROVE  FALSE
    <3>1. q + 1 \in 1..b
      BY <1>2, <1>5, <1>10, <2>2
    <3>2. B[q + 1] < p /\ B[q + 1] \in P /\ B[q + 1] \in 1..m
      BY <1>5, <1>6, <1>10, <2>2, <3>1
    <3>3. ~(B[q + 1] <= old)
      BY <1>2, <3>1
    <3>4. QED
      BY <1>1, <3>2, <3>3
  <2>3. QED
    BY <1>2, <1>10, <2>1, <2>2
<1>12. q + 1 \in 1..b /\ B[q + 1] = p
  BY <1>10, <1>11
<1>13. \A j \in 1..b : j <= q + 1 <=> B[j] <= p
  <2> SUFFICES ASSUME NEW j \in 1..b
               PROVE  j <= q + 1 <=> B[j] <= p
    OBVIOUS
  <2>1. B[j] \in 1..m
    BY <1>5
  <2>2. j < q + 1 => B[j] < B[q + 1]
    BY <1>5, <1>12
  <2>3. q + 1 < j => B[q + 1] < B[j]
    BY <1>5, <1>12
  <2>4. QED
    BY <1>1, <1>2, <1>12, <2>1, <2>2, <2>3
<1>14. k + 1 \in 0..Cardinality(P) /\ c + 1 \in 0..a /\ q + 1 \in 0..b /\ Done(ts, k + 1) = p
  BY <1>1, <1>2, <1>7, <1>12
<1>15. Place(ts, k + 1, c + 1, q + 1)
  BY <1>9, <1>13, <1>14 DEF Place, P, N, A, B, a, b
<1>16. QED
  BY <1>12, <1>15 DEF P, N, B, b, p

(* At the start of a layer nothing of it is read, and at its end all. *)
LEMMA LayerStarts ==
  ASSUME NEW m \in Nat, NEW ts \in SUBSET (1..(2 * m))
  PROVE  Place(ts, 0, 0, 0)
<1>1. ParentsOf(ts) \in SUBSET (1..m) /\ Needing(ts) \in SUBSET (1..m)
  <2>1. ParentsOf(ts) \in SUBSET (1..m)
    BY Children DEF ParentsOf
  <2>2. QED
    BY <2>1 DEF Needing
<1> DEFINE n == 2 * m
<1>2. n \in Nat /\ ts \in SUBSET (1..n)
  OBVIOUS
<1> HIDE DEF n
<1>3. /\ Cardinality(ts) \in Nat
      /\ \A j \in 1..Cardinality(ts) : Ascending(ts)[j] \in 1..n
  BY <1>2, Ordered
<1>4. /\ Cardinality(Needing(ts)) \in Nat
      /\ \A j \in 1..Cardinality(Needing(ts)) : Ascending(Needing(ts))[j] \in 1..m
  BY <1>1, Ordered
<1>5. Cardinality(ParentsOf(ts)) \in Nat
  BY <1>1, SlotsAreFinite
<1>6. Done(ts, 0) = 0
  BY DEF Done
<1>7. QED
  BY <1>2, <1>3, <1>4, <1>5, <1>6 DEF Place

LEMMA LayerEnds ==
  ASSUME NEW m \in Nat, NEW ts \in SUBSET (1..(2 * m)), ts # {}, NEW c, NEW q,
         Place(ts, Cardinality(ParentsOf(ts)), c, q)
  PROVE  c = Cardinality(ts) /\ q = Cardinality(Needing(ts))
<1> DEFINE P == ParentsOf(ts)
           N == Needing(ts)
           A == Ascending(ts)
           B == Ascending(N)
           a == Cardinality(ts)
           b == Cardinality(N)
           a1 == Cardinality(P)
           old == Done(ts, a1)
<1>1. P \in SUBSET (1..m) /\ N \in SUBSET P
  <2>1. P \in SUBSET (1..m)
    BY Children DEF ParentsOf
  <2>2. QED
    BY <2>1 DEF Needing
<1>2. \A y \in ts : (y + 1) \div 2 \in P /\ (y + 1) \div 2 \in 1..m /\ y \in 1..(2 * m)
  BY Children DEF ParentsOf
<1>3. P # {}
  BY <1>2
<1>4. /\ a1 \in Nat /\ a1 >= 1
      /\ \A j \in 1..a1 : Ascending(P)[j] \in 1..m
      /\ \A x \in P : \E j \in 1..a1 : Ascending(P)[j] = x
      /\ \A j \in 1..a1 : \A i \in 1..a1 : i < j => Ascending(P)[i] < Ascending(P)[j]
  BY <1>1, <1>3, Ordered
<1>5. old = Ascending(P)[a1] /\ old \in 1..m
  BY <1>4 DEF Done
<1>6. \A x \in P : x <= old
  <2> SUFFICES ASSUME NEW x \in P
               PROVE  x <= old
    OBVIOUS
  <2> HIDE DEF a1, P, old
  <2>1. PICK j \in 1..a1 : Ascending(P)[j] = x
    BY <1>4
  <2>2. a1 \in 1..a1 /\ (j = a1 \/ j < a1)
    BY <1>4, <2>1
  <2>3. QED
    BY <1>4, <1>5, <2>1, <2>2
<1>7. /\ a \in Nat
      /\ \A j \in 1..a : A[j] \in ts
  <2> DEFINE n == 2 * m
  <2>1. n \in Nat /\ ts \in SUBSET (1..n)
    OBVIOUS
  <2> HIDE DEF n
  <2>2. QED
    BY <2>1, Ordered
<1>8. /\ b \in Nat
      /\ \A j \in 1..b : B[j] \in P
  <2>1. N \in SUBSET (1..m)
    BY <1>1
  <2>2. b \in Nat /\ \A j \in 1..b : B[j] \in N
    BY <2>1, Ordered
  <2>3. QED
    BY <1>1, <2>2
<1>9. /\ c \in 0..a /\ q \in 0..b
      /\ \A j \in 1..a : j <= c <=> A[j] <= 2 * old
      /\ \A j \in 1..b : j <= q <=> B[j] <= old
  BY DEF Place
<1> HIDE DEF P, N, A, B, a, b, a1, old
<1>10. c = a
  <2>1. CASE a = 0
    BY <1>9, <2>1
  <2>2. CASE a # 0
    <3>1. a \in 1..a /\ A[a] \in ts
      BY <1>7, <2>2
    <3>2. A[a] <= 2 * old
      <4> DEFINE y == A[a]
      <4>1. (y + 1) \div 2 \in P /\ (y + 1) \div 2 \in 1..m /\ y \in 1..(2 * m)
        BY <1>2, <3>1
      <4>2. (y + 1) \div 2 <= old
        BY <1>6, <4>1
      <4> HIDE DEF y
      <4>3. y <= 2 * old
        BY <1>5, <4>1, <4>2
      <4>4. QED
        BY <4>3 DEF y
    <3>3. QED
      BY <1>7, <1>9, <3>1, <3>2
  <2>3. QED
    BY <2>1, <2>2
<1>11. q = b
  <2>1. CASE b = 0
    BY <1>9, <2>1
  <2>2. CASE b # 0
    <3>1. b \in 1..b /\ B[b] <= old
      BY <1>6, <1>8, <2>2
    <3>2. QED
      BY <1>8, <1>9, <3>1
  <2>3. QED
    BY <2>1, <2>2
<1>12. QED
  BY <1>10, <1>11 DEF N, a, b

-----------------------------------------------------------------------------
(* Where the parts of a flattened sequence begin: off[h] entries are in the *)
(* first h parts.                                                          *)
IsOffset(off, ss, n) ==
  /\ off \in [0..n -> Nat] /\ off[0] = 0
  /\ \A h \in 1..n : off[h] = off[h - 1] + Len(ss[h])
  /\ FlattenSeq(ss) \in Seq(Range(FlattenSeq(ss))) /\ Len(FlattenSeq(ss)) = off[n]
  /\ \A h \in 1..n : \A k \in 1..Len(ss[h]) :
       off[h - 1] + k <= off[n] /\ FlattenSeq(ss)[off[h - 1] + k] = ss[h][k]

Joined(x, y) == x \o y

LEMMA FlattenExists ==
  ASSUME NEW ss, NEW n \in Nat
  PROVE  \E f : f = [i \in 1..n |-> IF i = 1 THEN ss[i] ELSE Joined(f[i - 1], ss[i])]
<1> DEFINE S == {m \in Nat : \E f : f = [i \in 1..m |-> IF i = 1 THEN ss[i] ELSE Joined(f[i - 1], ss[i])]}
<1>1. 0 \in S
  <2> DEFINE f == [i \in 1..0 |-> ss[i]]
  <2>1. f = [i \in 1..0 |-> IF i = 1 THEN ss[i] ELSE Joined(f[i - 1], ss[i])]
    OBVIOUS
  <2> HIDE DEF f
  <2>2. QED
    BY <2>1
<1>2. ASSUME NEW m \in Nat, m \in S
      PROVE  m + 1 \in S
  <2>1. PICK f : f = [i \in 1..m |-> IF i = 1 THEN ss[i] ELSE Joined(f[i - 1], ss[i])]
    BY <1>2
  <2> DEFINE g == [i \in 1..(m + 1) |->
                     IF i = m + 1 THEN IF i = 1 THEN ss[i] ELSE Joined(f[m], ss[i]) ELSE f[i]]
  <2>2. \A i \in 1..(m + 1) : g[i] = IF i = 1 THEN ss[i] ELSE Joined(g[i - 1], ss[i])
    BY <2>1
  <2>3. g = [i \in 1..(m + 1) |-> g[i]]
    OBVIOUS
  <2> HIDE DEF g
  <2>4. g = [i \in 1..(m + 1) |-> IF i = 1 THEN ss[i] ELSE Joined(g[i - 1], ss[i])]
    BY <2>2, <2>3
  <2>5. QED
    BY <2>4
<1> HIDE DEF S
<1>3. Nat \subseteq S
  BY <1>1, <1>2, Induction
<1>4. QED
  BY <1>3 DEF S

LEMMA OffsetsExist ==
  ASSUME NEW V, NEW n \in Nat, NEW ss, ss = [h \in 1..n |-> ss[h]], \A h \in 1..n : ss[h] \in Seq(V)
  PROVE  \E off : IsOffset(off, ss, n)
<1>1. Len(ss) = n
  BY ByIndex
<1>2. CASE n = 0
  <2>1. FlattenSeq(ss) = ss
    BY <1>1, <1>2 DEF FlattenSeq
  <2> DEFINE off == [h \in 0..0 |-> 0]
  <2>2. ss \in Seq(Range(ss))
    BY ByIndex
  <2>3. off \in [0..0 -> Nat] /\ off[0] = 0
    OBVIOUS
  <2> HIDE DEF off
  <2>4. IsOffset(off, ss, n)
    BY <1>1, <1>2, <2>1, <2>2, <2>3 DEF IsOffset
  <2>5. QED
    BY <2>4
<1>3. CASE n # 0
  <2> DEFINE Rec(f) == f = [i \in 1..n |-> IF i = 1 THEN ss[i] ELSE f[i - 1] \o ss[i]]
             f0 == CHOOSE f : Rec(f)
  <2>1. \E f : Rec(f)
    <3>1. \E f : f = [i \in 1..n |-> IF i = 1 THEN ss[i] ELSE Joined(f[i - 1], ss[i])]
      BY FlattenExists
    <3>2. QED
      BY <3>1, Zenon DEF Joined
  <2>2. Rec(f0)
    <3> HIDE DEF Rec
    <3>1. QED
      BY <2>1
  <2>3. FlattenSeq(ss) = f0[n]
    BY <1>1, <1>3 DEF FlattenSeq
  <2>4. \A i \in 1..n : f0[i] = IF i = 1 THEN ss[i] ELSE f0[i - 1] \o ss[i]
    <3> HIDE DEF f0
    <3>1. QED
      BY <2>2
  <2> DEFINE off == [h \in 0..n |-> IF h = 0 THEN 0 ELSE Len(f0[h])]
             Sum(g) == f0[g] \in Seq(V) /\ off[g] \in Nat /\ off[g] = off[g - 1] + Len(ss[g])
             Holds(g) == \A h \in 1..g :
                           /\ off[h - 1] \in Nat
                           /\ \A k \in 1..Len(ss[h]) :
                                off[h - 1] + k <= off[g] /\ f0[g][off[h - 1] + k] = ss[h][k]
             S == {g \in Nat : g \in 1..n => Sum(g) /\ Holds(g)}
  <2>5. off[0] = 0 /\ \A h \in 1..n : off[h] = Len(f0[h])
    <3> HIDE DEF f0
    <3>1. QED
      OBVIOUS
  <2> HIDE DEF f0, off, Rec
  <2> HIDE DEF Sum, Holds
  <2>6. 0 \in S
    OBVIOUS
  <2>7. ASSUME NEW g \in Nat, g \in S
        PROVE  g + 1 \in S
    <3> SUFFICES ASSUME g + 1 \in 1..n
                 PROVE  Sum(g + 1) /\ Holds(g + 1)
      OBVIOUS
    <3>1. ss[g + 1] \in Seq(V) /\ Len(ss[g + 1]) \in Nat /\ \A h \in 1..n : Len(ss[h]) \in Nat
      OBVIOUS
    <3>2. CASE g = 0
      <4>1. f0[1] = ss[1] /\ off[1] = Len(ss[1]) /\ off[0] = 0 /\ 1 - 1 = 0
        BY <2>4, <2>5, <3>2
      <4>2. Sum(1)
        BY <3>1, <3>2, <4>1 DEF Sum
      <4>3. Holds(1)
        BY <3>1, <3>2, <4>1 DEF Holds
      <4>4. QED
        BY <3>2, <4>2, <4>3
    <3>3. CASE g # 0
      <4>1. g \in 1..n /\ (g + 1) - 1 = g /\ g + 1 # 1
        BY <3>3
      <4>2. Sum(g) /\ Holds(g)
        BY <2>7, <4>1
      <4> DEFINE x == ss[g + 1]
                 y == f0[g]
      <4>3. f0[g + 1] = y \o x /\ off[g + 1] = Len(y \o x) /\ off[g] = Len(y)
        BY <2>4, <2>5, <4>1
      <4>4. x \in Seq(V) /\ y \in Seq(V)
        BY <3>1, <4>2 DEF Sum
      <4> HIDE DEF x, y
      <4>5. /\ y \o x \in Seq(V) /\ Len(y \o x) = Len(y) + Len(x) /\ Len(y) \in Nat /\ Len(x) \in Nat
            /\ \A i \in 1..Len(y) : (y \o x)[i] = y[i]
            /\ \A i \in 1..Len(x) : (y \o x)[Len(y) + i] = x[i]
        <5>1. y \o x \in Seq(V) /\ Len(y) \in Nat /\ Len(x) \in Nat
          BY <4>4
        <5>2. Len(y \o x) = Len(y) + Len(x)
          BY <4>4
        <5>3. \A i \in 1..Len(y) : (y \o x)[i] = y[i]
          BY <4>4
        <5>4. \A i \in 1..Len(x) : (y \o x)[Len(y) + i] = x[i]
          <6> SUFFICES ASSUME NEW i \in 1..Len(x)
                       PROVE  (y \o x)[Len(y) + i] = x[i]
            OBVIOUS
          <6>1. /\ Len(y) + i \in 1..(Len(y) + Len(x)) /\ Len(y) + i > Len(y)
                /\ (Len(y) + i) - Len(y) = i
            <7> DEFINE a == Len(y)
                       b == Len(x)
            <7>1. a \in Nat /\ b \in Nat /\ i \in 1..b
              BY <5>1
            <7> HIDE DEF a, b
            <7>2. a + i \in 1..(a + b) /\ a + i > a /\ (a + i) - a = i
              BY <7>1, SMTT(30)
            <7>3. QED
              BY <7>2 DEF a, b
          <6>2. (y \o x)[Len(y) + i] = x[(Len(y) + i) - Len(y)]
            BY <4>4, <6>1, ConcatProperties
          <6>3. QED
            BY <6>1, <6>2
        <5>5. QED
          BY <5>1, <5>2, <5>3, <5>4
      <4>6. Sum(g + 1)
        BY <4>1, <4>3, <4>5 DEF x, Sum
      <4>7. ASSUME NEW h \in 1..(g + 1), NEW k \in 1..Len(ss[h])
            PROVE  off[h - 1] + k <= off[g + 1] /\ f0[g + 1][off[h - 1] + k] = ss[h][k]
        <5>1. CASE h = g + 1
          BY <4>1, <4>3, <4>5, <5>1, SMTT(30) DEF x
        <5>2. CASE h \in 1..g
          <6>1. off[h - 1] + k <= off[g] /\ f0[g][off[h - 1] + k] = ss[h][k]
            BY <4>2, <5>2 DEF Holds
          <6>2. off[h - 1] \in Nat
            BY <4>2, <5>2 DEF Holds
          <6>3. off[h - 1] + k \in 1..Len(y)
            BY <3>1, <4>1, <4>3, <4>5, <5>2, <6>1, <6>2, SMTT(30)
          <6>4. QED
            BY <4>3, <4>5, <6>1, <6>3 DEF y
        <5>3. QED
          BY <5>1, <5>2
      <4>8. \A h \in 1..(g + 1) : off[h - 1] \in Nat
        <5> SUFFICES ASSUME NEW h \in 1..(g + 1)
                     PROVE  off[h - 1] \in Nat
          OBVIOUS
        <5>1. CASE h = g + 1
          BY <4>1, <4>3, <4>5, <5>1
        <5>2. CASE h \in 1..g
          BY <4>2, <5>2 DEF Holds
        <5>3. QED
          BY <5>1, <5>2
      <4>9. Holds(g + 1)
        BY <4>7, <4>8 DEF Holds
      <4>10. QED
        BY <4>6, <4>9
    <3>4. QED
      BY <3>2, <3>3
  <2> HIDE DEF S
  <2>8. Nat \subseteq S
    BY <2>6, <2>7, Induction
  <2>9. \A g \in 1..n : Sum(g) /\ Holds(g)
    BY <2>8 DEF S
  <2>10. off \in [0..n -> Nat]
    <3>1. \A h \in 0..n : off[h] \in Nat
      BY <2>5, <2>9 DEF Sum
    <3>2. off = [h \in 0..n |-> off[h]]
      BY DEF off
    <3>3. QED
      BY <3>1, <3>2
  <2>11. n \in 1..n
    BY <1>3
  <2>12. \A h \in 1..n : off[h] = off[h - 1] + Len(ss[h])
    BY <2>9 DEF Sum
  <2>13. FlattenSeq(ss) \in Seq(Range(FlattenSeq(ss))) /\ Len(FlattenSeq(ss)) = off[n]
    <3>1. f0[n] \in Seq(V)
      BY <2>9, <2>11 DEF Sum
    <3>2. f0[n] \in Seq(Range(f0[n]))
      BY <3>1, RangeIs
    <3>3. QED
      BY <2>3, <2>5, <2>11, <3>2
  <2>14. \A h \in 1..n : \A k \in 1..Len(ss[h]) :
           off[h - 1] + k <= off[n] /\ FlattenSeq(ss)[off[h - 1] + k] = ss[h][k]
    BY <2>3, <2>9, <2>11 DEF Holds
  <2>15. IsOffset(off, ss, n)
    BY <2>5, <2>10, <2>12, <2>13, <2>14 DEF IsOffset
  <2>16. QED
    BY <2>15
<1>4. QED
  BY <1>2, <1>3

LEMMA PartsExist ==
  ASSUME NEW n \in Nat, NEW ss, ss = [h \in 1..n |-> ss[h]],
         \A h \in 1..n : ss[h] \in Seq(Range(ss[h]))
  PROVE  \E off : IsOffset(off, ss, n)
<1> DEFINE V == UNION {Range(ss[h]) : h \in 1..n}
<1>1. ASSUME NEW h \in 1..n
      PROVE  ss[h] \in Seq(V)
  <2>1. Range(ss[h]) \subseteq V
    OBVIOUS
  <2> HIDE DEF V
  <2> DEFINE R == Range(ss[h])
  <2>2. ss[h] \in Seq(R) /\ R \subseteq V
    BY <2>1
  <2> HIDE DEF R
  <2>3. QED
    BY <2>2
<1> HIDE DEF V
<1>2. QED
  BY <1>1, OffsetsExist

(* The flags and the nodes of a proof, layer by layer. *)
FlagParts(s, ts) ==
  [h \in 1..Height(Len(s)) |-> LayerFlags(TargetsAt(s, ts)[h - 1], TargetsAt(s, ts)[h])]
ProofParts(s, ts) ==
  [h \in 1..Height(Len(s)) |->
     LayerProof(Layers(s)[h - 1], TargetsAt(s, ts)[h - 1], TargetsAt(s, ts)[h])]
FlagOffset(s, ts) == CHOOSE off : IsOffset(off, FlagParts(s, ts), Height(Len(s)))
ProofOffset(s, ts) == CHOOSE off : IsOffset(off, ProofParts(s, ts), Height(Len(s)))

LEMMA LayerShape ==
  ASSUME NEW s, Len(s) \in Nat, NEW ts \in SUBSET (1..Len(s)), NEW h \in 1..Height(Len(s))
  PROVE  LET m == 2^(Height(Len(s)) - h)
             nodes == TargetsAt(s, ts)[h - 1]
         IN /\ m \in Nat /\ 2^(Height(Len(s)) - (h - 1)) = 2 * m
            /\ nodes \in SUBSET (1..(2 * m))
            /\ TargetsAt(s, ts)[h] = ParentsOf(nodes)
            /\ ParentsOf(nodes) \in SUBSET (1..m) /\ Needing(nodes) \in SUBSET (1..m)
<1> DEFINE H == Height(Len(s))
           m == 2^(H - h)
           at == TargetsAt(s, ts)
<1>1. H \in Nat
  BY HeightIs
<1>2. H - h \in Nat /\ (H - h) + 1 = H - (h - 1) /\ h - 1 \in 0..H /\ h \in 0..H
  BY <1>1
<1>3. m \in Nat /\ 2^(H - (h - 1)) = 2 * m
  BY <1>2, TwoPower
<1>4. at[h - 1] \in SUBSET (1..2^(H - (h - 1))) /\ at[h] \in SUBSET (1..m) /\ at[h] = ParentsOf(at[h - 1])
  BY <1>2, TargetsAre
<1> HIDE DEF at, m, H
<1>5. at[h - 1] \in SUBSET (1..(2 * m)) /\ ParentsOf(at[h - 1]) \in SUBSET (1..m)
  BY <1>3, <1>4
<1>6. Needing(at[h - 1]) \in SUBSET (1..m)
  BY <1>5 DEF Needing
<1>7. QED
  BY <1>3, <1>4, <1>5, <1>6 DEF at, m, H

LEMMA FlagsOfLayer ==
  ASSUME NEW n \in Nat, NEW ts, NEW parents \in SUBSET (1..n)
  PROVE  /\ LayerFlags(ts, parents) \in Seq(Range(LayerFlags(ts, parents)))
         /\ Len(LayerFlags(ts, parents)) = Cardinality(parents)
         /\ \A k \in 1..Cardinality(parents) :
              LayerFlags(ts, parents)[k] = BothTargets(Ascending(parents)[k], ts)
<1> DEFINE c == Cardinality(parents)
           ps == Ascending(parents)
           f == LayerFlags(ts, parents)
<1>1. c \in Nat /\ ps \in Seq(parents) /\ Len(ps) = c
  BY Ordered
<1>2. f = [k \in DOMAIN ps |-> BothTargets(ps[k], ts)]
  BY Zenon DEF LayerFlags
<1> HIDE DEF c, ps, f
<1>3. DOMAIN ps = 1..c
  BY <1>1
<1>4. f = [k \in 1..c |-> BothTargets(ps[k], ts)]
  BY <1>2, <1>3
<1>5. f = [k \in 1..c |-> f[k]] /\ \A k \in 1..c : f[k] = BothTargets(ps[k], ts)
  BY <1>4
<1>6. f \in Seq(Range(f)) /\ Len(f) = c
  BY <1>1, <1>5, ByIndex
<1>7. QED
  BY <1>5, <1>6 DEF c, ps, f

LEMMA ProofOfLayer ==
  ASSUME NEW n \in Nat, NEW ts, ParentsOf(ts) \in SUBSET (1..n), NEW nodes
  PROVE  /\ LayerProof(nodes, ts, ParentsOf(ts)) \in Seq(Range(LayerProof(nodes, ts, ParentsOf(ts))))
         /\ Len(LayerProof(nodes, ts, ParentsOf(ts))) = Cardinality(Needing(ts))
         /\ \A k \in 1..Cardinality(Needing(ts)) :
              LayerProof(nodes, ts, ParentsOf(ts))[k] = nodes[Sibling(Ascending(Needing(ts))[k], ts)]
<1> DEFINE N == Needing(ts)
           c == Cardinality(N)
           ps == Ascending(N)
           f == LayerProof(nodes, ts, ParentsOf(ts))
<1>1. N \in SUBSET (1..n)
  BY DEF Needing
<1>2. c \in Nat /\ ps \in Seq(N) /\ Len(ps) = c
  BY <1>1, Ordered
<1>3. f = [k \in DOMAIN ps |-> nodes[Sibling(ps[k], ts)]]
  BY Zenon DEF LayerProof, Needing
<1> HIDE DEF N, c, ps, f
<1>4. DOMAIN ps = 1..c
  BY <1>2
<1>5. f = [k \in 1..c |-> nodes[Sibling(ps[k], ts)]]
  BY <1>3, <1>4
<1>6. f = [k \in 1..c |-> f[k]] /\ \A k \in 1..c : f[k] = nodes[Sibling(ps[k], ts)]
  BY <1>5
<1>7. f \in Seq(Range(f)) /\ Len(f) = c
  BY <1>2, <1>6, ByIndex
<1>8. QED
  BY <1>6, <1>7 DEF N, c, ps, f

LEMMA FlagsAre ==
  ASSUME NEW s, Len(s) \in Nat, NEW ts \in SUBSET (1..Len(s))
  PROVE  LET H == Height(Len(s))
             at == TargetsAt(s, ts)
             FO == FlagOffset(s, ts)
         IN /\ FO \in [0..H -> Nat] /\ FO[0] = 0
            /\ \A h \in 1..H : FO[h] = FO[h - 1] + Cardinality(at[h])
            /\ Flags(s, ts) \in Seq(Range(Flags(s, ts))) /\ Len(Flags(s, ts)) = FO[H]
            /\ DOMAIN Flags(s, ts) = 1..FO[H]
            /\ \A h \in 1..H : \A k \in 1..Cardinality(at[h]) :
                 /\ FO[h - 1] + k <= FO[H]
                 /\ Flags(s, ts)[FO[h - 1] + k] = BothTargets(Ascending(at[h])[k], at[h - 1])
<1> DEFINE H == Height(Len(s))
           at == TargetsAt(s, ts)
           FO == FlagOffset(s, ts)
           ss == FlagParts(s, ts)
<1>1. H \in Nat
  BY HeightIs
<1>2. ss = [h \in 1..H |-> LayerFlags(at[h - 1], at[h])]
  BY DEF FlagParts
<1>3. Flags(s, ts) = FlattenSeq(ss)
  BY Zenon DEF Flags, FlagParts
<1>4. FO = CHOOSE off : IsOffset(off, ss, H)
  BY DEF FlagOffset
<1>5. \A h \in 1..H : 2^(H - h) \in Nat /\ at[h] \in SUBSET (1..2^(H - h))
  <2>1. \A h \in 1..H : H - h \in Nat /\ h \in 0..H
    BY <1>1
  <2>2. \A h \in 0..H : at[h] \in SUBSET (1..2^(H - h))
    BY TargetsAre
  <2> HIDE DEF H, at
  <2>3. \A h \in 1..H : 2^(H - h) \in Nat
    BY <2>1, TwoPower
  <2>4. QED
    BY <2>1, <2>2, <2>3
<1> HIDE DEF H, at, FO, ss
<1>6. ss = [h \in 1..H |-> ss[h]] /\ \A h \in 1..H : ss[h] = LayerFlags(at[h - 1], at[h])
  BY <1>2
<1>7. \A h \in 1..H :
        /\ ss[h] \in Seq(Range(ss[h])) /\ Len(ss[h]) = Cardinality(at[h])
        /\ \A k \in 1..Cardinality(at[h]) : ss[h][k] = BothTargets(Ascending(at[h])[k], at[h - 1])
  <2> SUFFICES ASSUME NEW h \in 1..H
               PROVE  /\ ss[h] \in Seq(Range(ss[h])) /\ Len(ss[h]) = Cardinality(at[h])
                      /\ \A k \in 1..Cardinality(at[h]) :
                           ss[h][k] = BothTargets(Ascending(at[h])[k], at[h - 1])
    OBVIOUS
  <2> DEFINE n == 2^(H - h)
  <2>1. n \in Nat /\ at[h] \in SUBSET (1..n) /\ ss[h] = LayerFlags(at[h - 1], at[h])
    BY <1>5, <1>6
  <2> HIDE DEF n
  <2>2. /\ LayerFlags(at[h - 1], at[h]) \in Seq(Range(LayerFlags(at[h - 1], at[h])))
        /\ Len(LayerFlags(at[h - 1], at[h])) = Cardinality(at[h])
        /\ \A k \in 1..Cardinality(at[h]) :
             LayerFlags(at[h - 1], at[h])[k] = BothTargets(Ascending(at[h])[k], at[h - 1])
    BY <2>1, FlagsOfLayer, Zenon
  <2>3. QED
    BY <2>1, <2>2
<1>8. \E off : IsOffset(off, ss, H)
  BY <1>1, <1>6, <1>7, PartsExist
<1>9. IsOffset(FO, ss, H)
  BY <1>4, <1>8
<1>10. /\ FO \in [0..H -> Nat] /\ FO[0] = 0
       /\ \A h \in 1..H : FO[h] = FO[h - 1] + Cardinality(at[h])
       /\ Flags(s, ts) \in Seq(Range(Flags(s, ts))) /\ Len(Flags(s, ts)) = FO[H]
  BY <1>3, <1>7, <1>9 DEF IsOffset
<1>11. \A h \in 1..H : \A k \in 1..Cardinality(at[h]) :
          /\ FO[h - 1] + k <= FO[H]
          /\ Flags(s, ts)[FO[h - 1] + k] = BothTargets(Ascending(at[h])[k], at[h - 1])
  BY <1>3, <1>7, <1>9 DEF IsOffset
<1>12. DOMAIN Flags(s, ts) = 1..FO[H]
  BY <1>10, RangeIs
<1>13. QED
  BY <1>10, <1>11, <1>12 DEF H, at, FO

LEMMA ProofIs ==
  ASSUME NEW s, Len(s) \in Nat, NEW ts \in SUBSET (1..Len(s))
  PROVE  LET H == Height(Len(s))
             at == TargetsAt(s, ts)
             PO == ProofOffset(s, ts)
         IN /\ PO \in [0..H -> Nat] /\ PO[0] = 0
            /\ \A h \in 1..H : PO[h] = PO[h - 1] + Cardinality(Needing(at[h - 1]))
            /\ Proof(s, ts) \in Seq(Range(Proof(s, ts))) /\ Len(Proof(s, ts)) = PO[H]
            /\ \A h \in 1..H : \A k \in 1..Cardinality(Needing(at[h - 1])) :
                 /\ PO[h - 1] + k <= PO[H]
                 /\ Proof(s, ts)[PO[h - 1] + k]
                      = Layers(s)[h - 1][Sibling(Ascending(Needing(at[h - 1]))[k], at[h - 1])]
<1> DEFINE H == Height(Len(s))
           at == TargetsAt(s, ts)
           PO == ProofOffset(s, ts)
           ss == ProofParts(s, ts)
           nodes == Layers(s)
<1>1. H \in Nat
  BY HeightIs
<1>2. ss = [h \in 1..H |-> LayerProof(nodes[h - 1], at[h - 1], at[h])]
  BY DEF ProofParts
<1>3. Proof(s, ts) = FlattenSeq(ss)
  BY Zenon DEF Proof, ProofParts
<1>4. PO = CHOOSE off : IsOffset(off, ss, H)
  BY DEF ProofOffset
<1>5. \A h \in 1..H : 2^(H - h) \in Nat /\ at[h] \in SUBSET (1..2^(H - h)) /\ at[h] = ParentsOf(at[h - 1])
  <2>1. \A h \in 1..H : H - h \in Nat /\ h \in 0..H
    BY <1>1
  <2>2. QED
    BY <2>1, TwoPower, TargetsAre
<1> HIDE DEF H, at, PO, ss, nodes
<1>6. ss = [h \in 1..H |-> ss[h]] /\ \A h \in 1..H : ss[h] = LayerProof(nodes[h - 1], at[h - 1], at[h])
  BY <1>2
<1>7. \A h \in 1..H :
        /\ ss[h] \in Seq(Range(ss[h])) /\ Len(ss[h]) = Cardinality(Needing(at[h - 1]))
        /\ \A k \in 1..Cardinality(Needing(at[h - 1])) :
             ss[h][k] = nodes[h - 1][Sibling(Ascending(Needing(at[h - 1]))[k], at[h - 1])]
  <2> SUFFICES ASSUME NEW h \in 1..H
               PROVE  /\ ss[h] \in Seq(Range(ss[h])) /\ Len(ss[h]) = Cardinality(Needing(at[h - 1]))
                      /\ \A k \in 1..Cardinality(Needing(at[h - 1])) :
                           ss[h][k] = nodes[h - 1][Sibling(Ascending(Needing(at[h - 1]))[k], at[h - 1])]
    OBVIOUS
  <2> DEFINE n == 2^(H - h)
  <2>1. /\ n \in Nat /\ ParentsOf(at[h - 1]) \in SUBSET (1..n)
        /\ ss[h] = LayerProof(nodes[h - 1], at[h - 1], ParentsOf(at[h - 1]))
    BY <1>5, <1>6
  <2> HIDE DEF n
  <2>2. QED
    BY <2>1, ProofOfLayer
<1>8. \E off : IsOffset(off, ss, H)
  BY <1>1, <1>6, <1>7, PartsExist
<1>9. IsOffset(PO, ss, H)
  BY <1>4, <1>8
<1>10. /\ PO \in [0..H -> Nat] /\ PO[0] = 0
       /\ \A h \in 1..H : PO[h] = PO[h - 1] + Cardinality(Needing(at[h - 1]))
       /\ Proof(s, ts) \in Seq(Range(Proof(s, ts))) /\ Len(Proof(s, ts)) = PO[H]
  BY <1>3, <1>7, <1>9 DEF IsOffset
<1>11. \A h \in 1..H : \A k \in 1..Cardinality(Needing(at[h - 1])) :
          /\ PO[h - 1] + k <= PO[H]
          /\ Proof(s, ts)[PO[h - 1] + k]
               = nodes[h - 1][Sibling(Ascending(Needing(at[h - 1]))[k], at[h - 1])]
  BY <1>3, <1>7, <1>9 DEF IsOffset
<1>12. QED
  BY <1>10, <1>11 DEF H, at, PO, nodes

LEMMA AlwaysTargets ==
  ASSUME NEW s, Len(s) \in Nat, NEW ts \in SUBSET (1..Len(s)), ts # {}
  PROVE  /\ \A h \in 0..Height(Len(s)) : TargetsAt(s, ts)[h] # {}
         /\ TargetsAt(s, ts)[Height(Len(s))] = {1}
<1> DEFINE H == Height(Len(s))
           at == TargetsAt(s, ts)
           S == {h \in Nat : h <= H => at[h] # {}}
<1>1. H \in Nat
  BY HeightIs
<1>2. /\ at[0] = ts
      /\ \A h \in 1..H : at[h] = ParentsOf(at[h - 1])
      /\ \A h \in 0..H : at[h] \in SUBSET (1..2^(H - h))
  BY TargetsAre
<1> HIDE DEF H, at
<1>3. 0 \in S
  BY <1>2
<1>4. ASSUME NEW h \in Nat, h \in S
      PROVE  h + 1 \in S
  <2> SUFFICES ASSUME h + 1 <= H
               PROVE  at[h + 1] # {}
    OBVIOUS
  <2>1. h + 1 \in 1..H /\ (h + 1) - 1 = h /\ at[h] # {}
    BY <1>1, <1>4
  <2>2. at[h + 1] = ParentsOf(at[h])
    BY <1>2, <2>1
  <2>3. QED
    BY <2>1, <2>2 DEF ParentsOf
<1> HIDE DEF S
<1>5. Nat \subseteq S
  BY <1>3, <1>4, Induction
<1>6. \A h \in 0..H : at[h] # {}
  BY <1>1, <1>5 DEF S
<1>7. at[H] = {1}
  <2>1. H \in 0..H /\ H - H = 0 /\ 2^0 = 1
    BY <1>1
  <2>2. at[H] \in SUBSET (1..2^(H - H))
    BY <1>2, <2>1
  <2>3. 2^(H - H) = 1
    BY <2>1
  <2>4. at[H] \in SUBSET (1..1) /\ at[H] # {}
    BY <1>6, <2>1, <2>2, <2>3
  <2>5. QED
    BY <2>4
<1>8. QED
  BY <1>6, <1>7 DEF H, at

-----------------------------------------------------------------------------
(* The nodes not yet read, and how they are read. *)
LEMMA SuffixIs ==
  ASSUME NEW V, NEW x \in Seq(V), NEW l \in 1..(Len(x) + 1)
  PROVE  /\ SubSeq(x, l, Len(x)) \in Seq(V)
         /\ Len(SubSeq(x, l, Len(x))) = Len(x) - l + 1
         /\ \A j \in 1..(Len(x) - l + 1) : SubSeq(x, l, Len(x))[j] = x[l + j - 1]
<1> DEFINE n == Len(x)
<1>1. l \in Int /\ n \in Nat /\ \A i \in l..n : x[i] \in V
  OBVIOUS
<1> HIDE DEF n
<1>2. SubSeq(x, l, n) \in Seq(V)
  BY <1>1, SubSeqProperties
<1>3. Len(SubSeq(x, l, n)) = IF l <= n THEN n - l + 1 ELSE 0
  BY <1>1, SubSeqProperties
<1>4. \A j \in 1..(n - l + 1) : SubSeq(x, l, n)[j] = x[l + j - 1]
  BY <1>1, SubSeqProperties
<1>5. l <= n + 1
  BY DEF n
<1>6. QED
  BY <1>1, <1>2, <1>3, <1>4, <1>5 DEF n

LEMMA PendingIs ==
  ASSUME InputInv, hashes \in Seq(Range(hashes)),
         leafPos \in 1..(Len(ClaimedLeaves) + 1), hashPos \in 1..(Len(hashes) + 1)
  PROVE  LET r == Len(ClaimedLeaves) - leafPos + 1
             u == Len(hashes) - hashPos + 1
         IN /\ r \in Nat /\ u \in Nat /\ Len(Pending) = r + u
            /\ \A j \in 1..r : Pending[j] = [node |-> ClaimedLeaves[leafPos + j - 1], level |-> 0]
            /\ \A j \in 1..u : Pending[r + j] = hashes[hashPos + j - 1]
<1> DEFINE cl == ClaimedLeaves
           x == [k \in DOMAIN cl |-> [node |-> cl[k], level |-> 0]]
           n == Len(cl)
           r == n - leafPos + 1
           u == Len(hashes) - hashPos + 1
           a == SubSeq(x, leafPos, n)
           b == SubSeq(hashes, hashPos, Len(hashes))
           V == Range(x) \cup Range(hashes)
<1>1. n \in Nat /\ DOMAIN cl = 1..n
  BY Claimed
<1>2. Pending = a \o b
  BY Zenon DEF Pending
<1>3. leafPos \in 1..(n + 1)
  OBVIOUS
<1> HIDE DEF cl, n
<1>4. x = [k \in 1..n |-> x[k]] /\ \A k \in 1..n : x[k] = [node |-> cl[k], level |-> 0]
  BY <1>1
<1> HIDE DEF x
<1>5. x \in Seq(Range(x)) /\ Len(x) = n
  BY <1>1, <1>4, ByIndex
<1>6. x \in Seq(V) /\ hashes \in Seq(V)
  <2> DEFINE X == Range(x)
             Y == Range(hashes)
  <2>1. X \subseteq V /\ Y \subseteq V /\ x \in Seq(X) /\ hashes \in Seq(Y)
    BY <1>5
  <2> HIDE DEF X, Y, V
  <2>2. QED
    BY <2>1
<1> HIDE DEF V
<1>7. r \in Nat /\ u \in Nat
  BY <1>1, <1>3, <1>6
<1>8. a \in Seq(V) /\ Len(a) = r /\ \A j \in 1..r : a[j] = x[leafPos + j - 1]
  BY <1>3, <1>5, <1>6, SuffixIs
<1>9. b \in Seq(V) /\ Len(b) = u /\ \A j \in 1..u : b[j] = hashes[hashPos + j - 1]
  BY <1>6, SuffixIs
<1>10. \A j \in 1..r : leafPos + j - 1 \in 1..n
  BY <1>1, <1>3, <1>7
<1> HIDE DEF a, b, r, u
<1>11. /\ Len(a \o b) = r + u
       /\ \A i \in 1..(r + u) : (a \o b)[i] = IF i <= r THEN a[i] ELSE b[i - r]
  BY <1>8, <1>9, ConcatProperties, SMTT(30)
<1>12. \A j \in 1..r : (a \o b)[j] = x[leafPos + j - 1]
  BY <1>7, <1>8, <1>11
<1>13. \A j \in 1..u : (a \o b)[r + j] = hashes[hashPos + j - 1]
  <2> SUFFICES ASSUME NEW j \in 1..u
               PROVE  (a \o b)[r + j] = hashes[hashPos + j - 1]
    OBVIOUS
  <2>1. r + j \in 1..(r + u) /\ ~(r + j <= r) /\ (r + j) - r = j
    BY <1>7
  <2>2. (a \o b)[r + j] = b[j]
    BY <1>11, <2>1
  <2>3. QED
    BY <1>9, <2>2
<1>14. \A j \in 1..r : Pending[j] = [node |-> cl[leafPos + j - 1], level |-> 0]
  BY <1>2, <1>4, <1>10, <1>12
<1>15. QED
  BY <1>2, <1>7, <1>11, <1>13, <1>14 DEF cl, n, r, u

LEMMA TakeIs ==
  ASSUME NEW n \in Nat, Take(n), NEW r \in Nat, Len(ClaimedLeaves) - leafPos + 1 = r
  PROVE  /\ n <= r => leafPos' = leafPos + n /\ hashPos' = hashPos + (n - n)
         /\ r <= n => leafPos' = leafPos + r /\ hashPos' = hashPos + (n - r)
<1> DEFINE l == Min({n, r})
<1>1. leafPos' = leafPos + l /\ hashPos' = hashPos + (n - l)
  BY DEF Take
<1>2. \E z \in {n, r} : \A y \in {n, r} : z <= y
  OBVIOUS
<1>3. l \in {n, r} /\ \A y \in {n, r} : l <= y
  BY <1>2 DEF Min
<1> HIDE DEF l
<1>4. (n <= r => l = n) /\ (r <= n => l = r)
  BY <1>3
<1>5. QED
  BY <1>1, <1>4

-----------------------------------------------------------------------------
(* The verifier's positions stay within what they read. *)
TypeInv ==
  /\ TypeOK
  /\ hashes \in Seq(Range(hashes)) /\ handed \in Seq(Range(handed))

LEMMA HashGrows ==
  ASSUME hashes \in Seq(Range(hashes)), NEW e, hashes' = Append(hashes, e)
  PROVE  /\ hashes' \in Seq(Range(hashes')) /\ Len(hashes') = Len(hashes) + 1
         /\ \A i \in 1..Len(hashes) : hashes'[i] = hashes[i]
         /\ hashes'[Len(hashes) + 1] = e
<1> DEFINE V == Range(hashes) \cup {e}
           R == Range(hashes)
<1>1. R \subseteq V /\ e \in V /\ hashes \in Seq(R)
  OBVIOUS
<1> HIDE DEF V, R
<1>2. hashes \in Seq(V)
  BY <1>1
<1>3. hashes' \in Seq(V) /\ Len(hashes') = Len(hashes) + 1
  BY <1>1, <1>2
<1>4. /\ \A i \in 1..Len(hashes) : hashes'[i] = hashes[i]
      /\ hashes'[Len(hashes) + 1] = e
  BY <1>1, <1>2
<1>5. hashes' \in Seq(Range(hashes'))
  BY <1>3, RangeIs
<1>6. QED
  BY <1>3, <1>4, <1>5

LEMMA TakeMoves ==
  ASSUME InputInv, hashes \in Seq(Range(hashes)),
         leafPos \in 1..(Len(ClaimedLeaves) + 1), hashPos \in 1..(Len(hashes) + 1),
         NEW n \in {1, 2}, Take(n), Len(Pending) >= n
  PROVE  leafPos' \in 1..(Len(ClaimedLeaves) + 1) /\ hashPos' \in 1..(Len(hashes) + 1)
<1> DEFINE r == Len(ClaimedLeaves) - leafPos + 1
           u == Len(hashes) - hashPos + 1
<1>1. r \in Nat /\ u \in Nat /\ Len(Pending) = r + u
  BY PendingIs
<1>2. /\ n <= r => leafPos' = leafPos + n /\ hashPos' = hashPos + (n - n)
      /\ r <= n => leafPos' = leafPos + r /\ hashPos' = hashPos + (n - r)
  BY <1>1, TakeIs, SMTT(30)
<1>3. Len(ClaimedLeaves) \in Nat /\ Len(hashes) \in Nat
  BY Claimed
<1>4. leafPos + r = Len(ClaimedLeaves) + 1 /\ hashPos + u = Len(hashes) + 1
  BY <1>3
<1> HIDE DEF r, u
<1>5. leafPos \in Nat \ {0} /\ hashPos \in Nat \ {0} /\ n \in Nat /\ n <= r + u
  BY <1>1, <1>3
<1>6. CASE n <= r
  BY <1>1, <1>2, <1>3, <1>4, <1>5, <1>6
<1>7. CASE r <= n
  <2>1. leafPos' = leafPos + r /\ hashPos' = hashPos + (n - r)
    BY <1>2, <1>7
  <2>2. n - r \in 0..u
    BY <1>1, <1>5, <1>7
  <2>3. leafPos' \in 1..(Len(ClaimedLeaves) + 1)
    BY <1>1, <1>3, <1>4, <1>5, <2>1
  <2>4. hashPos' \in 1..(Len(hashes) + 1)
    BY <1>1, <1>3, <1>4, <1>5, <2>1, <2>2
  <2>5. QED
    BY <2>3, <2>4
<1>8. QED
  BY <1>1, <1>5, <1>6, <1>7

LEMMA TheFlagsAre ==
  InputInv => /\ Len(TheFlags) \in Nat /\ DOMAIN TheFlags = 1..Len(TheFlags)
              /\ Proof(tree, targets) \in Seq(Range(Proof(tree, targets)))
              /\ Len(Proof(tree, targets)) \in Nat
<1> SUFFICES ASSUME InputInv
             PROVE  /\ Len(TheFlags) \in Nat /\ DOMAIN TheFlags = 1..Len(TheFlags)
                    /\ Proof(tree, targets) \in Seq(Range(Proof(tree, targets)))
                    /\ Len(Proof(tree, targets)) \in Nat
  OBVIOUS
<1> DEFINE H == Height(Len(tree))
           FO == FlagOffset(tree, targets)
           f == Flags(tree, targets)
           q == Proof(tree, targets)
<1>1. Len(tree) \in Nat /\ targets \in SUBSET (1..Len(tree)) /\ H \in Nat
  BY HeightIs DEF InputInv
<1>2. FO \in [0..H -> Nat] /\ Len(f) = FO[H] /\ DOMAIN f = 1..FO[H]
  BY <1>1, FlagsAre
<1>3. q \in Seq(Range(q))
  BY <1>1, ProofIs
<1> HIDE DEF H, FO, f, q
<1>4. FO[H] \in Nat
  BY <1>1, <1>2
<1>5. Len(q) \in Nat
  BY <1>3
<1>6. QED
  BY <1>2, <1>3, <1>4, <1>5 DEF f, q, TheFlags

LEMMA ClaimedLength == InputInv => Len(ClaimedLeaves) \in Nat
  BY Claimed

LEMMA CarriedIs ==
  ASSUME InputInv, NEW proof
  PROVE  /\ Carried(proof) \in Seq(Range(Carried(proof))) /\ Len(Carried(proof)) = Cardinality(claimed)
         /\ \A k \in 1..Cardinality(claimed) :
              Carried(proof)[k] = IF k <= Len(proof) THEN proof[k] ELSE Zero
<1> DEFINE f == Carried(proof)
           n == Cardinality(claimed)
<1>1. n \in Nat
  BY Claimed
<1>2. f = [k \in 1..n |-> IF k <= Len(proof) THEN proof[k] ELSE Zero]
  BY DEF Carried, BatchSize
<1> HIDE DEF f, n
<1>3. f = [k \in 1..n |-> f[k]] /\ \A k \in 1..n : f[k] = IF k <= Len(proof) THEN proof[k] ELSE Zero
  BY <1>2
<1>4. f \in Seq(Range(f)) /\ Len(f) = n
  BY <1>1, <1>3, ByIndex
<1>5. QED
  BY <1>3, <1>4 DEF f, n

LEMMA InitType == GuestInit => TypeInv
<1> SUFFICES ASSUME GuestInit
             PROVE  TypeInv
  OBVIOUS
<1>1. InputInv
  BY InitInputs
<1>2. /\ pc = "start" /\ turn = 1 /\ leafPos = 1 /\ hashPos = 1 /\ proofPos = 1 /\ hashes = <<>>
  BY DEF GuestInit, Outside, Init, UpdateInit, InsertInit, LoopInit
<1>3. handed \in Seq(Range(handed))
  <2>1. CASE handed = <<>>
    BY <2>1
  <2>2. CASE handed = Proof(tree, targets)
    BY <1>1, <2>2, TheFlagsAre
  <2>3. CASE handed = Carried(Proof(tree, targets))
    BY <1>1, <2>3, CarriedIs
  <2>4. QED
    BY <2>1, <2>2, <2>3 DEF GuestInit, Outside, Init, UpdateInit, InsertInit
<1>4. Len(handed) \in Nat /\ Len(ClaimedLeaves) \in Nat /\ Len(TheFlags) \in Nat
  <2>1. Len(handed) \in Nat
    BY <1>3
  <2>2. QED
    BY <1>1, <2>1, Claimed, TheFlagsAre
<1>5. tree \in Seq(Range(OldLeaf) \cup {Zero}) /\ DOMAIN tree = 1..Len(tree)
  <2>1. Len(tree) \in Nat /\ tree \in [1..Len(tree) -> Range(OldLeaf) \cup {Zero}]
    BY <1>1 DEF InputInv
  <2>2. QED
    BY <2>1
<1>6. /\ targets \subseteq DOMAIN tree /\ claimed \subseteq DOMAIN tree
      /\ side \in {"old", "new"} /\ layer \in {NoLayer} \cup 0..Height(Len(tree))
  BY <1>1, <1>5 DEF InputInv
<1>7. hashes \in Seq(Range(hashes)) /\ Len(hashes) = 0
  BY <1>2
<1>8. TypeOK
  BY <1>2, <1>4, <1>5, <1>6, <1>7 DEF TypeOK
<1>9. QED
  BY <1>3, <1>7, <1>8 DEF TypeInv

LEMMA StepType ==
  InputInv /\ GuestInv /\ TypeInv /\ [GuestNext]_guestVars => TypeInv'
<1> SUFFICES ASSUME InputInv, GuestInv, TypeInv, [GuestNext]_guestVars
             PROVE  TypeInv'
  OBVIOUS
<1>1. InputInv'
  BY StepInputs
<1>2. /\ Len(TheFlags) \in Nat /\ DOMAIN TheFlags = 1..Len(TheFlags)
      /\ Len(ClaimedLeaves) \in Nat /\ Len(handed) \in Nat /\ Len(hashes) \in Nat
  BY TheFlagsAre, Claimed DEF TypeInv
<1>3. /\ turn \in 1..(Len(TheFlags) + 1) /\ leafPos \in 1..(Len(ClaimedLeaves) + 1)
      /\ hashPos \in 1..(Len(hashes) + 1) /\ proofPos \in 1..(Len(handed) + 1)
      /\ pc \in {"start", "loop", "valid", "invalid"}
      /\ hashes \in Seq(Range(hashes)) /\ handed \in Seq(Range(handed))
  BY DEF TypeInv, TypeOK
<1>4. /\ tree \in Seq(Range(OldLeaf) \cup {Zero})
      /\ targets \subseteq DOMAIN tree /\ claimed \subseteq DOMAIN tree
      /\ side \in {"old", "new"} /\ layer \in {NoLayer} \cup 0..Height(Len(tree))
  BY DEF TypeInv, TypeOK
<1>5. CASE UNCHANGED Inputs
  <2>1. /\ UNCHANGED <<tree, targets, claimed, side, layer, handed>>
        /\ TheFlags' = TheFlags /\ ClaimedLeaves' = ClaimedLeaves
    <3>1. UNCHANGED <<tree, targets, claimed, side, layer, handed>>
      BY <1>5 DEF Inputs
    <3>2. QED
      BY <3>1, SameLeaves
  <2>2. CASE UNCHANGED Loop /\ pc' \in {"start", "loop", "valid", "invalid"}
    BY <1>3, <1>4, <2>1, <2>2 DEF TypeInv, TypeOK, Loop
  <2>3. CASE /\ UNCHANGED <<turn, leafPos, hashPos, proofPos, hashes>>
             /\ pc' \in {"start", "loop", "valid", "invalid"}
    BY <1>3, <1>4, <2>1, <2>3 DEF TypeInv, TypeOK
  <2>4. ASSUME NEW n \in {1, 2}, NEW e, Take(n), Len(Pending) >= n, hashes' = Append(hashes, e),
               turn \in 1..Len(TheFlags), turn' = turn + 1, pc' = pc,
               \/ proofPos' = proofPos
               \/ proofPos <= Len(handed) /\ proofPos' = proofPos + 1
        PROVE  TypeInv'
    <3>1. hashes' \in Seq(Range(hashes')) /\ Len(hashes') = Len(hashes) + 1
      BY <1>3, <2>4, HashGrows
    <3>2. leafPos' \in 1..(Len(ClaimedLeaves) + 1) /\ hashPos' \in 1..(Len(hashes) + 1)
      BY <1>3, <2>4, TakeMoves
    <3>3. turn' \in 1..(Len(TheFlags) + 1) /\ proofPos' \in 1..(Len(handed) + 1)
      <4> DEFINE f == Len(TheFlags)
                 m == Len(handed)
      <4>1. f \in Nat /\ m \in Nat /\ proofPos \in 1..(m + 1) /\ turn \in 1..f /\ turn' = turn + 1
        BY <1>2, <1>3, <2>4
      <4>2. proofPos' = proofPos \/ (proofPos <= m /\ proofPos' = proofPos + 1)
        BY <2>4
      <4> HIDE DEF f, m
      <4>3. turn' \in 1..(f + 1) /\ proofPos' \in 1..(m + 1)
        BY ONLY <4>1, <4>2
      <4>4. QED
        BY <4>3 DEF f, m
    <3>4. TypeOK'
      <4>1. hashPos' \in 1..(Len(hashes') + 1)
        BY <1>2, <3>1, <3>2
      <4>2. QED
        BY <1>3, <1>4, <2>1, <2>4, <3>2, <3>3, <4>1 DEF TypeOK
    <3>5. QED
      BY <1>3, <2>1, <3>1, <3>4 DEF TypeInv
  <2>5. CASE HashPair \/ HashWithProof \/ GuestHashPair \/ GuestHashWithProof
    <3>1. turn \in 1..Len(TheFlags) /\ turn' = turn + 1 /\ pc' = pc
      BY <1>2, <2>5 DEF HashPair, HashWithProof, Hash, GuestHashPair, GuestHashWithProof, GuestHash,
                        Looping
    <3>2. PICK e : hashes' = Append(hashes, e)
      BY <2>5 DEF HashPair, HashWithProof, Hash, GuestHashPair, GuestHashWithProof, GuestHash
    <3>3. CASE HashPair \/ GuestHashPair
      <4>1. Take(2) /\ Len(Pending) >= 2 /\ proofPos' = proofPos
        BY <3>3 DEF HashPair, GuestHashPair, Operands
      <4>2. QED
        BY <2>4, <3>1, <3>2, <4>1
    <3>4. CASE HashWithProof \/ GuestHashWithProof
      <4>1. /\ Take(1) /\ Len(Pending) >= 1
            /\ proofPos <= Len(handed) /\ proofPos' = proofPos + 1
        BY <3>4 DEF HashWithProof, GuestHashWithProof, Operands
      <4>2. QED
        BY <2>4, <3>1, <3>2, <4>1
    <3>5. QED
      BY <2>5, <3>3, <3>4
  <2>6. CASE Verify
    <3>1. CASE StartSingle
      BY <2>3, <3>1 DEF StartSingle
    <3>2. CASE Start
      BY <2>2, <3>2 DEF Start
    <3>3. CASE RunsDry
      BY <2>3, <3>3 DEF RunsDry
    <3>4. CASE Leftover
      BY <2>3, <3>4 DEF Leftover
    <3>5. CASE Compare
      BY <2>3, <3>5 DEF Compare
    <3>6. QED
      BY <2>5, <2>6, <3>1, <3>2, <3>3, <3>4, <3>5 DEF Verify
  <2>7. CASE UNCHANGED vars
    BY <1>3, <2>2, <2>7 DEF vars
  <2>8. CASE CurrentVerified
    <3>1. /\ turn' = 1 /\ leafPos' = 1 /\ hashPos' = 1 /\ proofPos' = 1 /\ hashes' = <<>> /\ pc' = "start"
      BY <2>8 DEF CurrentVerified
    <3>2. QED
      BY <1>2, <1>3, <1>4, <2>1, <3>1 DEF TypeInv, TypeOK
  <2>9. QED
    BY <2>6, <2>7, <2>8
       DEF GuestNext, UpdatedVerified, VerificationFails, InsertItems, InsertLevel, InsertCompare,
           guestVars
<1>6. CASE CurrentVerified
  <2>1. /\ turn' = 1 /\ leafPos' = 1 /\ hashPos' = 1 /\ proofPos' = 1 /\ hashes' = <<>> /\ pc' = "start"
        /\ handed' = Carried(Proof(Replaced, targets)) /\ side' = "new"
        /\ UNCHANGED <<tree, targets, claimed, layer>>
    BY <1>6 DEF CurrentVerified
  <2>2. handed' \in Seq(Range(handed'))
    BY <2>1, CarriedIs
  <2>3. Len(handed') \in Nat
    BY <2>2
  <2>4. (Len(ClaimedLeaves) \in Nat)'
    BY <1>1, ClaimedLength, PTL
  <2>5. TheFlags' = TheFlags
    BY <2>1 DEF TheFlags
  <2>6. hashes' \in Seq(Range(hashes')) /\ Len(hashes') = 0
    BY <2>1
  <2>7. TypeOK'
    BY <1>2, <1>4, <2>1, <2>3, <2>4, <2>5, <2>6 DEF TypeOK
  <2>8. QED
    BY <2>2, <2>6, <2>7 DEF TypeInv
<1>7. UNCHANGED Inputs \/ CurrentVerified
  BY VerifyKeeps
  DEF GuestNext, UpdatedVerified, VerificationFails, InsertItems, InsertLevel, InsertCompare,
      guestVars, vars
<1>8. QED
  BY <1>5, <1>6, <1>7

(* The type invariant of the verifier, inside of the guests and outside: no  *)
(* read position of the loop leaves what it reads (merkle.rs:158-202).       *)
THEOREM VerifierType == GuestSpec => []TypeOK
<1>1. GuestInit => InputInv /\ GuestInv /\ TypeInv
  BY InitInputs, InitType
<1>2. InputInv /\ GuestInv /\ TypeInv /\ [GuestNext]_guestVars => InputInv' /\ GuestInv' /\ TypeInv'
  BY StepInputs, StepType
<1>3. TypeInv => TypeOK
  BY DEF TypeInv
<1>4. QED
  BY <1>1, <1>2, <1>3, PTL DEF GuestSpec

-----------------------------------------------------------------------------
(* The verifier's walk through the tree, handed the leaves of the targets.  *)

(* The nodes above the targets, and what flags and proof nodes precede those *)
(* of a layer. *)
IsShape(H, at, FO, PO) ==
  /\ H \in Nat /\ at[H] = {1}
  /\ FO \in [0..H -> Nat] /\ FO[0] = 0 /\ PO \in [0..H -> Nat] /\ PO[0] = 0
  /\ \A h \in 0..H :
       /\ at[h] # {} /\ Cardinality(at[h]) \in Nat /\ Cardinality(at[h]) >= 1
       /\ \A x \in at[h] : x \in Nat
  /\ \A h \in 1..H :
       /\ at[h] = ParentsOf(at[h - 1])
       /\ \E m \in Nat : at[h - 1] \in SUBSET (1..(2 * m))
       /\ FO[h] = FO[h - 1] + Cardinality(at[h]) /\ FO[h] <= FO[H]
       /\ PO[h] = PO[h - 1] + Cardinality(Needing(at[h - 1]))
       /\ Cardinality(Needing(at[h - 1])) \in Nat

(* The verifier is to handle parent k + 1 of layer h - 1, when c nodes of    *)
(* the layer and q proof nodes for it are read. *)
Reading(H, at, FO, PO, h, k, c, q) ==
  /\ h \in 1..H
  /\ Place(at[h - 1], k, c, q)
  /\ turn = FO[h - 1] + k + 1
  /\ Len(hashes) = FO[h - 1] + k
  /\ proofPos = PO[h - 1] + q + 1
  /\ h = 1 => leafPos = c + 1 /\ hashPos = 1
  /\ h > 1 => leafPos = Cardinality(at[0]) + 1 /\ hashPos = FO[h - 2] + c + 1

LEMMA Shape ==
  ASSUME NEW s, Len(s) \in Nat, NEW ts \in SUBSET (1..Len(s)), ts # {}
  PROVE  IsShape(Height(Len(s)), TargetsAt(s, ts), FlagOffset(s, ts), ProofOffset(s, ts))
<1> DEFINE H == Height(Len(s))
           at == TargetsAt(s, ts)
           FO == FlagOffset(s, ts)
           PO == ProofOffset(s, ts)
<1>1. H \in Nat
  BY HeightIs
<1>2. /\ FO \in [0..H -> Nat] /\ FO[0] = 0
      /\ \A h \in 1..H : FO[h] = FO[h - 1] + Cardinality(at[h])
  BY FlagsAre
<1>3. /\ PO \in [0..H -> Nat] /\ PO[0] = 0
      /\ \A h \in 1..H : PO[h] = PO[h - 1] + Cardinality(Needing(at[h - 1]))
  BY ProofIs
<1>4. (\A h \in 0..H : at[h] # {}) /\ at[H] = {1}
  BY AlwaysTargets
<1>5. \A h \in 0..H : at[h] \in SUBSET (1..2^(H - h))
  BY TargetsAre
<1>6. \A h \in 0..H : /\ Cardinality(at[h]) \in Nat /\ Cardinality(at[h]) >= 1
                      /\ \A x \in at[h] : x \in Nat
  <2> SUFFICES ASSUME NEW h \in 0..H
               PROVE  /\ Cardinality(at[h]) \in Nat /\ Cardinality(at[h]) >= 1
                      /\ \A x \in at[h] : x \in Nat
    OBVIOUS
  <2> DEFINE n == 2^(H - h)
             S == at[h]
  <2>1. S # {} /\ S \in SUBSET (1..n)
    BY <1>4, <1>5
  <2>2. H - h \in Nat
    BY <1>1
  <2> HIDE DEF H, at
  <2>3. n \in Nat
    BY <2>2, TwoPower
  <2> HIDE DEF n, S
  <2>4. Cardinality(S) \in Nat /\ Cardinality(S) >= 1
    BY <2>1, <2>3, Ordered
  <2>5. \A x \in S : x \in Nat
    BY <2>1, <2>3
  <2>6. QED
    BY <2>4, <2>5 DEF S
<1>7. \A h \in 1..H :
        /\ at[h] = ParentsOf(at[h - 1])
        /\ \E m \in Nat : at[h - 1] \in SUBSET (1..(2 * m))
        /\ Cardinality(Needing(at[h - 1])) \in Nat
  <2> SUFFICES ASSUME NEW h \in 1..H
               PROVE  /\ at[h] = ParentsOf(at[h - 1])
                      /\ \E m \in Nat : at[h - 1] \in SUBSET (1..(2 * m))
                      /\ Cardinality(Needing(at[h - 1])) \in Nat
    OBVIOUS
  <2> DEFINE m == 2^(H - h)
             nodes == at[h - 1]
  <2>1. /\ m \in Nat /\ nodes \in SUBSET (1..(2 * m)) /\ at[h] = ParentsOf(nodes)
        /\ Needing(nodes) \in SUBSET (1..m)
    BY LayerShape
  <2> HIDE DEF m, nodes
  <2>2. Cardinality(Needing(nodes)) \in Nat
    BY <2>1, SlotsAreFinite
  <2>3. QED
    BY <2>1, <2>2 DEF nodes
<1>8. \A h \in 1..H : \A k \in 1..Cardinality(at[h]) : FO[h - 1] + k <= FO[H]
  BY FlagsAre
<1> HIDE DEF H, at, FO, PO
<1>9. \A h \in 1..H : FO[h] <= FO[H]
  <2> SUFFICES ASSUME NEW h \in 1..H
               PROVE  FO[h] <= FO[H]
    OBVIOUS
  <2>1. h \in 0..H
    BY <1>1
  <2>2. Cardinality(at[h]) \in 1..Cardinality(at[h])
    BY <1>6, <2>1
  <2>3. QED
    BY <1>2, <1>8, <2>2
<1>10. IsShape(H, at, FO, PO)
  BY <1>1, <1>2, <1>3, <1>4, <1>6, <1>7, <1>9 DEF IsShape
<1>11. QED
  BY <1>10 DEF H, at, FO, PO

LEMMA WalkStarts ==
  ASSUME NEW H, NEW at, NEW FO, NEW PO, IsShape(H, at, FO, PO), H >= 1,
         turn = 1, leafPos = 1, hashPos = 1, proofPos = 1, Len(hashes) = 0
  PROVE  Reading(H, at, FO, PO, 1, 0, 0, 0)
<1>1. H \in Nat /\ FO[0] = 0 /\ PO[0] = 0 /\ 1 \in 1..H /\ 1 - 1 = 0
  BY DEF IsShape
<1>2. PICK m \in Nat : at[1 - 1] \in SUBSET (1..(2 * m))
  BY <1>1 DEF IsShape
<1>3. Place(at[1 - 1], 0, 0, 0)
  BY <1>2, LayerStarts
<1>4. QED
  BY <1>1, <1>3 DEF Reading

(* After the last parent of a layer comes the first of the next one. *)
LEMMA TurnOver ==
  ASSUME NEW H, NEW at, NEW FO, NEW PO, IsShape(H, at, FO, PO),
         NEW h, NEW k, NEW c, NEW q, Reading(H, at, FO, PO, h, k, c, q),
         k = Cardinality(at[h])
  PROVE  /\ c = Cardinality(at[h - 1])
         /\ turn = FO[h] + 1 /\ Len(hashes) = FO[h] /\ proofPos = PO[h] + 1
         /\ leafPos = Cardinality(at[0]) + 1
         /\ h < H => Reading(H, at, FO, PO, h + 1, 0, 0, 0)
<1>1. /\ H \in Nat
      /\ FO \in [0..H -> Nat] /\ FO[0] = 0 /\ PO \in [0..H -> Nat] /\ PO[0] = 0
      /\ \A g \in 0..H : Cardinality(at[g]) \in Nat /\ Cardinality(at[g]) >= 1 /\ at[g] # {}
  BY DEF IsShape
<1>2. \A g \in 1..H :
         /\ at[g] = ParentsOf(at[g - 1])
         /\ \E m \in Nat : at[g - 1] \in SUBSET (1..(2 * m))
         /\ FO[g] = FO[g - 1] + Cardinality(at[g])
         /\ PO[g] = PO[g - 1] + Cardinality(Needing(at[g - 1]))
         /\ Cardinality(Needing(at[g - 1])) \in Nat
  BY DEF IsShape
<1>3. /\ h \in 1..H /\ Place(at[h - 1], k, c, q) /\ k = Cardinality(at[h])
      /\ turn = FO[h - 1] + k + 1 /\ Len(hashes) = FO[h - 1] + k
      /\ proofPos = PO[h - 1] + q + 1
      /\ h = 1 => leafPos = c + 1 /\ hashPos = 1
      /\ h > 1 => leafPos = Cardinality(at[0]) + 1 /\ hashPos = FO[h - 2] + c + 1
  BY DEF Reading
<1>4. h - 1 \in 0..H /\ h \in 0..H /\ h \in Nat
  BY <1>1, <1>3
<1>5. PICK m \in Nat : at[h - 1] \in SUBSET (1..(2 * m))
  BY <1>2, <1>3
<1>6. c = Cardinality(at[h - 1]) /\ q = Cardinality(Needing(at[h - 1]))
  <2>1. Place(at[h - 1], Cardinality(ParentsOf(at[h - 1])), c, q)
    BY <1>2, <1>3
  <2>2. at[h - 1] # {}
    BY <1>1, <1>4
  <2>3. QED
    BY <1>5, <2>1, <2>2, LayerEnds
<1>7. FO[h] = FO[h - 1] + k /\ PO[h] = PO[h - 1] + q
  BY <1>2, <1>3, <1>6
<1>8. FO[h] \in Nat /\ PO[h] \in Nat /\ FO[h - 1] \in Nat /\ Cardinality(at[h - 1]) \in Nat
  BY <1>1, <1>4
<1>9. turn = FO[h] + 1 /\ proofPos = PO[h] + 1 /\ Len(hashes) = FO[h]
  BY <1>3, <1>7
<1>10. leafPos = Cardinality(at[0]) + 1 /\ hashPos = FO[h - 1] + 0 + 1
  <2>1. CASE h = 1
    BY <1>1, <1>3, <1>6, <2>1
  <2>2. CASE h > 1
    <3>1. h - 1 \in 1..H /\ (h - 1) - 1 = h - 2 /\ h - 2 \in 0..H
      BY <1>1, <1>4, <2>2
    <3>2. FO[h - 1] = FO[(h - 1) - 1] + Cardinality(at[h - 1])
      BY <1>2, <3>1
    <3>3. FO[h - 2] \in Nat
      BY <1>1, <3>1
    <3> DEFINE f == FO[h - 2]
               d == Cardinality(at[h - 1])
    <3>4. f \in Nat /\ d \in Nat /\ FO[h - 1] = f + d /\ hashPos = f + d + 1
      BY <1>3, <1>6, <1>8, <2>2, <3>1, <3>2, <3>3
    <3> HIDE DEF f, d
    <3>5. hashPos = FO[h - 1] + 0 + 1
      BY <3>4
    <3>6. QED
      BY <1>3, <2>2, <3>5
  <2>3. QED
    BY <1>3, <1>4, <2>1, <2>2
<1>11. ASSUME h < H
       PROVE  Reading(H, at, FO, PO, h + 1, 0, 0, 0)
  <2>1. h + 1 \in 1..H /\ (h + 1) - 1 = h /\ (h + 1) - 2 = h - 1 /\ h + 1 > 1 /\ h + 1 # 1
    <3>1. H \in Nat /\ h \in 1..H
      BY <1>1, <1>3
    <3>2. h + 1 \in 1..H
      BY <1>11, <3>1
    <3>3. (h + 1) - 1 = h /\ (h + 1) - 2 = h - 1 /\ h + 1 > 1 /\ h + 1 # 1
      BY <3>1
    <3>4. QED
      BY <3>2, <3>3
  <2>2. PICK n \in Nat : at[(h + 1) - 1] \in SUBSET (1..(2 * n))
    BY <1>2, <2>1
  <2>3. Place(at[h], 0, 0, 0)
    BY <2>1, <2>2, LayerStarts
  <2>4. turn = FO[h] + 0 + 1 /\ Len(hashes) = FO[h] + 0 /\ proofPos = PO[h] + 0 + 1
    BY <1>8, <1>9
  <2>5. QED
    BY <1>10, <2>1, <2>3, <2>4 DEF Reading
<1>12. QED
  BY <1>6, <1>9, <1>10, <1>11

LEMMA FlagAhead ==
  ASSUME NEW H, NEW at, NEW FO, NEW PO, IsShape(H, at, FO, PO),
         NEW h, NEW k, NEW c, NEW q, Reading(H, at, FO, PO, h, k, c, q), turn <= FO[H]
  PROVE  \/ k < Cardinality(at[h])
         \/ k = Cardinality(at[h]) /\ h < H /\ h + 1 \in 1..H /\ 0 < Cardinality(at[h + 1])
<1>1. /\ H \in Nat /\ FO \in [0..H -> Nat]
      /\ \A g \in 0..H : Cardinality(at[g]) \in Nat /\ Cardinality(at[g]) >= 1
      /\ \A g \in 1..H : at[g] = ParentsOf(at[g - 1]) /\ FO[g] = FO[g - 1] + Cardinality(at[g])
  BY DEF IsShape
<1>2. h \in 1..H /\ Place(at[h - 1], k, c, q) /\ turn = FO[h - 1] + k + 1
  BY DEF Reading
<1>3. k \in 0..Cardinality(at[h])
  BY <1>1, <1>2 DEF Place
<1>4. FO[h] \in Nat /\ FO[h - 1] \in Nat /\ Cardinality(at[h]) \in Nat
  BY <1>1, <1>2
<1>5. CASE k = Cardinality(at[h])
  <2>1. turn = FO[h] + 1
    BY <1>1, <1>2, <1>4, <1>5
  <2>2. h # H
    BY <1>4, <2>1
  <2>3. h + 1 \in 1..H /\ h + 1 \in 0..H /\ h < H
    BY <1>1, <1>2, <2>2
  <2>4. Cardinality(at[h + 1]) \in Nat /\ Cardinality(at[h + 1]) >= 1
    BY <1>1, <2>3
  <2>5. QED
    BY <1>5, <2>3, <2>4
<1>6. QED
  BY <1>3, <1>4, <1>5

(* All flags are used only when the root is computed. *)
LEMMA WalkEnds ==
  ASSUME NEW H, NEW at, NEW FO, NEW PO, IsShape(H, at, FO, PO),
         NEW h, NEW k, NEW c, NEW q, Reading(H, at, FO, PO, h, k, c, q), turn = FO[H] + 1
  PROVE  h = H /\ k = Cardinality(at[H])
<1>1. /\ H \in Nat /\ FO \in [0..H -> Nat]
      /\ \A g \in 0..H : Cardinality(at[g]) \in Nat /\ Cardinality(at[g]) >= 1
      /\ \A g \in 1..H : /\ at[g] = ParentsOf(at[g - 1]) /\ FO[g] = FO[g - 1] + Cardinality(at[g])
                         /\ FO[g] <= FO[H]
  BY DEF IsShape
<1>2. h \in 1..H /\ Place(at[h - 1], k, c, q) /\ turn = FO[h - 1] + k + 1
  BY DEF Reading
<1>3. k \in 0..Cardinality(at[h])
  BY <1>1, <1>2 DEF Place
<1>4. FO[h] \in Nat /\ FO[h - 1] \in Nat /\ Cardinality(at[h]) \in Nat /\ FO[H] \in Nat
  BY <1>1, <1>2
<1>5. FO[H] <= FO[h]
  <2>1. FO[h] = FO[h - 1] + Cardinality(at[h])
    BY <1>1, <1>2
  <2> DEFINE f == FO[h - 1]
             d == Cardinality(at[h])
             e == FO[H]
  <2>2. f \in Nat /\ d \in Nat /\ e \in Nat /\ k \in 0..d /\ e + 1 = f + k + 1 /\ FO[h] = f + d
    BY <1>2, <1>3, <1>4, <2>1
  <2> HIDE DEF f, d, e
  <2>3. e <= FO[h]
    BY <2>2
  <2>4. QED
    BY <2>3 DEF e
<1>6. h = H
  <2> SUFFICES ASSUME h # H
               PROVE  FALSE
    OBVIOUS
  <2>1. h + 1 \in 1..H /\ h + 1 \in 0..H /\ (h + 1) - 1 = h
    BY <1>1, <1>2
  <2>2. FO[h + 1] = FO[(h + 1) - 1] + Cardinality(at[h + 1]) /\ FO[h + 1] <= FO[H]
    BY <1>1, <2>1
  <2>3. Cardinality(at[h + 1]) \in Nat /\ Cardinality(at[h + 1]) >= 1 /\ FO[h + 1] \in Nat
    BY <1>1, <2>1
  <2>4. QED
    BY <1>4, <1>5, <2>1, <2>2, <2>3
<1>7. k = Cardinality(at[h])
  <2>1. FO[h] = FO[h - 1] + Cardinality(at[h])
    BY <1>1, <1>2
  <2>2. FO[h - 1] + k = FO[h]
    BY <1>2, <1>3, <1>4, <1>6
  <2>3. QED
    BY <1>3, <1>4, <2>1, <2>2
<1>8. QED
  BY <1>6, <1>7

(* How many nodes a flag may consume. *)
Widths == {1, 2}

(* What the next flag consumes is there: the next nodes of the layer. *)
LEMMA NextRead ==
  ASSUME InputInv, hashes \in Seq(Range(hashes)),
         NEW H, NEW at, NEW FO, NEW PO, IsShape(H, at, FO, PO),
         Len(ClaimedLeaves) = Cardinality(at[0]),
         NEW h, NEW k, NEW c, NEW q, Reading(H, at, FO, PO, h, k, c, q),
         NEW n \in Widths, c + n <= Cardinality(at[h - 1])
  PROVE  /\ c \in Nat /\ Len(Pending) >= n
         /\ \A j \in 1..n :
              Pending[j] = IF h = 1 THEN [node |-> ClaimedLeaves[c + j], level |-> 0]
                                    ELSE hashes[FO[h - 2] + c + j]
         /\ Take(n) =>
              /\ h = 1 => leafPos' = (c + n) + 1 /\ hashPos' = 1
              /\ h > 1 => leafPos' = Cardinality(at[0]) + 1 /\ hashPos' = FO[h - 2] + (c + n) + 1
<1> DEFINE N == Cardinality(at[0])
           M == Cardinality(at[h - 1])
<1>1. /\ H \in Nat /\ FO \in [0..H -> Nat] /\ FO[0] = 0
      /\ \A g \in 0..H : Cardinality(at[g]) \in Nat
      /\ \A g \in 1..H : at[g] = ParentsOf(at[g - 1]) /\ FO[g] = FO[g - 1] + Cardinality(at[g])
  BY DEF IsShape
<1>2. /\ h \in 1..H /\ Place(at[h - 1], k, c, q)
      /\ Len(hashes) = FO[h - 1] + k
      /\ h = 1 => leafPos = c + 1 /\ hashPos = 1
      /\ h > 1 => leafPos = N + 1 /\ hashPos = FO[h - 2] + c + 1
  BY DEF Reading
<1>3. h - 1 \in 0..H /\ 0 \in 0..H
  BY <1>1, <1>2
<1>4. M \in Nat /\ N \in Nat /\ c \in 0..M /\ k \in Nat
  <2>1. Cardinality(ParentsOf(at[h - 1])) \in Nat
    <3>1. h \in 0..H
      BY <1>1, <1>2
    <3>2. QED
      BY <1>1, <1>2, <3>1
  <2>2. QED
    BY <1>1, <1>2, <1>3, <2>1 DEF Place
<1>5. Len(ClaimedLeaves) = N
  OBVIOUS
<1>6. c \in Nat /\ c + n <= M /\ FO[h - 1] \in Nat /\ n \in Nat /\ n >= 1
  <2>1. FO[h - 1] \in Nat
    BY <1>1, <1>3
  <2>2. n \in Nat /\ n >= 1
    BY DEF Widths
  <2>3. c \in Nat
    BY <1>4
  <2>4. QED
    BY <2>1, <2>2, <2>3
<1> HIDE DEF N
<1> DEFINE r == Len(ClaimedLeaves) - leafPos + 1
           u == Len(hashes) - hashPos + 1
<1>7. CASE h = 1
  <2>1. leafPos = c + 1 /\ hashPos = 1 /\ Len(hashes) = k /\ M = N
    BY <1>1, <1>2, <1>4, <1>7 DEF N
  <2> HIDE DEF M
  <2>2. leafPos \in 1..(Len(ClaimedLeaves) + 1) /\ hashPos \in 1..(Len(hashes) + 1)
    BY <1>4, <1>5, <2>1
  <2>3. /\ r \in Nat /\ u \in Nat /\ Len(Pending) = r + u
        /\ \A j \in 1..r : Pending[j] = [node |-> ClaimedLeaves[leafPos + j - 1], level |-> 0]
    BY <2>2, PendingIs
  <2>4. r = N - c /\ n <= r
    BY <1>4, <1>5, <1>6, <2>1
  <2>5. ASSUME Take(n)
        PROVE  leafPos' = leafPos + n /\ hashPos' = hashPos + (n - n)
    BY <1>6, <2>3, <2>4, <2>5, TakeIs
  <2>6. Len(Pending) >= n
    BY <1>6, <2>3, <2>4
  <2>7. \A j \in 1..n : Pending[j] = [node |-> ClaimedLeaves[c + j], level |-> 0]
    <3> SUFFICES ASSUME NEW j \in 1..n
                 PROVE  Pending[j] = [node |-> ClaimedLeaves[c + j], level |-> 0]
      OBVIOUS
    <3>1. j \in 1..r /\ leafPos + j - 1 = c + j
      <4> HIDE DEF r
      <4>1. c \in Nat /\ n \in Nat /\ r \in Nat /\ n <= r /\ leafPos = c + 1
        BY <1>6, <2>1, <2>3, <2>4
      <4>2. QED
        BY <4>1
    <3>2. QED
      BY <2>3, <3>1
  <2>8. Take(n) => leafPos' = (c + n) + 1 /\ hashPos' = 1
    BY <1>6, <2>1, <2>5
  <2>9. QED
    BY <1>6, <1>7, <2>6, <2>7, <2>8
<1>8. CASE h > 1
  <2>1. leafPos = N + 1 /\ hashPos = FO[h - 2] + c + 1
    BY <1>2, <1>8
  <2>2. FO[h - 2] \in Nat /\ FO[h - 1] = FO[h - 2] + M
    <3>1. h - 1 \in 1..H /\ (h - 1) - 1 = h - 2 /\ h - 2 \in 0..H
      BY <1>1, <1>2, <1>8
    <3>2. FO[h - 1] = FO[(h - 1) - 1] + M
      BY <1>1, <3>1
    <3>3. QED
      BY <1>1, <3>1, <3>2
  <2> DEFINE f == FO[h - 2]
  <2> HIDE DEF M
  <2>3. f \in Nat /\ hashPos = f + c + 1 /\ Len(hashes) = (f + M) + k
    BY <1>2, <2>1, <2>2
  <2> HIDE DEF f
  <2>4. leafPos \in 1..(Len(ClaimedLeaves) + 1) /\ hashPos \in 1..(Len(hashes) + 1)
    <3>1. c \in Nat /\ c <= M /\ M \in Nat /\ k \in Nat /\ N \in Nat
      BY <1>4
    <3>2. hashPos >= 1 /\ hashPos <= (f + M) + k + 1 /\ hashPos \in Int
      BY <2>3, <3>1
    <3>3. hashPos \in 1..(Len(hashes) + 1)
      BY <2>3, <3>1, <3>2
    <3>4. leafPos \in 1..(Len(ClaimedLeaves) + 1)
      BY <1>5, <2>1, <3>1
    <3>5. QED
      BY <3>3, <3>4
  <2>5. /\ r \in Nat /\ u \in Nat /\ Len(Pending) = r + u
        /\ \A j \in 1..u : Pending[r + j] = hashes[hashPos + j - 1]
    BY <2>4, PendingIs
  <2>6. r = 0 /\ u = (M - c) + k
    BY <1>4, <1>5, <2>1, <2>3
  <2> HIDE DEF r, u
  <2>7. n <= u
    BY <1>4, <1>6, <2>6 DEF M
  <2>8. ASSUME Take(n)
        PROVE  leafPos' = leafPos + r /\ hashPos' = hashPos + (n - r)
    BY <1>6, <2>5, <2>6, <2>8, TakeIs DEF r
  <2>9. Len(Pending) >= n
    BY <1>6, <2>5, <2>6, <2>7
  <2>10. \A j \in 1..n : Pending[j] = hashes[f + c + j]
    <3> SUFFICES ASSUME NEW j \in 1..n
                 PROVE  Pending[j] = hashes[f + c + j]
      OBVIOUS
    <3>1. j \in 1..u /\ r + j = j /\ hashPos + j - 1 = f + c + j
      BY <1>6, <2>3, <2>5, <2>6, <2>7
    <3>2. QED
      BY <2>5, <3>1
  <2>11. Take(n) => leafPos' = N + 1 /\ hashPos' = f + (c + n) + 1
    BY <1>4, <1>6, <2>1, <2>3, <2>6, <2>8
  <2>12. h # 1
    BY <1>1, <1>8
  <2>13. QED
    BY <1>6, <1>8, <2>9, <2>10, <2>11, <2>12 DEF f, N
<1>9. QED
  BY <1>2, <1>7, <1>8 DEF N

(* What the next flag says, and where it leads to. *)
LEMMA NextParent ==
  ASSUME NEW H, NEW at, NEW FO, NEW PO, IsShape(H, at, FO, PO),
         NEW h, NEW k, NEW c, NEW q, Reading(H, at, FO, PO, h, k, c, q), k < Cardinality(at[h]),
         NEW p, p = Ascending(at[h])[k + 1], NEW n, n = IF BothTargets(p, at[h - 1]) THEN 2 ELSE 1
  PROVE  /\ p \in Nat /\ k + 1 \in 1..Cardinality(at[h]) /\ c + n <= Cardinality(at[h - 1])
         /\ Place(at[h - 1], k + 1, c + n, q + (2 - n))
         /\ Ascending(at[h - 1])[c + 1] = IF 2 * p - 1 \in at[h - 1] THEN 2 * p - 1 ELSE 2 * p
         /\ n = 2 => Ascending(at[h - 1])[c + 2] = 2 * p
         /\ n = 1 => /\ q + 1 \in 1..Cardinality(Needing(at[h - 1]))
                     /\ Ascending(Needing(at[h - 1]))[q + 1] = p
<1> DEFINE nodes == at[h - 1]
<1>1. h \in 1..H /\ Place(nodes, k, c, q)
  BY DEF Reading
<1>2. at[h] = ParentsOf(nodes)
  BY <1>1 DEF IsShape
<1>3. PICK m \in Nat : nodes \in SUBSET (1..(2 * m))
  BY <1>1 DEF IsShape
<1> HIDE DEF nodes
<1>4. k < Cardinality(ParentsOf(nodes)) /\ p = Ascending(ParentsOf(nodes))[k + 1]
  BY <1>2
<1>5. /\ p \in 1..m /\ c + 1 \in 1..Cardinality(nodes)
      /\ Ascending(nodes)[c + 1] = IF 2 * p - 1 \in nodes THEN 2 * p - 1 ELSE 2 * p
      /\ BothTargets(p, nodes) => c + 2 \in 1..Cardinality(nodes) /\ Ascending(nodes)[c + 2] = 2 * p
  BY <1>1, <1>3, <1>4, NextNodes
<1>6. n = IF BothTargets(p, nodes) THEN 2 ELSE 1
  BY DEF nodes
<1>7. k \in Nat /\ c \in Nat /\ q \in Nat /\ k + 1 \in 1..Cardinality(ParentsOf(nodes))
  <2>1. \A x \in ParentsOf(nodes) : x \in 1..m
    BY <1>3, Children DEF ParentsOf
  <2>2. ParentsOf(nodes) \in SUBSET (1..m) /\ Needing(nodes) \in SUBSET (1..m)
    BY <2>1 DEF Needing
  <2>3. /\ Cardinality(ParentsOf(nodes)) \in Nat /\ Cardinality(Needing(nodes)) \in Nat
        /\ Cardinality(nodes) \in Nat
    <3>1. Cardinality(ParentsOf(nodes)) \in Nat /\ Cardinality(Needing(nodes)) \in Nat
      BY <2>2, SlotsAreFinite
    <3>2. 2 * m \in Nat
      OBVIOUS
    <3>3. Cardinality(nodes) \in Nat
      BY <1>3, <3>2, SlotsAreFinite
    <3>4. QED
      BY <3>1, <3>3
  <2>4. QED
    BY <1>1, <1>4, <2>3 DEF Place
<1>8. CASE BothTargets(p, nodes)
  <2>1. n = 2 /\ q + (2 - n) = q
    BY <1>6, <1>7, <1>8
  <2>2. Place(nodes, k + 1, c + 2, q)
    BY <1>1, <1>3, <1>4, <1>8, AdvanceBoth
  <2>3. QED
    BY <1>2, <1>5, <1>7, <1>8, <2>1, <2>2 DEF nodes
<1>9. CASE ~BothTargets(p, nodes)
  <2>1. n = 1 /\ q + (2 - n) = q + 1
    BY <1>6, <1>7, <1>9
  <2>2. /\ Place(nodes, k + 1, c + 1, q + 1)
        /\ q + 1 \in 1..Cardinality(Needing(nodes))
        /\ Ascending(Needing(nodes))[q + 1] = p
    BY <1>1, <1>3, <1>4, <1>9, AdvanceOne
  <2>3. QED
    BY <1>2, <1>5, <1>7, <1>9, <2>1, <2>2 DEF nodes
<1>10. QED
  BY <1>8, <1>9

LEMMA Walks ==
  ASSUME NEW H, NEW at, NEW FO, NEW PO, IsShape(H, at, FO, PO),
         NEW h, NEW k, NEW c, NEW q, Reading(H, at, FO, PO, h, k, c, q), k < Cardinality(at[h]),
         NEW n \in Widths, Place(at[h - 1], k + 1, c + n, q + (2 - n)),
         turn' = turn + 1, Len(hashes') = Len(hashes) + 1, proofPos' = proofPos + (2 - n),
         h = 1 => leafPos' = (c + n) + 1 /\ hashPos' = 1,
         h > 1 => leafPos' = Cardinality(at[0]) + 1 /\ hashPos' = FO[h - 2] + (c + n) + 1
  PROVE  Reading(H, at, FO, PO, h, k + 1, c + n, q + (2 - n))'
<1>1. /\ H \in Nat /\ FO \in [0..H -> Nat] /\ PO \in [0..H -> Nat]
      /\ \A g \in 1..H : /\ at[g] = ParentsOf(at[g - 1])
                         /\ Cardinality(Needing(at[g - 1])) \in Nat
      /\ \A g \in 0..H : Cardinality(at[g]) \in Nat
  BY DEF IsShape
<1>2. /\ h \in 1..H /\ Place(at[h - 1], k, c, q)
      /\ turn = FO[h - 1] + k + 1 /\ Len(hashes) = FO[h - 1] + k
      /\ proofPos = PO[h - 1] + q + 1
  BY DEF Reading
<1>3. h - 1 \in 0..H /\ h \in 0..H
  BY <1>1, <1>2
<1>4. FO[h - 1] \in Nat /\ PO[h - 1] \in Nat
  BY <1>1, <1>3
<1>5. k \in Nat /\ q \in Nat
  <2>1. /\ k \in 0..Cardinality(ParentsOf(at[h - 1])) /\ q \in 0..Cardinality(Needing(at[h - 1]))
    BY <1>2 DEF Place
  <2>2. Cardinality(ParentsOf(at[h - 1])) \in Nat
    BY <1>1, <1>2, <1>3
  <2>3. QED
    BY <1>1, <1>2, <2>1, <2>2
<1>6. /\ turn' = FO[h - 1] + (k + 1) + 1 /\ Len(hashes') = FO[h - 1] + (k + 1)
      /\ proofPos' = PO[h - 1] + (q + (2 - n)) + 1
  <2> DEFINE f == FO[h - 1]
             o == PO[h - 1]
  <2>1. f \in Nat /\ o \in Nat /\ turn = f + k + 1 /\ Len(hashes) = f + k /\ proofPos = o + q + 1
    BY <1>2, <1>4
  <2>2. 2 - n \in Nat
    BY DEF Widths
  <2> DEFINE d == 2 - n
  <2> HIDE DEF f, o, d
  <2>3. proofPos' = proofPos + d /\ d \in Nat
    BY <2>2 DEF d
  <2>4. turn' = f + (k + 1) + 1 /\ Len(hashes') = f + (k + 1)
    BY <1>5, <2>1
  <2>5. proofPos' = o + (q + d) + 1
    BY <1>5, <2>1, <2>3
  <2>6. QED
    BY <2>4, <2>5 DEF f, o, d
<1>7. QED
  BY <1>2, <1>6 DEF Reading

(* The digests of the layers below h, and the first k ones of layer h, are  *)
(* the nodes that L has there. *)
Digests(at, FO, L, h, k) ==
  \A g \in 1..h : \A j \in 1..Cardinality(at[g]) : g < h \/ j <= k =>
    /\ FO[g - 1] + j \in 1..Len(hashes)
    /\ hashes[FO[g - 1] + j] = [node |-> L[g][Ascending(at[g])[j]], level |-> g]

LEMMA NoDigests ==
  ASSUME NEW at, NEW FO, NEW L
  PROVE  Digests(at, FO, L, 1, 0)
BY DEF Digests

LEMMA LayerDone ==
  ASSUME NEW at, NEW FO, NEW L, NEW h \in Nat, Digests(at, FO, L, h, Cardinality(at[h]))
  PROVE  Digests(at, FO, L, h + 1, 0)
<1> SUFFICES ASSUME NEW g \in 1..(h + 1), NEW j \in 1..Cardinality(at[g]), g < h + 1
             PROVE  /\ FO[g - 1] + j \in 1..Len(hashes)
                    /\ hashes[FO[g - 1] + j] = [node |-> L[g][Ascending(at[g])[j]], level |-> g]
  BY DEF Digests
<1>1. g \in 1..h /\ (g < h \/ j <= Cardinality(at[h]))
  OBVIOUS
<1>2. QED
  BY <1>1 DEF Digests

LEMMA DigestAdded ==
  ASSUME NEW at, NEW FO, NEW L, NEW h \in Nat, NEW k \in Nat, h >= 1,
         Digests(at, FO, L, h, k),
         Len(hashes) \in Nat, Len(hashes') = Len(hashes) + 1, Len(hashes) = FO[h - 1] + k,
         FO[h - 1] \in Nat,
         \A i \in 1..Len(hashes) : hashes'[i] = hashes[i],
         hashes'[Len(hashes) + 1] = [node |-> L[h][Ascending(at[h])[k + 1]], level |-> h]
  PROVE  Digests(at, FO, L, h, k + 1)'
<1> SUFFICES ASSUME NEW g \in 1..h, NEW j \in 1..Cardinality(at[g]), g < h \/ j <= k + 1
             PROVE  /\ FO[g - 1] + j \in 1..Len(hashes')
                    /\ hashes'[FO[g - 1] + j] = [node |-> L[g][Ascending(at[g])[j]], level |-> g]
  BY DEF Digests
<1>1. CASE g < h \/ j <= k
  <2>1. /\ FO[g - 1] + j \in 1..Len(hashes)
        /\ hashes[FO[g - 1] + j] = [node |-> L[g][Ascending(at[g])[j]], level |-> g]
    BY <1>1 DEF Digests
  <2> DEFINE i == FO[g - 1] + j
  <2> HIDE DEF i
  <2>2. i \in 1..Len(hashes) /\ i \in 1..Len(hashes') /\ hashes'[i] = hashes[i]
    <3>1. i \in 1..Len(hashes)
      BY <2>1 DEF i
    <3>2. hashes'[i] = hashes[i]
      BY <3>1
    <3> DEFINE n == Len(hashes)
               m == Len(hashes')
    <3>3. n \in Nat /\ m = n + 1 /\ i \in 1..n
      BY <3>1
    <3> HIDE DEF n, m
    <3>4. i \in 1..m
      BY <3>3
    <3>5. QED
      BY <3>1, <3>2, <3>4 DEF m
  <2>3. QED
    BY <2>1, <2>2 DEF i
<1>2. CASE ~(g < h \/ j <= k)
  <2>1. g = h /\ j = k + 1
    BY <1>2
  <2> DEFINE f == FO[h - 1]
             n == Len(hashes)
  <2>2. f \in Nat /\ n = f + k /\ Len(hashes') = n + 1
    OBVIOUS
  <2> HIDE DEF f, n
  <2>3. f + (k + 1) = n + 1 /\ n + 1 \in 1..Len(hashes')
    BY <2>2, SMTT(30)
  <2>4. FO[g - 1] + j = Len(hashes) + 1 /\ FO[g - 1] + j \in 1..Len(hashes')
    BY <2>1, <2>3 DEF f, n
  <2>5. QED
    BY <2>1, <2>4
<1>3. QED
  BY <1>1, <1>2

(* The flags, the proof and the leaves, by the layer they are for; L are the *)
(* layers of the tree that is verified. *)
IsSetting(H, at, FO, PO, L, prf) ==
  /\ Len(TheFlags) = FO[H] /\ DOMAIN TheFlags = 1..FO[H] /\ TheFlags \in Seq(Range(TheFlags))
  /\ \A h \in 1..H : \A k \in 1..Cardinality(at[h]) :
       TheFlags[FO[h - 1] + k] = BothTargets(Ascending(at[h])[k], at[h - 1])
  /\ prf \in Seq(Range(prf)) /\ Len(prf) = PO[H]
  /\ \A h \in 1..H : \A k \in 1..Cardinality(Needing(at[h - 1])) :
       /\ PO[h - 1] + k <= PO[H]
       /\ prf[PO[h - 1] + k]
            = L[h - 1][Sibling(Ascending(Needing(at[h - 1]))[k], at[h - 1])]
  /\ Len(ClaimedLeaves) = Cardinality(at[0])
  /\ \A j \in 1..Cardinality(at[0]) : ClaimedLeaves[j] = L[0][Ascending(at[0])[j]]
  /\ \A h \in 1..H : \A p \in at[h] :
       /\ L[h][p] = HashNode(L[h - 1][2 * p - 1], L[h - 1][2 * p])
       /\ L[h - 1][2 * p - 1] \in Range(L[h - 1]) /\ L[h - 1][2 * p] \in Range(L[h - 1])
  /\ L[H][1] \in Range(L[H])

(* The leaves, with those that are handed over in the slots of the targets,  *)
(* in their order: what the verifier computes the root of. *)
Filled ==
  [i \in 1..Len(tree) |->
     IF i \in targets
     THEN ClaimedLeaves[CHOOSE j \in 1..Cardinality(targets) : Ascending(targets)[j] = i]
     ELSE TheLeaves[i]]

LEMMA FilledIs ==
  ASSUME InputInv, Cardinality(claimed) = Cardinality(targets)
  PROVE  /\ Filled \in Seq(Range(Filled)) /\ Len(Filled) = Len(tree)
         /\ Filled = [i \in 1..Len(tree) |-> Filled[i]]
         /\ \A i \in 1..Len(tree) : i \notin targets => Filled[i] = TheLeaves[i]
         /\ \A j \in 1..Cardinality(targets) : Filled[Ascending(targets)[j]] = ClaimedLeaves[j]
<1> DEFINE n == Len(tree)
           c == Cardinality(targets)
           A == Ascending(targets)
           f == Filled
<1>1. /\ n \in Nat /\ targets \in SUBSET (1..n) /\ c \in Nat
      /\ \A j \in 1..c : A[j] \in targets
      /\ \A j \in 1..c : \A i \in 1..c : i < j => A[i] < A[j]
      /\ \A j \in 1..c : A[j] \in 1..n
  <2>1. n \in Nat /\ targets \in SUBSET (1..n)
    BY DEF InputInv
  <2> HIDE DEF n
  <2>2. QED
    BY <2>1, Ordered
<1>2. f = [i \in 1..n |-> IF i \in targets THEN ClaimedLeaves[CHOOSE j \in 1..c : A[j] = i]
                                         ELSE TheLeaves[i]]
  BY DEF Filled
<1> HIDE DEF n, c, A, f
<1>3. f = [i \in 1..n |-> f[i]]
  BY <1>2
<1>4. f \in Seq(Range(f)) /\ Len(f) = n
  BY <1>1, <1>3, ByIndex
<1>5. \A i \in 1..n : i \notin targets => f[i] = TheLeaves[i]
  BY <1>2
<1>6. ASSUME NEW j \in 1..c
      PROVE  f[A[j]] = ClaimedLeaves[j]
  <2>1. A[j] \in 1..n /\ A[j] \in targets
    BY <1>1
  <2>2. \A i \in 1..c : A[i] = A[j] => i = j
    <3> SUFFICES ASSUME NEW i \in 1..c, A[i] = A[j], i # j
                 PROVE  FALSE
      OBVIOUS
    <3>1. A[i] \in 1..n /\ A[j] \in 1..n
      BY <1>1
    <3>2. i < j \/ j < i
      BY <1>1
    <3>3. A[i] < A[j] \/ A[j] < A[i]
      BY <1>1, <3>2
    <3>4. QED
      BY <3>1, <3>3
  <2>3. (CHOOSE i \in 1..c : A[i] = A[j]) = j
    BY <2>2
  <2>4. QED
    BY <1>2, <2>1, <2>3
<1>7. QED
  BY <1>3, <1>4, <1>5, <1>6 DEF n, c, A, f

LEMMA FilledOwn ==
  ASSUME InputInv, claimed = targets
  PROVE  Filled = TheLeaves
<1> DEFINE n == Len(tree)
           A == Ascending(targets)
           f == Filled
           t == TheLeaves
<1>1. n \in Nat /\ targets \in SUBSET (1..n) /\ tree \in [1..n -> Range(OldLeaf) \cup {Zero}]
  BY DEF InputInv
<1>2. t = [i \in 1..n |-> t[i]]
  <2>1. DOMAIN tree = 1..n
    BY <1>1
  <2>2. CASE side = "old"
    <3>1. t = tree
      BY <2>2 DEF TheLeaves
    <3> HIDE DEF n, t
    <3>2. QED
      BY <1>1, <3>1
  <2>3. CASE side # "old"
    <3>1. t = [i \in 1..n |-> IF i \in targets THEN NewLeaf[i] ELSE tree[i]]
      BY <2>1, <2>3 DEF TheLeaves, Replaced
    <3> HIDE DEF n, t
    <3>2. QED
      BY <3>1
  <2>4. QED
    BY <2>2, <2>3
<1>3. /\ f = [i \in 1..n |-> f[i]]
      /\ \A i \in 1..n : i \notin targets => f[i] = t[i]
      /\ \A j \in 1..Cardinality(targets) : f[A[j]] = ClaimedLeaves[j]
  BY FilledIs
<1>4. \A j \in 1..Cardinality(targets) : ClaimedLeaves[j] = t[A[j]]
  BY Claimed
<1>5. \A i \in targets : \E j \in 1..Cardinality(targets) : A[j] = i
  <2> HIDE DEF n
  <2>1. QED
    BY <1>1, Ordered
<1> HIDE DEF n, A, f, t
<1>6. \A i \in 1..n : f[i] = t[i]
  BY <1>3, <1>4, <1>5
<1>7. f = t
  BY <1>2, <1>3, <1>6
<1>8. QED
  BY <1>7 DEF f, t

LEMMA Setting ==
  ASSUME InputInv, Cardinality(claimed) = Cardinality(targets), targets # {}
  PROVE  /\ IsShape(Height(Len(tree)), TargetsAt(tree, targets), FlagOffset(tree, targets),
                    ProofOffset(tree, targets))
         /\ TargetsAt(tree, targets)[0] = targets
         /\ IsSetting(Height(Len(tree)), TargetsAt(tree, targets), FlagOffset(tree, targets),
                      ProofOffset(tree, targets), Layers(Filled), Proof(tree, targets))
<1> DEFINE H == Height(Len(tree))
           at == TargetsAt(tree, targets)
           FO == FlagOffset(tree, targets)
           PO == ProofOffset(tree, targets)
           L == Layers(Filled)
           K == Layers(tree)
           f == TheFlags
           prf == Proof(tree, targets)
<1>1. /\ Len(tree) \in Nat /\ Len(tree) # 0 /\ targets \in SUBSET (1..Len(tree))
      /\ Len(Filled) = Len(tree)
  BY FilledIs DEF InputInv
<1>2. H \in Nat
  BY <1>1, HeightIs
<1>3. IsShape(H, at, FO, PO) /\ at[0] = targets
  <2>1. IsShape(H, at, FO, PO)
    BY <1>1, Shape
  <2>2. at[0] = targets
    BY <1>1, TargetsAre
  <2>3. QED
    BY <2>1, <2>2
<1>4. /\ Len(f) = FO[H] /\ DOMAIN f = 1..FO[H] /\ f \in Seq(Range(f))
      /\ \A h \in 1..H : \A k \in 1..Cardinality(at[h]) :
           f[FO[h - 1] + k] = BothTargets(Ascending(at[h])[k], at[h - 1])
  <2>1. f = Flags(tree, targets)
    BY DEF TheFlags
  <2> HIDE DEF f
  <2>2. QED
    BY <1>1, <2>1, FlagsAre
<1>5. /\ prf \in Seq(Range(prf)) /\ Len(prf) = PO[H]
      /\ \A h \in 1..H : \A k \in 1..Cardinality(Needing(at[h - 1])) :
           /\ PO[h - 1] + k <= PO[H]
           /\ prf[PO[h - 1] + k] = K[h - 1][Sibling(Ascending(Needing(at[h - 1]))[k], at[h - 1])]
  BY <1>1, ProofIs
<1>6. \A h \in 0..H : \A i \in 1..2^(H - h) : i \notin at[h] => L[h][i] = K[h][i]
  <2>1. \A i \in 1..Len(tree) : i \notin targets => Filled[i] = tree[i]
    BY FilledIs, TheTree DEF TheLeaves
  <2>2. ASSUME NEW h \in 0..H, NEW i \in 1..2^(H - h), i \notin at[h]
        PROVE  L[h][i] = K[h][i]
    BY <1>1, <2>1, <2>2, Unaffected
  <2>3. QED
    BY <2>2
<1>7. \A h \in 1..H : \A k \in 1..Cardinality(Needing(at[h - 1])) :
        LET z == Sibling(Ascending(Needing(at[h - 1]))[k], at[h - 1])
        IN L[h - 1][z] = K[h - 1][z]
  <2> SUFFICES ASSUME NEW h \in 1..H, NEW k \in 1..Cardinality(Needing(at[h - 1]))
               PROVE  LET z == Sibling(Ascending(Needing(at[h - 1]))[k], at[h - 1])
                      IN L[h - 1][z] = K[h - 1][z]
    OBVIOUS
  <2> DEFINE m == 2^(H - h)
             nodes == at[h - 1]
             a == Ascending(Needing(nodes))[k]
             z == Sibling(a, nodes)
  <2>1. /\ m \in Nat /\ 2^(H - (h - 1)) = 2 * m /\ nodes \in SUBSET (1..(2 * m))
        /\ Needing(nodes) \in SUBSET (1..m)
    BY <1>1, LayerShape
  <2> HIDE DEF m
  <2>2. a \in Needing(nodes) /\ a \in 1..m
    <3> HIDE DEF nodes
    <3>1. k \in 1..Cardinality(Needing(nodes))
      BY DEF nodes
    <3>2. QED
      BY <2>1, <3>1, Ordered
  <2>3. z \notin nodes /\ z \in 1..(2 * m)
    <3> HIDE DEF nodes, a
    <3>1. ~BothTargets(a, nodes) /\ a \in Nat
      BY <2>2 DEF Needing
    <3>2. QED
      BY <2>1, <2>2, <3>1, Children
  <2>4. h - 1 \in 0..H
    BY <1>2
  <2>5. L[h - 1][z] = K[h - 1][z]
    <3> HIDE DEF L, K, z, H, at
    <3>1. z \in 1..2^(H - (h - 1)) /\ z \notin at[h - 1]
      BY <2>1, <2>3 DEF nodes
    <3>2. QED
      BY <1>6, <2>4, <3>1
  <2>6. QED
    BY <2>5
<1>8. /\ Len(ClaimedLeaves) = Cardinality(at[0])
      /\ \A j \in 1..Cardinality(at[0]) : ClaimedLeaves[j] = L[0][Ascending(at[0])[j]]
  <2>1. /\ Len(ClaimedLeaves) = Cardinality(targets)
        /\ \A j \in 1..Cardinality(targets) : Filled[Ascending(targets)[j]] = ClaimedLeaves[j]
    BY Claimed, FilledIs
  <2>2. \A j \in 1..Cardinality(targets) : Ascending(targets)[j] \in 1..Len(tree)
    BY <1>1, Ordered
  <2>3. \A i \in 1..Len(tree) : L[0][i] = Filled[i]
    <3>1. L[0] = Pad(Filled)
      BY <1>1, LayersAre
    <3>2. /\ \A i \in 1..2^Height(Len(tree)) :
               Pad(Filled)[i] = IF i <= Len(tree) THEN Filled[i] ELSE Zero
          /\ 2^Height(Len(tree)) >= Len(tree) /\ Height(Len(tree)) \in Nat
      BY <1>1, PadIs, HeightIs
    <3> DEFINE n == 2^Height(Len(tree))
    <3>3. n \in Nat
      BY <3>2, TwoPower
    <3> HIDE DEF L, n
    <3>4. \A i \in 1..Len(tree) : i \in 1..n
      BY <1>1, <3>2, <3>3 DEF n
    <3>5. QED
      BY <1>1, <3>1, <3>2, <3>4 DEF n
  <2> HIDE DEF L, at
  <2>4. QED
    BY <1>3, <2>1, <2>2, <2>3
<1>9. \A h \in 1..H : \A p \in at[h] :
        /\ L[h][p] = HashNode(L[h - 1][2 * p - 1], L[h - 1][2 * p])
        /\ L[h - 1][2 * p - 1] \in Range(L[h - 1]) /\ L[h - 1][2 * p] \in Range(L[h - 1])
  <2> SUFFICES ASSUME NEW h \in 1..H, NEW p \in at[h]
               PROVE  /\ L[h][p] = HashNode(L[h - 1][2 * p - 1], L[h - 1][2 * p])
                      /\ L[h - 1][2 * p - 1] \in Range(L[h - 1]) /\ L[h - 1][2 * p] \in Range(L[h - 1])
    OBVIOUS
  <2>1. at[h] \in SUBSET (1..2^(H - h))
    <3>1. h \in 0..H
      BY <1>2
    <3>2. QED
      BY <1>1, <3>1, TargetsAre
  <2>2. p \in 1..2^(Height(Len(Filled)) - h) /\ h \in 1..Height(Len(Filled))
    BY <1>1, <2>1
  <2>3. L[h][p] = HashNode(L[h - 1][2 * p - 1], L[h - 1][2 * p])
    BY <1>1, <2>2, NodeIs
  <2>4. /\ h - 1 \in 0..H /\ H - h \in Nat /\ (H - h) + 1 = H - (h - 1)
    BY <1>2
  <2>5. L[h - 1] \in Seq(Range(L[h - 1])) /\ Len(L[h - 1]) = 2^(H - (h - 1))
    BY <1>1, <2>4, LayerLength
  <2> DEFINE m == 2^(H - h)
  <2>6. m \in Nat /\ 2^(H - (h - 1)) = 2 * m /\ p \in 1..m
    <3> HIDE DEF H
    <3>1. m \in Nat /\ 2^((H - h) + 1) = 2 * m
      BY <2>4, TwoPower
    <3>2. QED
      BY <2>1, <2>4, <3>1
  <2> HIDE DEF m, L, H, at
  <2>7. 2 * p - 1 \in 1..(2 * m) /\ 2 * p \in 1..(2 * m)
    BY <2>6
  <2>8. DOMAIN L[h - 1] = 1..(2 * m)
    BY <2>5, <2>6
  <2>9. QED
    BY <2>3, <2>7, <2>8 DEF Range
<1>10. L[H][1] \in Range(L[H])
  <2>1. H \in 0..H /\ H - H = 0 /\ 2^0 = 1
    BY <1>2
  <2> DEFINE z == L[H]
  <2>2. z \in Seq(Range(z)) /\ Len(z) = 2^(H - H)
    BY <1>1, <2>1, LayerLength
  <2>3. 2^(H - H) = 1
    BY <2>1
  <2>4. z = L[H]
    OBVIOUS
  <2> HIDE DEF z, L, H
  <2>5. z \in Seq(Range(z)) /\ Len(z) = 1
    BY <2>2, <2>3
  <2>6. 1 \in DOMAIN z
    BY <2>5
  <2>7. z[1] \in Range(z)
    BY <2>6 DEF Range
  <2>8. QED
    BY <2>4, <2>7
<1> HIDE DEF H, at, FO, PO, L, K, f, prf
<1>11. \A h \in 1..H : \A k \in 1..Cardinality(Needing(at[h - 1])) :
         /\ PO[h - 1] + k <= PO[H]
         /\ prf[PO[h - 1] + k] = L[h - 1][Sibling(Ascending(Needing(at[h - 1]))[k], at[h - 1])]
  BY <1>5, <1>7
<1>12. IsSetting(H, at, FO, PO, L, prf)
  BY <1>4, <1>5, <1>8, <1>9, <1>10, <1>11 DEF IsSetting, f
<1>13. QED
  BY <1>3, <1>12 DEF H, at, FO, PO, L, prf

(* What is extracted are nodes of the layer asked for; those above targets   *)
(* that are read, the first c ones of layer h - 1 the last, are among them. *)
Extracts(at, L, h, c) ==
  layer # NoLayer =>
    /\ extracted \in Seq(Range(L[layer]))
    /\ \A j \in 1..Cardinality(at[layer]) : layer < h - 1 \/ (layer = h - 1 /\ j <= c) =>
         L[layer][Ascending(at[layer])[j]] \in Range(extracted)

(* The loop is somewhere on the walk, and whoever is handed the proof prf has *)
(* computed the nodes of the tree so far. *)
OnTheWalk(H, at, FO, PO, L, prf, h, k, c, q) ==
  /\ Reading(H, at, FO, PO, h, k, c, q)
  /\ handed = prf => Digests(at, FO, L, h, k) /\ Extracts(at, L, h, c)

LEMMA LayerExtracted ==
  ASSUME InputInv, NEW at, NEW L, NEW h \in Nat, NEW c, c = Cardinality(at[h - 1]), Extracts(at, L, h, c)
  PROVE  Extracts(at, L, h + 1, 0)
<1> SUFFICES ASSUME layer # NoLayer, NEW j \in 1..Cardinality(at[layer]), layer < h
             PROVE  L[layer][Ascending(at[layer])[j]] \in Range(extracted)
  BY DEF Extracts
<1>1. layer \in Nat
  BY DEF InputInv
<1>2. CASE layer < h - 1
  BY <1>2 DEF Extracts
<1>3. CASE layer = h - 1
  <2>1. Cardinality(at[layer]) = c /\ j <= c
    BY <1>3
  <2>2. QED
    BY <1>3, <2>1 DEF Extracts
<1>4. QED
  BY <1>1, <1>2, <1>3

LEMMA TwoMore ==
  ASSUME NEW R, NEW s \in Seq(R), NEW x \in R, NEW y \in R
  PROVE  /\ s \o <<x, y>> \in Seq(R)
         /\ x \in Range(s \o <<x, y>>) /\ y \in Range(s \o <<x, y>>)
         /\ Range(s) \subseteq Range(s \o <<x, y>>)
<1> DEFINE t == s \o <<x, y>>
<1>1. <<x, y>> \in Seq(R) /\ Len(<<x, y>>) = 2 /\ <<x, y>>[1] = x /\ <<x, y>>[2] = y
  OBVIOUS
<1>2. t \in Seq(R) /\ Len(t) = Len(s) + 2
  BY <1>1
<1>3. \A i \in 1..Len(s) : t[i] = s[i]
  OBVIOUS
<1>4. t[Len(s) + 1] = x /\ t[Len(s) + 2] = y
  OBVIOUS
<1> HIDE DEF t
<1>5. DOMAIN t = 1..(Len(s) + 2) /\ DOMAIN s = 1..Len(s) /\ Len(s) \in Nat
  BY <1>2
<1>6. Len(s) + 1 \in DOMAIN t /\ Len(s) + 2 \in DOMAIN t
  BY <1>5
<1>7. x \in Range(t) /\ y \in Range(t)
  BY <1>4, <1>6 DEF Range
<1>8. ASSUME NEW i \in DOMAIN s
      PROVE  s[i] \in Range(t)
  <2>1. i \in DOMAIN t /\ t[i] = s[i]
    BY <1>3, <1>5
  <2>2. QED
    BY <2>1 DEF Range
<1>9. Range(s) \subseteq Range(t)
  BY <1>8 DEF Range
<1>10. QED
  BY <1>2, <1>7, <1>9 DEF t

(* A flag adds the nodes it consumes, if they are of the layer asked for. *)
LEMMA Extracted ==
  ASSUME InputInv, NEW at, NEW L, NEW h \in Nat, NEW c \in Nat, NEW n \in Widths,
         Extracts(at, L, h, c), layer' = layer, NEW x, NEW y,
         extracted' = IF layer = h - 1 THEN extracted \o <<x, y>> ELSE extracted,
         x \in Range(L[h - 1]), y \in Range(L[h - 1]),
         x = L[h - 1][Ascending(at[h - 1])[c + 1]],
         n = 2 => y = L[h - 1][Ascending(at[h - 1])[c + 2]]
  PROVE  Extracts(at, L, h, c + n)'
<1> SUFFICES ASSUME layer # NoLayer
             PROVE  /\ extracted' \in Seq(Range(L[layer]))
                    /\ \A j \in 1..Cardinality(at[layer]) :
                         layer < h - 1 \/ (layer = h - 1 /\ j <= c + n) =>
                           L[layer][Ascending(at[layer])[j]] \in Range(extracted')
  BY DEF Extracts
<1>1. extracted \in Seq(Range(L[layer]))
  BY DEF Extracts
<1>2. CASE layer = h - 1
  <2>1. /\ extracted' \in Seq(Range(L[layer])) /\ x \in Range(extracted') /\ y \in Range(extracted')
        /\ Range(extracted) \subseteq Range(extracted')
    <3> DEFINE R == Range(L[layer])
    <3>1. extracted' = extracted \o <<x, y>> /\ x \in R /\ y \in R /\ extracted \in Seq(R)
      BY <1>1, <1>2
    <3> HIDE DEF R
    <3>2. /\ extracted \o <<x, y>> \in Seq(R)
          /\ x \in Range(extracted \o <<x, y>>) /\ y \in Range(extracted \o <<x, y>>)
          /\ Range(extracted) \subseteq Range(extracted \o <<x, y>>)
      BY <3>1, TwoMore
    <3>3. QED
      BY <3>1, <3>2 DEF R
  <2>2. ASSUME NEW j \in 1..Cardinality(at[layer]), j <= c + n
        PROVE  L[layer][Ascending(at[layer])[j]] \in Range(extracted')
    <3>1. j <= c \/ j = c + 1 \/ (j = c + 2 /\ n = 2)
      BY <2>2 DEF Widths
    <3>2. CASE j <= c
      <4>1. L[layer][Ascending(at[layer])[j]] \in Range(extracted)
        BY <1>2, <3>2 DEF Extracts
      <4>2. QED
        BY <2>1, <4>1
    <3>3. CASE j = c + 1
      BY <1>2, <2>1, <3>3
    <3>4. CASE j = c + 2 /\ n = 2
      BY <1>2, <2>1, <3>4
    <3>5. QED
      BY <3>1, <3>2, <3>3, <3>4
  <2>3. ~(layer < h - 1)
    BY <1>2
  <2>4. QED
    BY <2>1, <2>2, <2>3
<1>3. CASE layer # h - 1
  <2>1. extracted' = extracted
    BY <1>3
  <2>2. QED
    BY <1>1, <1>3, <2>1 DEF Extracts
<1>4. QED
  BY <1>2, <1>3

(* At a flag, the walk is at a parent that is still to be computed. *)
LEMMA Ready ==
  ASSUME InputInv, NEW H, NEW at, NEW FO, NEW PO, NEW L, NEW prf, IsShape(H, at, FO, PO), turn <= FO[H],
         \E h, k, c, q : OnTheWalk(H, at, FO, PO, L, prf, h, k, c, q)
  PROVE  \E h, k, c, q : OnTheWalk(H, at, FO, PO, L, prf, h, k, c, q) /\ k < Cardinality(at[h])
<1>1. PICK h, k, c, q : OnTheWalk(H, at, FO, PO, L, prf, h, k, c, q)
  OBVIOUS
<1>2. /\ Reading(H, at, FO, PO, h, k, c, q)
      /\ handed = prf => Digests(at, FO, L, h, k) /\ Extracts(at, L, h, c)
  BY <1>1 DEF OnTheWalk
<1>3. CASE k < Cardinality(at[h])
  BY <1>1, <1>3
<1>4. CASE k = Cardinality(at[h]) /\ h < H /\ h + 1 \in 1..H /\ 0 < Cardinality(at[h + 1])
  <2>1. Reading(H, at, FO, PO, h + 1, 0, 0, 0) /\ c = Cardinality(at[h - 1])
    <3>1. Reading(H, at, FO, PO, h, k, c, q)
      BY <1>2
    <3>2. QED
      BY <1>4, <3>1, TurnOver
  <2>2. h \in Nat
    BY <1>2 DEF Reading, IsShape
  <2>3. handed = prf => Digests(at, FO, L, h + 1, 0) /\ Extracts(at, L, h + 1, 0)
    BY <1>2, <1>4, <2>1, <2>2, LayerDone, LayerExtracted
  <2>4. OnTheWalk(H, at, FO, PO, L, prf, h + 1, 0, 0, 0)
    BY <2>1, <2>3 DEF OnTheWalk
  <2>5. QED
    BY <1>4, <2>4
<1>5. QED
  BY <1>2, <1>3, <1>4, FlagAhead

(* The loop, wherever it is, when as many leaves are handed over as there are *)
(* targets: the root it arrives at is the one of L.                         *)
LoopInv(H, at, FO, PO, L, prf) ==
  /\ pc = "start" => /\ turn = 1 /\ leafPos = 1 /\ hashPos = 1 /\ proofPos = 1 /\ Len(hashes) = 0
                     /\ extracted = <<>>
  /\ pc = "loop" /\ H >= 1 => \E h, k, c, q : OnTheWalk(H, at, FO, PO, L, prf, h, k, c, q)
  /\ pc = "loop" /\ H = 0 => leafPos = 1 /\ handed # <<>>
  /\ pc = "valid" => /\ Len(handed) = PO[H]
                     /\ handed = prf => ExpectedRoot = L[H][1] /\ Extracts(at, L, H + 1, 1)
  /\ handed = prf /\ ExpectedRoot = L[H][1] => pc # "invalid"

(* The flag at hand, what it consumes and what comes of it. *)
LEMMA AtFlag ==
  ASSUME InputInv, TypeInv,
         NEW H, NEW at, NEW FO, NEW PO, NEW L, NEW prf,
         IsShape(H, at, FO, PO), IsSetting(H, at, FO, PO, L, prf),
         NEW h, NEW k, NEW c, NEW q, OnTheWalk(H, at, FO, PO, L, prf, h, k, c, q),
         k < Cardinality(at[h]),
         NEW n, n = IF TheFlags[turn] THEN 2 ELSE 1
  PROVE  LET nodes == at[h - 1]
             A == Ascending(nodes)
             p == Ascending(at[h])[k + 1]
         IN /\ TheFlags[turn] = BothTargets(p, nodes) /\ turn = FO[h - 1] + k + 1
            /\ Len(Pending) >= n
            /\ Take(n) => /\ h = 1 => leafPos' = (c + n) + 1 /\ hashPos' = 1
                          /\ h > 1 => leafPos' = Cardinality(at[0]) + 1 /\ hashPos' = FO[h - 2] + (c + n) + 1
            /\ Place(nodes, k + 1, c + n, q + (2 - n))
            /\ n = 1 => /\ proofPos \in 1..Len(prf)
                        /\ prf[proofPos] = L[h - 1][Sibling(p, nodes)]
            /\ handed = prf =>
                 \A j \in 1..n : Pending[j] = [node |-> L[h - 1][A[c + j]], level |-> h - 1]
            /\ A[c + 1] = IF 2 * p - 1 \in nodes THEN 2 * p - 1 ELSE 2 * p
            /\ n = 2 => A[c + 2] = 2 * p
            /\ 2 * p - 1 \notin nodes => 2 * p \in nodes
            /\ L[h][p] = HashNode(L[h - 1][2 * p - 1], L[h - 1][2 * p])
            /\ L[h - 1][2 * p - 1] \in Range(L[h - 1]) /\ L[h - 1][2 * p] \in Range(L[h - 1])
<1> DEFINE nodes == at[h - 1]
           A == Ascending(nodes)
           p == Ascending(at[h])[k + 1]
<1>1. /\ Reading(H, at, FO, PO, h, k, c, q) /\ (handed = prf => Digests(at, FO, L, h, k))
      /\ h \in 1..H /\ turn = FO[h - 1] + k + 1 /\ proofPos = PO[h - 1] + q + 1
  BY DEF OnTheWalk, Reading
<1>2. /\ H \in Nat /\ FO \in [0..H -> Nat] /\ PO \in [0..H -> Nat]
      /\ \A g \in 0..H : Cardinality(at[g]) \in Nat
  BY DEF IsShape
<1>3. h - 1 \in 0..H /\ h \in 0..H
  BY <1>1, <1>2
<1>4. FO[h - 1] \in Nat /\ PO[h - 1] \in Nat /\ Cardinality(at[h]) \in Nat /\ k \in Nat
  <2>1. FO[h - 1] \in Nat /\ PO[h - 1] \in Nat /\ Cardinality(at[h]) \in Nat
    BY <1>2, <1>3
  <2>2. at[h] = ParentsOf(at[h - 1]) /\ Place(at[h - 1], k, c, q)
    BY <1>1 DEF IsShape, Reading
  <2>3. k \in 0..Cardinality(at[h])
    BY <2>2 DEF Place
  <2>4. QED
    BY <2>1, <2>3
<1>5. k + 1 \in 1..Cardinality(at[h]) /\ FO[h - 1] + k + 1 = FO[h - 1] + (k + 1)
  BY <1>4
<1>6. TheFlags[turn] = BothTargets(p, nodes)
  BY <1>1, <1>5 DEF IsSetting
<1>7. n = IF BothTargets(p, nodes) THEN 2 ELSE 1
  BY <1>6
<1>8. n \in {1, 2}
  OBVIOUS
<1> HIDE DEF p
<1>9. /\ p \in Nat /\ c + n <= Cardinality(at[h - 1])
      /\ Place(at[h - 1], k + 1, c + n, q + (2 - n))
      /\ Ascending(at[h - 1])[c + 1] = IF 2 * p - 1 \in at[h - 1] THEN 2 * p - 1 ELSE 2 * p
      /\ n = 2 => Ascending(at[h - 1])[c + 2] = 2 * p
      /\ n = 1 => /\ q + 1 \in 1..Cardinality(Needing(at[h - 1]))
                  /\ Ascending(Needing(at[h - 1]))[q + 1] = p
  BY <1>1, <1>7, NextParent DEF p
<1>10. hashes \in Seq(Range(hashes))
  BY DEF TypeInv
<1>11. /\ c \in Nat /\ Len(Pending) >= n
       /\ \A j \in 1..n :
            Pending[j] = IF h = 1 THEN [node |-> ClaimedLeaves[c + j], level |-> 0]
                                  ELSE hashes[FO[h - 2] + c + j]
       /\ Take(n) =>
            /\ h = 1 => leafPos' = (c + n) + 1 /\ hashPos' = 1
            /\ h > 1 => leafPos' = Cardinality(at[0]) + 1 /\ hashPos' = FO[h - 2] + (c + n) + 1
  <2>1. c + n <= Cardinality(at[h - 1]) /\ Reading(H, at, FO, PO, h, k, c, q)
    BY <1>1, <1>9
  <2>2. n \in Widths
    BY <1>8 DEF Widths
  <2>3. Len(ClaimedLeaves) = Cardinality(at[0])
    BY DEF IsSetting
  <2>4. QED
    BY <1>10, <2>1, <2>2, <2>3, NextRead
<1>12. ASSUME n = 1
       PROVE  proofPos \in 1..Len(prf) /\ prf[proofPos] = L[h - 1][Sibling(p, nodes)]
  <2>1. q + 1 \in 1..Cardinality(Needing(nodes)) /\ Ascending(Needing(nodes))[q + 1] = p
    BY <1>9, <1>12
  <2>2. PO[h - 1] + (q + 1) <= PO[H] /\ prf[PO[h - 1] + (q + 1)] = L[h - 1][Sibling(p, nodes)]
    BY <1>1, <2>1 DEF IsSetting
  <2>3. q \in Nat /\ PO[H] \in Nat /\ Len(prf) = PO[H]
    <3>1. Place(at[h - 1], k, c, q) /\ Cardinality(Needing(at[h - 1])) \in Nat
      BY <1>1 DEF IsShape, Reading
    <3>2. q \in Nat
      BY <3>1 DEF Place
    <3>3. H \in 0..H
      BY <1>2
    <3>4. PO[H] \in Nat
      BY <1>2, <3>3
    <3>5. QED
      BY <3>2, <3>4 DEF IsSetting
  <2> DEFINE o == PO[h - 1]
             e == PO[H]
  <2>4. o \in Nat /\ e \in Nat /\ q \in Nat /\ proofPos = o + q + 1 /\ o + (q + 1) <= e /\ Len(prf) = e
    BY <1>1, <1>4, <2>2, <2>3
  <2> HIDE DEF o, e
  <2>5. proofPos = o + (q + 1) /\ proofPos \in 1..Len(prf)
    BY <2>4
  <2>6. QED
    BY <2>2, <2>5 DEF o
<1>13. ASSUME handed = prf, NEW j \in 1..n
       PROVE  Pending[j] = [node |-> L[h - 1][A[c + j]], level |-> h - 1]
  <2> DEFINE M == Cardinality(nodes)
  <2>1. j \in Nat /\ j >= 1 /\ j <= n
    BY <1>8
  <2>2. M \in Nat /\ c + n <= M /\ c \in Nat /\ n \in Nat
    BY <1>2, <1>3, <1>8, <1>9, <1>11
  <2> HIDE DEF M
  <2>3. c + j \in 1..M
    BY <2>1, <2>2
  <2>4. CASE h = 1
    <3>1. nodes = at[0] /\ h - 1 = 0
      BY <2>4
    <3>2. ClaimedLeaves[c + j] = L[0][A[c + j]]
      BY <2>3, <3>1 DEF IsSetting, M
    <3>3. Pending[j] = [node |-> ClaimedLeaves[c + j], level |-> 0]
      BY <1>11, <2>4
    <3>4. QED
      BY <3>1, <3>2, <3>3
  <2>5. CASE h # 1
    <3>1. h - 1 \in 1..h /\ h - 1 < h /\ (h - 1) - 1 = h - 2 /\ h - 2 \in 0..H
      BY <1>1, <1>2, <2>5
    <3>2. hashes[FO[(h - 1) - 1] + (c + j)]
            = [node |-> L[h - 1][Ascending(at[h - 1])[c + j]], level |-> h - 1]
      BY <1>1, <1>13, <2>3, <3>1 DEF Digests, M
    <3>3. Pending[j] = hashes[FO[h - 2] + c + j]
      BY <1>11, <2>5
    <3>4. FO[h - 2] + c + j = FO[h - 2] + (c + j)
      <4> DEFINE f == FO[h - 2]
      <4>1. f \in Nat
        BY <1>2, <3>1
      <4> HIDE DEF f
      <4>2. f + c + j = f + (c + j)
        BY <1>11, <2>1, <4>1
      <4>3. QED
        BY <4>2 DEF f
    <3>5. QED
      BY <3>1, <3>2, <3>3, <3>4
  <2>6. QED
    BY <2>4, <2>5
<1>14. /\ L[h][p] = HashNode(L[h - 1][2 * p - 1], L[h - 1][2 * p])
       /\ L[h - 1][2 * p - 1] \in Range(L[h - 1]) /\ L[h - 1][2 * p] \in Range(L[h - 1])
       /\ 2 * p - 1 \notin nodes => 2 * p \in nodes
  <2>1. p \in at[h] /\ (2 * p - 1 \notin nodes => 2 * p \in nodes)
    <3>1. \E m \in Nat : at[h - 1] \in SUBSET (1..(2 * m))
      BY <1>1 DEF IsShape
    <3>2. PICK m \in Nat : nodes \in SUBSET (1..(2 * m))
      BY <3>1
    <3>3. at[h] = ParentsOf(nodes) /\ Place(nodes, k, c, q)
      BY <1>1 DEF IsShape, Reading
    <3> HIDE DEF nodes
    <3>4. p \in ParentsOf(nodes) /\ (2 * p - 1 \notin nodes => 2 * p \in nodes)
      BY <3>2, <3>3, NextNodes DEF p
    <3>5. QED
      BY <3>3, <3>4
  <2>2. QED
    BY <1>1, <2>1 DEF IsSetting
<1>15. QED
  BY <1>1, <1>6, <1>9, <1>11, <1>12, <1>13, <1>14 DEF p

LEMMA PairCommutes == \A x, y : HashNode(x, y) = HashNode(y, x)
<1> SUFFICES ASSUME NEW x, NEW y
             PROVE  HashNode(x, y) = HashNode(y, x)
  OBVIOUS
<1>1. {x, y} = {y, x}
  OBVIOUS
<1>2. QED
  BY <1>1 DEF HashNode

(* A flag is handled: the walk goes on by one parent. *)
LEMMA HashWalks ==
  ASSUME InputInv, TypeInv,
         NEW H, NEW at, NEW FO, NEW PO, NEW L, NEW prf,
         IsShape(H, at, FO, PO), IsSetting(H, at, FO, PO, L, prf),
         LoopInv(H, at, FO, PO, L, prf), HashPair \/ HashWithProof
  PROVE  LoopInv(H, at, FO, PO, L, prf)'
<1>1. /\ pc = "loop" /\ turn \in DOMAIN TheFlags /\ pc' = pc /\ handed' = handed /\ turn' = turn + 1
  BY DEF HashPair, HashWithProof, Looping, Hash, Inputs
<1>2. H \in Nat /\ FO[0] = 0 /\ FO \in [0..H -> Nat]
  BY DEF IsShape
<1>3. turn \in 1..FO[H]
  BY <1>1 DEF IsSetting
<1>4. H >= 1 /\ turn <= FO[H]
  <2>1. FO[H] \in Nat
    BY <1>2
  <2>2. H # 0
    BY <1>2, <1>3
  <2>3. QED
    BY <1>2, <1>3, <2>1, <2>2
<1>5. PICK h, k, c, q : OnTheWalk(H, at, FO, PO, L, prf, h, k, c, q) /\ k < Cardinality(at[h])
  BY <1>1, <1>4, Ready DEF LoopInv
<1>6. /\ Reading(H, at, FO, PO, h, k, c, q)
      /\ handed = prf => Digests(at, FO, L, h, k) /\ Extracts(at, L, h, c)
      /\ h \in 1..H /\ Len(hashes) = FO[h - 1] + k /\ turn = FO[h - 1] + k + 1
  BY <1>5 DEF OnTheWalk, Reading
<1>width. PICK n : n = IF TheFlags[turn] THEN 2 ELSE 1
  OBVIOUS
<1> DEFINE nodes == at[h - 1]
           A == Ascending(nodes)
           p == Ascending(at[h])[k + 1]
           x == Pending[1]
           y == IF TheFlags[turn] THEN Pending[2].node ELSE handed[proofPos]
<1>7. /\ Len(Pending) >= n
      /\ Take(n) => /\ h = 1 => leafPos' = (c + n) + 1 /\ hashPos' = 1
                    /\ h > 1 => leafPos' = Cardinality(at[0]) + 1 /\ hashPos' = FO[h - 2] + (c + n) + 1
      /\ Place(nodes, k + 1, c + n, q + (2 - n))
  BY <1>5, <1>width, AtFlag
<1>8. /\ TheFlags[turn] = BothTargets(p, nodes)
      /\ n = 1 => prf[proofPos] = L[h - 1][Sibling(p, nodes)]
      /\ handed = prf =>
           \A j \in 1..n : Pending[j] = [node |-> L[h - 1][A[c + j]], level |-> h - 1]
  BY <1>5, <1>width, AtFlag
<1>9. /\ A[c + 1] = IF 2 * p - 1 \in nodes THEN 2 * p - 1 ELSE 2 * p
      /\ n = 2 => A[c + 2] = 2 * p
      /\ 2 * p - 1 \notin nodes => 2 * p \in nodes
      /\ L[h][p] = HashNode(L[h - 1][2 * p - 1], L[h - 1][2 * p])
      /\ L[h - 1][2 * p - 1] \in Range(L[h - 1]) /\ L[h - 1][2 * p] \in Range(L[h - 1])
  BY <1>5, <1>width, AtFlag
<1>10. Hash(x, y) /\ Take(n) /\ proofPos' = proofPos + (2 - n)
  <2>1. CASE HashPair
    <3>1. TheFlags[turn] /\ n = 2 /\ y = Pending[2].node
      BY <1>width, <2>1 DEF HashPair
    <3>2. Hash(x, y) /\ Take(n) /\ proofPos' = proofPos
      BY <2>1, <3>1 DEF HashPair
    <3>3. proofPos + (2 - n) = proofPos
      BY <3>1 DEF TypeInv, TypeOK
    <3>4. QED
      BY <3>2, <3>3
  <2>2. CASE HashWithProof
    <3>1. ~TheFlags[turn] /\ n = 1 /\ y = handed[proofPos]
      BY <1>width, <2>2 DEF HashWithProof
    <3>2. Hash(x, y) /\ Take(n) /\ proofPos' = proofPos + 1
      BY <2>2, <3>1 DEF HashWithProof
    <3>3. 2 - n = 1
      BY <3>1
    <3>4. QED
      BY <3>2, <3>3
  <2>3. QED
    BY <2>1, <2>2
<1>11. n \in Widths
  BY <1>width DEF Widths
<1>12. /\ Len(hashes') = Len(hashes) + 1 /\ Len(hashes) \in Nat
       /\ \A i \in 1..Len(hashes) : hashes'[i] = hashes[i]
       /\ hashes'[Len(hashes) + 1] = [node |-> HashNode(x.node, y), level |-> x.level + 1]
  <2>1. hashes \in Seq(Range(hashes)) /\ Len(hashes) \in Nat
    BY DEF TypeInv
  <2> DEFINE e == [node |-> HashNode(x.node, y), level |-> x.level + 1]
  <2>2. hashes' = Append(hashes, e)
    BY <1>10 DEF Hash
  <2> HIDE DEF e
  <2>3. /\ Len(hashes') = Len(hashes) + 1 /\ hashes'[Len(hashes) + 1] = e
        /\ \A i \in 1..Len(hashes) : hashes'[i] = hashes[i]
    BY <2>1, <2>2, HashGrows
  <2>4. QED
    BY <2>1, <2>3 DEF e
<1>13. Reading(H, at, FO, PO, h, k + 1, c + n, q + (2 - n))'
  <2>1. /\ h = 1 => leafPos' = (c + n) + 1 /\ hashPos' = 1
        /\ h > 1 => leafPos' = Cardinality(at[0]) + 1 /\ hashPos' = FO[h - 2] + (c + n) + 1
        /\ proofPos' = proofPos + (2 - n)
    BY <1>7, <1>10
  <2>2. QED
    BY <1>1, <1>5, <1>6, <1>7, <1>11, <1>12, <2>1, Walks
<1>14. ASSUME handed = prf
       PROVE  /\ x.node = L[h - 1][A[c + 1]] /\ x.level = h - 1
              /\ x.node \in Range(L[h - 1]) /\ y \in Range(L[h - 1])
              /\ n = 2 => y = L[h - 1][A[c + 2]]
              /\ HashNode(x.node, y) = L[h][p]
  <2>1. \A j \in 1..n : Pending[j] = [node |-> L[h - 1][A[c + j]], level |-> h - 1]
    BY <1>8, <1>14
  <2>2. x = [node |-> L[h - 1][A[c + 1]], level |-> h - 1]
    BY <1>11, <2>1 DEF Widths
  <2>3. x.node = L[h - 1][A[c + 1]] /\ x.level = h - 1
    BY <2>2
  <2>4. CASE TheFlags[turn]
    <3>1. n = 2 /\ 2 \in 1..n /\ y = Pending[2].node
      BY <1>width, <2>4
    <3>2. Pending[2] = [node |-> L[h - 1][A[c + 2]], level |-> h - 1]
      BY <2>1, <3>1
    <3>3. y = L[h - 1][A[c + 2]] /\ A[c + 2] = 2 * p
      BY <1>9, <3>1, <3>2
    <3>4. A[c + 1] = 2 * p - 1
      BY <1>8, <1>9, <2>4 DEF BothTargets
    <3> HIDE DEF x, y, A, p
    <3>5. QED
      BY <1>9, <2>3, <3>3, <3>4
  <2>5. CASE ~TheFlags[turn]
    <3>1. n = 1 /\ y = handed[proofPos]
      BY <1>width, <2>5
    <3>2. y = L[h - 1][Sibling(p, nodes)] /\ n # 2
      BY <1>8, <1>14, <3>1
    <3>3. \/ A[c + 1] = 2 * p - 1 /\ Sibling(p, nodes) = 2 * p
          \/ A[c + 1] = 2 * p /\ Sibling(p, nodes) = 2 * p - 1
      <4>1. CASE 2 * p \in nodes
        <5>1. 2 * p - 1 \notin nodes
          BY <1>8, <2>5, <4>1 DEF BothTargets
        <5>2. QED
          BY <1>9, <4>1, <5>1 DEF Sibling
      <4>2. CASE 2 * p \notin nodes
        <5>1. 2 * p - 1 \in nodes
          BY <1>9, <4>2
        <5>2. QED
          BY <1>9, <4>2, <5>1 DEF Sibling
      <4>3. QED
        BY <4>1, <4>2
    <3> HIDE DEF x, y, A, p, nodes
    <3>4. QED
      BY <1>9, <2>3, <3>2, <3>3, PairCommutes
  <2>6. QED
    BY <2>4, <2>5
<1>15. h \in Nat /\ h >= 1 /\ k \in Nat /\ c \in Nat /\ FO[h - 1] \in Nat
  <2>1. h - 1 \in 0..H
    BY <1>2, <1>6
  <2>2. FO[h - 1] \in Nat
    BY <1>2, <2>1
  <2>3. Place(at[h - 1], k, c, q)
    BY <1>6 DEF Reading
  <2>4. at[h] = ParentsOf(at[h - 1]) /\ h \in 0..H
    BY <1>2, <1>6 DEF IsShape
  <2>5. Cardinality(at[h]) \in Nat /\ Cardinality(at[h - 1]) \in Nat
    BY <2>1, <2>4 DEF IsShape
  <2>6. k \in Nat /\ c \in Nat
    BY <2>3, <2>4, <2>5 DEF Place
  <2>7. h \in Nat /\ h >= 1
    BY <1>2, <1>6
  <2>8. QED
    BY <2>2, <2>6, <2>7
<1>16. ASSUME handed = prf
       PROVE  Digests(at, FO, L, h, k + 1)'
  <2>1. x.level = h - 1 /\ HashNode(x.node, y) = L[h][p]
    BY <1>14, <1>16
  <2>2. x.level + 1 = h
    BY <1>15, <2>1
  <2>3. hashes'[Len(hashes) + 1] = [node |-> L[h][p], level |-> h]
    BY <1>12, <2>1, <2>2
  <2>4. Digests(at, FO, L, h, k)
    BY <1>6, <1>16
  <2>5. QED
    BY <1>6, <1>12, <1>15, <2>3, <2>4, DigestAdded DEF p
<1>17. ASSUME handed = prf
       PROVE  Extracts(at, L, h, c + n)'
  <2>1. /\ x.node = L[h - 1][A[c + 1]] /\ x.level = h - 1
        /\ x.node \in Range(L[h - 1]) /\ y \in Range(L[h - 1])
        /\ n = 2 => y = L[h - 1][A[c + 2]]
    BY <1>14, <1>17
  <2>2. /\ layer' = layer
        /\ extracted' = IF layer = x.level THEN extracted \o <<x.node, y>> ELSE extracted
    BY <1>10 DEF Hash, Inputs
  <2> DEFINE e == x.node
  <2> HIDE DEF x, y
  <2>3. extracted' = IF layer = h - 1 THEN extracted \o <<e, y>> ELSE extracted
    BY <2>1, <2>2
  <2>4. Extracts(at, L, h, c)
    BY <1>6, <1>17
  <2> HIDE DEF e
  <2>5. /\ e \in Range(L[h - 1]) /\ e = L[h - 1][Ascending(at[h - 1])[c + 1]]
        /\ n = 2 => y = L[h - 1][Ascending(at[h - 1])[c + 2]]
    BY <2>1 DEF e
  <2>6. QED
    BY <1>11, <1>15, <2>1, <2>2, <2>3, <2>4, <2>5, Extracted
<1>18. OnTheWalk(H, at, FO, PO, L, prf, h, k + 1, c + n, q + (2 - n))'
  BY <1>1, <1>13, <1>16, <1>17 DEF OnTheWalk
<1>19. pc' = "loop" /\ H # 0
  BY <1>1, <1>4
<1>20. QED
  BY <1>18, <1>19 DEF LoopInv

LEMMA RootAlone ==
  /\ Cardinality({1}) = 1 /\ Ascending({1})[1] = 1
<1>1. Cardinality({1}) = 1
  BY FS_Singleton
<1>2. \A k \in 1..Cardinality({1}) : Ascending({1})[k] \in {1}
  <2>1. 1 \in Nat /\ {1} \in SUBSET (1..1)
    OBVIOUS
  <2>2. QED
    BY <2>1, Ordered
<1>3. QED
  BY <1>1, <1>2

(* The loop starts, or is not needed for a tree of one leaf. *)
LEMMA StartWalks ==
  ASSUME InputInv, TypeInv,
         NEW H, NEW at, NEW FO, NEW PO, NEW L, NEW prf,
         IsShape(H, at, FO, PO), IsSetting(H, at, FO, PO, L, prf),
         LoopInv(H, at, FO, PO, L, prf), StartSingle \/ Start
  PROVE  LoopInv(H, at, FO, PO, L, prf)'
<1>root. UNCHANGED Inputs /\ ExpectedRoot' = ExpectedRoot
  BY SameLeaves DEF StartSingle, Start, Inputs
<1>1. /\ H \in Nat /\ FO[0] = 0 /\ PO[0] = 0 /\ at[H] = {1} /\ FO \in [0..H -> Nat]
      /\ \A h \in 0..H : at[h] # {} /\ Cardinality(at[h]) \in Nat /\ Cardinality(at[h]) >= 1
      /\ \A h \in 1..H : FO[h] = FO[h - 1] + Cardinality(at[h]) /\ FO[h] <= FO[H]
  BY DEF IsShape
<1>2. /\ pc = "start" /\ handed' = handed /\ turn = 1 /\ leafPos = 1 /\ hashPos = 1 /\ proofPos = 1
      /\ Len(hashes) = 0 /\ extracted = <<>>
  BY DEF StartSingle, Start, LoopInv, Inputs
<1>3. ASSUME H >= 1
      PROVE  TheFlags # <<>>
  <2>1. 1 \in 1..H /\ 0 \in 0..H /\ 1 \in 0..H /\ H \in 0..H /\ 1 - 1 = 0
    BY <1>1, <1>3
  <2>2. FO[1] = FO[1 - 1] + Cardinality(at[1]) /\ FO[1] <= FO[H] /\ FO[1] \in Nat /\ FO[H] \in Nat
    BY <1>1, <2>1
  <2>3. Cardinality(at[1]) \in Nat /\ Cardinality(at[1]) >= 1
    BY <1>1, <2>1
  <2>4. FO[H] >= 1
    BY <1>1, <2>1, <2>2, <2>3
  <2>5. Len(TheFlags) = FO[H]
    BY DEF IsSetting
  <2>6. QED
    BY <2>4, <2>5
<1>4. ASSUME H = 0
      PROVE  /\ TheFlags = <<>> /\ Len(ClaimedLeaves) = 1 /\ ClaimedLeaves[1] = L[H][1]
  <2>1. Len(TheFlags) = 0 /\ TheFlags \in Seq(Range(TheFlags))
    BY <1>1, <1>4 DEF IsSetting
  <2>2. at[0] = {1} /\ Cardinality(at[0]) = 1 /\ Ascending(at[0])[1] = 1
    BY <1>1, <1>4, RootAlone
  <2>3. Len(ClaimedLeaves) = 1 /\ ClaimedLeaves[1] = L[0][1]
    BY <1>4, <2>2 DEF IsSetting
  <2>4. QED
    BY <1>4, <2>1, <2>3
<1>5. CASE StartSingle
  <2>1. handed = <<>> /\ TheFlags = <<>>
    BY <1>5 DEF StartSingle, Single
  <2>2. H = 0
    BY <1>1, <1>3, <2>1
  <2>3. pc' = IF L[H][1] = ExpectedRoot THEN "valid" ELSE "invalid"
    BY <1>4, <1>5, <2>2 DEF StartSingle
  <2>4. Len(handed') = PO[H]
    BY <1>1, <1>2, <2>1, <2>2
  <2>5. Extracts(at, L, H + 1, 1)'
    <3> SUFFICES ASSUME layer' # NoLayer
                 PROVE  /\ extracted' \in Seq(Range(L[layer']))
                        /\ \A j \in 1..Cardinality(at[layer']) :
                             layer' < (H + 1) - 1 \/ (layer' = (H + 1) - 1 /\ j <= 1) =>
                               L[layer'][Ascending(at[layer'])[j]] \in Range(extracted')
      BY DEF Extracts
    <3>1. layer' = layer /\ layer \in Nat
      BY <1>5 DEF StartSingle, Inputs, InputInv
    <3>2. CASE layer = 0
      <4>1. extracted' = ClaimedLeaves
        BY <1>5, <3>2 DEF StartSingle
      <4>2. ClaimedLeaves \in Seq(Range(ClaimedLeaves)) /\ Len(ClaimedLeaves) = 1
        BY <1>4, <2>2, Claimed
      <4>3. at[0] = {1} /\ Cardinality(at[0]) = 1 /\ Ascending(at[0])[1] = 1
        BY <1>1, <2>2, RootAlone
      <4>4. ClaimedLeaves[1] = L[0][1] /\ L[0][1] \in Range(L[0])
        BY <2>2, <4>3 DEF IsSetting
      <4> DEFINE f == ClaimedLeaves
                 z == L[0]
      <4> HIDE DEF f, z
      <4>5. f \in Seq(Range(f)) /\ Len(f) = 1 /\ f[1] = z[1] /\ z[1] \in Range(z)
        BY <4>2, <4>4 DEF f, z
      <4>6. f \in Seq(Range(z)) /\ z[1] \in Range(f)
        <5>1. DOMAIN f = {1} /\ 1 \in DOMAIN f
          BY <4>5
        <5>2. Range(f) = {f[1]}
          BY <5>1 DEF Range
        <5>3. Range(f) \subseteq Range(z)
          BY <4>5, <5>2
        <5>4. QED
          BY <4>5, <5>2, <5>3
      <4>7. ASSUME NEW j \in 1..Cardinality(at[0])
            PROVE  L[0][Ascending(at[0])[j]] \in Range(f)
        <5>1. j = 1
          BY <4>3
        <5>2. QED
          BY <4>3, <4>6, <5>1 DEF z
      <4>8. QED
        BY <3>1, <3>2, <4>1, <4>6, <4>7 DEF f, z
    <3>3. CASE layer # 0
      <4>1. extracted' = <<>>
        BY <1>5, <3>3 DEF StartSingle
      <4>2. ~(layer' < (H + 1) - 1) /\ layer' # (H + 1) - 1
        BY <2>2, <3>1, <3>3
      <4>3. QED
        BY <4>1, <4>2
    <3>4. QED
      BY <3>2, <3>3
  <2>6. QED
    BY <1>root, <2>3, <2>4, <2>5 DEF LoopInv
<1>6. CASE Start
  <2>1. UNCHANGED <<turn, leafPos, hashPos, proofPos, hashes, extracted, layer>> /\ ~Single
    BY <1>6 DEF Start, Loop, Inputs
  <2>2. 0 \in 0..H
    BY <1>1
  <2>3. pc' = "loop"
    <3>1. Len(ClaimedLeaves) = Cardinality(at[0]) /\ Cardinality(at[0]) >= 1 /\ Cardinality(at[0]) \in Nat
      BY <1>1, <2>2 DEF IsSetting
    <3>2. claimed # {}
      BY <3>1, Claimed
    <3>3. QED
      BY <1>6, <3>2 DEF Start
  <2>4. H = 0 => handed # <<>>
    BY <1>4, <2>1 DEF Single
  <2>5. ASSUME H >= 1
        PROVE  OnTheWalk(H, at, FO, PO, L, prf, 1, 0, 0, 0)'
    <3>1. Reading(H, at, FO, PO, 1, 0, 0, 0)
      BY <1>2, <2>5, WalkStarts
    <3>2. Reading(H, at, FO, PO, 1, 0, 0, 0)'
      BY <2>1, <3>1 DEF Reading
    <3>3. Digests(at, FO, L, 1, 0)'
      BY DEF Digests
    <3>4. Extracts(at, L, 1, 0)'
      <4>1. layer' = layer /\ layer \in {NoLayer} \cup Nat /\ extracted' = <<>>
        BY <1>2, <2>1 DEF InputInv
      <4>2. QED
        BY <4>1 DEF Extracts
    <3>5. QED
      BY <3>2, <3>3, <3>4 DEF OnTheWalk
  <2>6. QED
    BY <1>2, <2>1, <2>3, <2>4, <2>5 DEF LoopInv
<1>7. QED
  BY <1>5, <1>6

(* Nothing is missing and nothing left when the proof is the prover's own. *)
LEMMA FailWalks ==
  ASSUME InputInv, TypeInv,
         NEW H, NEW at, NEW FO, NEW PO, NEW L, NEW prf,
         IsShape(H, at, FO, PO), IsSetting(H, at, FO, PO, L, prf),
         LoopInv(H, at, FO, PO, L, prf), RunsDry \/ Leftover
  PROVE  LoopInv(H, at, FO, PO, L, prf)'
<1>1. pc = "loop" /\ pc' = "invalid" /\ handed' = handed
  BY DEF RunsDry, Leftover, Looping, Inputs
<1>2. /\ H \in Nat /\ FO[0] = 0 /\ PO[0] = 0 /\ FO \in [0..H -> Nat] /\ at[H] = {1}
      /\ Cardinality(at[H]) = 1
  BY RootAlone DEF IsShape
<1>3. handed # prf
  <2>1. SUFFICES ASSUME handed = prf
                 PROVE  FALSE
    OBVIOUS
  <2>2. H >= 1
    <3> SUFFICES ASSUME H = 0
                 PROVE  FALSE
      BY <1>2
    <3>1. handed # <<>> /\ prf \in Seq(Range(prf)) /\ Len(prf) = 0
      BY <1>1, <1>2 DEF LoopInv, IsSetting
    <3>2. QED
      BY <2>1, <3>1
  <2>3. CASE RunsDry
    <3>1. turn \in DOMAIN TheFlags /\ ~Operands
      BY <2>3 DEF RunsDry, Looping
    <3>2. turn <= FO[H]
      <4>1. turn \in 1..FO[H] /\ FO[H] \in Nat
        BY <1>2, <3>1 DEF IsSetting
      <4>2. QED
        BY <4>1
    <3>3. PICK h, k, c, q : OnTheWalk(H, at, FO, PO, L, prf, h, k, c, q) /\ k < Cardinality(at[h])
      BY <1>1, <2>2, <3>2, Ready DEF LoopInv
    <3>4. PICK n : n = IF TheFlags[turn] THEN 2 ELSE 1
      OBVIOUS
    <3>5. Len(Pending) >= n /\ (n = 1 => proofPos \in 1..Len(prf))
      BY <3>3, <3>4, AtFlag
    <3>6. Len(prf) \in Nat
      BY DEF IsSetting
    <3>7. n = 1 => proofPos <= Len(handed)
      BY <2>1, <3>5, <3>6
    <3>8. QED
      BY <3>1, <3>4, <3>5, <3>7 DEF Operands
  <2>4. CASE Leftover
    <3>1. turn = Len(TheFlags) + 1 /\ ~AllUsed
      BY <2>4 DEF Leftover
    <3>2. turn = FO[H] + 1
      BY <3>1 DEF IsSetting
    <3>3. PICK h, k, c, q : OnTheWalk(H, at, FO, PO, L, prf, h, k, c, q)
      BY <1>1, <2>2 DEF LoopInv
    <3>4. Reading(H, at, FO, PO, h, k, c, q)
      BY <3>3 DEF OnTheWalk
    <3>5. h = H /\ k = Cardinality(at[h])
      BY <3>2, <3>4, WalkEnds
    <3>6. proofPos = PO[h] + 1 /\ leafPos = Cardinality(at[0]) + 1
      <4>1. k = Cardinality(at[h])
        BY <3>5
      <4>2. QED
        BY ONLY IsShape(H, at, FO, PO), <3>4, <4>1, TurnOver
    <3>7. proofPos = Len(handed) + 1 /\ leafPos = Len(ClaimedLeaves) + 1
      BY <2>1, <3>5, <3>6 DEF IsSetting
    <3>8. QED
      BY <3>1, <3>7 DEF AllUsed
  <2>5. QED
    BY <2>3, <2>4
<1>4. QED
  BY <1>1, <1>3 DEF LoopInv

(* The digest that is left is the root. *)
LEMMA CompareWalks ==
  ASSUME InputInv, TypeInv,
         NEW H, NEW at, NEW FO, NEW PO, NEW L, NEW prf,
         IsShape(H, at, FO, PO), IsSetting(H, at, FO, PO, L, prf),
         LoopInv(H, at, FO, PO, L, prf), Compare
  PROVE  LoopInv(H, at, FO, PO, L, prf)'
<1>root. ExpectedRoot' = ExpectedRoot
  BY SameLeaves DEF Compare, Inputs
<1>1. /\ pc = "loop" /\ turn = Len(TheFlags) + 1 /\ leafPos = Len(ClaimedLeaves) + 1
      /\ proofPos = Len(handed) + 1 /\ handed' = handed /\ layer' = layer
      /\ pc' = IF Last(hashes).node = ExpectedRoot THEN "valid" ELSE "invalid"
  BY DEF Compare, AllUsed, Inputs
<1>2. /\ H \in Nat /\ FO \in [0..H -> Nat] /\ PO \in [0..H -> Nat] /\ at[H] = {1}
      /\ \A h \in 0..H : Cardinality(at[h]) \in Nat /\ Cardinality(at[h]) >= 1
      /\ Len(ClaimedLeaves) = Cardinality(at[0]) /\ Len(TheFlags) = FO[H]
  BY DEF IsShape, IsSetting
<1>3. H >= 1
  <2> SUFFICES ASSUME H = 0
               PROVE  FALSE
    BY <1>2
  <2>1. leafPos = 1
    BY <1>1 DEF LoopInv
  <2>2. 0 \in 0..H
    OBVIOUS
  <2>3. Cardinality(at[0]) \in Nat /\ Cardinality(at[0]) >= 1
    BY <1>2, <2>2
  <2>4. QED
    BY <1>1, <1>2, <2>1, <2>3
<1>4. PICK h, k, c, q : OnTheWalk(H, at, FO, PO, L, prf, h, k, c, q)
  BY <1>1, <1>3 DEF LoopInv
<1>5. Reading(H, at, FO, PO, h, k, c, q)
  BY <1>4 DEF OnTheWalk
<1>node. handed = prf => Digests(at, FO, L, h, k) /\ Extracts(at, L, h, c)
  BY <1>4 DEF OnTheWalk
<1>6. h = H /\ k = Cardinality(at[h])
  BY <1>1, <1>2, <1>5, WalkEnds
<1>7. proofPos = PO[H] + 1 /\ Len(hashes) = FO[H]
  <2>1. k = Cardinality(at[h])
    BY <1>6
  <2>2. proofPos = PO[h] + 1 /\ Len(hashes) = FO[h]
    <3>1. proofPos = PO[h] + 1
      BY ONLY IsShape(H, at, FO, PO), <1>5, <2>1, TurnOver
    <3>2. Len(hashes) = FO[h]
      BY ONLY IsShape(H, at, FO, PO), <1>5, <2>1, TurnOver
    <3>3. QED
      BY <3>1, <3>2
  <2>3. QED
    BY <1>6, <2>2
<1>8. H \in 0..H /\ H \in 1..H
  BY <1>2, <1>3
<1>9. PO[H] \in Nat /\ FO[H] \in Nat
  BY <1>2, <1>8
<1>10. Len(handed) = PO[H]
  <2>1. Len(handed) \in Nat
    BY DEF TypeInv
  <2>2. QED
    BY <1>1, <1>7, <1>9, <2>1
<1>11. Cardinality(at[H]) = 1 /\ Ascending(at[H])[1] = 1
  BY <1>2, RootAlone
<1>12. ASSUME handed = prf
       PROVE  Last(hashes).node = L[H][1] /\ Last(hashes).level = H
  <2>1. Digests(at, FO, L, H, 1)
    BY <1>node, <1>6, <1>11, <1>12
  <2>2. hashes[FO[H - 1] + 1] = [node |-> L[H][1], level |-> H]
    <3>1. 1 \in 1..Cardinality(at[H])
      BY <1>11
    <3>2. hashes[FO[H - 1] + 1] = [node |-> L[H][Ascending(at[H])[1]], level |-> H]
      BY <1>8, <2>1, <3>1 DEF Digests
    <3>3. QED
      BY <1>11, <3>2
  <2>3. FO[H] = FO[H - 1] + 1
    BY <1>8, <1>11 DEF IsShape
  <2>4. Last(hashes) = hashes[Len(hashes)]
    BY DEF Last
  <2>5. QED
    BY <1>7, <2>2, <2>3, <2>4
<1>13. ASSUME handed = prf
       PROVE  pc' = IF ExpectedRoot = L[H][1] THEN "valid" ELSE "invalid"
  BY <1>1, <1>12, <1>13
<1>14. ASSUME handed = prf
       PROVE  Extracts(at, L, H + 1, 1)'
  <2> SUFFICES ASSUME layer # NoLayer
               PROVE  /\ extracted' \in Seq(Range(L[layer]))
                      /\ \A j \in 1..Cardinality(at[layer]) :
                           layer < H \/ (layer = H /\ j <= 1) =>
                             L[layer][Ascending(at[layer])[j]] \in Range(extracted')
    <3>1. (H + 1) - 1 = H
      BY <1>2
    <3>2. QED
      BY <1>1, <3>1 DEF Extracts
  <2>1. Extracts(at, L, H + 1, 0)
    <3>1. c = Cardinality(at[h - 1])
      BY <1>5, <1>6, TurnOver
    <3>2. Extracts(at, L, h, c) /\ h \in Nat
      BY <1>2, <1>node, <1>6, <1>14
    <3>3. Extracts(at, L, h + 1, 0)
      BY <3>1, <3>2, LayerExtracted
    <3>4. QED
      BY <1>6, <3>3
  <2>2. /\ extracted \in Seq(Range(L[layer]))
        /\ \A j \in 1..Cardinality(at[layer]) : layer < H =>
             L[layer][Ascending(at[layer])[j]] \in Range(extracted)
    <3>1. (H + 1) - 1 = H
      BY <1>2
    <3>2. QED
      BY <2>1, <3>1 DEF Extracts
  <2>3. extracted' = IF layer = H THEN Append(extracted, L[H][1]) ELSE extracted
    BY <1>12, <1>14 DEF Compare
  <2>4. CASE layer = H
    <3> DEFINE x == L[H][1]
               R == Range(L[layer])
    <3>1. x \in R /\ extracted \in Seq(R) /\ extracted' = Append(extracted, x)
      BY <2>2, <2>3, <2>4 DEF IsSetting
    <3>2. \A j \in 1..Cardinality(at[layer]) : L[layer][Ascending(at[layer])[j]] = x
      <4>1. \A j \in 1..1 : Ascending(at[H])[j] = 1
        BY <1>11
      <4>2. QED
        BY <1>11, <2>4, <4>1
    <3> HIDE DEF x, R
    <3>3. Append(extracted, x) \in Seq(R) /\ x \in Range(Append(extracted, x))
      <4>1. /\ Append(extracted, x) \in Seq(R) /\ Len(Append(extracted, x)) = Len(extracted) + 1
            /\ Append(extracted, x)[Len(extracted) + 1] = x /\ Len(extracted) \in Nat
        BY <3>1
      <4> DEFINE t == Append(extracted, x)
                 n == Len(extracted) + 1
      <4>2. t \in Seq(R) /\ Len(t) = n /\ t[n] = x /\ n \in Nat /\ n >= 1
        BY <4>1
      <4> HIDE DEF t, n
      <4>3. n \in DOMAIN t
        BY <4>2
      <4>4. QED
        BY <4>2, <4>3 DEF Range, t
    <3>4. QED
      BY <2>4, <3>1, <3>2, <3>3 DEF R
  <2>5. CASE layer # H
    BY <2>2, <2>3, <2>5
  <2>6. QED
    BY <2>4, <2>5
<1>15. pc' \in {"valid", "invalid"}
  BY <1>1
<1>16. QED
  BY <1>root, <1>1, <1>10, <1>13, <1>14, <1>15 DEF LoopInv

LEMMA StutterWalks ==
  ASSUME NEW H, NEW at, NEW FO, NEW PO, NEW L, NEW prf,
         LoopInv(H, at, FO, PO, L, prf), UNCHANGED vars
  PROVE  LoopInv(H, at, FO, PO, L, prf)'
<1>root. ExpectedRoot' = ExpectedRoot
  BY SameLeaves DEF vars, Inputs
<1>1. /\ pc' = pc /\ turn' = turn /\ leafPos' = leafPos /\ hashPos' = hashPos /\ proofPos' = proofPos
      /\ hashes' = hashes /\ handed' = handed /\ layer' = layer /\ extracted' = extracted
  BY DEF vars, Inputs, Loop
<1>2. ASSUME NEW h, NEW k, NEW c, NEW q, OnTheWalk(H, at, FO, PO, L, prf, h, k, c, q)
      PROVE  OnTheWalk(H, at, FO, PO, L, prf, h, k, c, q)'
  <2>1. Reading(H, at, FO, PO, h, k, c, q)'
    BY <1>1, <1>2 DEF OnTheWalk, Reading
  <2>2. handed = prf => Digests(at, FO, L, h, k)' /\ Extracts(at, L, h, c)'
    BY <1>1, <1>2 DEF OnTheWalk, Digests, Extracts
  <2>3. QED
    BY <1>1, <2>1, <2>2 DEF OnTheWalk
<1>3. Extracts(at, L, H + 1, 1) => Extracts(at, L, H + 1, 1)'
  BY <1>1 DEF Extracts
<1>4. QED
  BY <1>root, <1>1, <1>2, <1>3 DEF LoopInv

(* The tree that is verified and the proof that was built for it. *)
TheWalk(H, at, FO, PO, L, prf) ==
  /\ H = Height(Len(tree)) /\ at = TargetsAt(tree, targets)
  /\ FO = FlagOffset(tree, targets) /\ PO = ProofOffset(tree, targets)
  /\ L = Layers(Filled) /\ prf = Proof(tree, targets)

AllZero == \A i \in 1..Len(tree) : TheLeaves[i] = Zero

(* As many leaves are handed over as the proof is for, whatever it is.  In a *)
(* guest, whose digests are others, the nodes are those of L only if all of *)
(* them are zero.                                                          *)
WalkInv ==
  /\ guest = "none" \/ AllZero
  /\ Cardinality(claimed) = Cardinality(targets) /\ targets # {}
  => \A H, at, FO, PO, L, prf : TheWalk(H, at, FO, PO, L, prf) => LoopInv(H, at, FO, PO, L, prf)

(* The update guest is handed the proof in one entry per item, and has made *)
(* one digest per flag.                                                    *)
CarryInv ==
  guest \in {"current", "updated"} =>
    /\ claimed = targets /\ handed = Carried(Proof(tree, targets))
    /\ side = "old" <=> guest = "current"
    /\ Len(hashes) = turn - 1 /\ (turn = 1 => leafPos = 1)
    /\ AllZero => \A i \in 1..Len(hashes) : hashes[i].node = Zero

LEMMA InitWalk == GuestInit => WalkInv /\ CarryInv
<1> SUFFICES ASSUME GuestInit
             PROVE  WalkInv /\ CarryInv
  OBVIOUS
<1>1. /\ turn = 1 /\ leafPos = 1 /\ hashPos = 1 /\ proofPos = 1 /\ hashes = <<>> /\ pc = "start"
      /\ extracted = <<>>
  BY DEF GuestInit, Outside, Init, UpdateInit, InsertInit, LoopInit
<1>2. ASSUME NEW H, NEW at, NEW FO, NEW PO, NEW L, NEW prf
      PROVE  LoopInv(H, at, FO, PO, L, prf)
  BY <1>1 DEF LoopInv
<1>3. WalkInv
  BY <1>2 DEF WalkInv
<1>4. CarryInv
  BY <1>1 DEF CarryInv, GuestInit, Outside, UpdateInit, InsertInit
<1>5. QED
  BY <1>3, <1>4

(* With their own leaves, what is computed are the layers of the tree. *)
LEMMA OwnWalk ==
  ASSUME InputInv, WalkInv, guest = "none" \/ AllZero, claimed = targets, targets # {},
         NEW H, NEW at, NEW FO, NEW PO, NEW L, NEW prf, TheWalk(H, at, FO, PO, L, prf)
  PROVE  LoopInv(H, at, FO, PO, L, prf) /\ L = Layers(TheLeaves) /\ ExpectedRoot = L[H][1]
<1>1. LoopInv(H, at, FO, PO, L, prf)
  BY DEF WalkInv
<1>2. L = Layers(TheLeaves)
  BY FilledOwn DEF TheWalk
<1>3. ExpectedRoot = L[H][1]
  <2>1. Len(TheLeaves) = Len(tree) /\ Len(tree) # 0 /\ H = Height(Len(tree))
    BY TheTree DEF InputInv, TheWalk
  <2>2. TheLeaves # <<>>
    BY <2>1
  <2>3. QED
    BY <1>2, <2>1, <2>2 DEF ExpectedRoot, MerkleRoot
<1>4. QED
  BY <1>1, <1>2, <1>3

(* Over zero leaves every node that is read is zero.                       *)
LEMMA ZeroPending ==
  ASSUME InputInv, TypeInv, AllZero, claimed = targets,
         \A i \in 1..Len(hashes) : hashes[i].node = Zero,
         NEW j \in Nat, 1 <= j, j <= Len(Pending)
  PROVE  Pending[j].node = Zero
<1> DEFINE r == Len(ClaimedLeaves) - leafPos + 1
           u == Len(hashes) - hashPos + 1
<1>1. /\ hashes \in Seq(Range(hashes)) /\ Len(hashes) \in Nat
      /\ leafPos \in 1..(Len(ClaimedLeaves) + 1) /\ hashPos \in 1..(Len(hashes) + 1)
      /\ Len(ClaimedLeaves) \in Nat
  BY Claimed DEF TypeInv, TypeOK
<1>2. /\ r \in Nat /\ u \in Nat /\ Len(Pending) = r + u
      /\ \A i \in 1..r : Pending[i] = [node |-> ClaimedLeaves[leafPos + i - 1], level |-> 0]
      /\ \A i \in 1..u : Pending[r + i] = hashes[hashPos + i - 1]
  BY <1>1, PendingIs
<1>3. leafPos + r = Len(ClaimedLeaves) + 1 /\ hashPos + u = Len(hashes) + 1
  BY <1>1
<1> HIDE DEF r, u
<1>4. CASE j <= r
  <2>1. j \in 1..r /\ leafPos + j - 1 \in 1..Len(ClaimedLeaves)
    BY <1>1, <1>2, <1>3, <1>4
  <2>2. ClaimedLeaves[leafPos + j - 1] = Zero
    <3>1. /\ Len(ClaimedLeaves) = Cardinality(claimed)
          /\ \A k \in 1..Cardinality(claimed) : ClaimedLeaves[k] = TheLeaves[Ascending(claimed)[k]]
      BY Claimed
    <3>2. \A k \in 1..Cardinality(claimed) : Ascending(claimed)[k] \in 1..Len(tree)
      <4>1. Len(tree) \in Nat /\ claimed \in SUBSET (1..Len(tree))
        BY DEF InputInv
      <4>2. \A k \in 1..Cardinality(claimed) : Ascending(claimed)[k] \in claimed
        BY <4>1, Ordered
      <4>3. QED
        BY <4>1, <4>2
    <3>3. QED
      BY <2>1, <3>1, <3>2 DEF AllZero
  <2>3. Pending[j] = [node |-> ClaimedLeaves[leafPos + j - 1], level |-> 0]
    BY <1>2, <2>1
  <2>4. QED
    BY <2>2, <2>3
<1>5. CASE ~(j <= r)
  <2> DEFINE i == j - r
  <2>1. i \in 1..u /\ j = r + i /\ hashPos + i - 1 \in 1..Len(hashes)
    BY <1>1, <1>2, <1>3, <1>5
  <2> HIDE DEF i
  <2>2. Pending[j] = hashes[hashPos + i - 1]
    BY <1>2, <2>1
  <2>3. QED
    BY <2>1, <2>2
<1>6. QED
  BY <1>4, <1>5

(* There, a guest makes the digests merkle.rs makes.                       *)
LEMMA ZeroHashes ==
  ASSUME InputInv, GuestInv, TypeInv, WalkInv, CarryInv, AllZero,
         guest \in {"current", "updated"}, GuestHashPair \/ GuestHashWithProof
  PROVE  /\ HashPair \/ HashWithProof
         /\ \A i \in 1..Len(hashes') : hashes'[i].node = Zero
<1>1. /\ claimed = targets /\ targets # {} /\ handed = Carried(Proof(tree, targets))
      /\ \A i \in 1..Len(hashes) : hashes[i].node = Zero
  BY DEF CarryInv, GuestInv
<1>2. PICK H, at, FO, PO, L, prf : TheWalk(H, at, FO, PO, L, prf)
  BY DEF TheWalk
<1>3. LoopInv(H, at, FO, PO, L, prf) /\ L = Layers(TheLeaves)
  BY <1>1, <1>2, OwnWalk
<1>4. IsShape(H, at, FO, PO) /\ IsSetting(H, at, FO, PO, L, prf)
  BY <1>1, <1>2, Setting DEF TheWalk
<1>5. pc = "loop" /\ turn \in DOMAIN TheFlags
  BY DEF GuestHashPair, GuestHashWithProof, Looping
<1>6. H >= 1 /\ turn <= FO[H] /\ H \in Nat
  <2>1. H \in Nat /\ FO[0] = 0 /\ FO \in [0..H -> Nat]
    BY <1>4 DEF IsShape
  <2>2. turn \in 1..FO[H]
    BY <1>4, <1>5 DEF IsSetting
  <2>3. FO[H] \in Nat
    BY <2>1
  <2>4. H # 0
    BY <2>1, <2>2
  <2>5. QED
    BY <2>1, <2>2, <2>3, <2>4
<1>7. PICK h, k, c, q : OnTheWalk(H, at, FO, PO, L, prf, h, k, c, q) /\ k < Cardinality(at[h])
  BY <1>3, <1>4, <1>5, <1>6, Ready DEF LoopInv
<1>8. PICK n : n = IF TheFlags[turn] THEN 2 ELSE 1
  OBVIOUS
<1>9. PICK p : p = Ascending(at[h])[k + 1]
  OBVIOUS
<1>10. n = 1 => /\ proofPos \in 1..Len(prf)
                /\ prf[proofPos] = L[h - 1][Sibling(p, at[h - 1])]
  BY <1>4, <1>7, <1>8, <1>9, AtFlag
<1>11. L[h - 1][2 * p - 1] \in Range(L[h - 1]) /\ L[h - 1][2 * p] \in Range(L[h - 1])
  BY <1>4, <1>7, <1>8, <1>9, AtFlag
<1>12. \A x \in Range(L[h - 1]) : x = Zero
  <2>1. Len(TheLeaves) \in Nat /\ Len(TheLeaves) = Len(tree) /\ H = Height(Len(TheLeaves))
    BY <1>2, TheTree DEF TheWalk
  <2>2. h - 1 \in 0..H
    <3>1. h \in 1..H
      BY <1>7 DEF OnTheWalk, Reading
    <3>2. QED
      BY <1>6, <3>1
  <2>3. \A i \in 1..2^(H - (h - 1)) : L[h - 1][i] = Zero
    BY <1>3, <2>1, <2>2, ZeroLayers DEF AllZero
  <2>4. L[h - 1] \in Seq(Range(L[h - 1])) /\ Len(L[h - 1]) = 2^(H - (h - 1))
    BY <1>3, <2>1, <2>2, LayerLength
  <2> DEFINE f == L[h - 1]
             w == 2^(H - (h - 1))
             R == Range(f)
  <2>5. f \in Seq(R) /\ Len(f) = w /\ \A i \in 1..w : f[i] = Zero
    BY <2>3, <2>4
  <2>6. R = {f[i] : i \in DOMAIN f}
    BY DEF Range
  <2> HIDE DEF f, w, R
  <2>7. DOMAIN f = 1..w
    BY <2>5
  <2>8. \A x \in R : x = Zero
    BY <2>5, <2>6, <2>7
  <2>9. QED
    BY <2>8 DEF R, f
<1>13. ASSUME n = 1, proofPos <= Len(handed)
       PROVE  handed[proofPos] = Zero
  <2>1. prf[proofPos] = Zero
    <3>1. Sibling(p, at[h - 1]) \in {2 * p - 1, 2 * p}
      BY DEF Sibling
    <3>2. QED
      BY <1>10, <1>11, <1>12, <1>13, <3>1
  <2>2. proofPos \in 1..Cardinality(claimed)
    <3>1. Len(handed) = Cardinality(claimed)
      BY <1>1, CarriedIs
    <3>2. proofPos \in 1..(Len(handed) + 1) /\ Len(handed) \in Nat
      BY DEF TypeInv, TypeOK
    <3>3. QED
      BY <1>13, <3>1, <3>2
  <2>3. handed = Carried(prf)
    BY <1>1, <1>2 DEF TheWalk
  <2>4. handed[proofPos] = IF proofPos <= Len(prf) THEN prf[proofPos] ELSE Zero
    BY <2>2, <2>3, CarriedIs
  <2>5. QED
    BY <2>1, <2>4
<1>14. GuestNode(Zero, Zero) = Zero /\ HashNode(Zero, Zero) = Zero
  BY DEF GuestNode, HashNode
<1>15. Pending[1].node = Zero /\ (n = 2 => Pending[2].node = Zero)
  <2>1. Len(Pending) >= n
    BY <1>8 DEF GuestHashPair, GuestHashWithProof, Operands
  <2>2. 1 <= Len(Pending) /\ (n = 2 => 2 <= Len(Pending))
    <3>1. n \in {1, 2}
      BY <1>8
    <3>2. Len(Pending) \in Nat
      <4>1. /\ hashes \in Seq(Range(hashes)) /\ leafPos \in 1..(Len(ClaimedLeaves) + 1)
            /\ hashPos \in 1..(Len(hashes) + 1)
        BY DEF TypeInv, TypeOK
      <4>2. PICK r, u : r \in Nat /\ u \in Nat /\ Len(Pending) = r + u
        BY <4>1, PendingIs
      <4>3. QED
        BY <4>2
    <3>3. QED
      BY <2>1, <3>1, <3>2
  <2>3. QED
    BY <1>1, <2>2, ZeroPending
<1>16. (HashPair \/ HashWithProof) /\ \E l : hashes' = Append(hashes, [node |-> Zero, level |-> l])
  <2>1. CASE GuestHashPair
    <3>1. n = 2
      BY <1>8, <2>1 DEF GuestHashPair
    <3>2. Pending[1].node = Zero /\ Pending[2].node = Zero
      BY <1>15, <3>1
    <3>3. GuestHash(Pending[1], Pending[2].node)
      BY <2>1 DEF GuestHashPair
    <3>4. /\ Hash(Pending[1], Pending[2].node)
          /\ \E l : hashes' = Append(hashes, [node |-> Zero, level |-> l])
      BY <1>14, <3>2, <3>3 DEF GuestHash, Hash
    <3>5. QED
      BY <2>1, <3>4 DEF GuestHashPair, HashPair
  <2>2. CASE GuestHashWithProof
    <3>1. n = 1 /\ proofPos <= Len(handed)
      BY <1>8, <2>2 DEF GuestHashWithProof, Operands
    <3>2. Pending[1].node = Zero /\ handed[proofPos] = Zero
      BY <1>13, <1>15, <3>1
    <3>3. GuestHash(Pending[1], handed[proofPos])
      BY <2>2 DEF GuestHashWithProof
    <3>4. /\ Hash(Pending[1], handed[proofPos])
          /\ \E l : hashes' = Append(hashes, [node |-> Zero, level |-> l])
      BY <1>14, <3>2, <3>3 DEF GuestHash, Hash
    <3>5. QED
      BY <2>2, <3>4 DEF GuestHashWithProof, HashWithProof
  <2>3. QED
    BY <2>1, <2>2
<1>17. \A i \in 1..Len(hashes') : hashes'[i].node = Zero
  <2>1. PICK l : hashes' = Append(hashes, [node |-> Zero, level |-> l])
    BY <1>16
  <2>2. hashes \in Seq(Range(hashes)) /\ Len(hashes) \in Nat
    BY DEF TypeInv
  <2> DEFINE e == [node |-> Zero, level |-> l]
  <2>3. hashes' = Append(hashes, e) /\ e.node = Zero
    BY <2>1
  <2> HIDE DEF e
  <2>4. /\ Len(hashes') = Len(hashes) + 1 /\ hashes'[Len(hashes) + 1] = e
        /\ \A i \in 1..Len(hashes) : hashes'[i] = hashes[i]
    BY <2>2, <2>3, HashGrows
  <2>5. \A i \in 1..Len(hashes') : i \in 1..Len(hashes) \/ i = Len(hashes) + 1
    BY <2>2, <2>4
  <2>6. QED
    BY <1>1, <2>3, <2>4, <2>5
<1>18. QED
  BY <1>16, <1>17

LEMMA Steps ==
  [GuestNext]_guestVars =>
    /\ Verify \/ CurrentVerified \/ UNCHANGED vars
    /\ guest' = guest \/ CurrentVerified \/ guest' \in {"tree", "proven", "aborted"}
    /\ guest' = "none" <=> guest = "none"
BY DEF GuestNext, Verify, CurrentVerified, UpdatedVerified, VerificationFails, InsertItems,
       InsertLevel, InsertCompare, guestVars

LEMMA StepWalk ==
  InputInv /\ GuestInv /\ TypeInv /\ WalkInv /\ CarryInv /\ [GuestNext]_guestVars => WalkInv'
<1> SUFFICES ASSUME InputInv, GuestInv, TypeInv, WalkInv, CarryInv, [GuestNext]_guestVars,
                    (guest = "none" \/ AllZero)',
                    (Cardinality(claimed) = Cardinality(targets) /\ targets # {})',
                    NEW H, NEW at, NEW FO, NEW PO, NEW L, NEW prf, TheWalk(H, at, FO, PO, L, prf)'
             PROVE  LoopInv(H, at, FO, PO, L, prf)'
  BY DEF WalkInv
<1>1. CASE CurrentVerified
  <2>1. /\ turn' = 1 /\ leafPos' = 1 /\ hashPos' = 1 /\ proofPos' = 1 /\ Len(hashes') = 0
        /\ pc' = "start" /\ extracted' = <<>>
    BY <1>1 DEF CurrentVerified
  <2>2. QED
    BY <2>1 DEF LoopInv
<1>2. CASE Verify \/ UNCHANGED vars
  <2>1. UNCHANGED <<tree, targets, claimed, side, handed>>
    BY <1>2, VerifyKeeps DEF vars, Inputs
  <2>2. Filled' = Filled /\ (AllZero' <=> AllZero)
    BY <2>1, SameLeaves DEF Filled, AllZero
  <2>3. Cardinality(claimed) = Cardinality(targets) /\ targets # {} /\ (guest = "none" \/ AllZero)
    BY <2>1, <2>2, Steps
  <2>4. TheWalk(H, at, FO, PO, L, prf)
    BY <2>1, <2>2 DEF TheWalk
  <2>5. IsShape(H, at, FO, PO) /\ IsSetting(H, at, FO, PO, L, prf)
    BY <2>3, <2>4, Setting DEF TheWalk
  <2>6. LoopInv(H, at, FO, PO, L, prf)
    BY <2>3, <2>4 DEF WalkInv
  <2>7. CASE UNCHANGED vars
    BY <2>6, <2>7, StutterWalks
  <2>8. CASE StartSingle \/ Start
    BY <2>5, <2>6, <2>8, StartWalks
  <2>9. CASE HashPair \/ HashWithProof
    BY <2>5, <2>6, <2>9, HashWalks
  <2>10. CASE RunsDry \/ Leftover
    BY <2>5, <2>6, <2>10, FailWalks
  <2>11. CASE Compare
    BY <2>5, <2>6, <2>11, CompareWalks
  <2>12. CASE Verify /\ guest # "none" /\ (GuestHashPair \/ GuestHashWithProof)
    <3>1. guest \in {"current", "updated"} /\ AllZero
      BY <2>3, <2>12 DEF Verify
    <3>2. HashPair \/ HashWithProof
      BY <2>12, <3>1, ZeroHashes
    <3>3. QED
      BY <2>9, <3>2
  <2>13. QED
    BY <1>2, <2>7, <2>8, <2>9, <2>10, <2>11, <2>12 DEF Verify
<1>3. QED
  BY <1>1, <1>2, Steps

LEMMA StepCarry ==
  InputInv /\ GuestInv /\ TypeInv /\ WalkInv /\ CarryInv /\ [GuestNext]_guestVars => CarryInv'
<1> SUFFICES ASSUME InputInv, GuestInv, TypeInv, WalkInv, CarryInv, [GuestNext]_guestVars,
                    (guest \in {"current", "updated"})'
             PROVE  /\ (claimed = targets /\ handed = Carried(Proof(tree, targets)))'
                    /\ (side = "old" <=> guest = "current")'
                    /\ (Len(hashes) = turn - 1 /\ (turn = 1 => leafPos = 1))'
                    /\ (AllZero => \A i \in 1..Len(hashes) : hashes[i].node = Zero)'
  BY DEF CarryInv
<1>1. CASE CurrentVerified
  <2>1. /\ guest = "current" /\ guest' = "updated" /\ side' = "new"
        /\ handed' = Carried(Proof(Replaced, targets))
        /\ turn' = 1 /\ leafPos' = 1 /\ hashes' = <<>>
        /\ UNCHANGED <<tree, targets, claimed>>
    BY <1>1 DEF CurrentVerified
  <2>2. Proof(Replaced, targets) = Proof(tree, targets)
    <3>1. /\ Len(tree) \in Nat /\ Len(Replaced) = Len(tree) /\ targets \in SUBSET (1..Len(tree))
          /\ \A i \in 1..Len(tree) : i \notin targets => Replaced[i] = tree[i]
      BY TheTree DEF InputInv
    <3>2. QED
      BY <3>1, ProofsSame
  <2>3. claimed = targets
    BY <2>1 DEF CarryInv
  <2>4. Carried(Proof(tree, targets))' = Carried(Proof(tree, targets))
    BY <2>1 DEF Carried, BatchSize
  <2>5. Len(hashes') = 0 /\ turn' - 1 = 0 /\ \A i \in 1..Len(hashes') : FALSE
    BY <2>1
  <2>6. QED
    BY <2>1, <2>2, <2>3, <2>4, <2>5
<1>2. CASE (Verify \/ UNCHANGED vars) /\ guest' = guest
  <2>1. UNCHANGED <<tree, targets, claimed, side, handed, guest>>
    BY <1>2, VerifyKeeps DEF vars, Inputs
  <2>2. (AllZero' <=> AllZero) /\ Carried(Proof(tree, targets))' = Carried(Proof(tree, targets))
    BY <2>1, SameLeaves DEF AllZero, Carried, BatchSize
  <2>3. /\ claimed = targets /\ handed = Carried(Proof(tree, targets))
        /\ side = "old" <=> guest = "current"
        /\ Len(hashes) = turn - 1 /\ (turn = 1 => leafPos = 1)
        /\ AllZero => \A i \in 1..Len(hashes) : hashes[i].node = Zero
    BY <2>1 DEF CarryInv
  <2>4. CASE UNCHANGED <<turn, leafPos, hashes>>
    BY <2>1, <2>2, <2>3, <2>4
  <2>5. CASE guest # "none" /\ (GuestHashPair \/ GuestHashWithProof)
    <3>1. turn' = turn + 1 /\ \E e : hashes' = Append(hashes, e)
      BY <2>5 DEF GuestHashPair, GuestHashWithProof, GuestHash
    <3>2. hashes \in Seq(Range(hashes)) /\ Len(hashes) \in Nat
      BY DEF TypeInv
    <3>3. Len(hashes') = Len(hashes) + 1
      BY <3>1, <3>2, HashGrows
    <3>4. turn \in Nat /\ turn >= 1
      BY TheFlagsAre DEF TypeInv, TypeOK
    <3>5. Len(hashes') = turn' - 1 /\ turn' # 1
      BY <2>3, <3>1, <3>2, <3>3, <3>4
    <3>6. AllZero => \A i \in 1..Len(hashes') : hashes'[i].node = Zero
      BY <2>1, <2>5, ZeroHashes
    <3>7. QED
      BY <2>1, <2>2, <2>3, <3>5, <3>6
  <2>6. QED
    BY <1>2, <2>1, <2>4, <2>5
    DEF Verify, StartSingle, Start, RunsDry, Leftover, Compare, vars, Loop
<1>3. QED
  BY <1>1, <1>2, Steps

(* Outside of the guests the proof is the one that was built.  Only there a  *)
(* layer is asked for, or are the leaves others than those the proof is for. *)
(* Nothing is accepted without a leaf.                                      *)
AskedInv ==
  /\ layer # NoLayer => guest = "none"
  /\ guest = "none" => handed = Proof(tree, targets)
  /\ guest = "none" \/ claimed = targets \/ targets = {}
  /\ claimed = {} => pc \in {"start", "invalid"}

LEMMA InitAsked == GuestInit => AskedInv
<1> SUFFICES ASSUME GuestInit
             PROVE  AskedInv
  OBVIOUS
<1>1. pc = "start"
  BY DEF GuestInit, Outside, Init, UpdateInit, InsertInit, LoopInit
<1>2. /\ layer # NoLayer => guest = "none"
      /\ guest = "none" => handed = Proof(tree, targets)
      /\ guest = "none" \/ claimed = targets \/ targets = {}
  BY DEF GuestInit, Outside, Init, UpdateInit, InsertInit
<1>3. QED
  BY <1>1, <1>2 DEF AskedInv

LEMMA StepAsked == InputInv /\ AskedInv /\ [GuestNext]_guestVars => AskedInv'
<1> SUFFICES ASSUME InputInv, AskedInv, [GuestNext]_guestVars
             PROVE  AskedInv'
  OBVIOUS
<1>1. CASE Verify
  <2>1. UNCHANGED <<tree, targets, claimed, layer, handed, guest>>
    BY <1>1, VerifyKeeps DEF Inputs
  <2>2. ASSUME claimed = {}
        PROVE  pc' \in {"start", "invalid"}
    <3>1. pc # "loop" /\ ~Single
      BY <2>2, Claimed DEF AskedInv, Single
    <3>2. Start
      BY <1>1, <3>1 DEF Verify, StartSingle, HashPair, HashWithProof, GuestHashPair,
                        GuestHashWithProof, RunsDry, Leftover, Compare, Looping
    <3>3. QED
      BY <2>2, <3>2 DEF Start
  <2>3. QED
    BY <2>1, <2>2 DEF AskedInv
<1>2. CASE CurrentVerified
  BY <1>2 DEF CurrentVerified, AskedInv
<1>3. CASE UNCHANGED vars /\ (guest' = "none" <=> guest = "none")
  <2>1. UNCHANGED <<tree, targets, claimed, layer, handed, pc>>
    BY <1>3 DEF vars, Inputs
  <2>2. QED
    BY <1>3, <2>1 DEF AskedInv
<1>4. QED
  BY <1>1, <1>2, <1>3, Steps

(* With the leaves of the slots it was built for, on either side of the      *)
(* replacement, the proof of build_multi_proof is never refused by the       *)
(* verifier of merkle.rs:139-217: it always finds what a flag asks for, uses *)
(* up leaves and nodes, and arrives at the root.                            *)
THEOREM OwnProofIsAccepted == GuestSpec => []OwnProofAccepted
<1> DEFINE I == InputInv /\ GuestInv /\ TypeInv /\ WalkInv /\ CarryInv /\ AskedInv
<1>1. GuestInit => I
  BY InitInputs, InitType, InitWalk, InitAsked
<1>2. I /\ [GuestNext]_guestVars => I'
  BY StepInputs, StepType, StepWalk, StepCarry, StepAsked
<1>3. I => OwnProofAccepted
  <2> SUFFICES ASSUME InputInv, WalkInv, AskedInv, guest = "none", claimed = targets, targets # {}
               PROVE  pc # "invalid"
    BY DEF OwnProofAccepted
  <2>1. PICK H, at, FO, PO, L, prf : TheWalk(H, at, FO, PO, L, prf)
    BY DEF TheWalk
  <2>2. handed = Proof(tree, targets)
    BY DEF AskedInv
  <2>3. LoopInv(H, at, FO, PO, L, prf) /\ ExpectedRoot = L[H][1] /\ prf = handed
    BY <2>1, <2>2, OwnWalk DEF TheWalk
  <2>4. QED
    BY <2>3 DEF LoopInv
<1>4. QED
  BY <1>1, <1>2, <1>3, PTL DEF GuestSpec

-----------------------------------------------------------------------------
(* What is extracted are the roots of subtrees.                            *)

LEMMA PowerSum == \A m \in Nat : \A n \in Nat : 2^(m + n) = 2^m * 2^n
<1> SUFFICES ASSUME NEW m \in Nat
             PROVE  \A n \in Nat : 2^(m + n) = 2^m * 2^n
  OBVIOUS
<1> DEFINE S == {n \in Nat : 2^(m + n) = 2^m * 2^n}
<1>1. 0 \in S
  <2>1. m + 0 = m /\ 2^0 = 1 /\ 2^m \in Nat
    BY TwoPower
  <2> DEFINE a == 2^m
  <2> HIDE DEF a
  <2>2. a \in Nat => a * 1 = a
    OBVIOUS
  <2>3. QED
    BY <2>1, <2>2 DEF a
<1>2. ASSUME NEW n \in Nat, n \in S
      PROVE  n + 1 \in S
  <2> DEFINE a == 2^m
             b == 2^n
             d == 2^(m + n)
  <2>1. m + n \in Nat /\ m + (n + 1) = (m + n) + 1
    OBVIOUS
  <2>2. a \in Nat /\ b \in Nat /\ d \in Nat /\ 2^((m + n) + 1) = 2 * d /\ 2^(n + 1) = 2 * b /\ d = a * b
    BY <1>2, <2>1, TwoPower
  <2>3. 2^(m + (n + 1)) = 2 * d
    BY <2>1, <2>2
  <2> HIDE DEF a, b, d
  <2>4. 2 * d = a * (2 * b)
    BY <2>2
  <2>5. 2^(m + (n + 1)) = a * 2^(n + 1)
    BY <2>2, <2>3, <2>4
  <2>6. QED
    BY <2>5 DEF a
<1> HIDE DEF S
<1>3. Nat \subseteq S
  BY <1>1, <1>2, Induction
<1>4. QED
  BY <1>3 DEF S

LEMMA Multiples ==
  ASSUME NEW u \in Nat, NEW m \in Nat, NEW k \in 1..m
  PROVE  /\ (k - 1) * u \in Nat /\ (k - 1) * u + u = k * u /\ k * u <= m * u
         /\ (k - 1) * (2 * u) = 2 * ((k - 1) * u)
<1> DEFINE j == k - 1
<1>1. j \in Nat /\ k = j + 1 /\ m - k \in Nat /\ m = k + (m - k)
  OBVIOUS
<1> DEFINE d == m - k
<1>2. d \in Nat /\ m = k + d
  BY <1>1
<1> HIDE DEF j, d
<1>3. j * u \in Nat /\ j * (2 * u) = 2 * (j * u) /\ d * u \in Nat
  BY <1>1, <1>2
<1>4. k * u = j * u + u
  BY <1>1
<1>5. m * u = k * u + d * u /\ k * u \in Nat
  BY <1>1, <1>2
<1>6. k * u <= m * u
  BY <1>3, <1>5
<1>7. QED
  BY <1>3, <1>4, <1>6 DEF j

(* The layers of the tree over the leaves below one node are the part of the *)
(* layers of the whole tree that is below it. *)
LEMMA SubtreeRoot ==
  ASSUME NEW s, Len(s) \in Nat, NEW h \in 0..Height(Len(s)), NEW k \in 1..2^(Height(Len(s)) - h)
  PROVE  MerkleRoot(SubSeq(Pad(s), (k - 1) * 2^h + 1, k * 2^h)) = Layers(s)[h][k]
<1> DEFINE H == Height(Len(s))
           w == 2^h
           m == 2^(H - h)
           t == SubSeq(Pad(s), (k - 1) * w + 1, k * w)
           K == Layers(s)
           L == Layers(t)
<1>1. H \in Nat /\ h \in Nat /\ H - h \in Nat /\ H = (H - h) + h
  <2>1. H \in Nat
    BY HeightIs
  <2>2. QED
    BY <2>1
<1>2. w \in Nat /\ w >= 1 /\ m \in Nat /\ 2^H = m * w /\ k \in 1..m
  <2>1. w \in Nat /\ w >= 1 /\ m \in Nat /\ 2^((H - h) + h) = m * w
    BY <1>1, TwoPower, PowerSum
  <2>2. QED
    BY <1>1, <2>1
<1> DEFINE v == (k - 1) * w
<1>3. v \in Nat /\ k * w = v + w /\ v + w <= m * w
  <2> HIDE DEF w, m
  <2>1. QED
    BY <1>2, Multiples
<1>4. Len(t) = w /\ \A i \in 1..w : t[i] = Pad(s)[v + i]
  <2> DEFINE z == Pad(s)
             n == 2^H
  <2>1. z \in Seq(Range(z)) /\ Len(z) = n
    BY PadIs
  <2>2. n = m * w /\ t = SubSeq(z, v + 1, v + w)
    BY <1>2, <1>3
  <2> HIDE DEF z, n, w, m, v, t
  <2>3. v + 1 \in 1..(Len(z) + 1) /\ v + w \in 0..Len(z) /\ v + w <= Len(z)
    BY <1>2, <1>3, <2>1, <2>2
  <2>4. Len(t) = w
    BY <1>2, <1>3, <2>1, <2>2, <2>3
  <2>5. ASSUME NEW i \in 1..w
        PROVE  t[i] = z[v + i]
    <3>1. i \in 1..((v + w) - (v + 1) + 1) /\ (v + 1) + i - 1 = v + i
      BY <1>2, <1>3
    <3> DEFINE a == v + 1
               b == v + w
    <3>2. a \in Int /\ b \in Int /\ i \in 1..(b - a + 1) /\ t = SubSeq(z, a, b)
      BY <1>2, <1>3, <2>2, <3>1
    <3> HIDE DEF a, b
    <3>3. t[i] = z[a + i - 1]
      <4>1. \A j \in a..b : z[j] \in Range(z)
        <5>1. a..b \subseteq DOMAIN z
          BY <1>2, <1>3, <2>1, <2>3 DEF a, b
        <5>2. QED
          BY <5>1 DEF Range
      <4>2. \A j \in 1..(b - a + 1) : SubSeq(z, a, b)[j] = z[a + j - 1]
        BY <3>2, <4>1, SubSeqProperties
      <4>3. QED
        BY <3>2, <4>2
    <3>4. QED
      BY <3>1, <3>3 DEF a
  <2>6. QED
    BY <2>4, <2>5 DEF z
<1>5. Len(t) \in Nat /\ Height(Len(t)) = h
  BY <1>1, <1>2, <1>4, HeightOfPower
<1> DEFINE Part(g) == \A i \in 1..2^(h - g) : L[g][i] = K[g][(k - 1) * 2^(h - g) + i]
           S == {g \in Nat : g <= h => Part(g)}
<1>6. 0 \in S
  <2> SUFFICES ASSUME NEW i \in 1..w
               PROVE  L[0][i] = K[0][v + i]
    <3>1. h - 0 = h
      BY <1>1
    <3>2. QED
      BY <3>1
  <2>1. L[0] = Pad(t) /\ K[0] = Pad(s)
    BY <1>5, LayersAre
  <2>2. Pad(t)[i] = t[i]
    <3>1. \A j \in 1..2^Height(Len(t)) : Pad(t)[j] = IF j <= Len(t) THEN t[j] ELSE Zero
      BY <1>5, PadIs
    <3>2. i \in 1..2^Height(Len(t)) /\ i <= Len(t)
      <4>1. Len(t) = w /\ 2^Height(Len(t)) = w
        BY <1>4, <1>5
      <4> HIDE DEF w, t
      <4>2. QED
        BY <1>2, <4>1
    <3> HIDE DEF t
    <3>3. QED
      BY <3>1, <3>2
  <2> HIDE DEF L, K, t, w, v
  <2>3. QED
    BY <1>4, <2>1, <2>2
<1>7. ASSUME NEW g \in Nat, g \in S
      PROVE  g + 1 \in S
  <2> SUFFICES ASSUME g + 1 <= h
               PROVE  Part(g + 1)
    OBVIOUS
  <2> DEFINE u == 2^(h - (g + 1))
             e == (k - 1) * u
  <2>1. /\ h - (g + 1) \in Nat /\ (h - (g + 1)) + 1 = h - g /\ g + 1 \in 1..h /\ g + 1 \in 1..H
        /\ (g + 1) - 1 = g /\ H - (g + 1) \in Nat /\ H - (g + 1) = (H - h) + (h - (g + 1))
    <3> HIDE DEF H
    <3>1. g + 1 \in Nat /\ g + 1 >= 1 /\ g + 1 <= h /\ h <= H /\ H \in Nat /\ h \in Nat
      BY <1>1
    <3>2. g + 1 \in 1..h /\ g + 1 \in 1..H /\ h - (g + 1) \in Nat /\ H - (g + 1) \in Nat
      BY <3>1
    <3>3. /\ (h - (g + 1)) + 1 = h - g /\ (g + 1) - 1 = g
          /\ H - (g + 1) = (H - h) + (h - (g + 1))
      BY <3>1
    <3>4. QED
      BY <3>2, <3>3
  <2>2. u \in Nat /\ 2^(h - g) = 2 * u /\ 2^(H - (g + 1)) = m * u
    <3>1. u \in Nat /\ 2^((h - (g + 1)) + 1) = 2 * u
      BY <2>1, TwoPower
    <3>2. 2^((H - h) + (h - (g + 1))) = m * u
      BY <1>1, <2>1, PowerSum
    <3>3. QED
      BY <2>1, <3>1, <3>2
  <2>3. Part(g)
    <3> HIDE DEF Part
    <3>1. QED
      BY <1>7, <2>1
  <2>4. e \in Nat /\ e + u <= m * u /\ (k - 1) * (2 * u) = 2 * e
    <3> HIDE DEF u, m
    <3>1. (k - 1) * u + u = k * u /\ k * u <= m * u /\ (k - 1) * u \in Nat
      BY <1>2, <2>2, Multiples
    <3>2. (k - 1) * (2 * u) = 2 * e
      BY <1>2, <2>2, Multiples
    <3>3. QED
      BY <3>1, <3>2
  <2>5. \A i \in 1..(2 * u) : L[g][i] = K[g][2 * e + i]
    BY <2>2, <2>3, <2>4
  <2> SUFFICES ASSUME NEW i \in 1..u
               PROVE  L[g + 1][i] = K[g + 1][e + i]
    OBVIOUS
  <2>6. L[g + 1][i] = HashNode(L[g][2 * i - 1], L[g][2 * i])
    <3>1. i \in 1..2^(Height(Len(t)) - (g + 1)) /\ g + 1 \in 1..Height(Len(t))
      BY <1>5, <2>1
    <3>2. L[g + 1][i] = HashNode(L[(g + 1) - 1][2 * i - 1], L[(g + 1) - 1][2 * i])
      BY <1>5, <3>1, NodeIs
    <3>3. QED
      BY <2>1, <3>2
  <2>7. e + i \in 1..2^(H - (g + 1))
    <3> DEFINE n == m * u
    <3>1. n \in Nat /\ e + u <= n /\ e \in Nat /\ u \in Nat /\ i \in 1..u
      <4> HIDE DEF m, u, e
      <4>1. m * u \in Nat
        BY <1>2, <2>2
      <4>2. QED
        BY <2>2, <2>4, <4>1
    <3> HIDE DEF n, e, u, m
    <3>2. e + i \in 1..n
      BY <3>1
    <3>3. QED
      BY <2>2, <3>2 DEF n, u
  <2>8. K[g + 1][e + i] = HashNode(K[g][2 * (e + i) - 1], K[g][2 * (e + i)])
    <3>1. K[g + 1][e + i] = HashNode(K[(g + 1) - 1][2 * (e + i) - 1], K[(g + 1) - 1][2 * (e + i)])
      BY <2>1, <2>7, NodeIs
    <3>2. QED
      BY <2>1, <3>1
  <2> HIDE DEF L, K, e, u
  <2>9. /\ 2 * i - 1 \in 1..(2 * u) /\ 2 * i \in 1..(2 * u)
        /\ 2 * (e + i) - 1 = 2 * e + (2 * i - 1) /\ 2 * (e + i) = 2 * e + 2 * i
    BY <2>2, <2>4
  <2>10. L[g][2 * i - 1] = K[g][2 * e + (2 * i - 1)] /\ L[g][2 * i] = K[g][2 * e + 2 * i]
    BY <2>5, <2>9
  <2>11. QED
    BY <2>6, <2>8, <2>9, <2>10
<1> HIDE DEF S, Part
<1>8. Nat \subseteq S
  BY <1>6, <1>7, Induction
<1>9. Part(h)
  BY <1>1, <1>8 DEF S
<1>10. L[h][1] = K[h][k]
  <2>1. h - h = 0 /\ 2^0 = 1 /\ (k - 1) * 1 + 1 = k
    BY <1>1, <1>2
  <2>2. \A i \in 1..2^0 : L[h][i] = K[h][(k - 1) * 2^0 + i]
    BY <1>9, <2>1 DEF Part
  <2> HIDE DEF L, K
  <2>3. QED
    BY <2>1, <2>2
<1>11. MerkleRoot(t) = L[h][1]
  <2>1. t # <<>>
    <3> HIDE DEF t, w
    <3>1. QED
      BY <1>2, <1>4
  <2>2. QED
    BY <1>5, <2>1 DEF MerkleRoot
<1>12. QED
  BY <1>10, <1>11

(* With its own leaves, what is extracted of a layer are nodes of that layer, *)
(* and the root of the subtree below every node above a replaced leaf is     *)
(* among them (README.md:72, merkle.rs:130-137), for trees of every size,    *)
(* every set of replaced slots, every layer, before and after.               *)
THEOREM UpdatedRootsExtracted == GuestSpec => []LayerHoldsUpdatedRoots
<1> DEFINE I == InputInv /\ GuestInv /\ TypeInv /\ WalkInv /\ CarryInv /\ AskedInv
<1>1. GuestInit => I
  BY InitInputs, InitType, InitWalk, InitAsked
<1>2. I /\ [GuestNext]_guestVars => I'
  BY StepInputs, StepType, StepWalk, StepCarry, StepAsked
<1>3. I => LayerHoldsUpdatedRoots
  <2> SUFFICES ASSUME InputInv, WalkInv, AskedInv, pc = "valid", claimed = targets, layer # NoLayer
               PROVE  /\ \A k \in TargetsAt(tree, targets)[layer] :
                           MerkleRoot(SubtreeLeaves(k)) \in Range(extracted)
                      /\ Range(extracted) \subseteq Range(Layers(TheLeaves)[layer])
    BY DEF LayerHoldsUpdatedRoots
  <2>1. targets # {} /\ guest = "none" /\ handed = Proof(tree, targets)
    BY DEF AskedInv
  <2>2. PICK H, at, FO, PO, L, prf : TheWalk(H, at, FO, PO, L, prf)
    BY DEF TheWalk
  <2>3. Extracts(at, L, H + 1, 1) /\ H = Height(Len(tree)) /\ at = TargetsAt(tree, targets) /\ L = Layers(TheLeaves)
    BY <2>1, <2>2, OwnWalk DEF TheWalk, LoopInv
  <2>4. /\ Len(tree) \in Nat /\ Len(TheLeaves) = Len(tree) /\ targets \in SUBSET (1..Len(tree))
        /\ layer \in 0..H
    BY <2>3, TheTree DEF InputInv
  <2>5. H \in Nat /\ at[H] = {1} /\ Cardinality(at[H]) = 1
    <3>1. IsShape(H, at, FO, PO)
      BY <2>1, <2>2, Setting DEF TheWalk
    <3>2. QED
      BY <3>1, RootAlone DEF IsShape
  <2>6. extracted \in Seq(Range(L[layer]))
    BY <2>3 DEF Extracts
  <2>7. \A j \in 1..Cardinality(at[layer]) : L[layer][Ascending(at[layer])[j]] \in Range(extracted)
    <3> SUFFICES ASSUME NEW j \in 1..Cardinality(at[layer])
                 PROVE  L[layer][Ascending(at[layer])[j]] \in Range(extracted)
      OBVIOUS
    <3>1. layer < (H + 1) - 1 \/ (layer = (H + 1) - 1 /\ j <= 1)
      <4>1. CASE layer = H
        <5>1. j \in 1..1
          BY <2>5, <4>1
        <5>2. layer = (H + 1) - 1
          BY <2>5, <4>1
        <5>3. QED
          BY <5>1, <5>2
      <4>2. CASE layer # H
        BY <2>4, <2>5, <4>2
      <4>3. QED
        BY <4>1, <4>2
    <3>2. QED
      BY <2>3, <3>1 DEF Extracts
  <2>8. ASSUME NEW k \in at[layer]
        PROVE  MerkleRoot(SubtreeLeaves(k)) \in Range(extracted)
    <3>1. 2^(H - layer) \in Nat /\ at[layer] \in SUBSET (1..2^(H - layer))
      <4>1. H - layer \in Nat
        BY <2>4, <2>5
      <4>2. at[layer] \in SUBSET (1..2^(H - layer))
        BY <2>3, <2>4, TargetsAre
      <4>3. QED
        BY <4>1, <4>2, TwoPower
    <3>2. PICK j \in 1..Cardinality(at[layer]) : Ascending(at[layer])[j] = k
      BY <3>1, Ordered, SMTT(30)
    <3>3. MerkleRoot(SubtreeLeaves(k)) = L[layer][k]
      <4>1. k \in 1..2^(Height(Len(TheLeaves)) - layer) /\ layer \in 0..Height(Len(TheLeaves))
        BY <2>3, <2>4, <3>1
      <4>2. QED
        BY <2>3, <2>4, <4>1, SubtreeRoot DEF SubtreeLeaves
    <3>4. QED
      BY <2>7, <3>2, <3>3
  <2>9. Range(extracted) \subseteq Range(L[layer])
    <3> DEFINE R == Range(L[layer])
    <3>1. extracted \in Seq(R)
      BY <2>6
    <3> HIDE DEF R
    <3>2. \A i \in DOMAIN extracted : extracted[i] \in R
      BY <3>1
    <3>3. Range(extracted) \subseteq R
      BY <3>2 DEF Range
    <3>4. QED
      BY <3>3 DEF R
  <2>10. QED
    BY <2>3, <2>8, <2>9
<1>4. QED
  BY <1>1, <1>2, <1>3, PTL DEF GuestSpec

-----------------------------------------------------------------------------
(* Only the leaves of the slots the proof is for are accepted.             *)

(* How often v is found in a vector, after position a and up to b, and below *)
(* the node k of the layer h. *)
Found(f, v, a, b) == {i \in (a + 1)..b : f[i] = v}
Block(f, v, h, k) == Cardinality(Found(f, v, (k - 1) * 2^h, k * 2^h))

LEMMA FoundSplits ==
  ASSUME NEW f, NEW v, NEW a \in Nat, NEW m \in Nat, NEW b \in Nat, a <= m, m <= b
  PROVE  /\ Cardinality(Found(f, v, a, m)) \in Nat /\ Cardinality(Found(f, v, m, b)) \in Nat
         /\ Cardinality(Found(f, v, a, b))
              = Cardinality(Found(f, v, a, m)) + Cardinality(Found(f, v, m, b))
<1> DEFINE X == Found(f, v, a, m)
           Y == Found(f, v, m, b)
<1>1. IsFiniteSet(X) /\ IsFiniteSet(Y)
  <2>1. IsFiniteSet((a + 1)..m) /\ IsFiniteSet((m + 1)..b)
    BY FS_Interval
  <2>2. X \in SUBSET ((a + 1)..m) /\ Y \in SUBSET ((m + 1)..b)
    BY DEF Found
  <2> HIDE DEF X, Y
  <2>3. QED
    BY <2>1, <2>2, FS_Subset
<1>2. Found(f, v, a, b) = X \cup Y
  BY DEF Found
<1>3. X \cap Y = {}
  BY DEF Found
<1> HIDE DEF X, Y
<1>4. Cardinality(X) \in Nat /\ Cardinality(Y) \in Nat
  BY <1>1, FS_CardinalityType
<1>5. Cardinality(X \cup Y) = Cardinality(X) + Cardinality(Y)
  <2>1. Cardinality(X \cup Y) = Cardinality(X) + Cardinality(Y) - Cardinality(X \cap Y)
    BY <1>1, FS_Union
  <2>2. Cardinality(X \cap Y) = 0
    BY <1>3, FS_EmptySet
  <2>3. QED
    BY <1>4, <2>1, <2>2
<1>6. QED
  BY <1>2, <1>4, <1>5 DEF X, Y

LEMMA BlockSplits ==
  ASSUME NEW f, NEW v, NEW h \in Nat, NEW k \in Nat \ {0}
  PROVE  /\ Block(f, v, h, 2 * k - 1) \in Nat /\ Block(f, v, h, 2 * k) \in Nat
         /\ Block(f, v, h + 1, k) = Block(f, v, h, 2 * k - 1) + Block(f, v, h, 2 * k)
<1> DEFINE w == 2^h
           e == (k - 1) * w
           x == 2 * e
           y == x + w
           z == y + w
<1>1. w \in Nat /\ 2^(h + 1) = 2 * w
  BY TwoPower
<1>2. e \in Nat /\ k * w = e + w /\ (k - 1) * (2 * w) = x
  <2> HIDE DEF w
  <2>1. k \in 1..k
    OBVIOUS
  <2>2. (k - 1) * w \in Nat /\ (k - 1) * w + w = k * w /\ (k - 1) * (2 * w) = 2 * ((k - 1) * w)
    BY <1>1, <2>1, Multiples
  <2>3. QED
    BY <2>2
<1>3. k * (2 * w) = z
  <2>1. k * (2 * w) = 2 * (k * w)
    <3> HIDE DEF w
    <3>1. k + 1 \in Nat /\ k + 1 \in 1..(k + 1) /\ (k + 1) - 1 = k
      OBVIOUS
    <3>2. ((k + 1) - 1) * (2 * w) = 2 * (((k + 1) - 1) * w)
      BY <1>1, <3>1, Multiples
    <3>3. QED
      BY <3>1, <3>2
  <2> DEFINE j == k * w
  <2>2. j = e + w /\ k * (2 * w) = 2 * j
    BY <1>2, <2>1
  <2> HIDE DEF j, e, w
  <2>3. QED
    BY <1>1, <1>2, <2>2
<1>4. (2 * k - 1) * w = y
  <2>1. 2 * k \in Nat /\ 2 * k - 1 \in 1..(2 * k) /\ (2 * k - 1) - 1 = 2 * (k - 1)
    OBVIOUS
  <2>2. ((2 * k - 1) - 1) * w + w = (2 * k - 1) * w
    <3> HIDE DEF w
    <3>1. QED
      BY <1>1, <2>1, Multiples
  <2>3. (2 * (k - 1)) * w = x
    <3> HIDE DEF w
    <3>1. (2 * (k - 1)) * w = (k - 1) * (2 * w)
      BY <1>1
    <3>2. QED
      BY <1>2, <3>1
  <2>4. QED
    BY <2>1, <2>2, <2>3
<1>5. ((2 * k - 1) - 1) * w = x /\ ((2 * k) - 1) * w = y
  <2>1. (2 * k - 1) - 1 = 2 * (k - 1)
    OBVIOUS
  <2>2. (2 * (k - 1)) * w = (k - 1) * (2 * w)
    <3> HIDE DEF w
    <3>1. QED
      BY <1>1
  <2>3. QED
    BY <1>2, <1>4, <2>1, <2>2
<1>6. (2 * k) * w = z
  <2> HIDE DEF w
  <2>1. (2 * k) * w = k * (2 * w)
    BY <1>1
  <2>2. QED
    BY <1>3, <2>1
<1>7. /\ Block(f, v, h, 2 * k - 1) = Cardinality(Found(f, v, x, y))
      /\ Block(f, v, h, 2 * k) = Cardinality(Found(f, v, y, z))
  BY <1>4, <1>5, <1>6 DEF Block
<1>8. Block(f, v, h + 1, k) = Cardinality(Found(f, v, x, z))
  BY <1>1, <1>2, <1>3 DEF Block
<1>9. x \in Nat /\ y \in Nat /\ z \in Nat /\ x <= y /\ y <= z
  <2> HIDE DEF e, w
  <2>1. QED
    BY <1>1, <1>2
<1> HIDE DEF x, y, z
<1>10. QED
  BY <1>7, <1>8, <1>9, FoundSplits

LEMMA BlockOfOne ==
  ASSUME NEW f, NEW v, NEW k \in Nat \ {0}
  PROVE  Block(f, v, 0, k) = IF f[k] = v THEN 1 ELSE 0
<1>1. (k - 1) * 2^0 = k - 1 /\ k * 2^0 = k
  <2>1. 2^0 = 1
    OBVIOUS
  <2>2. (k - 1) * 1 = k - 1 /\ k * 1 = k
    OBVIOUS
  <2>3. QED
    BY <2>1, <2>2
<1>2. Found(f, v, k - 1, k) = IF f[k] = v THEN {k} ELSE {}
  <2>1. ((k - 1) + 1)..k = {k}
    OBVIOUS
  <2>2. QED
    BY <2>1 DEF Found
<1>3. Cardinality({k}) = 1 /\ Cardinality({}) = 0
  BY FS_Singleton, FS_EmptySet
<1>4. QED
  BY <1>1, <1>2, <1>3 DEF Block

(* The digest of two nodes tells which they are, up to their order. *)
LEMMA HashTells ==
  ASSUME ZeroIsNoDigest, NEW a, NEW b, NEW c, NEW d, HashNode(a, b) = HashNode(c, d)
  PROVE  (a = c /\ b = d) \/ (a = d /\ b = c)
<1>1. CASE a = Zero /\ b = Zero
  <2>1. HashNode(a, b) = Zero
    BY <1>1 DEF HashNode
  <2>2. c = Zero /\ d = Zero
    BY <2>1 DEF HashNode, ZeroIsNoDigest
  <2>3. QED
    BY <1>1, <2>2
<1>2. CASE ~(a = Zero /\ b = Zero)
  <2>1. HashNode(a, b) = {a, b} /\ {a, b} # Zero
    BY <1>2 DEF HashNode, ZeroIsNoDigest
  <2>2. HashNode(c, d) = {c, d}
    BY <2>1 DEF HashNode
  <2>3. {a, b} = {c, d}
    BY <2>1, <2>2
  <2>4. QED
    BY <2>3
<1>3. QED
  BY <1>1, <1>2

(* Equal nodes of one layer of two trees have the same leaves below them,    *)
(* each as often. *)
LEMMA SameNodes ==
  ASSUME ZeroIsNoDigest, NEW s, NEW t, NEW n \in Nat, Len(s) = n, Len(t) = n, NEW v
  PROVE  \A h \in Nat : h <= Height(n) =>
           \A k \in 1..2^(Height(n) - h) : \A l \in 1..2^(Height(n) - h) :
             Layers(s)[h][k] = Layers(t)[h][l] =>
               Block(Pad(s), v, h, k) = Block(Pad(t), v, h, l)
<1> DEFINE H == Height(n)
           K == Layers(s)
           L == Layers(t)
           Same(h) == \A k \in 1..2^(H - h) : \A l \in 1..2^(H - h) :
                        K[h][k] = L[h][l] => Block(Pad(s), v, h, k) = Block(Pad(t), v, h, l)
           S == {h \in Nat : h <= H => Same(h)}
<1>1. H \in Nat /\ Height(Len(s)) = H /\ Height(Len(t)) = H /\ Len(s) \in Nat /\ Len(t) \in Nat
  BY HeightIs
<1>2. 0 \in S
  <2> SUFFICES ASSUME NEW k \in 1..2^(H - 0), NEW l \in 1..2^(H - 0), K[0][k] = L[0][l]
               PROVE  Block(Pad(s), v, 0, k) = Block(Pad(t), v, 0, l)
    OBVIOUS
  <2>1. K[0] = Pad(s) /\ L[0] = Pad(t)
    BY <1>1, LayersAre
  <2>2. k \in Nat \ {0} /\ l \in Nat \ {0}
    <3>1. H - 0 = H /\ 2^H \in Nat
      BY <1>1, TwoPower
    <3> DEFINE w == 2^(H - 0)
    <3>2. w \in Nat /\ k \in 1..w /\ l \in 1..w
      BY <3>1
    <3> HIDE DEF w
    <3>3. QED
      BY <3>2
  <2> HIDE DEF K, L
  <2>3. Pad(s)[k] = Pad(t)[l]
    BY <2>1
  <2>4. QED
    BY <2>2, <2>3, BlockOfOne
<1>3. ASSUME NEW h \in Nat, h \in S
      PROVE  h + 1 \in S
  <2> SUFFICES ASSUME h + 1 <= H
               PROVE  Same(h + 1)
    OBVIOUS
  <2> DEFINE m == 2^(H - (h + 1))
  <2>1. /\ h + 1 \in 1..H /\ (h + 1) - 1 = h /\ m \in Nat /\ 2^(H - h) = 2 * m
    <3>1. h + 1 \in 1..H /\ (h + 1) - 1 = h /\ H - (h + 1) \in Nat /\ (H - (h + 1)) + 1 = H - h
      <4> HIDE DEF H
      <4>1. QED
        BY <1>1
    <3>2. 2^(H - (h + 1)) \in Nat /\ 2^((H - (h + 1)) + 1) = 2 * 2^(H - (h + 1))
      BY <3>1, TwoPower
    <3>3. QED
      BY <3>1, <3>2
  <2>2. Same(h)
    <3> HIDE DEF Same
    <3>1. h <= H
      <4> HIDE DEF H
      <4>1. QED
        BY <1>1
    <3>2. QED
      BY <1>3, <3>1
  <2> SUFFICES ASSUME NEW k \in 1..m, NEW l \in 1..m, K[h + 1][k] = L[h + 1][l]
               PROVE  Block(Pad(s), v, h + 1, k) = Block(Pad(t), v, h + 1, l)
    OBVIOUS
  <2>3. K[h + 1][k] = HashNode(K[h][2 * k - 1], K[h][2 * k])
    <3>1. k \in 1..2^(Height(Len(s)) - (h + 1)) /\ h + 1 \in 1..Height(Len(s))
      BY <1>1, <2>1
    <3>2. K[h + 1][k] = HashNode(K[(h + 1) - 1][2 * k - 1], K[(h + 1) - 1][2 * k])
      BY <1>1, <3>1, NodeIs
    <3>3. QED
      BY <2>1, <3>2
  <2>4. L[h + 1][l] = HashNode(L[h][2 * l - 1], L[h][2 * l])
    <3>1. l \in 1..2^(Height(Len(t)) - (h + 1)) /\ h + 1 \in 1..Height(Len(t))
      BY <1>1, <2>1
    <3>2. L[h + 1][l] = HashNode(L[(h + 1) - 1][2 * l - 1], L[(h + 1) - 1][2 * l])
      BY <1>1, <3>1, NodeIs
    <3>3. QED
      BY <2>1, <3>2
  <2>5. \A x \in 1..(2 * m) : \A y \in 1..(2 * m) :
          K[h][x] = L[h][y] => Block(Pad(s), v, h, x) = Block(Pad(t), v, h, y)
    BY <2>1, <2>2
  <2> HIDE DEF K, L, m
  <2>6. /\ 2 * k - 1 \in 1..(2 * m) /\ 2 * k \in 1..(2 * m) /\ 2 * l - 1 \in 1..(2 * m)
        /\ 2 * l \in 1..(2 * m) /\ k \in Nat \ {0} /\ l \in Nat \ {0}
    BY <2>1
  <2>7. /\ Block(Pad(s), v, h + 1, k) = Block(Pad(s), v, h, 2 * k - 1) + Block(Pad(s), v, h, 2 * k)
        /\ Block(Pad(s), v, h, 2 * k - 1) \in Nat /\ Block(Pad(s), v, h, 2 * k) \in Nat
    BY <2>6, BlockSplits
  <2>8. Block(Pad(t), v, h + 1, l) = Block(Pad(t), v, h, 2 * l - 1) + Block(Pad(t), v, h, 2 * l)
    BY <2>6, BlockSplits
  <2>9. \/ K[h][2 * k - 1] = L[h][2 * l - 1] /\ K[h][2 * k] = L[h][2 * l]
        \/ K[h][2 * k - 1] = L[h][2 * l] /\ K[h][2 * k] = L[h][2 * l - 1]
    <3>1. HashNode(K[h][2 * k - 1], K[h][2 * k]) = HashNode(L[h][2 * l - 1], L[h][2 * l])
      BY <2>3, <2>4
    <3>2. QED
      BY <3>1, HashTells
  <2>10. CASE K[h][2 * k - 1] = L[h][2 * l - 1] /\ K[h][2 * k] = L[h][2 * l]
    <3>1. /\ Block(Pad(s), v, h, 2 * k - 1) = Block(Pad(t), v, h, 2 * l - 1)
          /\ Block(Pad(s), v, h, 2 * k) = Block(Pad(t), v, h, 2 * l)
      BY <2>5, <2>6, <2>10
    <3>2. QED
      BY <2>7, <2>8, <3>1
  <2>11. CASE K[h][2 * k - 1] = L[h][2 * l] /\ K[h][2 * k] = L[h][2 * l - 1]
    <3>1. /\ Block(Pad(s), v, h, 2 * k - 1) = Block(Pad(t), v, h, 2 * l)
          /\ Block(Pad(s), v, h, 2 * k) = Block(Pad(t), v, h, 2 * l - 1)
      BY <2>5, <2>6, <2>11
    <3>2. QED
      BY <2>7, <2>8, <3>1
  <2>12. QED
    BY <2>9, <2>10, <2>11
<1> HIDE DEF S, Same
<1>4. Nat \subseteq S
  BY <1>2, <1>3, Induction
<1>5. \A h \in Nat : h <= H => Same(h)
  BY <1>4 DEF S
<1>6. QED
  BY <1>5 DEF Same

(* The slots that hold v, and the positions they have in their order. *)
SlotsWith(S, f, v) == {i \in S : f[i] = v}
PlacesWith(S, f, v) == {j \in 1..Cardinality(S) : f[Ascending(S)[j]] = v}

LEMMA CountedInOrder ==
  ASSUME NEW n \in Nat, NEW S \in SUBSET (1..n), NEW f, NEW v
  PROVE  Cardinality(SlotsWith(S, f, v)) = Cardinality(PlacesWith(S, f, v))
<1> DEFINE c == Cardinality(S)
           A == Ascending(S)
           X == {j \in 1..c : f[A[j]] = v}
           Y == {i \in S : f[i] = v}
           g == [j \in X |-> A[j]]
<1>1. /\ c \in Nat
      /\ \A k \in 1..c : A[k] \in S
      /\ \A x \in S : \E k \in 1..c : A[k] = x
      /\ \A k \in 1..c : \A j \in 1..c : j < k => A[j] < A[k]
      /\ \A k \in 1..c : A[k] \in 1..n
  BY Ordered
<1> HIDE DEF c, A
<1>2. IsFiniteSet(X)
  <2>1. IsFiniteSet(1..c)
    BY <1>1, FS_Interval
  <2>2. X \in SUBSET (1..c)
    OBVIOUS
  <2> HIDE DEF X
  <2>3. QED
    BY <2>1, <2>2, FS_Subset
<1>3. g \in [X -> Y]
  <2>1. \A j \in X : A[j] \in Y
    BY <1>1
  <2> HIDE DEF X, Y
  <2>2. QED
    BY <2>1
<1>4. \A i \in X : \A j \in X : g[i] = g[j] => i = j
  <2> SUFFICES ASSUME NEW i \in X, NEW j \in X, A[i] = A[j], i # j
               PROVE  FALSE
    <3> HIDE DEF X
    <3>1. QED
      OBVIOUS
  <2>1. i \in 1..c /\ j \in 1..c /\ (i < j \/ j < i)
    BY <1>1
  <2>2. A[i] < A[j] \/ A[j] < A[i]
    BY <1>1, <2>1
  <2>3. A[i] \in 1..n /\ A[j] \in 1..n
    BY <1>1, <2>1
  <2>4. QED
    BY <2>2, <2>3
<1>5. \A y \in Y : \E j \in X : g[j] = y
  <2> SUFFICES ASSUME NEW y \in Y
               PROVE  \E j \in X : g[j] = y
    OBVIOUS
  <2>1. PICK j \in 1..c : A[j] = y
    BY <1>1
  <2>2. j \in X
    BY <2>1
  <2> HIDE DEF X, Y
  <2>3. g[j] = y
    BY <2>1, <2>2
  <2>4. QED
    BY <2>2, <2>3
<1> HIDE DEF X, Y, g
<1>6. g \in Bijection(X, Y)
  <2>1. g \in Injection(X, Y)
    BY <1>3, <1>4 DEF Injection, IsInjective
  <2>2. g \in Surjection(X, Y)
    BY <1>3, <1>5 DEF Surjection
  <2>3. QED
    BY <2>1, <2>2 DEF Bijection
<1>7. ExistsBijection(X, Y)
  BY <1>6 DEF ExistsBijection
<1>8. Cardinality(Y) = Cardinality(X)
  BY <1>2, <1>7, FS_Bijection
<1>9. QED
  BY <1>8 DEF X, Y, c, A, SlotsWith, PlacesWith

(* If the filled tree has the root of the leaves, what is handed over are the *)
(* leaves of the targets, each as often. *)
LEMMA RootTells ==
  ASSUME ZeroIsNoDigest, InputInv, Cardinality(claimed) = Cardinality(targets), NEW v,
         Layers(Filled)[Height(Len(tree))][1] = Layers(TheLeaves)[Height(Len(tree))][1]
  PROVE  Cardinality(Holding(claimed, v)) = Cardinality(Holding(targets, v))
<1> DEFINE n == Len(tree)
           H == Height(n)
           N == 2^H
           F == Filled
           T == TheLeaves
           P == Pad(F)
           Q == Pad(T)
           inF == SlotsWith(targets, F, v)
           inT == SlotsWith(targets, T, v)
           out == {i \in (1..N) \ targets : Q[i] = v}
<1>1. /\ n \in Nat /\ Len(F) = n /\ Len(T) = n /\ targets \in SUBSET (1..n)
      /\ claimed \in SUBSET (1..n)
      /\ \A i \in 1..n : i \notin targets => F[i] = T[i]
      /\ \A j \in 1..Cardinality(targets) : F[Ascending(targets)[j]] = ClaimedLeaves[j]
  BY TheTree, FilledIs DEF InputInv
<1>2. H \in Nat /\ N >= n /\ N \in Nat
  BY <1>1, HeightIs, TwoPower
<1>3. Block(P, v, H, 1) = Block(Q, v, H, 1)
  <2>1. H <= H /\ H - H = 0 /\ 1 \in 1..2^(H - H)
    <3>1. H <= H /\ H - H = 0
      BY <1>2
    <3> HIDE DEF H
    <3>2. 2^0 = 1
      OBVIOUS
    <3>3. 2^(H - H) = 1
      BY ONLY <3>1, <3>2, Zenon
    <3>4. PICK w : w = 2^(H - H)
      OBVIOUS
    <3>5. 1 \in 1..w
      BY ONLY <3>3, <3>4
    <3>6. 1 \in 1..2^(H - H)
      BY ONLY <3>4, <3>5, Zenon
    <3>7. QED
      BY ONLY <3>1, <3>6
  <2>2. Layers(F)[H][1] = Layers(T)[H][1]
    OBVIOUS
  <2>3. \A k \in 1..2^(H - H) : \A l \in 1..2^(H - H) :
          Layers(F)[H][k] = Layers(T)[H][l] => Block(P, v, H, k) = Block(Q, v, H, l)
    <3> HIDE DEF F, T
    <3>1. \A h \in Nat : h <= Height(n) =>
            \A k \in 1..2^(Height(n) - h) : \A l \in 1..2^(Height(n) - h) :
              Layers(F)[h][k] = Layers(T)[h][l] => Block(P, v, h, k) = Block(Q, v, h, l)
      BY <1>1, SameNodes
    <3> HIDE DEF P, Q, n
    <3>2. QED
      BY <1>2, <2>1, <3>1
  <2> HIDE DEF F, T, P, Q, H
  <2>4. QED
    BY <2>1, <2>2, <2>3
<1>4. Cardinality(Found(P, v, 0, N)) = Cardinality(Found(Q, v, 0, N))
  <2>1. (1 - 1) * N = 0 /\ 1 * N = N
    BY <1>2
  <2>2. QED
    BY <1>3, <2>1 DEF Block
<1>5. \A i \in 1..N : P[i] = (IF i <= n THEN F[i] ELSE Zero) /\ Q[i] = (IF i <= n THEN T[i] ELSE Zero)
  BY <1>1, PadIs
<1> HIDE DEF n, H, N, F, T, P, Q
<1>6. Found(P, v, 0, N) = inF \cup out
  <2>1. \A i \in 1..N : P[i] = v <=> i \in inF \cup out
    <3> SUFFICES ASSUME NEW i \in 1..N
                 PROVE  P[i] = v <=> i \in inF \cup out
      OBVIOUS
    <3>1. CASE i \in targets
      BY <1>1, <1>5, <3>1 DEF SlotsWith
    <3>2. CASE i \notin targets
      <4>1. P[i] = Q[i]
        <5>1. CASE i <= n
          <6>1. i \in 1..n
            BY <1>1, <5>1
          <6>2. QED
            BY <1>1, <1>5, <3>2, <6>1
        <5>2. CASE ~(i <= n)
          BY <1>5, <5>2
        <5>3. QED
          BY <5>1, <5>2
      <4>2. QED
        BY <3>2, <4>1 DEF SlotsWith
    <3>3. QED
      BY <3>1, <3>2
  <2>2. inF \cup out \in SUBSET (1..N)
    <3>1. 1..n \in SUBSET (1..N)
      BY <1>1, <1>2
    <3>2. inF \in SUBSET targets /\ out \in SUBSET (1..N)
      BY DEF SlotsWith
    <3> HIDE DEF inF, out
    <3>3. QED
      BY <1>1, <3>1, <3>2
  <2>3. Found(P, v, 0, N) = {i \in 1..N : P[i] = v}
    BY DEF Found
  <2> HIDE DEF inF, out
  <2>4. QED
    BY <2>1, <2>2, <2>3
<1>7. Found(Q, v, 0, N) = inT \cup out
  <2>1. \A i \in 1..N : Q[i] = v <=> i \in inT \cup out
    <3> SUFFICES ASSUME NEW i \in 1..N
                 PROVE  Q[i] = v <=> i \in inT \cup out
      OBVIOUS
    <3>1. CASE i \in targets
      BY <1>1, <1>5, <3>1 DEF SlotsWith
    <3>2. CASE i \notin targets
      BY <3>2 DEF SlotsWith
    <3>3. QED
      BY <3>1, <3>2
  <2>2. inT \cup out \in SUBSET (1..N)
    <3>1. 1..n \in SUBSET (1..N)
      BY <1>1, <1>2
    <3>2. inT \in SUBSET targets /\ out \in SUBSET (1..N)
      BY DEF SlotsWith
    <3> HIDE DEF inT, out
    <3>3. QED
      BY <1>1, <3>1, <3>2
  <2>3. Found(Q, v, 0, N) = {i \in 1..N : Q[i] = v}
    BY DEF Found
  <2> HIDE DEF inT, out
  <2>4. QED
    BY <2>1, <2>2, <2>3
<1>8. /\ IsFiniteSet(inF) /\ IsFiniteSet(inT) /\ IsFiniteSet(out)
      /\ inF \cap out = {} /\ inT \cap out = {}
  <2>1. IsFiniteSet(1..N) /\ IsFiniteSet(targets)
    BY <1>1, <1>2, FS_Interval, SlotsAreFinite
  <2>2. inF \in SUBSET targets /\ inT \in SUBSET targets /\ out \in SUBSET (1..N)
    BY DEF SlotsWith
  <2>3. inF \cap out = {} /\ inT \cap out = {}
    BY DEF SlotsWith
  <2> HIDE DEF inF, inT, out
  <2>4. QED
    BY <2>1, <2>2, <2>3, FS_Subset
<1>9. Cardinality(inF) = Cardinality(inT)
  <2> HIDE DEF inF, inT, out
  <2>1. /\ Cardinality(inF) \in Nat /\ Cardinality(inT) \in Nat /\ Cardinality(out) \in Nat
        /\ Cardinality({}) = 0
    BY <1>8, FS_CardinalityType, FS_EmptySet
  <2>2. Cardinality(inF \cup out) = Cardinality(inF) + Cardinality(out) - Cardinality(inF \cap out)
    BY <1>8, FS_Union
  <2>3. Cardinality(inT \cup out) = Cardinality(inT) + Cardinality(out) - Cardinality(inT \cap out)
    BY <1>8, FS_Union
  <2>4. Cardinality(inF \cup out) = Cardinality(inT \cup out)
    BY <1>4, <1>6, <1>7
  <2>5. Cardinality(inF \cap out) = 0 /\ Cardinality(inT \cap out) = 0
    BY <1>8, <2>1
  <2>6. QED
    BY <2>1, <2>2, <2>3, <2>4, <2>5
<1>10. Cardinality(inF) = Cardinality(PlacesWith(targets, F, v))
  BY <1>1, CountedInOrder
<1>11. Cardinality(SlotsWith(claimed, T, v)) = Cardinality(PlacesWith(claimed, T, v))
  BY <1>1, CountedInOrder
<1>12. PlacesWith(targets, F, v) = PlacesWith(claimed, T, v)
  <2>1. \A j \in 1..Cardinality(claimed) : ClaimedLeaves[j] = T[Ascending(claimed)[j]]
    BY Claimed DEF T
  <2>2. QED
    BY <1>1, <2>1 DEF PlacesWith
<1>13. Holding(claimed, v) = SlotsWith(claimed, T, v) /\ Holding(targets, v) = inT
  BY DEF Holding, SlotsWith, T
<1>14. QED
  BY <1>9, <1>10, <1>11, <1>12, <1>13

(* Of as many leaves as the proof is for, no others are accepted than those  *)
(* of its slots, each as often as it is there, up to their order             *)
(* (merkle.rs:204-216).  This is so for trees of every size, every set of    *)
(* replaced slots and every choice of the leaves handed over, if the hash    *)
(* gives no pair of nodes the all-zero digest, as an ideal one does not.     *)
THEOREM NoOtherLeavesAccepted == ZeroIsNoDigest => (GuestSpec => []OnlyItsLeavesAccepted)
<1> SUFFICES ASSUME ZeroIsNoDigest
             PROVE  GuestSpec => []OnlyItsLeavesAccepted
  OBVIOUS
<1> DEFINE I == InputInv /\ GuestInv /\ TypeInv /\ WalkInv /\ CarryInv /\ AskedInv
<1>1. GuestInit => I
  BY InitInputs, InitType, InitWalk, InitAsked
<1>2. I /\ [GuestNext]_guestVars => I'
  BY StepInputs, StepType, StepWalk, StepCarry, StepAsked
<1>3. I => OnlyItsLeavesAccepted
  <2> SUFFICES ASSUME InputInv, WalkInv, AskedInv, pc = "valid",
                      Cardinality(claimed) = Cardinality(targets), NEW leaf \in Range(TheLeaves)
               PROVE  Cardinality(Holding(claimed, leaf)) = Cardinality(Holding(targets, leaf))
    BY DEF OnlyItsLeavesAccepted
  <2>1. claimed # {}
    BY DEF AskedInv
  <2>2. targets # {}
    <3>1. Cardinality(claimed) # 0
      BY <2>1, Claimed
    <3>2. QED
      BY <3>1, FS_EmptySet
  <2>3. CASE claimed = targets
    BY <2>3
  <2>4. CASE claimed # targets
    <3>1. guest = "none" /\ handed = Proof(tree, targets)
      BY <2>2, <2>4 DEF AskedInv
    <3>2. PICK H, at, FO, PO, L, prf : TheWalk(H, at, FO, PO, L, prf)
      BY DEF TheWalk
    <3>3. LoopInv(H, at, FO, PO, L, prf)
      BY <2>2, <3>1, <3>2 DEF WalkInv
    <3>4. ExpectedRoot = L[H][1] /\ L = Layers(Filled) /\ H = Height(Len(tree))
      BY <3>1, <3>2, <3>3 DEF LoopInv, TheWalk
    <3>5. ExpectedRoot = Layers(TheLeaves)[H][1]
      <4>1. Len(TheLeaves) = Len(tree) /\ Len(tree) # 0
        BY TheTree DEF InputInv
      <4>2. TheLeaves # <<>>
        BY <4>1
      <4>3. QED
        BY <3>4, <4>1, <4>2 DEF ExpectedRoot, MerkleRoot
    <3>6. QED
      BY <3>4, <3>5, RootTells
  <2>5. QED
    BY <2>3, <2>4
<1>4. QED
  BY <1>1, <1>2, <1>3, PTL DEF GuestSpec

-----------------------------------------------------------------------------
(* The update guest.                                                       *)

(* Its digests are its own: one of them is a root of merkle.rs only if it is *)
(* zero. *)
DigestInv ==
  /\ guest \in {"current", "updated"} =>
       /\ \A i \in 1..Len(hashes) : Marked(hashes[i].node)
       /\ pc = "valid" => ExpectedRoot = Zero
  /\ guest = "updated" => MerkleRoot(tree) = Zero

UpdateInv == DigestInv /\ OnlyZeroUpdatesProven

(* Entries enough for the nodes are the nodes. *)
LEMMA CarriedFits ==
  ASSUME InputInv, NEW proof, proof \in Seq(Range(proof)), Len(proof) = Cardinality(claimed)
  PROVE  Carried(proof) = proof
<1> DEFINE n == Cardinality(claimed)
           f == Carried(proof)
<1>1. n \in Nat
  BY Claimed
<1>2. f = [k \in 1..n |-> IF k <= Len(proof) THEN proof[k] ELSE Zero]
  BY DEF Carried, BatchSize
<1>3. DOMAIN proof = 1..n /\ proof = [k \in 1..n |-> proof[k]] /\ Len(proof) = n
  OBVIOUS
<1> HIDE DEF n, f
<1>4. \A k \in 1..n : (IF k <= Len(proof) THEN proof[k] ELSE Zero) = proof[k]
  BY <1>1, <1>3
<1>5. f = [k \in 1..n |-> proof[k]]
  BY <1>2, <1>4
<1>6. QED
  BY <1>3, <1>5 DEF f

(* A tree of one leaf has no flags. *)
LEMMA NoFlags ==
  ASSUME InputInv, Len(tree) = 1
  PROVE  Len(TheFlags) = 0
<1> DEFINE H == Height(Len(tree))
           FO == FlagOffset(tree, targets)
<1>1. Len(tree) \in Nat /\ targets \in SUBSET (1..Len(tree))
  BY DEF InputInv
<1>2. FO[0] = 0 /\ Len(Flags(tree, targets)) = FO[H]
  BY <1>1, FlagsAre
<1>3. H = 0
  BY HeightOfOne
<1> HIDE DEF H, FO
<1>4. QED
  BY <1>2, <1>3 DEF TheFlags

(* The last digest is compared, and it is one of the guest's.              *)
LEMMA GuestCompares ==
  ASSUME ZeroIsNoDigest, MarkTells, InputInv, GuestInv, TypeInv, CarryInv, DigestInv,
         guest \in {"current", "updated"}, Compare, pc' = "valid"
  PROVE  ExpectedRoot = Zero
<1>1. /\ turn = Len(TheFlags) + 1 /\ leafPos = Len(ClaimedLeaves) + 1
      /\ Last(hashes).node = ExpectedRoot
  BY DEF Compare, AllUsed
<1>2. /\ claimed = targets /\ targets # {} /\ Len(hashes) = turn - 1 /\ (turn = 1 => leafPos = 1)
      /\ \A i \in 1..Len(hashes) : Marked(hashes[i].node)
  BY DEF CarryInv, GuestInv, DigestInv
<1>3. Len(ClaimedLeaves) \in Nat /\ Len(ClaimedLeaves) # 0 /\ Len(TheFlags) \in Nat
  BY <1>2, Claimed, TheFlagsAre
<1>4. turn # 1 /\ Len(TheFlags) # 0 /\ Len(hashes) = Len(TheFlags)
  BY <1>1, <1>2, <1>3
<1>5. Marked(ExpectedRoot)
  <2>1. Last(hashes) = hashes[Len(hashes)] /\ Len(hashes) \in 1..Len(hashes)
    BY <1>3, <1>4 DEF Last
  <2>2. QED
    BY <1>1, <1>2, <2>1
<1>6. Unmarked(ExpectedRoot)
  <2>1. Len(tree) \in Nat /\ Len(tree) # 0 /\ Len(tree) # 1
    BY <1>4, NoFlags DEF InputInv
  <2>2. Len(TheLeaves) = Len(tree)
    BY TheTree
  <2>3. Len(TheLeaves) \in Nat /\ Len(TheLeaves) >= 2
    BY <2>1, <2>2
  <2>4. Raw # Zero /\ \A i \in 1..Len(TheLeaves) : TheLeaves[i] # Raw
    BY <2>2, LeavesApart
  <2>5. QED
    BY <2>3, <2>4, RootUnmarked DEF ExpectedRoot
<1>7. QED
  BY <1>5, <1>6 DEF Marked, Unmarked

LEMMA InitUpdate == GuestInit => UpdateInv
<1> SUFFICES ASSUME GuestInit
             PROVE  UpdateInv
  OBVIOUS
<1>1. hashes = <<>> /\ pc = "start"
  BY DEF GuestInit, Outside, Init, UpdateInit, InsertInit, LoopInit
<1>2. guest \in {"none", "current", "items"}
  BY DEF GuestInit, Outside, UpdateInit, InsertInit
<1>3. QED
  BY <1>1, <1>2 DEF UpdateInv, DigestInv, OnlyZeroUpdatesProven, Ended

LEMMA StepDigest ==
  ASSUME ZeroIsNoDigest, MarkTells, InputInv, GuestInv, TypeInv, CarryInv, DigestInv,
         [GuestNext]_guestVars
  PROVE  DigestInv'
<1>1. CASE CurrentVerified
  <2>1. guest = "current" /\ pc = "valid" /\ guest' = "updated" /\ pc' = "start" /\ hashes' = <<>>
        /\ tree' = tree
    BY <1>1 DEF CurrentVerified
  <2>2. side = "old" /\ ExpectedRoot = Zero
    BY <2>1 DEF CarryInv, DigestInv
  <2>3. MerkleRoot(tree) = Zero
    BY <2>2 DEF ExpectedRoot, TheLeaves
  <2>4. \A i \in 1..Len(hashes') : FALSE
    BY <2>1
  <2>5. QED
    BY <2>1, <2>3, <2>4 DEF DigestInv
<1>2. CASE guest' \in {"tree", "proven", "aborted"}
  BY <1>2 DEF DigestInv
<1>3. CASE (Verify \/ UNCHANGED vars) /\ guest' = guest
  <2> SUFFICES ASSUME guest \in {"current", "updated"}
               PROVE  DigestInv'
    BY <1>3 DEF DigestInv
  <2>1. UNCHANGED <<tree, targets, claimed, side, guest>> /\ ExpectedRoot' = ExpectedRoot
    <3>1. UNCHANGED <<tree, targets, claimed, side, guest>>
      BY <1>3, VerifyKeeps DEF vars, Inputs
    <3>2. QED
      BY <3>1, SameLeaves
  <2>2. /\ \A i \in 1..Len(hashes) : Marked(hashes[i].node)
        /\ pc = "valid" => ExpectedRoot = Zero
        /\ guest = "updated" => MerkleRoot(tree) = Zero
    BY DEF DigestInv
  <2>3. CASE UNCHANGED hashes /\ (pc' = pc \/ pc' # "valid")
    BY <2>1, <2>2, <2>3 DEF DigestInv
  <2>4. CASE Compare
    <3>1. hashes' = hashes
      BY <2>4 DEF Compare
    <3>2. pc' = "valid" => ExpectedRoot = Zero
      BY <2>4, GuestCompares
    <3>3. QED
      BY <2>1, <2>2, <3>1, <3>2 DEF DigestInv
  <2>5. CASE GuestHashPair \/ GuestHashWithProof
    <3>1. /\ pc' = pc
          /\ \E x, y, l : hashes' = Append(hashes, [node |-> GuestNode(x, y), level |-> l])
      BY <2>5 DEF GuestHashPair, GuestHashWithProof, GuestHash
    <3>2. PICK x, y, l : hashes' = Append(hashes, [node |-> GuestNode(x, y), level |-> l])
      BY <3>1
    <3>3. hashes \in Seq(Range(hashes)) /\ Len(hashes) \in Nat
      BY DEF TypeInv
    <3> DEFINE e == [node |-> GuestNode(x, y), level |-> l]
    <3>4. hashes' = Append(hashes, e) /\ Marked(e.node)
      BY <3>2, NodesAreMarked
    <3> HIDE DEF e
    <3>5. /\ Len(hashes') = Len(hashes) + 1 /\ hashes'[Len(hashes) + 1] = e
          /\ \A i \in 1..Len(hashes) : hashes'[i] = hashes[i]
      BY <3>3, <3>4, HashGrows
    <3>6. \A i \in 1..Len(hashes') : i \in 1..Len(hashes) \/ i = Len(hashes) + 1
      BY <3>3, <3>5
    <3>7. \A i \in 1..Len(hashes') : Marked(hashes'[i].node)
      BY <2>2, <3>4, <3>5, <3>6
    <3>8. QED
      BY <2>1, <2>2, <3>1, <3>7 DEF DigestInv
  <2>6. CASE StartSingle
    <3>1. handed = <<>> /\ handed = Carried(Proof(tree, targets)) /\ claimed = targets /\ targets # {}
      BY <2>6 DEF StartSingle, Single, CarryInv, GuestInv
    <3>2. Len(handed) # 0
      BY <3>1, CarriedIs, Claimed
    <3>3. QED
      BY <3>1, <3>2
  <2>7. QED
    BY <1>3, <2>3, <2>4, <2>5, <2>6 DEF Verify, Start, RunsDry, Leftover, vars, Loop
<1>4. QED
  BY <1>1, <1>2, <1>3, Steps

(* What a verdict in the guest is worth. *)
LEMMA Verdict ==
  ASSUME ZeroIsNoDigest, InputInv, GuestInv, TypeInv, WalkInv, CarryInv, DigestInv,
         guest \in {"current", "updated"}
  PROVE  /\ pc = "valid" /\ guest = "updated" =>
              /\ Len(Proof(tree, targets)) = BatchSize
              /\ MerkleRoot(tree) = Zero /\ MerkleRoot(Replaced) = Zero
         /\ pc = "invalid" =>
              ~ /\ Len(Proof(tree, targets)) = BatchSize
                /\ MerkleRoot(tree) = Zero /\ MerkleRoot(Replaced) = Zero
<1> DEFINE prf == Proof(tree, targets)
<1>1. claimed = targets /\ targets # {} /\ handed = Carried(prf) /\ (side = "old" <=> guest = "current")
  BY DEF CarryInv, GuestInv
<1>2. Len(handed) = BatchSize
  BY <1>1, CarriedIs DEF BatchSize
<1>3. ExpectedRoot = IF guest = "current" THEN MerkleRoot(tree) ELSE MerkleRoot(Replaced)
  BY <1>1 DEF ExpectedRoot, TheLeaves
<1>4. ExpectedRoot = Zero => AllZero
  <2>1. Len(TheLeaves) = Len(tree) /\ Len(TheLeaves) \in Nat \ {0}
    BY TheTree DEF InputInv
  <2>2. QED
    BY <2>1, ZeroRoot DEF ExpectedRoot, AllZero
<1>5. PICK H, at, FO, PO, L, z : TheWalk(H, at, FO, PO, L, z)
  BY DEF TheWalk
<1>6. AllZero => LoopInv(H, at, FO, PO, L, z) /\ ExpectedRoot = L[H][1] /\ z = prf
  BY <1>1, <1>5, OwnWalk DEF TheWalk
<1>7. Len(prf) = PO[H]
  BY <1>1, <1>5, Setting DEF TheWalk, IsSetting
<1>8. ASSUME pc = "valid", guest = "updated"
      PROVE  /\ Len(prf) = BatchSize
             /\ MerkleRoot(tree) = Zero /\ MerkleRoot(Replaced) = Zero
  <2>1. MerkleRoot(tree) = Zero /\ ExpectedRoot = Zero
    BY <1>8 DEF DigestInv
  <2>2. Len(handed) = PO[H]
    BY <1>4, <1>6, <1>8, <2>1 DEF LoopInv
  <2>3. QED
    BY <1>2, <1>3, <1>7, <1>8, <2>1, <2>2
<1>9. ASSUME pc = "invalid", Len(prf) = BatchSize, MerkleRoot(tree) = Zero, MerkleRoot(Replaced) = Zero
      PROVE  FALSE
  <2>1. prf \in Seq(Range(prf))
    BY TheFlagsAre
  <2>2. handed = prf
    BY <1>1, <1>9, <2>1, CarriedFits DEF BatchSize
  <2>3. AllZero
    BY <1>3, <1>4, <1>9
  <2>4. QED
    BY <1>6, <1>9, <2>2, <2>3 DEF LoopInv
<1>10. QED
  BY <1>8, <1>9

LEMMA StepUpdate ==
  ASSUME ZeroIsNoDigest, MarkTells, InputInv, GuestInv, TypeInv, WalkInv, CarryInv, UpdateInv,
         [GuestNext]_guestVars
  PROVE  UpdateInv'
<1>1. DigestInv /\ DigestInv' /\ OnlyZeroUpdatesProven
  BY StepDigest DEF UpdateInv
<1>2. CASE UNCHANGED Inputs /\ UNCHANGED <<guest, signed>>
  <2>1. UNCHANGED <<tree, targets, claimed, guest, signed>> /\ Replaced' = Replaced
    BY <1>2, SameLeaves DEF Inputs
  <2>2. QED
    BY <1>1, <2>1 DEF UpdateInv, OnlyZeroUpdatesProven, Ended, IsInsert, BatchSize
<1>3. CASE CurrentVerified
  BY <1>1, <1>3 DEF CurrentVerified, UpdateInv, OnlyZeroUpdatesProven, Ended
<1>4. CASE UpdatedVerified \/ VerificationFails
  <2>1. /\ UNCHANGED <<tree, targets, claimed, side, signed>>
        /\ \/ guest = "updated" /\ pc = "valid" /\ guest' = IF signed THEN "proven" ELSE "aborted"
           \/ guest \in {"current", "updated"} /\ pc = "invalid" /\ guest' = "aborted"
    BY <1>4 DEF UpdatedVerified, VerificationFails, vars, Inputs
  <2>2. Replaced' = Replaced /\ BatchSize' = BatchSize
    BY <2>1, SameLeaves DEF BatchSize
  <2>3. (guest = "proven")'
          <=> /\ signed /\ Len(Proof(tree, targets)) = BatchSize
              /\ MerkleRoot(tree) = Zero /\ MerkleRoot(Replaced) = Zero
    BY <1>1, <2>1, Verdict DEF InputInv
  <2>4. OnlyZeroUpdatesProven'
    BY <2>1, <2>2, <2>3 DEF OnlyZeroUpdatesProven
  <2>5. QED
    BY <1>1, <2>4 DEF UpdateInv
<1>5. CASE InsertItems \/ InsertCompare
  <2>1. guest \in {"items", "tree"} /\ guest' \in {"tree", "proven", "aborted"} /\ targets' = targets
    BY <1>5 DEF InsertItems, InsertCompare, vars, Inputs
  <2>2. targets = {}
    BY <2>1 DEF GuestInv
  <2>3. QED
    BY <1>1, <2>1, <2>2 DEF UpdateInv, OnlyZeroUpdatesProven, IsInsert
<1>6. CASE Verify \/ InsertLevel \/ UNCHANGED guestVars
  <2>1. UNCHANGED Inputs /\ UNCHANGED <<guest, signed>>
    BY <1>6, VerifyKeeps DEF InsertLevel, guestVars, vars
  <2>2. QED
    BY <1>2, <2>1
<1>7. QED
  BY <1>3, <1>4, <1>5, <1>6 DEF GuestNext

(* Given the roots and the proof merkle.rs makes, the update guest proves an *)
(* honest batch exactly if it is signed, all leaves are zero before and      *)
(* after, and the proof has one node per item, whatever the tree and the     *)
(* batch (update.rs:24-35, 52-79, 178-191, merkle.rs:10-12).                 *)
THEOREM ZeroUpdates ==
  ZeroIsNoDigest /\ MarkTells => (GuestSpec => []OnlyZeroUpdatesProven)
<1> SUFFICES ASSUME ZeroIsNoDigest, MarkTells
             PROVE  GuestSpec => []OnlyZeroUpdatesProven
  OBVIOUS
<1> DEFINE I == InputInv /\ GuestInv /\ TypeInv /\ WalkInv /\ CarryInv /\ UpdateInv
<1>1. GuestInit => I
  BY InitInputs, InitType, InitWalk, InitUpdate
<1>2. I /\ [GuestNext]_guestVars => I'
  BY StepInputs, StepType, StepWalk, StepCarry, StepUpdate
<1>3. I => OnlyZeroUpdatesProven
  BY DEF UpdateInv
<1>4. QED
  BY <1>1, <1>2, <1>3, PTL DEF GuestSpec

=============================================================================
