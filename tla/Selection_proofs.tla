-------------------------- MODULE Selection_proofs ---------------------------
(***************************************************************************)
(* The k-th element of a finite set of numbers exists, and Pick keeps      *)
(* order, distinctness and elements.                                       *)
(***************************************************************************)
EXTENDS Selection, SequencesExt, FiniteSetTheorems, TLAPS

(* A list is a function on the first numbers, and every such function is a *)
(* list.                                                                   *)
LEMMA ListDomain ==
  ASSUME NEW s, IsList(s)
  PROVE  /\ DOMAIN s = 1 .. Len(s) /\ Len(s) \in Nat
         /\ s = [i \in 1 .. Len(s) |-> s[i]]
         /\ \A S : (\A i \in DOMAIN s : s[i] \in S) => s \in Seq(S)
<1> DEFINE E == {s[i] : i \in DOMAIN s}
<1>1. s \in Seq(E)
  BY DEF IsList
<1> HIDE DEF E
<1>2. DOMAIN s = 1 .. Len(s) /\ Len(s) \in Nat /\ s \in [1 .. Len(s) -> E]
  BY <1>1
<1>3. s = [i \in 1 .. Len(s) |-> s[i]]
  BY <1>2
<1>4. ASSUME NEW S, \A i \in DOMAIN s : s[i] \in S
      PROVE  s \in Seq(S)
  <2>1. s \in [1 .. Len(s) -> S]
    BY <1>2, <1>4
  <2> QED
    BY <2>1, <1>2
<1> QED
  BY <1>2, <1>3, <1>4

LEMMA FunctionIsList ==
  ASSUME NEW n \in Nat, NEW f, DOMAIN f = 1 .. n, f = [i \in 1 .. n |-> f[i]]
  PROVE  IsList(f) /\ Len(f) = n
<1> DEFINE E == {f[i] : i \in DOMAIN f}
<1>1. f \in [1 .. n -> E]
  OBVIOUS
<1> HIDE DEF E
<1>2. f \in Seq(E) /\ Len(f) = n
  BY <1>1
<1> QED
  BY <1>2 DEF IsList, E

LEMMA SequenceIsList ==
  ASSUME NEW S, NEW q \in Seq(S)
  PROVE  IsList(q)
<1>1. q \in [1 .. Len(q) -> S] /\ Len(q) \in Nat
  OBVIOUS
<1>2. DOMAIN q = 1 .. Len(q) /\ q = [i \in 1 .. Len(q) |-> q[i]]
  BY <1>1
<1> QED
  BY <1>1, <1>2, FunctionIsList

LEMMA ListsEqual ==
  ASSUME NEW s, NEW t, IsList(s), IsList(t), Len(s) = Len(t),
         \A i \in 1 .. Len(s) : s[i] = t[i]
  PROVE  s = t
<1>1. s = [i \in 1 .. Len(s) |-> s[i]] /\ t = [i \in 1 .. Len(t) |-> t[i]]
  BY ListDomain
<1> QED
  BY <1>1

LEMMA AppendList ==
  ASSUME NEW s, IsList(s), NEW x
  PROVE  /\ IsList(Append(s, x)) /\ Len(Append(s, x)) = Len(s) + 1 /\ Len(s) \in Nat
         /\ DOMAIN s = 1 .. Len(s) /\ DOMAIN Append(s, x) = 1 .. Len(s) + 1
         /\ \A i \in 1 .. Len(s) : Append(s, x)[i] = s[i]
         /\ Append(s, x)[Len(s) + 1] = x
<1> DEFINE S == {s[i] : i \in DOMAIN s} \cup {x}
<1>1. s \in Seq(S) /\ x \in S
  BY ListDomain
<1>2. DOMAIN s = 1 .. Len(s) /\ Len(s) \in Nat
  BY ListDomain
<1> HIDE DEF S
<1>3. /\ Append(s, x) \in Seq(S) /\ Len(Append(s, x)) = Len(s) + 1
      /\ \A i \in 1 .. Len(s) : Append(s, x)[i] = s[i]
      /\ Append(s, x)[Len(s) + 1] = x
  BY <1>1
<1> QED
  BY <1>2, <1>3, SequenceIsList, ListDomain

(* What follows a list comes after its elements.                           *)
LEMMA ConcatLists ==
  ASSUME NEW s, NEW t, IsList(s), IsList(t)
  PROVE  /\ IsList(s \o t) /\ Len(s \o t) = Len(s) + Len(t)
         /\ DOMAIN (s \o t) = 1 .. Len(s) + Len(t)
         /\ \A i \in DOMAIN s : i \in DOMAIN (s \o t) /\ (s \o t)[i] = s[i]
         /\ \A i \in DOMAIN t : /\ Len(s) + i \in DOMAIN (s \o t)
                               /\ (s \o t)[Len(s) + i] = t[i]
         /\ \A i \in DOMAIN (s \o t) :
               \/ i \in DOMAIN s /\ (s \o t)[i] = s[i]
               \/ i \notin DOMAIN s /\ i - Len(s) \in DOMAIN t /\ (s \o t)[i] = t[i - Len(s)]
<1> DEFINE S == {s[i] : i \in DOMAIN s} \cup {t[i] : i \in DOMAIN t}
<1>1. s \in Seq(S) /\ t \in Seq(S)
  BY ListDomain
<1>2. /\ DOMAIN s = 1 .. Len(s) /\ Len(s) \in Nat
      /\ DOMAIN t = 1 .. Len(t) /\ Len(t) \in Nat
  BY ListDomain
<1> HIDE DEF S
<1>3. s \o t \in Seq(S) /\ Len(s \o t) = Len(s) + Len(t)
  BY <1>1
<1>4. DOMAIN (s \o t) = 1 .. Len(s) + Len(t)
  BY <1>3
<1>5. \A i \in 1 .. Len(s) + Len(t) :
         (s \o t)[i] = IF i <= Len(s) THEN s[i] ELSE t[i - Len(s)]
  BY <1>1, <1>2
<1>6. IsList(s \o t)
  BY <1>3, SequenceIsList
<1>7. ASSUME NEW i \in DOMAIN s
      PROVE  i \in DOMAIN (s \o t) /\ (s \o t)[i] = s[i]
  BY <1>2, <1>4, <1>5
<1>8. ASSUME NEW i \in DOMAIN t
      PROVE  Len(s) + i \in DOMAIN (s \o t) /\ (s \o t)[Len(s) + i] = t[i]
  BY <1>2, <1>4, <1>5
<1>9. ASSUME NEW i \in DOMAIN (s \o t)
      PROVE  \/ i \in DOMAIN s /\ (s \o t)[i] = s[i]
             \/ i \notin DOMAIN s /\ i - Len(s) \in DOMAIN t /\ (s \o t)[i] = t[i - Len(s)]
  BY <1>2, <1>4, <1>5
<1> QED
  BY <1>3, <1>4, <1>6, <1>7, <1>8, <1>9
------------------------------------------------------------------------------
(* The rank of an element lies between 1 and the size of the set.          *)
LEMMA RankRange ==
  ASSUME NEW I \in SUBSET Int, IsFiniteSet(I), NEW i \in I
  PROVE  Rank(I, i) \in 1 .. Cardinality(I)
<1> DEFINE J == {j \in I : j <= i}
<1>1. IsFiniteSet(J) /\ Cardinality(J) <= Cardinality(I)
  BY FS_Subset
<1>2. Cardinality(J) \in Nat /\ Cardinality(I) \in Nat
  BY <1>1, FS_CardinalityType
<1>3. J # {}
  <2>1. i \in J
    OBVIOUS
  <2> QED
    BY <2>1
<1>4. Cardinality(J) # 0
  BY <1>1, <1>3, FS_EmptySet
<1> QED
  BY <1>1, <1>2, <1>4 DEF Rank

(* A larger element has a larger rank.                                     *)
LEMMA RankGrows ==
  ASSUME NEW I \in SUBSET Int, IsFiniteSet(I), NEW i \in I, NEW j \in I, i < j
  PROVE  Rank(I, i) < Rank(I, j)
<1> DEFINE A == {x \in I : x <= i}
           B == {x \in I : x <= j}
<1>0. IsFiniteSet(B)
  BY FS_Subset
<1>1. A \subseteq B
  <2>1. SUFFICES ASSUME NEW x \in A PROVE x \in B
    OBVIOUS
  <2>2. x \in Int /\ i \in Int /\ j \in Int
    OBVIOUS
  <2> QED
    BY <2>1, <2>2
<1>2. IsFiniteSet(A) /\ Cardinality(A) <= Cardinality(B)
      /\ (Cardinality(A) = Cardinality(B) => A = B)
  BY <1>0, <1>1, FS_Subset
<1>3. j \in B /\ j \notin A
  OBVIOUS
<1>4. Cardinality(A) \in Nat /\ Cardinality(B) \in Nat
  BY <1>0, <1>2, FS_CardinalityType
<1>5. Cardinality(A) # Cardinality(B)
  BY <1>2, <1>3
<1> QED
  BY <1>2, <1>4, <1>5 DEF Rank

(* Every number up to the size of the set is the rank of an element.       *)
LEMMA NthInSet ==
  ASSUME NEW I \in SUBSET Int, IsFiniteSet(I), NEW k \in 1 .. Cardinality(I)
  PROVE  Nth(I, k) \in I /\ Rank(I, Nth(I, k)) = k
<1> DEFINE N == 1 .. Cardinality(I)
           r == [i \in I |-> Rank(I, i)]
<1>1. Cardinality(I) \in Nat
  BY FS_CardinalityType
<1>2. IsFiniteSet(N) /\ Cardinality(N) = Cardinality(I)
  BY <1>1, FS_Interval
<1>3. r \in [I -> N]
  BY RankRange
<1>4. ASSUME NEW i \in I, NEW j \in I, i # j
      PROVE  r[i] # r[j]
  <2>1. r[i] \in Int /\ r[j] \in Int
    BY <1>3, <1>1
  <2>2. CASE i < j
    BY <2>2, <2>1, RankGrows
  <2>3. CASE j < i
    BY <2>3, <2>1, RankGrows
  <2> QED
    BY <2>2, <2>3, <1>4
<1>5. r \in Injection(I, N)
  BY <1>3, <1>4 DEF Injection, IsInjective
<1>6. r \in Surjection(I, N)
  BY <1>5, <1>2, FS_Injection
<1>7. \E i \in I : Rank(I, i) = k
  BY <1>6 DEF Surjection
<1> QED
  BY <1>7 DEF Nth

(* The k-th elements are distinct and in order.                            *)
LEMMA NthGrows ==
  ASSUME NEW I \in SUBSET Int, IsFiniteSet(I),
         NEW k \in 1 .. Cardinality(I), NEW l \in 1 .. Cardinality(I), k < l
  PROVE  Nth(I, k) < Nth(I, l)
<1>1. /\ Nth(I, k) \in I /\ Rank(I, Nth(I, k)) = k
      /\ Nth(I, l) \in I /\ Rank(I, Nth(I, l)) = l
  BY NthInSet
<1>2. Cardinality(I) \in Nat
  BY FS_CardinalityType
<1>3. Nth(I, k) # Nth(I, l)
  BY <1>1, <1>2
<1>4. ~(Nth(I, l) < Nth(I, k))
  <2>1. SUFFICES ASSUME Nth(I, l) < Nth(I, k) PROVE FALSE
    OBVIOUS
  <2>2. l < k
    BY <1>1, <2>1, RankGrows
  <2> QED
    BY <2>2, <1>2
<1>5. Nth(I, k) \in Int /\ Nth(I, l) \in Int
  BY <1>1
<1> QED
  BY <1>3, <1>4, <1>5

(* The element whose rank is asked for is the element.                     *)
LEMMA NthOfRank ==
  ASSUME NEW I \in SUBSET Int, IsFiniteSet(I), NEW i \in I
  PROVE  /\ Rank(I, i) \in 1 .. Cardinality(I)
         /\ Nth(I, Rank(I, i)) = i
<1> DEFINE k == Rank(I, i)
<1>1. k \in 1 .. Cardinality(I)
  BY RankRange
<1>2. Nth(I, k) \in I /\ Rank(I, Nth(I, k)) = k
  BY <1>1, NthInSet
<1>3. Cardinality(I) \in Nat
  BY FS_CardinalityType
<1>4. ~(Nth(I, k) < i)
  <2>1. SUFFICES ASSUME Nth(I, k) < i PROVE FALSE
    OBVIOUS
  <2>2. Rank(I, Nth(I, k)) < Rank(I, i)
    BY <1>2, <2>1, RankGrows
  <2> QED
    BY <2>2, <1>1, <1>2, <1>3
<1>5. ~(i < Nth(I, k))
  <2>1. SUFFICES ASSUME i < Nth(I, k) PROVE FALSE
    OBVIOUS
  <2>2. Rank(I, i) < Rank(I, Nth(I, k))
    BY <1>2, <2>1, RankGrows
  <2> QED
    BY <2>2, <1>1, <1>2, <1>3
<1>6. Nth(I, k) \in Int /\ i \in Int
  BY <1>2
<1>7. Nth(I, k) = i
  BY <1>4, <1>5, <1>6
<1> QED
  BY <1>1, <1>7

(* What is picked are the elements at the positions, each once, in order.  *)
LEMMA PickFacts ==
  ASSUME NEW s, IsList(s), NEW I \in SUBSET (DOMAIN s)
  PROVE  /\ IsFiniteSet(I) /\ Cardinality(I) \in Nat
         /\ IsList(Pick(s, I)) /\ Len(Pick(s, I)) = Cardinality(I)
         /\ DOMAIN Pick(s, I) = 1 .. Cardinality(I)
         /\ \A k \in DOMAIN Pick(s, I) : Nth(I, k) \in I /\ Pick(s, I)[k] = s[Nth(I, k)]
         /\ \A i \in I : Rank(I, i) \in DOMAIN Pick(s, I) /\ Pick(s, I)[Rank(I, i)] = s[i]
         /\ \A k, l \in DOMAIN Pick(s, I) : k # l => Nth(I, k) # Nth(I, l)
<1>1. DOMAIN s = 1 .. Len(s) /\ Len(s) \in Nat
  BY ListDomain
<1>2. IsFiniteSet(I) /\ I \in SUBSET Int
  <2>1. IsFiniteSet(1 .. Len(s))
    BY <1>1, FS_Interval
  <2>2. I \in SUBSET (1 .. Len(s))
    BY <1>1
  <2>3. IsFiniteSet(I)
    BY <2>1, <2>2, FS_Subset
  <2>4. I \in SUBSET Int
    BY <2>2, <1>1
  <2> QED
    BY <2>3, <2>4
<1>3. Cardinality(I) \in Nat
  BY <1>2, FS_CardinalityType
<1>4. DOMAIN Pick(s, I) = 1 .. Cardinality(I)
  BY DEF Pick
<1>5. ASSUME NEW k \in 1 .. Cardinality(I)
      PROVE  Nth(I, k) \in I /\ Pick(s, I)[k] = s[Nth(I, k)]
  BY <1>2, NthInSet DEF Pick
<1>6. Pick(s, I) = [k \in 1 .. Cardinality(I) |-> Pick(s, I)[k]]
  BY DEF Pick
<1>7. IsList(Pick(s, I)) /\ Len(Pick(s, I)) = Cardinality(I)
  BY <1>3, <1>4, <1>6, FunctionIsList
<1>8. ASSUME NEW i \in I
      PROVE  Rank(I, i) \in 1 .. Cardinality(I) /\ Pick(s, I)[Rank(I, i)] = s[i]
  BY <1>2, NthOfRank DEF Pick
<1>9. ASSUME NEW k \in 1 .. Cardinality(I), NEW l \in 1 .. Cardinality(I), k # l
      PROVE  Nth(I, k) # Nth(I, l)
  <2>1. Rank(I, Nth(I, k)) = k /\ Rank(I, Nth(I, l)) = l
    BY <1>2, NthInSet
  <2> QED
    BY <2>1, <1>9
<1> QED
  BY <1>2, <1>3, <1>4, <1>5, <1>7, <1>8, <1>9

(* A sequence without repetitions is as long as its set of elements.       *)
LEMMA DistinctLength ==
  ASSUME NEW s, IsList(s), \A i, j \in DOMAIN s : s[i] = s[j] => i = j,
         NEW T, T = {s[i] : i \in DOMAIN s}
  PROVE  IsFiniteSet(T) /\ Cardinality(T) = Len(s)
<1>1. /\ DOMAIN s = 1 .. Len(s) /\ Len(s) \in Nat
      /\ s = [i \in 1 .. Len(s) |-> s[i]]
  BY ListDomain
<1>2. IsFiniteSet(1 .. Len(s)) /\ Cardinality(1 .. Len(s)) = Len(s)
  BY <1>1, FS_Interval
<1>3. s \in [1 .. Len(s) -> T]
  BY <1>1
<1>4. s \in Bijection(1 .. Len(s), T)
  BY <1>1, <1>3 DEF Bijection, Injection, Surjection, IsInjective
<1>5. ExistsBijection(1 .. Len(s), T)
  BY <1>4 DEF ExistsBijection
<1> QED
  BY <1>2, <1>5, FS_Bijection

(* Of the first numbers, the k-th is k.                                    *)
LEMMA NthOfAll ==
  ASSUME NEW n \in Nat
  PROVE  Cardinality(1 .. n) = n /\ \A k \in 1 .. n : Nth(1 .. n, k) = k
<1>1. IsFiniteSet(1 .. n) /\ Cardinality(1 .. n) = n
  BY FS_Interval
<1>2. ASSUME NEW k \in 1 .. n
      PROVE  Nth(1 .. n, k) = k
  <2>1. {j \in 1 .. n : j <= k} = 1 .. k
    OBVIOUS
  <2>2. Cardinality(1 .. k) = k
    BY FS_Interval
  <2>3. Rank(1 .. n, k) = k
    BY <2>1, <2>2 DEF Rank
  <2> QED
    BY <1>1, <2>3, NthOfRank
<1> QED
  BY <1>1, <1>2

(* An order of a set names every element once.                             *)
LEMMA OrderOfSet ==
  ASSUME NEW S, IsFiniteSet(S), NEW order \in SetToSeqs(S)
  PROVE  /\ order \in [1 .. Cardinality(S) -> S] /\ Cardinality(S) \in Nat
         /\ \A i, j \in 1 .. Cardinality(S) : order[i] = order[j] => i = j
         /\ \A x \in S : \E i \in 1 .. Cardinality(S) : order[i] = x
<1> DEFINE n == Cardinality(S)
<1>1. n \in Nat
  BY FS_CardinalityType
<1>2. /\ order \in [1 .. n -> S]
      /\ \A i, j \in 1 .. n : order[i] = order[j] => i = j
  BY DEF SetToSeqs
<1>3. order \in Injection(1 .. n, S)
  BY <1>2 DEF Injection, IsInjective
<1>4. Cardinality(1 .. n) = n
  BY <1>1, FS_Interval
<1>5. order \in Surjection(1 .. n, S)
  BY <1>3, <1>4, FS_Injection
<1> QED
  BY <1>1, <1>2, <1>5 DEF Surjection
==============================================================================
