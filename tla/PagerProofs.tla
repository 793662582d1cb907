---------------------------- MODULE PagerProofs ----------------------------
(***************************************************************************)
(* Proofs about Listing and Pager, for every finite set of keys, every     *)
(* page size and every number of calls under way, however answers overtake *)
(* each other: what a page holds, and what the table and the totals show.  *)
(***************************************************************************)
EXTENDS Pager, FiniteSetTheorems, FunctionTheorems, SequenceTheorems, TLAPS

-----------------------------------------------------------------------------
(* Counting: induction, by the pigeons of a set that is closed under n + 1,  *)
(* and the least of a set.                                                   *)

LEMMA ByCounting ==
  ASSUME NEW S, 0 \in S, \A n \in Nat : n \in S => n + 1 \in S
  PROVE  Nat \subseteq S
  <1> SUFFICES ASSUME NEW n \in Nat, n \notin S PROVE FALSE
    OBVIOUS
  <1> DEFINE T == (0..n) \cap S  U == T \ {0}  f == [k \in T |-> k + 1]
  <1>1. IsFiniteSet(T) /\ Cardinality(T) \in Nat
    <2>1. IsFiniteSet(0..n)
      BY FS_Interval
    <2> QED
      BY <2>1, FS_Subset, FS_CardinalityType
  <1>2. IsFiniteSet(U) /\ Cardinality(U) < Cardinality(T)
    <2>1. 0 \in T
      OBVIOUS
    <2> HIDE DEF T
    <2>2. IsFiniteSet(T \ {0})
          /\ Cardinality(T \ {0}) = IF 0 \in T THEN Cardinality(T) - 1 ELSE Cardinality(T)
      BY <1>1, FS_RemoveElement
    <2> QED
      BY <1>1, <2>1, <2>2
  <1>3. f \in [T -> U]
    <2> SUFFICES ASSUME NEW k \in T PROVE k + 1 \in U
      OBVIOUS
    <2>1. k \in Nat /\ k <= n /\ k # n /\ k \in S
      OBVIOUS
    <2> QED
      BY <2>1
  <1>4. PICK x \in T, y \in T : x # y /\ f[x] = f[y]
    <2> HIDE DEF T, U, f
    <2> QED
      BY <1>1, <1>2, <1>3, FS_PigeonHole
  <1> QED
    BY <1>4

LEMMA LeastOf ==
  ASSUME NEW S \in SUBSET Nat, NEW n \in S
  PROVE  \E m \in S : \A k \in S : m <= k
  <1> DEFINE Q == \E m \in S : \A k \in S : m <= k
             T == {i \in Nat : (\E k \in S : k <= i) => Q}
  <1>1. 0 \in T
    <2> SUFFICES ASSUME NEW k \in S, k <= 0 PROVE Q
      OBVIOUS
    <2>1. k = 0
      OBVIOUS
    <2> QED
      BY <2>1
  <1>2. \A i \in Nat : i \in T => i + 1 \in T
    <2> SUFFICES ASSUME NEW i \in T, NEW k \in S, k <= i + 1, ~\E j \in S : j <= i PROVE Q
      OBVIOUS
    <2>1. \A j \in S : i + 1 <= j
      OBVIOUS
    <2>2. k = i + 1
      BY <2>1
    <2> QED
      BY <2>1, <2>2
  <1> HIDE DEF Q
  <1>3. n \in T
    BY <1>1, <1>2, ByCounting
  <1> QED
    BY <1>3 DEF Q

-----------------------------------------------------------------------------
(* The order of keys: of two keys one comes first.                           *)

\* The first n bytes are the same, and then a ends or has the lesser byte.
Parts(a, b, n) ==
  /\ n <= Len(a) /\ n < Len(b)
  /\ \A i \in 1..n : a[i] = b[i]
  /\ n = Len(a) \/ a[n + 1] < b[n + 1]

LEMMA LessMeans ==
  ASSUME NEW a \in Seq(Nat), NEW b \in Seq(Nat)
  PROVE  Less(a, b) <=> \E n \in Nat : Parts(a, b, n)
  <1>1. ASSUME NEW n \in Nat, n <= Len(a), n < Len(b)
        PROVE  SubSeq(a, 1, n) = SubSeq(b, 1, n) <=> \A i \in 1..n : a[i] = b[i]
    <2>1. /\ SubSeq(a, 1, n) \in Seq(Nat) /\ Len(SubSeq(a, 1, n)) = n
          /\ \A i \in 1..n : SubSeq(a, 1, n)[i] = a[i]
      <3>1. \A i \in 1..n : a[i] \in Nat
        BY <1>1
      <3> QED
        BY <1>1, <3>1, SubSeqProperties
    <2>2. /\ SubSeq(b, 1, n) \in Seq(Nat) /\ Len(SubSeq(b, 1, n)) = n
          /\ \A i \in 1..n : SubSeq(b, 1, n)[i] = b[i]
      <3>1. \A i \in 1..n : b[i] \in Nat
        BY <1>1
      <3> QED
        BY <1>1, <3>1, SubSeqProperties
    <2>3. ASSUME \A i \in 1..n : a[i] = b[i] PROVE SubSeq(a, 1, n) = SubSeq(b, 1, n)
      BY <2>1, <2>2, <2>3, SeqEqual
    <2> QED
      BY <2>1, <2>2, <2>3
  <1>2. Less(a, b) <=> \E n \in Nat : /\ n <= Len(a) /\ n < Len(b)
                                      /\ SubSeq(a, 1, n) = SubSeq(b, 1, n)
                                      /\ n = Len(a) \/ a[n + 1] < b[n + 1]
    BY DEF Less
  <1> QED
    BY <1>1, <1>2 DEF Parts

LEMMA LessIrreflexive ==
  ASSUME NEW a \in Seq(Nat)
  PROVE  ~Less(a, a)
  <1> SUFFICES ASSUME NEW n \in Nat, Parts(a, a, n) PROVE FALSE
    BY LessMeans
  <1> QED
    BY DEF Parts

LEMMA LessTransitive ==
  ASSUME NEW a \in Seq(Nat), NEW b \in Seq(Nat), NEW c \in Seq(Nat), Less(a, b), Less(b, c)
  PROVE  Less(a, c)
  <1>1. PICK n \in Nat : Parts(a, b, n)
    BY LessMeans
  <1>2. PICK m \in Nat : Parts(b, c, m)
    BY LessMeans
  <1>3. /\ n <= Len(a) /\ n < Len(b) /\ \A i \in 1..n : a[i] = b[i]
        /\ n = Len(a) \/ a[n + 1] < b[n + 1]
    BY <1>1 DEF Parts
  <1>4. /\ m <= Len(b) /\ m < Len(c) /\ \A i \in 1..m : b[i] = c[i]
        /\ m = Len(b) \/ b[m + 1] < c[m + 1]
    BY <1>2 DEF Parts
  <1>5. /\ Len(a) \in Nat /\ Len(b) \in Nat /\ Len(c) \in Nat
        /\ \A i \in 1..Len(a) : a[i] \in Nat
        /\ \A i \in 1..Len(b) : b[i] \in Nat
        /\ \A i \in 1..Len(c) : c[i] \in Nat
    OBVIOUS
  <1>6. CASE n < m
    <2>1. b[n + 1] = c[n + 1] /\ \A i \in 1..n : b[i] = c[i]
      BY <1>4, <1>6
    <2>2. n = Len(a) \/ a[n + 1] < c[n + 1]
      BY <1>3, <2>1
    <2>3. n <= Len(a) /\ n < Len(c)
      BY <1>3, <1>4, <1>5, <1>6
    <2>4. \A i \in 1..n : a[i] = c[i]
      BY <1>3, <2>1
    <2>5. Parts(a, c, n)
      BY <2>2, <2>3, <2>4 DEF Parts
    <2> QED
      BY <2>5, LessMeans
  <1>7. CASE m < n
    <2>1. a[m + 1] = b[m + 1] /\ (\A i \in 1..m : a[i] = b[i]) /\ m # Len(b)
      BY <1>3, <1>5, <1>7
    <2>2. a[m + 1] < c[m + 1]
      BY <1>4, <2>1
    <2>3. m <= Len(a) /\ m < Len(c)
      BY <1>3, <1>4, <1>5, <1>7
    <2>4. \A i \in 1..m : a[i] = c[i]
      BY <1>4, <2>1
    <2>5. Parts(a, c, m)
      BY <2>2, <2>3, <2>4 DEF Parts
    <2> QED
      BY <2>5, LessMeans
  <1>8. CASE m = n
    <2>1. m # Len(b)
      BY <1>3, <1>5, <1>8
    <2>2. n = Len(a) \/ a[n + 1] < c[n + 1]
      <3>1. SUFFICES ASSUME n # Len(a) PROVE a[n + 1] < c[n + 1]
        OBVIOUS
      <3>2. n + 1 \in 1..Len(a) /\ n + 1 \in 1..Len(b) /\ n + 1 \in 1..Len(c)
        BY <1>3, <1>4, <1>5, <1>8, <3>1
      <3>3. a[n + 1] \in Nat /\ b[n + 1] \in Nat /\ c[n + 1] \in Nat
        BY <1>5, <3>2
      <3>4. a[n + 1] < b[n + 1] /\ b[n + 1] < c[n + 1]
        BY <1>3, <1>4, <1>8, <2>1, <3>1
      <3> QED
        BY <3>3, <3>4
    <2>3. n <= Len(a) /\ n < Len(c)
      BY <1>3, <1>4, <1>8
    <2>4. \A i \in 1..n : a[i] = c[i]
      BY <1>3, <1>4, <1>8
    <2>5. Parts(a, c, n)
      BY <2>2, <2>3, <2>4 DEF Parts
    <2> QED
      BY <2>5, LessMeans
  <1> QED
    BY <1>6, <1>7, <1>8

LEMMA LessTotal ==
  ASSUME NEW a \in Seq(Nat), NEW b \in Seq(Nat), a # b
  PROVE  Less(a, b) \/ Less(b, a)
  <1> DEFINE D == {i \in Nat : ~(i < Len(a) /\ i < Len(b) /\ a[i + 1] = b[i + 1])}
  <1>1. Len(a) \in D
    OBVIOUS
  <1>2. PICK m \in D : \A k \in D : m <= k
    <2> HIDE DEF D
    <2>1. D \in SUBSET Nat
      BY DEF D
    <2> QED
      BY <1>1, <2>1, LeastOf
  <1>3. \A i \in 0..(m - 1) : i < Len(a) /\ i < Len(b) /\ a[i + 1] = b[i + 1]
    <2>1. m \in Nat
      OBVIOUS
    <2>2. \A i \in Nat : i \notin D => i < Len(a) /\ i < Len(b) /\ a[i + 1] = b[i + 1]
      OBVIOUS
    <2>3. \A i \in 0..(m - 1) : i \in Nat /\ ~(m <= i)
      BY <2>1
    <2> HIDE DEF D
    <2> QED
      BY <1>2, <2>2, <2>3
  <1>4. /\ m \in Nat /\ Len(a) \in Nat /\ Len(b) \in Nat
        /\ ~(m < Len(a) /\ m < Len(b) /\ a[m + 1] = b[m + 1])
    OBVIOUS
  <1> HIDE DEF D
  <1>5. m <= Len(a) /\ m <= Len(b)
    <2>1. m = 0 \/ m - 1 \in 0..(m - 1)
      BY <1>4
    <2> QED
      BY <1>3, <1>4, <2>1
  <1>6. \A i \in 1..m : a[i] = b[i]
    <2> SUFFICES ASSUME NEW i \in 1..m PROVE a[i] = b[i]
      OBVIOUS
    <2>1. i - 1 \in 0..(m - 1) /\ (i - 1) + 1 = i
      BY <1>4
    <2> QED
      BY <1>3, <2>1
  <1>7. ~(m = Len(a) /\ m = Len(b))
    BY <1>6, SeqEqual
  <1>8. CASE m = Len(a) /\ m < Len(b)
    <2>1. Parts(a, b, m)
      BY <1>4, <1>6, <1>8 DEF Parts
    <2> QED
      BY <1>4, <2>1, LessMeans
  <1>9. CASE m = Len(b) /\ m < Len(a)
    <2>1. Parts(b, a, m)
      BY <1>4, <1>6, <1>9 DEF Parts
    <2> QED
      BY <1>4, <2>1, LessMeans
  <1>10. CASE m < Len(a) /\ m < Len(b)
    <2>1. m + 1 \in 1..Len(a) /\ m + 1 \in 1..Len(b)
      BY <1>4, <1>10
    <2>2. a[m + 1] # b[m + 1] /\ a[m + 1] \in Nat /\ b[m + 1] \in Nat
      BY <1>4, <1>10, <2>1
    <2>3. CASE a[m + 1] < b[m + 1]
      <3>1. Parts(a, b, m)
        BY <1>4, <1>6, <1>10, <2>3 DEF Parts
      <3> QED
        BY <1>4, <3>1, LessMeans
    <2>4. CASE b[m + 1] < a[m + 1]
      <3>1. Parts(b, a, m)
        BY <1>4, <1>6, <1>10, <2>4 DEF Parts
      <3> QED
        BY <1>4, <3>1, LessMeans
    <2> QED
      BY <2>2, <2>3, <2>4
  <1>11. \/ m = Len(a) /\ m < Len(b)
         \/ m = Len(b) /\ m < Len(a)
         \/ m < Len(a) /\ m < Len(b)
    BY <1>4, <1>5, <1>7
  <1> QED
    BY <1>8, <1>9, <1>10, <1>11

LEMMA KeysInOrder ==
  ASSUME NEW a \in Keys, NEW b \in Keys
  PROVE  /\ ~Before(a, a)
         /\ a # b => Before(a, b) \/ Before(b, a)
         /\ ~(Before(a, b) /\ Before(b, a))
         /\ \A c \in Keys : Before(a, b) /\ Before(b, c) => Before(a, c)
  <1>1. \A x, y : Before(x, y) <=> x \in Keys /\ y \in Keys /\ Less(x, y)
    BY DEF Before, Order
  <1>2. Keys \subseteq Seq(Nat)
    BY ListingConstants
  <1>3. ~Before(a, a)
    BY <1>1, <1>2, LessIrreflexive
  <1>4. a # b => Before(a, b) \/ Before(b, a)
    BY <1>1, <1>2, LessTotal
  <1>5. ASSUME NEW c \in Keys, Before(a, b), Before(b, c) PROVE Before(a, c)
    BY <1>1, <1>2, <1>5, LessTransitive
  <1> QED
    BY <1>3, <1>4, <1>5

-----------------------------------------------------------------------------
(* Ranks: how many keys of a set come before a key.                          *)

Rank(keys, k) == Cardinality({j \in keys : Before(j, k)})

LEMMA FiniteKeys ==
  ASSUME NEW K \in SUBSET Keys
  PROVE  IsFiniteSet(K) /\ Cardinality(K) \in Nat
  BY ListingConstants, FS_Subset, FS_CardinalityType

LEMMA RankBounds ==
  ASSUME NEW K \in SUBSET Keys, NEW k \in K
  PROVE  Rank(K, k) \in 0..(Cardinality(K) - 1)
  <1> DEFINE B == {j \in K : Before(j, k)}
  <1>1. B \in SUBSET K /\ B # K
    BY KeysInOrder
  <1>2. Rank(K, k) = Cardinality(B)
    BY DEF Rank
  <1> HIDE DEF B
  <1>3. IsFiniteSet(K) /\ IsFiniteSet(B) /\ Cardinality(K) \in Nat /\ Cardinality(B) \in Nat
    BY <1>1, FiniteKeys
  <1>4. Cardinality(B) <= Cardinality(K) /\ Cardinality(B) # Cardinality(K)
    BY <1>1, <1>3, FS_Subset
  <1> QED
    BY <1>2, <1>3, <1>4

LEMMA RankOfLater ==
  ASSUME NEW K \in SUBSET Keys, NEW j \in K, NEW k \in K, Before(j, k)
  PROVE  Rank(K, j) < Rank(K, k)
  <1> DEFINE A == {i \in K : Before(i, j)}  B == {i \in K : Before(i, k)}
  <1>1. A \in SUBSET B
    BY KeysInOrder
  <1>2. j \in B /\ j \notin A
    BY KeysInOrder
  <1>3. Rank(K, j) = Cardinality(A) /\ Rank(K, k) = Cardinality(B) /\ B \in SUBSET Keys
    BY DEF Rank
  <1> HIDE DEF A, B
  <1>4. IsFiniteSet(B) /\ Cardinality(A) \in Nat /\ Cardinality(B) \in Nat
    BY <1>1, <1>3, FiniteKeys
  <1>5. Cardinality(A) <= Cardinality(B) /\ Cardinality(A) # Cardinality(B)
    BY <1>1, <1>2, <1>4, FS_Subset
  <1> QED
    BY <1>3, <1>4, <1>5

\* Ranks tell which of two keys comes first, and every rank is taken.
LEMMA RankTells ==
  ASSUME NEW K \in SUBSET Keys, NEW j \in K, NEW k \in K
  PROVE  /\ Rank(K, j) < Rank(K, k) <=> Before(j, k)
         /\ Rank(K, j) = Rank(K, k) => j = k
  <1>1. Rank(K, j) \in Nat /\ Rank(K, k) \in Nat
    BY FiniteKeys, RankBounds
  <1>2. j = k \/ Before(j, k) \/ Before(k, j)
    BY KeysInOrder
  <1>3. Before(j, k) => Rank(K, j) < Rank(K, k)
    BY RankOfLater
  <1>4. Before(k, j) => Rank(K, k) < Rank(K, j)
    BY RankOfLater
  <1> QED
    BY <1>1, <1>2, <1>3, <1>4

LEMMA RankTaken ==
  ASSUME NEW K \in SUBSET Keys, NEW i \in 0..(Cardinality(K) - 1)
  PROVE  \E k \in K : Rank(K, k) = i
  <1> DEFINE T == 0..(Cardinality(K) - 1)  f == [k \in K |-> Rank(K, k)]
  <1>1. IsFiniteSet(K) /\ Cardinality(K) \in Nat
    BY FiniteKeys
  <1>2. IsFiniteSet(T) /\ Cardinality(T) = Cardinality(K)
    BY <1>1, FS_Interval
  <1>3. f \in [K -> T] /\ \A a, b \in K : f[a] = f[b] => a = b
    BY RankBounds, RankTells
  <1>4. i \in T
    OBVIOUS
  <1>5. \A k \in K : f[k] = Rank(K, k)
    OBVIOUS
  <1> HIDE DEF T, f
  <1>6. f \in Injection(K, T)
    BY <1>3, Fun_IsInj
  <1>7. f \in Surjection(K, T)
    BY <1>2, <1>6, FS_Injection
  <1>8. \E k \in K : f[k] = i
    BY <1>4, <1>7, Fun_SurjectionProperties
  <1> QED
    BY <1>5, <1>8

\* The keys in order: the i-th has i - 1 before it, and none is left out.
LEMMA Ordered ==
  ASSUME NEW K \in SUBSET Keys
  PROVE  /\ InOrder(K) \in Seq(K) /\ Len(InOrder(K)) = Cardinality(K)
         /\ \A i \in 1..Cardinality(K) : Rank(K, InOrder(K)[i]) = i - 1
  <1> DEFINE s == InOrder(K)  n == Cardinality(K)
  <1>1. n \in Nat
    BY FiniteKeys
  <1>2. s = [i \in 1..n |-> CHOOSE k \in K : Rank(K, k) = i - 1]
    BY DEF InOrder, Rank
  <1>3. ASSUME NEW i \in 1..n PROVE s[i] \in K /\ Rank(K, s[i]) = i - 1
    <2>1. i - 1 \in 0..(n - 1)
      BY <1>1
    <2>2. \E k \in K : Rank(K, k) = i - 1
      BY <2>1, RankTaken
    <2> HIDE DEF n
    <2>3. s[i] = CHOOSE k \in K : Rank(K, k) = i - 1
      BY <1>2
    <2> HIDE DEF s
    <2> QED
      BY <2>2, <2>3
  <1> HIDE DEF n
  <1>4. s \in [1..n -> K]
    BY <1>2, <1>3
  <1>5. s \in Seq(K) /\ Len(s) = n
    BY <1>1, <1>4
  <1> QED
    BY <1>3, <1>5 DEF n

LEMMA FirstOf ==
  ASSUME NEW S, NEW s \in Seq(S), NEW n \in Nat
  PROVE  /\ First(s, n) \in Seq(S)
         /\ Len(First(s, n)) = IF n < Len(s) THEN n ELSE Len(s)
         /\ \A i \in 1..Len(First(s, n)) : First(s, n)[i] = s[i]
  <1> DEFINE m == IF n < Len(s) THEN n ELSE Len(s)
  <1>1. m \in Nat /\ m <= Len(s) /\ First(s, n) = SubSeq(s, 1, m)
    BY DEF First
  <1>2. \A i \in 1..m : s[i] \in S
    BY <1>1
  <1>3. /\ SubSeq(s, 1, m) \in Seq(S)
        /\ Len(SubSeq(s, 1, m)) = IF 1 <= m THEN m - 1 + 1 ELSE 0
        /\ \A i \in 1..(m - 1 + 1) : SubSeq(s, 1, m)[i] = s[1 + i - 1]
    <2> HIDE DEF m
    <2> QED
      BY <1>1, <1>2, SubSeqProperties
  <1>4. Len(First(s, n)) = m
    <2> HIDE DEF m
    <2> QED
      BY <1>1, <1>3
  <1>5. \A i \in 1..m : First(s, n)[i] = s[i]
    <2> HIDE DEF m
    <2>1. \A i \in 1..m : i \in 1..(m - 1 + 1) /\ 1 + i - 1 = i
      BY <1>1
    <2> QED
      BY <1>1, <1>3, <2>1
  <1> QED
    BY <1>1, <1>3, <1>4, <1>5

-----------------------------------------------------------------------------
(* What a page holds.                                                        *)

After(R, p, cursor) == {k \in Under(R, p) : cursor # None => Before(cursor, k)}

LEMMA LimitIs ==
  ASSUME NEW n \in Nat
  PROVE  Limit(n) \in Nat /\ Limit(n) >= 1
  BY ListingConstants DEF Limit

\* The first l keys of a set, and whether there are more.
HoldsFirst(a, K, l) ==
  /\ a = [keys |-> a.keys, more |-> a.more, next |-> a.next]
  /\ a.keys \in Seq(K)
  /\ Len(a.keys) = IF l < Cardinality(K) THEN l ELSE Cardinality(K)
  /\ \A i \in 1..Len(a.keys) : a.keys[i] \in K /\ Rank(K, a.keys[i]) = i - 1
  /\ a.more \in BOOLEAN /\ (a.more <=> l < Cardinality(K))
  /\ a.next = IF a.more THEN a.keys[l] ELSE None

LEMMA PageOf ==
  ASSUME NEW R \in SUBSET Keys, NEW p, NEW cursor, NEW n \in Nat
  PROVE  HoldsFirst(Page(R, p, cursor, n), After(R, p, cursor), Limit(n))
  <1> DEFINE K == After(R, p, cursor)  l == Limit(n)  s == InOrder(K)
             got == First(s, l + 1)  a == Page(R, p, cursor, n)
  <1>1. K \in SUBSET Keys
    BY DEF After, Under
  <1>2. l \in Nat /\ l >= 1 /\ l + 1 \in Nat
    BY LimitIs
  <1>3. RowsAfter(R, p, cursor, l + 1) = got
    BY DEF RowsAfter, After
  <1>4. a = [keys |-> First(got, l), more |-> Len(got) > l,
             next |-> IF Len(got) > l THEN got[l] ELSE None]
    <2> HIDE DEF got
    <2> QED
      BY <1>3 DEF Page
  <1> HIDE DEF K, l, a
  <1>5. /\ s \in Seq(K) /\ Len(s) = Cardinality(K) /\ Cardinality(K) \in Nat
        /\ \A i \in 1..Cardinality(K) : Rank(K, s[i]) = i - 1
    BY <1>1, Ordered, FiniteKeys
  <1> HIDE DEF s
  <1>6. /\ got \in Seq(K) /\ Len(got) = IF l + 1 < Len(s) THEN l + 1 ELSE Len(s)
        /\ \A i \in 1..Len(got) : got[i] = s[i]
    BY <1>2, <1>5, FirstOf
  <1> HIDE DEF got
  <1>7. /\ First(got, l) \in Seq(K) /\ Len(First(got, l)) = IF l < Len(got) THEN l ELSE Len(got)
        /\ \A i \in 1..Len(First(got, l)) : First(got, l)[i] = got[i]
    BY <1>2, <1>6, FirstOf
  <1>8. Len(got) > l <=> l < Cardinality(K)
    BY <1>2, <1>5, <1>6
  <1>9. Len(First(got, l)) = IF l < Cardinality(K) THEN l ELSE Cardinality(K)
    BY <1>2, <1>5, <1>6, <1>7
  <1>10. \A i \in 1..Len(First(got, l)) :
           /\ i \in 1..Len(got) /\ i \in 1..Cardinality(K) /\ First(got, l)[i] = s[i]
    <2>1. \A i \in 1..Len(First(got, l)) : i \in 1..Len(got) /\ i \in 1..Cardinality(K)
      BY <1>2, <1>5, <1>6, <1>9
    <2> QED
      BY <1>6, <1>7, <2>1
  <1>11. \A i \in 1..Len(First(got, l)) :
           First(got, l)[i] \in K /\ Rank(K, First(got, l)[i]) = i - 1
    <2>1. \A i \in 1..Cardinality(K) : s[i] \in K
      BY <1>5
    <2> QED
      BY <1>5, <1>10, <2>1
  <1>12. Len(got) > l => got[l] = First(got, l)[l]
    BY <1>2, <1>5, <1>6, <1>7
  <1>13. a.keys = First(got, l) /\ a.more = (Len(got) > l)
         /\ a.next = IF Len(got) > l THEN got[l] ELSE None
    BY <1>4
  <1>14. a = [keys |-> a.keys, more |-> a.more, next |-> a.next] /\ a.more \in BOOLEAN
    BY <1>4, <1>13
  <1>15. a.next = IF a.more THEN a.keys[l] ELSE None
    BY <1>12, <1>13
  <1>16. Len(a.keys) = IF l < Cardinality(K) THEN l ELSE Cardinality(K)
    BY <1>2, <1>5, <1>9, <1>13
  <1>17. \A i \in 1..Len(a.keys) : a.keys[i] \in K /\ Rank(K, a.keys[i]) = i - 1
    BY <1>11, <1>13
  <1>18. a.keys \in Seq(K) /\ (a.more <=> l < Cardinality(K))
    BY <1>7, <1>8, <1>13
  <1>19. HoldsFirst(a, K, l)
    BY <1>14, <1>15, <1>16, <1>17, <1>18 DEF HoldsFirst
  <1> QED
    BY <1>19 DEF K, l, a

Ascending(s) == \A i, j \in 1..Len(s) : i < j => Before(s[i], s[j])
Holds(s, k) == \E i \in 1..Len(s) : s[i] = k

\* Of the keys, those that the page does not hold come after its last one.
LEMMA NoneOmitted ==
  ASSUME NEW K \in SUBSET Keys, NEW l \in Nat, l >= 1, NEW a, HoldsFirst(a, K, l)
  PROVE  /\ Ascending(a.keys)
         /\ \A k \in K : Holds(a.keys, k) \/ (/\ a.more /\ Len(a.keys) = l /\ a.keys # <<>>
                                             /\ Before(a.keys[l], k))
         /\ a.more => l \in 1..Len(a.keys) /\ a.next = a.keys[l]
  <1>1. Cardinality(K) \in Nat /\ Len(a.keys) \in Nat
    BY FiniteKeys DEF HoldsFirst
  <1>2. \A i \in 1..Len(a.keys) : a.keys[i] \in K /\ Rank(K, a.keys[i]) = i - 1
    BY DEF HoldsFirst
  <1>3. Len(a.keys) = (IF l < Cardinality(K) THEN l ELSE Cardinality(K))
    BY DEF HoldsFirst
  <1>4. (a.more <=> l < Cardinality(K)) /\ a.next = IF a.more THEN a.keys[l] ELSE None
    BY DEF HoldsFirst
  <1>5. ASSUME NEW i \in 1..Len(a.keys), NEW j \in 1..Len(a.keys), i < j
        PROVE  Before(a.keys[i], a.keys[j])
    <2>1. /\ a.keys[i] \in K /\ Rank(K, a.keys[i]) = i - 1
          /\ a.keys[j] \in K /\ Rank(K, a.keys[j]) = j - 1
      BY <1>2
    <2>2. i - 1 < j - 1
      BY <1>1, <1>5
    <2> QED
      BY <2>1, <2>2, RankTells
  <1>6. a.more => l \in 1..Len(a.keys) /\ a.next = a.keys[l]
    BY <1>1, <1>3, <1>4
  <1>7. ASSUME NEW k \in K, ~Holds(a.keys, k)
        PROVE  a.more /\ Len(a.keys) = l /\ a.keys # <<>> /\ Before(a.keys[l], k)
    <2> DEFINE r == Rank(K, k)
    <2>1. r \in 0..(Cardinality(K) - 1)
      BY RankBounds
    <2>2. ~(r < Len(a.keys))
      <3> SUFFICES ASSUME r < Len(a.keys) PROVE FALSE
        OBVIOUS
      <3>1. r + 1 \in 1..Len(a.keys) /\ (r + 1) - 1 = r
        BY <1>1, <2>1
      <3>2. a.keys[r + 1] \in K /\ Rank(K, a.keys[r + 1]) = Rank(K, k)
        BY <1>2, <3>1
      <3>3. a.keys[r + 1] = k
        BY <3>2, RankTells
      <3> QED
        BY <1>7, <3>1, <3>3 DEF Holds
    <2>3. a.more /\ Len(a.keys) = l /\ l \in 1..Len(a.keys) /\ l - 1 < r
      <3> HIDE DEF r
      <3> QED
        BY <1>1, <1>3, <1>4, <2>1, <2>2
    <2>4. a.keys[l] \in K /\ Rank(K, a.keys[l]) < Rank(K, k)
      BY <1>2, <2>3
    <2>5. Before(a.keys[l], k)
      BY <2>4, RankTells
    <2>6. a.keys # <<>>
      BY <2>3
    <2> QED
      BY <2>3, <2>5, <2>6
  <1> QED
    BY <1>5, <1>6, <1>7 DEF Ascending

LEMMA PageTyped ==
  ASSUME NEW R \in SUBSET Keys, NEW p, NEW cursor, NEW n \in Nat
  PROVE  Page(R, p, cursor, n) \in PageTypes
  <1> DEFINE K == After(R, p, cursor)  a == Page(R, p, cursor, n)  l == Limit(n)
  <1>1. K \in SUBSET Keys /\ HoldsFirst(a, K, l)
    <2>1. K \in SUBSET Keys
      BY DEF After, Under
    <2> QED
      BY <2>1, PageOf
  <1>2. l \in Nat /\ l >= 1
    BY LimitIs
  <1> HIDE DEF K, a, l
  <1>3. a.keys \in Seq(Keys)
    <2>1. a.keys \in Seq(K)
      BY <1>1 DEF HoldsFirst
    <2> QED
      BY <1>1, <2>1, SeqMonotonic
  <1>4. a.more => l \in 1..Len(a.keys) /\ a.next = a.keys[l]
    BY <1>1, <1>2, NoneOmitted
  <1>5. a.more => a.next \in Keys
    BY <1>3, <1>4, ElementOfSeq
  <1>6. ~a.more => a.next = None
    BY <1>1 DEF HoldsFirst
  <1>7. a.more \in BOOLEAN /\ a = [keys |-> a.keys, more |-> a.more, next |-> a.next]
    BY <1>1 DEF HoldsFirst
  <1> QED
    BY <1>3, <1>5, <1>6, <1>7 DEF PageTypes, a

LEMMA StatsTyped ==
  ASSUME NEW R \in SUBSET Keys, NEW p
  PROVE  Stats(R, p) \in StatsTypes
  <1> DEFINE U == Under(R, p)  M == {m \in U : HasSlash(m)}  F == {Folder(k) : k \in M}
             f == [k \in M |-> Folder(k)]
  <1>1. U \in SUBSET Keys /\ M \in SUBSET Keys /\ {k \in U : ~HasSlash(k)} \in SUBSET Keys
    BY DEF Under
  <1>2. f \in [M -> F] /\ \A x \in F : \E k \in M : f[k] = x
    OBVIOUS
  <1>3. Stats(R, p) = [objects |-> Cardinality(U), folders |-> Cardinality(F),
                       files |-> Cardinality({k \in U : ~HasSlash(k)})]
    BY DEF Stats
  <1> HIDE DEF U, M, F, f
  <1>4. IsFiniteSet(F)
    BY <1>1, <1>2, FiniteKeys, Fun_IsSurj, FS_Surjection
  <1>5. /\ Cardinality(U) \in Nat /\ Cardinality(F) \in Nat
        /\ Cardinality({k \in U : ~HasSlash(k)}) \in Nat
    BY <1>1, <1>4, FiniteKeys, FS_CardinalityType
  <1> QED
    BY <1>3, <1>5 DEF StatsTypes

-----------------------------------------------------------------------------
(* The table is that of the newest fetch: nothing of this rests on what a    *)
(* page holds.                                                               *)

\* The fetch whose answer will be shown asks for the console's filter.
NewestAsks == \A c \in calls : c.what = "list" /\ c.seq = listSeq => c.prefix = prefix

\* No call is newer than the console.
Overtaken == listSeq \in Nat /\ \A c \in calls : c.seq \in Nat /\ c.seq <= listSeq

PagerInv == NewestAsks /\ Overtaken /\ NewestShown

LEMMA CallMade ==
  ASSUME NEW seq, NEW p, NEW cursor, NEW size
  PROVE  /\ ListCall(seq, p, cursor, size).what = "list" /\ StatsCall(seq, p).what = "stats"
         /\ ListCall(seq, p, cursor, size).seq = seq /\ StatsCall(seq, p).seq = seq
         /\ ListCall(seq, p, cursor, size).prefix = p
  BY DEF ListCall, StatsCall

LEMMA PagerInit == Init => PagerInv
  <1> SUFFICES ASSUME Init PROVE PagerInv
    OBVIOUS
  <1>1. NewestAsks /\ Overtaken
    BY CallMade DEF Init, NewestAsks, Overtaken
  <1>2. NewestShown
    BY DEF Init, NewestShown
  <1> QED
    BY <1>1, <1>2 DEF PagerInv

\* A new fetch, of whatever page: the table waits for it.
LEMMA FetchStep ==
  ASSUME PagerInv, UNCHANGED shown, listSeq' = listSeq + 1,
         NEW k \in calls', k.what = "list", k.seq = listSeq + 1, k.prefix = prefix',
         \A c \in calls' \ calls : c.what = "stats" \/ c = k,
         \A c \in calls' \ calls : c.seq = listSeq + 1
  PROVE  PagerInv'
  <1>1. \A c \in calls : c.seq \in Nat /\ c.seq < listSeq'
    BY DEF PagerInv, Overtaken
  <1>2. listSeq' \in Nat /\ \A c \in calls' : c.seq \in Nat /\ c.seq <= listSeq'
    BY <1>1 DEF PagerInv, Overtaken
  <1>3. NewestAsks'
    BY <1>1 DEF NewestAsks
  <1>4. ~Settled'
    BY DEF Settled
  <1> QED
    BY <1>2, <1>3, <1>4 DEF PagerInv, Overtaken, NewestShown

LEMMA ClickStep ==
  ASSUME PagerInv, UNCHANGED <<shown, prefix>>, NEW size, NEW cursors, NEW i,
         FetchObjectPage(prefix, size, cursors, i)
  PROVE  PagerInv'
  <1> DEFINE k == ListCall(listSeq + 1, prefix, cursors[i], size)
  <1>1. /\ k.what = "list" /\ k.seq = listSeq + 1 /\ k.prefix = prefix
        /\ calls' = calls \cup {k} /\ listSeq' = listSeq + 1
    BY CallMade DEF FetchObjectPage
  <1> HIDE DEF k
  <1> QED
    BY <1>1, FetchStep

LEMMA RelistStep ==
  ASSUME PagerInv, Relist PROVE PagerInv'
  <1>1. UNCHANGED shown /\ \E p, size : ListObjects(p, size)
    BY DEF Relist, Move
  <1>2. PICK p, size : ListObjects(p, size)
    BY <1>1
  <1> DEFINE k == ListCall(listSeq + 1, p, None, size)  s == StatsCall(listSeq + 1, p)
  <1>3. /\ k.what = "list" /\ k.seq = listSeq + 1 /\ k.prefix = prefix'
        /\ s.what = "stats" /\ s.seq = listSeq + 1
        /\ calls' = calls \cup {k, s} /\ listSeq' = listSeq + 1
    BY <1>2, CallMade DEF ListObjects
  <1> HIDE DEF k, s
  <1> QED
    BY <1>1, <1>3, FetchStep

\* Giving an answer changes nothing of what a call asks for.
LEMMA AnswerStep ==
  ASSUME PagerInv, NEW c \in calls, NEW a, Answer(c, a), UNCHANGED <<console, shown>>
  PROVE  PagerInv'
  <1> DEFINE d == [c EXCEPT !.answer = a]
  <1>1. calls' = (calls \ {c}) \cup {d}
    BY DEF Answer
  <1>2. d.what = c.what /\ d.seq = c.seq /\ d.prefix = c.prefix
    OBVIOUS
  <1> HIDE DEF d
  <1>3. NewestAsks' /\ Overtaken'
    BY <1>1, <1>2 DEF PagerInv, NewestAsks, Overtaken, console
  <1>4. Settled' => Settled
    BY <1>1, <1>2 DEF Settled, console
  <1> QED
    BY <1>3, <1>4 DEF PagerInv, NewestShown, console

LEMMA PageStep ==
  ASSUME PagerInv, NEW c \in calls, ReceivePage(c)
  PROVE  PagerInv'
  <1>1. /\ calls' = calls \ {c} /\ c.what = "list"
        /\ UNCHANGED <<prefix, pageIndex, listSeq>>
    BY DEF ReceivePage
  <1>2. NewestAsks' /\ Overtaken'
    BY <1>1 DEF PagerInv, NewestAsks, Overtaken
  <1>3. CASE c.seq = listSeq
    <2>1. c.prefix = prefix
      BY <1>1, <1>3 DEF PagerInv, NewestAsks
    <2>2. \/ shown' = None
          \/ shown'.index = pageIndex /\ shown'.prefix = c.prefix
      BY <1>3 DEF ReceivePage, ShowPage
    <2> QED
      BY <1>1, <1>2, <2>1, <2>2 DEF PagerInv, NewestShown
  <1>4. CASE c.seq # listSeq
    <2>1. shown' = shown /\ (Settled' => Settled)
      BY <1>1, <1>4 DEF ReceivePage, Settled
    <2> QED
      BY <1>1, <1>2, <2>1 DEF PagerInv, NewestShown
  <1> QED
    BY <1>3, <1>4

LEMMA PagerStep == PagerInv /\ [Next]_vars => PagerInv'
  <1> SUFFICES ASSUME PagerInv, [Next]_vars PROVE PagerInv'
    OBVIOUS
  <1>1. CASE Relist
    BY <1>1, RelistStep
  <1>2. CASE ClickNext
    BY <1>2, ClickStep DEF ClickNext
  <1>3. CASE ClickPrev
    BY <1>3, ClickStep DEF ClickPrev, Move
  <1>4. CASE Refresh
    BY <1>4, ClickStep DEF Refresh, Move
  <1>5. ASSUME NEW c \in calls, Serve(c) PROVE PagerInv'
    <2>1. /\ Answer(c, IF c.what = "list" THEN Page(rows, c.prefix, c.cursor, c.size)
                                          ELSE Stats(rows, c.prefix))
          /\ UNCHANGED <<console, shown>>
      BY <1>5 DEF Serve
    <2> QED
      BY <2>1, AnswerStep
  <1>6. ASSUME NEW c \in calls, Fail(c) PROVE PagerInv'
    BY <1>6, AnswerStep DEF Fail
  <1>7. ASSUME NEW c \in calls, ReceivePage(c) PROVE PagerInv'
    BY <1>7, PageStep
  <1>8. ASSUME NEW c \in calls, ReceiveStats(c) PROVE PagerInv'
    <2>1. calls' = calls \ {c} /\ c.what = "stats" /\ UNCHANGED <<console, shown>>
      BY <1>8 DEF ReceiveStats
    <2>2. Settled' => Settled
      BY <2>1 DEF Settled, console
    <2> QED
      BY <2>1, <2>2 DEF PagerInv, NewestAsks, Overtaken, NewestShown, console
  <1>9. CASE Change \/ Rest \/ UNCHANGED vars
    <2>1. UNCHANGED <<calls, console, shown>>
      BY <1>9 DEF Change, Rest, vars
    <2> QED
      BY <2>1 DEF PagerInv, NewestAsks, Overtaken, NewestShown, Settled, console
  <1> QED
    BY <1>1, <1>2, <1>3, <1>4, <1>5, <1>6, <1>7, <1>8, <1>9 DEF Next

\* Once no newer fetch is under way, the table shows the page and the filter that the
\* console is at: late answers of older fetches never stay on the screen.
THEOREM LateAnswersDropped == Spec => []NewestShown
  <1>1. PagerInv => NewestShown
    BY DEF PagerInv
  <1> QED
    BY PagerInit, PagerStep, <1>1, PTL DEF Spec

-----------------------------------------------------------------------------
(* Types: what a call asks for is kept while it is answered.                 *)

CallTyped(c, n) ==
  /\ c.what \in {"list", "stats"} /\ c.seq \in 1..n
  /\ c.prefix \in Prefixes /\ c.cursor \in Keys \cup {None}
  /\ c.answer \in {None, Failed} \cup (IF c.what = "list" THEN PageTypes ELSE StatsTypes)
CallOK(c, n) ==
  /\ CallTyped(c, n) /\ c.size \in Nat
  /\ c = [what |-> c.what, seq |-> c.seq, prefix |-> c.prefix, cursor |-> c.cursor,
          size |-> c.size, answer |-> c.answer]

ConsoleTyped ==
  /\ rows \subseteq Keys /\ stayed \subseteq Keys
  /\ prefix \in Prefixes /\ pageSize \in PageSizes /\ pageIndex \in Pages /\ listSeq \in Nat
  /\ pageCursors \in [Pages -> Keys \cup {None}]
  /\ events \in 0..MaxEvents
  /\ begun \in 1..listSeq /\ quiet \in BOOLEAN /\ ahead \in BOOLEAN
  /\ walk \in {None} \cup Seq(Keys)
ShownTyped ==
  shown \in {None} \cup [index : Pages, keys : Seq(Keys), more : BOOLEAN, prefix : Prefixes]
SummaryTyped == summary \in {None} \cup [seq : 1..listSeq, totals : StatsTypes]

TypeInv ==
  /\ ConsoleTyped /\ ShownTyped /\ SummaryTyped
  /\ \A c \in calls : CallOK(c, listSeq)

LEMMA TypesSuffice == TypeInv => PagerTypeOK
  BY DEF TypeInv, ConsoleTyped, ShownTyped, SummaryTyped, CallOK, CallTyped, PagerTypeOK

LEMMA Made ==
  ASSUME NEW n \in Nat, n > 0, NEW p \in Prefixes, NEW cursor \in Keys \cup {None},
         NEW size \in Nat
  PROVE  CallOK(ListCall(n, p, cursor, size), n) /\ CallOK(StatsCall(n, p), n)
  BY DEF CallOK, CallTyped, ListCall, StatsCall

LEMMA MadeOf ==
  ASSUME NEW n, NEW p, NEW cursor, NEW size
  PROVE  /\ ListCall(n, p, cursor, size).cursor = cursor
         /\ ListCall(n, p, cursor, size).size = size
         /\ ListCall(n, p, cursor, size).answer = None /\ StatsCall(n, p).answer = None
         /\ StatsCall(n, p).prefix = p
  BY DEF ListCall, StatsCall

LEMMA CallLater ==
  ASSUME NEW n \in Nat, NEW c, CallOK(c, n)
  PROVE  CallOK(c, n + 1)
  BY DEF CallOK, CallTyped

\* An answer changes nothing else of its call.
LEMMA Answered ==
  ASSUME NEW n, NEW c, CallOK(c, n), NEW a,
         a \in {None, Failed} \cup (IF c.what = "list" THEN PageTypes ELSE StatsTypes)
  PROVE  /\ CallOK([c EXCEPT !.answer = a], n)
         /\ [c EXCEPT !.answer = a].what = c.what /\ [c EXCEPT !.answer = a].seq = c.seq
         /\ [c EXCEPT !.answer = a].prefix = c.prefix /\ [c EXCEPT !.answer = a].cursor = c.cursor
         /\ [c EXCEPT !.answer = a].size = c.size /\ [c EXCEPT !.answer = a].answer = a
  <1>1. [c EXCEPT !.answer = a] =
          [what |-> c.what, seq |-> c.seq, prefix |-> c.prefix, cursor |-> c.cursor,
           size |-> c.size, answer |-> a]
    BY DEF CallOK
  <1> QED
    BY <1>1 DEF CallOK, CallTyped

LEMMA TypeInit == Init => TypeInv
  <1> SUFFICES ASSUME Init PROVE TypeInv
    OBVIOUS
  <1>1. <<>> \in Prefixes /\ FirstSize \in PageSizes /\ FirstSize \in Nat /\ 0 \in Pages
        /\ MaxEvents \in Nat
    BY PagerConstants DEF Pages
  <1>2. CallOK(ListCall(1, <<>>, None, FirstSize), 1) /\ CallOK(StatsCall(1, <<>>), 1)
    <2>1. ASSUME NEW p \in Prefixes, NEW n \in Nat, n > 0, NEW u \in Keys \cup {None}
          PROVE  CallOK(ListCall(n, p, u, FirstSize), n) /\ CallOK(StatsCall(n, p), n)
      BY <1>1, <2>1, Made
    <2>2. 1 \in Nat /\ 1 > 0 /\ None \in Keys \cup {None}
      OBVIOUS
    <2> QED
      BY <1>1, <2>1, <2>2
  <1>3. rows \subseteq Keys
    BY PagerConstants DEF Init
  <1>4. ConsoleTyped
    <2>1. pageCursors \in [Pages -> Keys \cup {None}] /\ walk \in Seq(Keys)
      BY DEF Init
    <2>2. listSeq = 1 /\ begun = 1 /\ events = 0 /\ 0 \in 0..MaxEvents /\ 1 \in 1..listSeq
      BY <1>1 DEF Init
    <2> QED
      BY <1>1, <1>3, <2>1, <2>2 DEF Init, ConsoleTyped
  <1>5. calls = {ListCall(1, <<>>, None, FirstSize), StatsCall(1, <<>>)} /\ listSeq = 1
    BY DEF Init
  <1>6. \A c \in calls : CallOK(c, listSeq)
    BY <1>2, <1>5
  <1>7. ShownTyped /\ SummaryTyped
    BY DEF Init, ShownTyped, SummaryTyped
  <1> QED
    BY <1>4, <1>6, <1>7 DEF TypeInv

LEMMA EventTyped ==
  ASSUME TypeInv, Event PROVE events' \in 0..MaxEvents
  BY PagerConstants DEF TypeInv, ConsoleTyped, Event

LEMMA TypeFetch ==
  ASSUME TypeInv, NEW i \in Pages, FetchObjectPage(prefix, pageSize, pageCursors, i),
         UNCHANGED <<rows, prefix, pageSize, pageCursors, shown, summary, begun, quiet, stayed>>,
         ahead' \in BOOLEAN, events' \in 0..MaxEvents, walk' = None \/ walk' = walk
  PROVE  TypeInv'
  <1> DEFINE k == ListCall(listSeq + 1, prefix, pageCursors[i], pageSize)
  <1>1. calls' = calls \cup {k} /\ listSeq' = listSeq + 1 /\ pageIndex' = i
    BY DEF FetchObjectPage
  <1>2. /\ listSeq \in Nat /\ pageSize \in Nat /\ prefix \in Prefixes
        /\ pageCursors[i] \in Keys \cup {None}
    BY PagerConstants DEF TypeInv, ConsoleTyped
  <1>3. CallOK(k, listSeq + 1)
    BY <1>2, Made
  <1> HIDE DEF k
  <1>4. \A c \in calls : CallOK(c, listSeq + 1)
    BY <1>2, CallLater DEF TypeInv
  <1>5. \A c \in calls' : CallOK(c, listSeq')
    BY <1>1, <1>3, <1>4
  <1>6. ConsoleTyped'
    BY <1>1 DEF TypeInv, ConsoleTyped
  <1>7. ShownTyped'
    BY DEF TypeInv, ShownTyped
  <1>8. SummaryTyped'
    BY <1>1, <1>2 DEF TypeInv, SummaryTyped
  <1> QED
    BY <1>5, <1>6, <1>7, <1>8 DEF TypeInv

LEMMA TypeRelist ==
  ASSUME TypeInv, Relist PROVE TypeInv'
  <1>1. /\ events' \in 0..MaxEvents /\ UNCHANGED <<rows, shown, summary>>
    BY EventTyped DEF Relist, Move
  <1>2. PICK p \in Prefixes, size \in PageSizes : ListObjects(p, size)
    BY DEF Relist, TypeInv, ConsoleTyped
  <1> DEFINE k == ListCall(listSeq + 1, p, None, size)  s == StatsCall(listSeq + 1, p)
  <1>3. calls' = calls \cup {k, s} /\ listSeq' = listSeq + 1
    BY <1>2 DEF ListObjects
  <1>4. listSeq \in Nat /\ size \in Nat /\ 0 \in Pages
    BY PagerConstants DEF TypeInv, ConsoleTyped, Pages
  <1>5. CallOK(k, listSeq + 1) /\ CallOK(s, listSeq + 1)
    BY <1>4, Made
  <1> HIDE DEF k, s
  <1>6. \A c \in calls : CallOK(c, listSeq + 1)
    BY <1>4, CallLater DEF TypeInv
  <1>7. \A c \in calls' : CallOK(c, listSeq')
    BY <1>3, <1>5, <1>6
  <1>8. ConsoleTyped'
    BY <1>1, <1>2, <1>4 DEF ListObjects, TypeInv, ConsoleTyped
  <1>9. ShownTyped'
    BY <1>1 DEF TypeInv, ShownTyped
  <1>10. SummaryTyped'
    BY <1>1, <1>3, <1>4 DEF TypeInv, SummaryTyped
  <1> QED
    BY <1>7, <1>8, <1>9, <1>10 DEF TypeInv

LEMMA TypeAnswer ==
  ASSUME TypeInv, NEW c \in calls, NEW a, Answer(c, a),
         a \in {None, Failed} \cup (IF c.what = "list" THEN PageTypes ELSE StatsTypes),
         UNCHANGED <<rows, console, shown, summary, past>>, events' \in 0..MaxEvents
  PROVE  TypeInv'
  <1> DEFINE d == [c EXCEPT !.answer = a]
  <1>1. calls' = (calls \ {c}) \cup {d} /\ listSeq' = listSeq
    BY DEF Answer, console
  <1>2. CallOK(d, listSeq)
    BY Answered DEF TypeInv
  <1> HIDE DEF d
  <1>3. \A e \in calls' : CallOK(e, listSeq')
    BY <1>1, <1>2 DEF TypeInv
  <1>4. ConsoleTyped' /\ ShownTyped' /\ SummaryTyped'
    BY DEF TypeInv, ConsoleTyped, ShownTyped, SummaryTyped, console, past
  <1> QED
    BY <1>3, <1>4 DEF TypeInv

LEMMA TypePage ==
  ASSUME TypeInv, NEW c \in calls, ReceivePage(c)
  PROVE  TypeInv'
  <1>1. /\ calls' = calls \ {c} /\ c.what = "list" /\ c.answer # None
        /\ UNCHANGED <<rows, prefix, pageSize, pageIndex, listSeq, summary, events, begun, quiet,
                       stayed, ahead>>
    BY DEF ReceivePage
  <1>2. \A e \in calls' : CallOK(e, listSeq')
    BY <1>1 DEF TypeInv
  <1>3. SummaryTyped'
    BY <1>1 DEF TypeInv, SummaryTyped
  <1>4. /\ pageCursors' \in [Pages -> Keys \cup {None}] /\ walk' \in {None} \cup Seq(Keys)
        /\ ShownTyped'
    <2>1. CASE c.seq # listSeq
      BY <2>1 DEF ReceivePage, TypeInv, ConsoleTyped, ShownTyped
    <2>2. CASE c.seq = listSeq /\ c.answer = Failed
      BY <2>2 DEF ReceivePage, ShowPage, TypeInv, ConsoleTyped, ShownTyped
    <2>3. CASE c.seq = listSeq /\ c.answer # Failed
      <3> DEFINE a == c.answer
      <3>1. a \in PageTypes /\ c.prefix \in Prefixes
        BY <1>1, <2>3 DEF TypeInv, CallOK, CallTyped
      <3>2. a.keys \in Seq(Keys) /\ a.more \in BOOLEAN /\ a.next \in Keys \cup {None}
        BY <3>1 DEF PageTypes
      <3>3. /\ shown' = [index |-> pageIndex, keys |-> a.keys, more |-> a.more,
                         prefix |-> c.prefix]
            /\ pageCursors' \in {pageCursors, [pageCursors EXCEPT ![pageIndex + 1] = a.next]}
            /\ walk' = IF walk = None THEN None ELSE walk \o a.keys
        BY <2>3 DEF ReceivePage, ShowPage
      <3> HIDE DEF a
      <3>4. /\ pageIndex \in Pages /\ pageCursors \in [Pages -> Keys \cup {None}]
            /\ walk \in {None} \cup Seq(Keys)
        BY DEF TypeInv, ConsoleTyped
      <3>5. walk' \in {None} \cup Seq(Keys)
        BY <3>2, <3>3, <3>4, ConcatProperties
      <3>6. pageCursors' \in [Pages -> Keys \cup {None}]
        BY <3>2, <3>3, <3>4
      <3>7. ShownTyped'
        BY <3>1, <3>2, <3>3, <3>4 DEF ShownTyped
      <3> QED
        BY <3>5, <3>6, <3>7
    <2> QED
      BY <2>1, <2>2, <2>3
  <1>5. ConsoleTyped'
    BY <1>1, <1>4 DEF TypeInv, ConsoleTyped
  <1> QED
    BY <1>2, <1>3, <1>4, <1>5 DEF TypeInv

LEMMA TypeStats ==
  ASSUME TypeInv, NEW c \in calls, ReceiveStats(c)
  PROVE  TypeInv'
  <1>1. /\ calls' = calls \ {c} /\ c.what = "stats" /\ c.answer # None
        /\ UNCHANGED <<rows, console, shown, events, past>>
        /\ summary' = IF c.answer = Failed THEN None ELSE [seq |-> c.seq, totals |-> c.answer]
    BY DEF ReceiveStats
  <1>2. \A e \in calls' : CallOK(e, listSeq')
    BY <1>1 DEF TypeInv, console
  <1>3. ConsoleTyped' /\ ShownTyped'
    BY <1>1 DEF TypeInv, ConsoleTyped, ShownTyped, console, past
  <1>4. c.answer # Failed => c.answer \in StatsTypes /\ c.seq \in 1..listSeq
    BY <1>1 DEF TypeInv, CallOK, CallTyped
  <1>5. SummaryTyped'
    BY <1>1, <1>4 DEF SummaryTyped, console
  <1> QED
    BY <1>2, <1>3, <1>5 DEF TypeInv

LEMMA TypeStep == TypeInv /\ [Next]_vars => TypeInv'
  <1> SUFFICES ASSUME TypeInv, [Next]_vars PROVE TypeInv'
    OBVIOUS
  <1>1. CASE Relist
    BY <1>1, TypeRelist
  <1>2. CASE ClickNext
    <2>1. pageIndex + 1 \in Pages
      BY <1>2, PagerConstants DEF ClickNext, TypeInv, ConsoleTyped, Pages
    <2>2. /\ FetchObjectPage(prefix, pageSize, pageCursors, pageIndex + 1)
          /\ UNCHANGED <<rows, prefix, pageSize, pageCursors, shown, summary, begun, quiet,
                         stayed>>
          /\ ahead' \in BOOLEAN /\ events' = events /\ walk' = walk
      BY <1>2 DEF ClickNext
    <2>3. events' \in 0..MaxEvents
      BY <2>2 DEF TypeInv, ConsoleTyped
    <2> QED
      BY <2>1, <2>2, <2>3, TypeFetch
  <1>3. CASE ClickPrev
    <2>1. pageIndex - 1 \in Pages
      BY <1>3, PagerConstants DEF ClickPrev, TypeInv, ConsoleTyped, Pages
    <2>2. /\ FetchObjectPage(prefix, pageSize, pageCursors, pageIndex - 1)
          /\ UNCHANGED <<rows, prefix, pageSize, pageCursors, shown, summary, begun, quiet,
                         stayed>>
          /\ ahead' = ahead /\ Event /\ walk' = None
      BY <1>3 DEF ClickPrev, Move
    <2>3. ahead' \in BOOLEAN
      BY <2>2 DEF TypeInv, ConsoleTyped
    <2> QED
      BY <2>1, <2>2, <2>3, TypeFetch, EventTyped
  <1>4. CASE Refresh
    <2>2. /\ FetchObjectPage(prefix, pageSize, pageCursors, pageIndex)
          /\ UNCHANGED <<rows, prefix, pageSize, pageCursors, shown, summary, begun, quiet,
                         stayed>>
          /\ ahead' = ahead /\ Event /\ walk' = None
      BY <1>4 DEF Refresh, Move
    <2>3. ahead' \in BOOLEAN /\ pageIndex \in Pages
      BY <2>2 DEF TypeInv, ConsoleTyped
    <2> QED
      BY <2>2, <2>3, TypeFetch, EventTyped
  <1>5. ASSUME NEW c \in calls, Serve(c) PROVE TypeInv'
    <2> DEFINE a == IF c.what = "list" THEN Page(rows, c.prefix, c.cursor, c.size)
                                       ELSE Stats(rows, c.prefix)
    <2>1. Answer(c, a) /\ UNCHANGED <<rows, console, shown, summary, past>>
          /\ events' \in 0..MaxEvents
      BY <1>5 DEF Serve, TypeInv, ConsoleTyped
    <2>2. rows \in SUBSET Keys /\ c.size \in Nat
      BY DEF TypeInv, ConsoleTyped, CallOK
    <2>3. a \in {None, Failed} \cup (IF c.what = "list" THEN PageTypes ELSE StatsTypes)
      BY <2>2, PageTyped, StatsTyped
    <2> HIDE DEF a
    <2> QED
      BY <2>1, <2>3, TypeAnswer
  <1>6. ASSUME NEW c \in calls, Fail(c) PROVE TypeInv'
    <2>1. Answer(c, Failed) /\ UNCHANGED <<rows, console, shown, summary, past>> /\ Event
      BY <1>6 DEF Fail
    <2> QED
      BY <2>1, TypeAnswer, EventTyped
  <1>7. ASSUME NEW c \in calls, ReceivePage(c) PROVE TypeInv'
    BY <1>7, TypePage
  <1>8. ASSUME NEW c \in calls, ReceiveStats(c) PROVE TypeInv'
    BY <1>8, TypeStats
  <1>9. CASE Change
    <2>1. /\ Event /\ stayed' = stayed \cap rows'
          /\ quiet' = FALSE /\ UNCHANGED <<console, calls, shown, summary, begun, ahead, walk>>
      BY <1>9 DEF Change
    <2>2. rows' \subseteq Keys
      BY <1>9 DEF Change, TypeInv, ConsoleTyped
    <2>3. events' \in 0..MaxEvents
      BY <2>1, EventTyped
    <2> QED
      BY <2>1, <2>2, <2>3 DEF TypeInv, ConsoleTyped, ShownTyped, SummaryTyped, console
  <1>10. CASE Rest \/ UNCHANGED vars
    <2>1. UNCHANGED vars
      BY <1>10 DEF Rest
    <2> QED
      BY <2>1 DEF TypeInv, ConsoleTyped, ShownTyped, SummaryTyped, vars, console, past
  <1> QED
    BY <1>1, <1>2, <1>3, <1>4, <1>5, <1>6, <1>7, <1>8, <1>9, <1>10 DEF Next

\* The console and the calls under way stay within their types: a page and the totals that
\* the server computes are what the console takes them for.
THEOREM PagerTypes == Spec => []PagerTypeOK
  BY TypeInit, TypeStep, TypesSuffice, PTL DEF Spec

-----------------------------------------------------------------------------
(* Walking from page to page: what an answer says of the keys after its      *)
(* cursor stays true of those that have been there all the time.             *)

Covers(s, K) == \A k \in K : Holds(s, k) \/ s = <<>> \/ Before(s[Len(s)], k)
End(s) == IF s = <<>> THEN None ELSE s[Len(s)]

\* All keys of S after the cursor are in the answer, or after its last if there are more.
Honest(S, p, cursor, a) ==
  /\ a.keys \in Seq(Keys) /\ Ascending(a.keys)
  /\ \A i \in 1..Len(a.keys) : cursor # None => Before(cursor, a.keys[i])
  /\ \A k \in After(S, p, cursor) :
       Holds(a.keys, k) \/ (a.more /\ Before(a.keys[Len(a.keys)], k))
  /\ a.more => a.keys # <<>> /\ a.next = a.keys[Len(a.keys)]

LEMMA ServesHonestly ==
  ASSUME NEW R \in SUBSET Keys, NEW S \in SUBSET R, NEW p, NEW cursor, NEW n \in Nat
  PROVE  Honest(S, p, cursor, Page(R, p, cursor, n))
  <1> DEFINE K == After(R, p, cursor)  a == Page(R, p, cursor, n)  l == Limit(n)
  <1>1. K \in SUBSET Keys /\ After(S, p, cursor) \subseteq K
        /\ \A k \in K : cursor # None => Before(cursor, k)
    BY DEF After, Under
  <1>2. HoldsFirst(a, K, l) /\ l \in Nat /\ l >= 1
    BY PageOf, LimitIs
  <1> HIDE DEF K, a, l
  <1>3. a.keys \in Seq(K) /\ \A i \in 1..Len(a.keys) : a.keys[i] \in K
    BY <1>2 DEF HoldsFirst
  <1>4. /\ a.keys \in Seq(Keys)
        /\ \A i \in 1..Len(a.keys) : cursor # None => Before(cursor, a.keys[i])
    BY <1>1, <1>3, SeqMonotonic
  <1>5. /\ Ascending(a.keys)
        /\ \A k \in K : Holds(a.keys, k) \/ (/\ a.more /\ Len(a.keys) = l /\ a.keys # <<>>
                                            /\ Before(a.keys[l], k))
        /\ a.more => l \in 1..Len(a.keys) /\ a.next = a.keys[l]
    BY <1>1, <1>2, NoneOmitted
  <1>6. a.more => a.keys # <<>> /\ a.next = a.keys[Len(a.keys)]
    <2>1. a.more => Len(a.keys) = l
      BY <1>1, <1>2, FiniteKeys DEF HoldsFirst
    <2>2. a.more => a.keys # <<>>
      BY <1>2, <2>1
    <2> QED
      BY <1>5, <2>1, <2>2
  <1>8. \A k \in After(S, p, cursor) :
          Holds(a.keys, k) \/ (a.more /\ Before(a.keys[Len(a.keys)], k))
    BY <1>1, <1>5
  <1> QED
    BY <1>4, <1>5, <1>6, <1>8 DEF Honest, a

LEMMA HonestOfFewer ==
  ASSUME NEW S, NEW T \in SUBSET S, NEW p, NEW cursor, NEW a, Honest(S, p, cursor, a)
  PROVE  Honest(T, p, cursor, a)
  <1>1. After(T, p, cursor) \subseteq After(S, p, cursor)
    BY DEF After, Under
  <1> QED
    BY <1>1 DEF Honest

\* The walk goes on with the page that its last key is the cursor of.
LEMMA WalksOn ==
  ASSUME NEW S \in SUBSET Keys, NEW p, NEW w \in Seq(Keys), NEW a,
         Ascending(w), Covers(w, Under(S, p)), Honest(S, p, End(w), a)
  PROVE  /\ Ascending(w \o a.keys) /\ Covers(w \o a.keys, Under(S, p))
         /\ a.more => End(w \o a.keys) = a.next
         /\ ~a.more => \A k \in Under(S, p) : Holds(w \o a.keys, k)
  <1> DEFINE s == a.keys  v == w \o s  U == Under(S, p)
  <1>1. s \in Seq(Keys) /\ Len(s) \in Nat /\ Len(w) \in Nat /\ U \in SUBSET Keys
    BY DEF Honest, Under
  <1>2. /\ v \in Seq(Keys) /\ Len(v) = Len(w) + Len(s)
        /\ \A i \in 1..(Len(w) + Len(s)) : v[i] = IF i <= Len(w) THEN w[i] ELSE s[i - Len(w)]
    <2> HIDE DEF s
    <2> QED
      BY <1>1, ConcatProperties
  <1>3. /\ \A i \in 1..Len(w) : i \in 1..Len(v) /\ v[i] = w[i] /\ w[i] \in Keys
        /\ \A i \in 1..Len(s) : /\ Len(w) + i \in 1..Len(v) /\ v[Len(w) + i] = s[i]
                                /\ s[i] \in Keys
    <2> HIDE DEF s, v
    <2>1. \A i \in 1..Len(w) : i \in 1..(Len(w) + Len(s)) /\ i <= Len(w)
      BY <1>1
    <2>2. \A i \in 1..Len(s) : /\ Len(w) + i \in 1..(Len(w) + Len(s))
                               /\ ~(Len(w) + i <= Len(w)) /\ (Len(w) + i) - Len(w) = i
      BY <1>1
    <2>3. /\ \A i \in 1..Len(w) : w[i] \in Keys
          /\ \A i \in 1..Len(s) : s[i] \in Keys
      BY <1>1, ElementOfSeq
    <2> QED
      BY <1>2, <2>1, <2>2, <2>3
  <1>4. \A i \in 1..Len(v) :
          \/ i \in 1..Len(w) /\ v[i] = w[i]
          \/ i > Len(w) /\ i - Len(w) \in 1..Len(s) /\ v[i] = s[i - Len(w)]
    <2> HIDE DEF s, v
    <2> QED
      BY <1>1, <1>2
  <1>5. End(w) = (IF w = <<>> THEN None ELSE w[Len(w)])
        /\ (w # <<>> => Len(w) \in 1..Len(w) /\ w[Len(w)] \in Keys /\ End(w) # None)
    <2>1. w # <<>> => Len(w) \in 1..Len(w)
      BY <1>1, EmptySeq
    <2>2. w # <<>> => w[Len(w)] \in Keys /\ w[Len(w)] # None
      BY <1>3, <2>1, ListingConstants
    <2> QED
      BY <2>1, <2>2 DEF End
  <1>6. /\ Ascending(s)
        /\ \A i \in 1..Len(s) : End(w) # None => Before(End(w), s[i])
        /\ \A k \in After(S, p, End(w)) : Holds(s, k) \/ (a.more /\ Before(s[Len(s)], k))
        /\ a.more => s # <<>> /\ a.next = s[Len(s)]
    BY DEF Honest
  <1>7. \A k \in U : Holds(w, k) \/ k \in After(S, p, End(w))
    BY <1>5 DEF Covers, After
  <1>8. \A k : Holds(w, k) \/ Holds(s, k) => Holds(v, k)
    <2> HIDE DEF s, v
    <2> QED
      BY <1>3 DEF Holds
  <1>9. a.more => /\ v # <<>> /\ Len(v) \in 1..Len(v) /\ v[Len(v)] = s[Len(s)]
                  /\ a.next = s[Len(s)]
    <2> HIDE DEF s, v
    <2>1. a.more => Len(s) \in 1..Len(s)
      BY <1>1, <1>6, EmptySeq
    <2> QED
      BY <1>1, <1>2, <1>3, <1>6, <2>1
  <1> HIDE DEF s, v, U
  <1>10. ASSUME NEW i \in 1..Len(v), NEW j \in 1..Len(v), i < j
         PROVE  Before(v[i], v[j])
    <2>1. CASE i \in 1..Len(w) /\ j \in 1..Len(w)
      BY <1>3, <1>10, <2>1 DEF Ascending
    <2>2. CASE i > Len(w) /\ j > Len(w)
      <3>1. /\ i - Len(w) \in 1..Len(s) /\ v[i] = s[i - Len(w)]
            /\ j - Len(w) \in 1..Len(s) /\ v[j] = s[j - Len(w)]
            /\ i - Len(w) < j - Len(w)
        BY <1>1, <1>4, <1>10, <2>2
      <3> QED
        BY <1>6, <3>1 DEF Ascending
    <2>3. CASE i \in 1..Len(w) /\ j > Len(w)
      <3>1. j - Len(w) \in 1..Len(s) /\ v[j] = s[j - Len(w)] /\ v[j] \in Keys
        BY <1>1, <1>3, <1>4, <2>3
      <3>2. w # <<>> /\ v[i] = w[i] /\ w[i] \in Keys
        BY <1>1, <1>3, <2>3
      <3>3. Before(w[Len(w)], v[j]) /\ Len(w) \in 1..Len(w) /\ w[Len(w)] \in Keys
        BY <1>5, <1>6, <3>1, <3>2
      <3>4. i = Len(w) \/ Before(w[i], w[Len(w)])
        BY <1>1, <2>3, <3>3 DEF Ascending
      <3> QED
        BY <3>1, <3>2, <3>3, <3>4, KeysInOrder
    <2> QED
      BY <1>1, <1>2, <1>4, <1>10, <2>1, <2>2, <2>3
  <1>11. Ascending(v)
    BY <1>10 DEF Ascending
  <1>12. Covers(v, U)
    <2> SUFFICES ASSUME NEW k \in U PROVE Holds(v, k) \/ Before(v[Len(v)], k)
      BY DEF Covers
    <2> QED
      BY <1>6, <1>7, <1>8, <1>9
  <1>13. a.more => End(v) = a.next
    BY <1>9 DEF End
  <1>14. ~a.more => \A k \in U : Holds(v, k)
    BY <1>6, <1>7, <1>8
  <1> QED
    BY <1>11, <1>12, <1>13, <1>14 DEF s, v, U

\* The fetch whose answer will be shown, of which there is one.
Newest(c) == c.what = "list" /\ c.seq = listSeq

\* While the walk is complete: where the fetch under way goes on, what its answer says, and
\* where a click on Next would go on.
GoesOn(c) ==
  /\ c.cursor = End(walk) /\ \A i \in Pages : i > pageIndex => pageCursors[i] = None
  /\ c.answer \notin {None, Failed} => Honest(stayed, prefix, c.cursor, c.answer)
Stands ==
  /\ \A i \in Pages : i > pageIndex + 1 => pageCursors[i] = None
  /\ shown.more /\ pageIndex < MaxPages => pageCursors[pageIndex + 1] = End(walk)
  /\ ~shown.more => \A k \in Under(stayed, prefix) : Holds(walk, k)
WalkSound ==
  walk # None /\ ~ahead =>
    /\ Ascending(walk) /\ Covers(walk, Under(stayed, prefix))
    /\ \A c \in calls : Newest(c) => GoesOn(c)
    /\ Settled /\ shown # None => Stands
OneNewest == \A c, d \in calls : Newest(c) /\ Newest(d) => c = d

WalkInv == stayed \subseteq rows /\ OneNewest /\ WalkSound

Known == TypeInv /\ PagerInv

LEMMA WalkSuffices ==
  ASSUME TypeInv, WalkInv PROVE WalkMissesNothing
  BY DEF WalkInv, WalkSound, Ascending, Covers, Holds, Stands, WalkMissesNothing

LEMMA EmptyWalk ==
  /\ Ascending(<<>>) /\ End(<<>>) = None /\ \A K : Covers(<<>>, K)
  BY DEF Ascending, End, Covers

\* Of calls made now one is the newest.
LEMMA NewerCall ==
  ASSUME Known, listSeq' = listSeq + 1, NEW k \in calls', k.what = "list", k.seq = listSeq + 1,
         \A c \in calls' \ calls : c.what = "stats" \/ c = k
  PROVE  /\ \A c \in calls' : Newest(c)' => c = k
         /\ ~Settled' /\ OneNewest'
  <1>1. listSeq \in Nat /\ \A c \in calls : c.seq \in Nat /\ c.seq <= listSeq
    BY DEF Known, PagerInv, Overtaken
  <1>2. \A c \in calls' : Newest(c)' => c = k
    BY <1>1 DEF Newest
  <1>3. ~Settled'
    BY DEF Settled
  <1> QED
    BY <1>2, <1>3 DEF OneNewest

LEMMA WalkInit == Init => WalkInv
  <1> SUFFICES ASSUME Init PROVE WalkInv
    OBVIOUS
  <1> DEFINE k == ListCall(1, <<>>, None, FirstSize)  s == StatsCall(1, <<>>)
  <1>1. /\ k.what = "list" /\ k.seq = 1 /\ k.cursor = None /\ k.answer = None /\ s.what = "stats"
        /\ calls = {k, s} /\ listSeq = 1 /\ walk = <<>> /\ shown = None /\ stayed = rows
        /\ pageCursors = [i \in Pages |-> None]
    BY CallMade, MadeOf DEF Init
  <1> HIDE DEF k, s
  <1>2. \A c \in calls : Newest(c) => c = k
    BY <1>1 DEF Newest
  <1>3. GoesOn(k)
    BY <1>1, EmptyWalk DEF GoesOn
  <1> QED
    BY <1>1, <1>2, <1>3, EmptyWalk DEF WalkInv, WalkSound, OneNewest

LEMMA WalkRelist ==
  ASSUME Known, Relist PROVE WalkInv'
  <1>1. rows' = rows /\ \E p, size : ListObjects(p, size)
    BY DEF Relist, Move
  <1>2. PICK p, size : ListObjects(p, size)
    BY <1>1
  <1> DEFINE s == StatsCall(listSeq + 1, p)
  <1>3. PICK k : k = ListCall(listSeq + 1, p, None, size)
    OBVIOUS
  <1>4. /\ k.what = "list" /\ k.seq = listSeq + 1 /\ k.cursor = None /\ k.answer = None
        /\ s.what = "stats" /\ calls' = calls \cup {k, s} /\ listSeq' = listSeq + 1
        /\ walk' = <<>> /\ stayed' = rows /\ pageCursors' = [i \in Pages |-> None]
    BY <1>3, <1>2, CallMade, MadeOf DEF ListObjects
  <1> HIDE DEF s
  <1>5. (\A c \in calls' : Newest(c)' => c = k) /\ ~Settled' /\ OneNewest'
    BY <1>4, NewerCall
  <1>6. GoesOn(k)'
    BY <1>4, EmptyWalk DEF GoesOn
  <1>7. WalkSound'
    BY <1>4, <1>5, <1>6, EmptyWalk DEF WalkSound
  <1> QED
    BY <1>1, <1>4, <1>5, <1>7 DEF WalkInv

LEMMA WalkNext ==
  ASSUME Known, WalkInv, ClickNext PROVE WalkInv'
  <1>1. PICK k : k = ListCall(listSeq + 1, prefix, pageCursors[pageIndex + 1], pageSize)
    OBVIOUS
  <1>2. /\ k.what = "list" /\ k.seq = listSeq + 1 /\ k.cursor = pageCursors[pageIndex + 1]
        /\ k.answer = None /\ calls' = calls \cup {k} /\ listSeq' = listSeq + 1
        /\ pageIndex' = pageIndex + 1
        /\ UNCHANGED <<rows, stayed, prefix, pageCursors, walk>>
    BY <1>1, CallMade, MadeOf DEF ClickNext, FetchObjectPage
  <1>3. /\ shown # None /\ shown.more /\ pageIndex < MaxPages /\ ~ahead
        /\ ahead' = (pageCursors[pageIndex + 1] = None)
    BY DEF ClickNext
  <1>4. (\A c \in calls' : Newest(c)' => c = k) /\ ~Settled' /\ OneNewest'
    BY <1>2, NewerCall
  <1>5. pageIndex \in Nat /\ pageIndex + 1 \in Pages
    BY <1>3, PagerConstants DEF Known, TypeInv, ConsoleTyped, Pages
  <1>6. ASSUME walk # None, ~ahead'
        PROVE  Ascending(walk) /\ Covers(walk, Under(stayed, prefix)) /\ GoesOn(k)'
    <2>1. Settled
      <3> SUFFICES ASSUME NEW c \in calls, Newest(c) PROVE FALSE
        BY DEF Settled, Newest
      <3>1. pageCursors[pageIndex + 1] = None
        BY <1>3, <1>5, <1>6 DEF WalkInv, WalkSound, GoesOn
      <3> QED
        BY <1>3, <1>6, <3>1
    <2>2. Stands
      BY <1>3, <1>6, <2>1 DEF WalkInv, WalkSound
    <2>3. /\ pageCursors[pageIndex + 1] = End(walk)
          /\ \A i \in Pages : i > pageIndex + 1 => pageCursors[i] = None
      BY <1>3, <2>2 DEF Stands
    <2>4. GoesOn(k)'
      BY <1>2, <2>3 DEF GoesOn
    <2> QED
      BY <1>3, <1>6, <2>4 DEF WalkInv, WalkSound
  <1>7. WalkSound'
    BY <1>2, <1>4, <1>6 DEF WalkSound
  <1> QED
    BY <1>2, <1>4, <1>7 DEF WalkInv

LEMMA WalkBack ==
  ASSUME Known, WalkInv, UNCHANGED <<rows, stayed>>, walk' = None,
         NEW i, FetchObjectPage(prefix, pageSize, pageCursors, i)
  PROVE  WalkInv'
  <1> DEFINE k == ListCall(listSeq + 1, prefix, pageCursors[i], pageSize)
  <1>1. /\ k.what = "list" /\ k.seq = listSeq + 1 /\ calls' = calls \cup {k}
        /\ listSeq' = listSeq + 1
    BY CallMade DEF FetchObjectPage
  <1> HIDE DEF k
  <1>2. OneNewest'
    BY <1>1, NewerCall
  <1> QED
    BY <1>2 DEF WalkInv, WalkSound

LEMMA WalkAnswer ==
  ASSUME Known, WalkInv, NEW c \in calls, NEW a, Answer(c, a),
         a \in {None, Failed} \cup (IF c.what = "list" THEN PageTypes ELSE StatsTypes),
         c.what = "list" /\ a \notin {None, Failed} => Honest(stayed, c.prefix, c.cursor, a),
         UNCHANGED <<rows, console, shown, past>>
  PROVE  WalkInv'
  <1> DEFINE d == [c EXCEPT !.answer = a]
  <1>1. calls' = (calls \ {c}) \cup {d}
    BY DEF Answer
  <1>2. /\ d.what = c.what /\ d.seq = c.seq /\ d.prefix = c.prefix /\ d.cursor = c.cursor
        /\ d.answer = a
    BY Answered DEF Known, TypeInv
  <1> HIDE DEF d
  <1>3. UNCHANGED <<rows, stayed, listSeq, walk, ahead, prefix, pageIndex, pageCursors, shown>>
    BY DEF console, past
  <1>4. OneNewest'
    BY <1>1, <1>2, <1>3 DEF WalkInv, OneNewest, Newest
  <1>5. Settled' => Settled
    BY <1>1, <1>2, <1>3 DEF Settled
  <1>6. Stands' <=> Stands
    BY <1>3 DEF Stands
  <1>7. ASSUME walk # None, ~ahead, NEW e \in calls', Newest(e)' PROVE GoesOn(e)'
    <2>1. CASE e = d
      <3>1. Newest(c)
        BY <1>2, <1>3, <1>7, <2>1 DEF Newest
      <3>2. GoesOn(c)
        BY <1>7, <3>1 DEF WalkInv, WalkSound
      <3>3. c.prefix = prefix /\ c.what = "list"
        BY <3>1 DEF Newest, Known, PagerInv, NewestAsks
      <3> QED
        BY <1>2, <1>3, <2>1, <3>2, <3>3 DEF GoesOn
    <2>2. CASE e # d
      <3>1. e \in calls /\ Newest(e)
        BY <1>1, <1>3, <1>7, <2>2 DEF Newest
      <3>2. GoesOn(e)
        BY <1>7, <3>1 DEF WalkInv, WalkSound
      <3> QED
        BY <1>3, <3>2 DEF GoesOn
    <2> QED
      BY <2>1, <2>2
  <1>8. WalkSound'
    BY <1>3, <1>5, <1>6, <1>7 DEF WalkInv, WalkSound
  <1> QED
    BY <1>3, <1>4, <1>8 DEF WalkInv

LEMMA WalkPage ==
  ASSUME Known, WalkInv, NEW c \in calls, ReceivePage(c)
  PROVE  WalkInv'
  <1>1. /\ calls' = calls \ {c} /\ c.what = "list" /\ c.answer # None
        /\ UNCHANGED <<rows, prefix, pageIndex, listSeq, stayed, ahead>>
    BY DEF ReceivePage
  <1>2. OneNewest'
    BY <1>1 DEF WalkInv, OneNewest, Newest
  <1>3. CASE c.seq # listSeq
    <2>1. UNCHANGED <<shown, pageCursors, walk>> /\ (Settled' => Settled)
      BY <1>1, <1>3 DEF ReceivePage, Settled
    <2>2. Stands' <=> Stands
      BY <1>1, <2>1 DEF Stands
    <2>3. \A e \in calls' : Newest(e)' => e \in calls /\ Newest(e)
      BY <1>1 DEF Newest
    <2>4. \A e : GoesOn(e)' <=> GoesOn(e)
      BY <1>1, <2>1 DEF GoesOn
    <2>5. WalkSound'
      BY <1>1, <2>1, <2>2, <2>3, <2>4 DEF WalkInv, WalkSound
    <2> QED
      BY <1>1, <1>2, <2>5 DEF WalkInv
  <1>4. CASE c.seq = listSeq /\ c.answer = Failed
    <2>1. walk' = None
      BY <1>4 DEF ReceivePage, ShowPage
    <2> QED
      BY <1>1, <1>2, <2>1 DEF WalkInv, WalkSound
  <1>5. CASE c.seq = listSeq /\ c.answer # Failed
    <2> DEFINE a == c.answer
    <2>1. /\ shown' = [index |-> pageIndex, keys |-> a.keys, more |-> a.more, prefix |-> c.prefix]
          /\ pageCursors' = IF a.more /\ pageIndex < MaxPages /\ pageCursors[pageIndex + 1] = None
                              THEN [pageCursors EXCEPT ![pageIndex + 1] = a.next] ELSE pageCursors
          /\ walk' = IF walk = None THEN None ELSE walk \o a.keys
      BY <1>5 DEF ReceivePage, ShowPage
    <2>2. Newest(c) /\ \A e \in calls' : ~Newest(e)'
      BY <1>1, <1>5 DEF Newest, WalkInv, OneNewest
    <2>3. ASSUME walk # None, ~ahead
          PROVE  /\ Ascending(walk') /\ Covers(walk', Under(stayed, prefix))
                 /\ Stands'
      <3>1. GoesOn(c) /\ Ascending(walk) /\ Covers(walk, Under(stayed, prefix))
        BY <2>2, <2>3 DEF WalkInv, WalkSound
      <3>2. Honest(stayed, prefix, End(walk), a)
        BY <1>1, <1>5, <3>1 DEF GoesOn
      <3>3. walk \in Seq(Keys) /\ stayed \in SUBSET Keys
        BY <2>3 DEF Known, TypeInv, ConsoleTyped
      <3>4. walk' = walk \o a.keys
        BY <2>1, <2>3
      <3> HIDE DEF a
      <3>5. /\ Ascending(walk') /\ Covers(walk', Under(stayed, prefix))
            /\ a.more => End(walk') = a.next
            /\ ~a.more => \A k \in Under(stayed, prefix) : Holds(walk', k)
        BY <3>1, <3>2, <3>3, <3>4, WalksOn
      <3>6. \A i \in Pages : i > pageIndex => pageCursors[i] = None
        BY <3>1 DEF GoesOn
      <3>7. /\ pageIndex \in Nat /\ MaxPages \in Nat
            /\ pageIndex < MaxPages => pageIndex + 1 \in Pages
            /\ pageCursors \in [Pages -> Keys \cup {None}]
        BY PagerConstants DEF Known, TypeInv, ConsoleTyped, Pages
      <3>8. \A i \in Pages : i > pageIndex + 1 => pageCursors'[i] = None
        <4>1. \A i \in Pages : i > pageIndex + 1 => pageCursors[i] = None
          BY <3>6, <3>7 DEF Pages
        <4>2. \A i \in Pages : i # pageIndex + 1 => pageCursors'[i] = pageCursors[i]
          BY <2>1, <3>7
        <4> QED
          BY <3>7, <4>1, <4>2 DEF Pages
      <3>9. a.more /\ pageIndex < MaxPages => pageCursors'[pageIndex + 1] = a.next
        <4>1. pageIndex < MaxPages => pageCursors[pageIndex + 1] = None
          BY <3>6, <3>7
        <4> QED
          BY <2>1, <3>7, <4>1
      <3>10. shown'.more = a.more
        BY <2>1
      <3>11. Stands'
        BY <1>1, <3>5, <3>8, <3>9, <3>10 DEF Stands
      <3> QED
        BY <3>5, <3>11
    <2>4. walk' # None => walk # None
      BY <2>1
    <2>5. WalkSound'
      BY <1>1, <2>2, <2>3, <2>4 DEF WalkSound
    <2> QED
      BY <1>1, <1>2, <2>5 DEF WalkInv
  <1> QED
    BY <1>3, <1>4, <1>5

LEMMA WalkChange ==
  ASSUME Known, WalkInv, Change PROVE WalkInv'
  <1>1. /\ stayed' = stayed \cap rows' /\ UNCHANGED <<console, calls, shown, ahead, walk>>
    BY DEF Change
  <1>2. UNCHANGED <<listSeq, prefix, pageIndex, pageCursors>>
    BY <1>1 DEF console
  <1>3. OneNewest' /\ (Settled' <=> Settled)
    BY <1>1, <1>2 DEF WalkInv, OneNewest, Newest, Settled
  <1>4. stayed' \in SUBSET stayed /\ Under(stayed', prefix) \subseteq Under(stayed, prefix)
    BY <1>1 DEF Under
  <1>5. Stands => Stands'
    BY <1>1, <1>2, <1>4 DEF Stands
  <1>6. \A c : GoesOn(c) => GoesOn(c)'
    <2> SUFFICES ASSUME NEW c, GoesOn(c) PROVE GoesOn(c)'
      OBVIOUS
    <2>1. c.answer \notin {None, Failed} => Honest(stayed', prefix, c.cursor, c.answer)
      BY <1>4, HonestOfFewer DEF GoesOn
    <2> QED
      BY <1>1, <1>2, <2>1 DEF GoesOn
  <1>7. \A c \in calls' : Newest(c)' => c \in calls /\ Newest(c)
    BY <1>1, <1>2 DEF Newest
  <1>8. \A w : Covers(w, Under(stayed, prefix)) => Covers(w, Under(stayed', prefix))
    BY <1>4 DEF Covers
  <1>9. WalkSound'
    BY <1>1, <1>2, <1>3, <1>5, <1>6, <1>7, <1>8 DEF WalkInv, WalkSound
  <1> QED
    BY <1>1, <1>3, <1>9 DEF WalkInv

LEMMA WalkStep == Known /\ WalkInv /\ [Next]_vars => WalkInv'
  <1> SUFFICES ASSUME Known, WalkInv, [Next]_vars PROVE WalkInv'
    OBVIOUS
  <1>1. CASE Relist
    BY <1>1, WalkRelist
  <1>2. CASE ClickNext
    BY <1>2, WalkNext
  <1>3. CASE ClickPrev
    BY <1>3, WalkBack DEF ClickPrev, Move
  <1>4. CASE Refresh
    BY <1>4, WalkBack DEF Refresh, Move
  <1>5. ASSUME NEW c \in calls, Serve(c) PROVE WalkInv'
    <2> DEFINE a == IF c.what = "list" THEN Page(rows, c.prefix, c.cursor, c.size)
                                       ELSE Stats(rows, c.prefix)
    <2>1. Answer(c, a) /\ UNCHANGED <<rows, console, shown, past>>
      BY <1>5 DEF Serve
    <2>2. rows \in SUBSET Keys /\ stayed \in SUBSET rows /\ c.size \in Nat
      BY DEF Known, TypeInv, ConsoleTyped, CallOK, WalkInv
    <2>3. a \in {None, Failed} \cup (IF c.what = "list" THEN PageTypes ELSE StatsTypes)
      BY <2>2, PageTyped, StatsTyped
    <2>4. c.what = "list" /\ a \notin {None, Failed} => Honest(stayed, c.prefix, c.cursor, a)
      BY <2>2, ServesHonestly
    <2> HIDE DEF a
    <2> QED
      BY <2>1, <2>3, <2>4, WalkAnswer
  <1>6. ASSUME NEW c \in calls, Fail(c) PROVE WalkInv'
    BY <1>6, WalkAnswer DEF Fail
  <1>7. ASSUME NEW c \in calls, ReceivePage(c) PROVE WalkInv'
    BY <1>7, WalkPage
  <1>8. ASSUME NEW c \in calls, ReceiveStats(c) PROVE WalkInv'
    <2>1. calls' = calls \ {c} /\ c.what = "stats" /\ UNCHANGED <<rows, console, shown, past>>
      BY <1>8 DEF ReceiveStats
    <2>2. UNCHANGED <<rows, stayed, listSeq, walk, ahead, prefix, pageIndex, pageCursors, shown>>
      BY <2>1 DEF console, past
    <2>3. Settled' => Settled
      BY <2>1, <2>2 DEF Settled
    <2>4. \A e \in calls' : e \in calls /\ (Newest(e)' <=> Newest(e))
      BY <2>1, <2>2 DEF Newest
    <2>5. (\A e : GoesOn(e)' <=> GoesOn(e)) /\ (Stands' <=> Stands)
      BY <2>2 DEF GoesOn, Stands
    <2> QED
      BY <2>2, <2>3, <2>4, <2>5 DEF WalkInv, OneNewest, WalkSound
  <1>9. CASE Change
    BY <1>9, WalkChange
  <1>10. CASE Rest \/ UNCHANGED vars
    <2>1. UNCHANGED <<rows, stayed, listSeq, walk, ahead, prefix, pageIndex, pageCursors, shown,
                      calls>>
      BY <1>10 DEF Rest, vars, console, past
    <2>2. \A e \in calls' : e \in calls /\ (Newest(e)' <=> Newest(e))
      BY <2>1 DEF Newest
    <2>3. (\A e : GoesOn(e)' <=> GoesOn(e)) /\ (Stands' <=> Stands) /\ (Settled' <=> Settled)
      BY <2>1 DEF GoesOn, Stands, Settled
    <2> QED
      BY <2>1, <2>2, <2>3 DEF WalkInv, OneNewest, WalkSound
  <1> QED
    BY <1>1, <1>2, <1>3, <1>4, <1>5, <1>6, <1>7, <1>8, <1>9, <1>10 DEF Next

\* Whoever clicks Next through a listing passes over no key that stays there, sees none
\* twice and all in order, whatever rows come and go between the pages and however many
\* answers of older fetches come in between.
THEOREM NothingIsPassedOver == Spec => []WalkMissesNothing
  <1>1. Init => Known /\ WalkInv
    BY TypeInit, PagerInit, WalkInit DEF Known
  <1>2. Known /\ WalkInv /\ [Next]_vars => Known' /\ WalkInv'
    BY TypeStep, PagerStep, WalkStep DEF Known
  <1>3. Known /\ WalkInv => WalkMissesNothing
    BY WalkSuffices DEF Known
  <1> QED
    BY <1>1, <1>2, <1>3, PTL DEF Spec

-----------------------------------------------------------------------------
(* Pages and slices: a cursor stands for the number of keys up to it.        *)

LEMMA DisjointUnion ==
  ASSUME NEW S, NEW T, IsFiniteSet(S), IsFiniteSet(T), S \cap T = {}
  PROVE  IsFiniteSet(S \cup T) /\ Cardinality(S \cup T) = Cardinality(S) + Cardinality(T)
  <1>1. IsFiniteSet(S \cup T)
        /\ Cardinality(S \cup T) = Cardinality(S) + Cardinality(T) - Cardinality(S \cap T)
    BY FS_Union
  <1>2. Cardinality(S \cap T) = 0 /\ Cardinality(S) \in Nat /\ Cardinality(T) \in Nat
    BY FS_EmptySet, FS_CardinalityType
  <1> QED
    BY <1>1, <1>2

\* The cursor comes after n of the keys of U, itself among them.
Passes(U, cursor, n) == (cursor = None /\ n = 0) \/ (cursor \in U /\ Rank(U, cursor) + 1 = n)

LEMMA AfterRanks ==
  ASSUME NEW R \in SUBSET Keys, NEW p, NEW cursor, NEW n \in Nat,
         Passes(Under(R, p), cursor, n)
  PROVE  /\ Cardinality(Under(R, p)) = n + Cardinality(After(R, p, cursor))
         /\ \A k \in After(R, p, cursor) :
              /\ k \in Under(R, p)
              /\ Rank(Under(R, p), k) = n + Rank(After(R, p, cursor), k)
         /\ \A k \in Under(R, p) : Rank(Under(R, p), k) >= n => k \in After(R, p, cursor)
  <1> DEFINE U == Under(R, p)  K == After(R, p, cursor)
  <1>1. U \in SUBSET Keys /\ K = {k \in U : cursor # None => Before(cursor, k)}
    BY DEF Under, After
  <1>2. Passes(U, cursor, n)
    OBVIOUS
  <1> HIDE DEF U, K
  <1>3. IsFiniteSet(U) /\ Cardinality(U) \in Nat /\ IsFiniteSet(K) /\ Cardinality(K) \in Nat
    BY <1>1, FiniteKeys
  <1>4. CASE cursor = None /\ n = 0
    <2>1. K = U
      BY <1>1, <1>4
    <2>2. \A k \in U : Rank(U, k) \in Nat
      BY <1>1, <1>3, RankBounds
    <2> QED
      BY <1>3, <1>4, <2>1, <2>2 DEF U, K
  <1>5. CASE cursor \in U /\ Rank(U, cursor) + 1 = n
    <2>1. cursor # None /\ K = {k \in U : Before(cursor, k)}
      BY <1>1, <1>5, ListingConstants
    <2> DEFINE B == {j \in U : Before(j, cursor)}  C == B \cup {cursor}
    <2>2. B \in SUBSET Keys /\ cursor \notin B /\ Rank(U, cursor) = Cardinality(B)
      BY <1>1, <1>5, KeysInOrder DEF Rank
    <2>3. IsFiniteSet(C) /\ Cardinality(C) = n
      <3> HIDE DEF B
      <3>1. IsFiniteSet(B) /\ Cardinality(B) \in Nat
        BY <2>2, FiniteKeys
      <3> QED
        BY <1>5, <2>2, <3>1, FS_AddElement
    <2>4. \A k \in U : k \in K \/ k \in C
      BY <1>1, <1>5, <2>1, KeysInOrder
    <2>5. C \subseteq U /\ K \subseteq U /\ C \cap K = {}
      <3>1. \A k \in U : ~(Before(k, cursor) /\ Before(cursor, k)) /\ ~Before(cursor, cursor)
        BY <1>1, <1>5, KeysInOrder
      <3> QED
        BY <1>5, <2>1, <3>1
    <2>6. ASSUME NEW k \in K PROVE Rank(U, k) = n + Rank(K, k)
      <3> DEFINE E == {j \in K : Before(j, k)}
      <3>1. {j \in U : Before(j, k)} = C \cup E
        <4>1. \A j \in C : Before(j, k)
          BY <1>1, <1>5, <2>1, KeysInOrder
        <4> QED
          BY <2>4, <2>5, <4>1
      <3>2. C \cap E = {} /\ E \in SUBSET Keys /\ Rank(K, k) = Cardinality(E)
        BY <1>1, <2>5 DEF Rank
      <3>3. Rank(U, k) = Cardinality(C \cup E)
        BY <3>1 DEF Rank
      <3> HIDE DEF C, E
      <3>4. IsFiniteSet(E)
        BY <3>2, FiniteKeys
      <3> QED
        BY <2>3, <3>2, <3>3, <3>4, DisjointUnion
    <2>7. Cardinality(U) = n + Cardinality(K)
      <3>1. U = C \cup K
        BY <2>4, <2>5
      <3> HIDE DEF C
      <3> QED
        BY <1>3, <2>3, <2>5, <3>1, DisjointUnion
    <2>8. ASSUME NEW k \in U, Rank(U, k) >= n PROVE k \in K
      <3>1. Rank(U, k) \in Nat /\ Rank(U, cursor) \in Nat /\ Rank(U, cursor) < Rank(U, k)
        BY <1>1, <1>3, <1>5, <2>8, RankBounds
      <3>2. Before(cursor, k)
        BY <1>1, <1>5, <3>1, RankTells
      <3> QED
        BY <2>1, <3>2
    <2>9. \A k \in K : k \in U
      BY <2>5
    <2> QED
      BY <2>6, <2>7, <2>8, <2>9 DEF U, K
  <1> QED
    BY <1>2, <1>4, <1>5 DEF Passes

\* A page is a slice of the keys, and its cursor comes after one slice more.
LEMMA PageSlice ==
  ASSUME NEW R \in SUBSET Keys, NEW p, NEW cursor, NEW n \in Nat, NEW size \in Nat,
         Passes(Under(R, p), cursor, n), NEW a, a = Page(R, p, cursor, size)
  PROVE  /\ \A k : Holds(a.keys, k) <=>
                   /\ k \in Under(R, p)
                   /\ n <= Rank(Under(R, p), k) /\ Rank(Under(R, p), k) < n + Limit(size)
         /\ a.keys \in Seq(Keys) /\ Ascending(a.keys)
         /\ a.more <=> n + Limit(size) < Cardinality(Under(R, p))
         /\ a.more => Passes(Under(R, p), a.next, n + Limit(size)) /\ a.next \in Under(R, p)
  <1> DEFINE U == Under(R, p)  K == After(R, p, cursor)  l == Limit(size)
  <1>1. U \in SUBSET Keys /\ K \in SUBSET Keys
    BY DEF Under, After
  <1>2. /\ Cardinality(U) = n + Cardinality(K)
        /\ \A k \in K : k \in U /\ Rank(U, k) = n + Rank(K, k)
        /\ \A k \in U : Rank(U, k) >= n => k \in K
    BY AfterRanks
  <1>3. HoldsFirst(a, K, l) /\ l \in Nat /\ l >= 1
    BY PageOf, LimitIs
  <1> HIDE DEF U, K, l
  <1>4. /\ a.keys \in Seq(K)
        /\ Len(a.keys) = IF l < Cardinality(K) THEN l ELSE Cardinality(K)
        /\ \A i \in 1..Len(a.keys) : a.keys[i] \in K /\ Rank(K, a.keys[i]) = i - 1
        /\ (a.more <=> l < Cardinality(K))
    BY <1>3 DEF HoldsFirst
  <1>5. Ascending(a.keys) /\ (a.more => l \in 1..Len(a.keys) /\ a.next = a.keys[l])
    BY <1>1, <1>3, NoneOmitted
  <1>6. Cardinality(K) \in Nat /\ Cardinality(U) \in Nat /\ Len(a.keys) \in Nat
    BY <1>1, <1>4, FiniteKeys
  <1>7. \A k \in K : Rank(K, k) \in 0..(Cardinality(K) - 1)
    BY <1>1, RankBounds
  <1>8. ASSUME NEW k, Holds(a.keys, k)
        PROVE  k \in U /\ n <= Rank(U, k) /\ Rank(U, k) < n + l
    <2>1. PICK i \in 1..Len(a.keys) : a.keys[i] = k
      BY <1>8 DEF Holds
    <2>2. k \in K /\ Rank(K, k) = i - 1
      BY <1>4, <2>1
    <2>3. k \in U /\ Rank(U, k) = n + (i - 1)
      BY <1>2, <2>2
    <2>4. i <= l /\ i >= 1
      BY <1>3, <1>4, <1>6
    <2> QED
      BY <1>3, <2>3, <2>4
  <1>9. ASSUME NEW k \in U, n <= Rank(U, k), Rank(U, k) < n + l
        PROVE  Holds(a.keys, k)
    <2>1. Rank(U, k) \in Nat
      BY <1>1, <1>6, RankBounds
    <2>2. k \in K /\ Rank(U, k) = n + Rank(K, k)
      BY <1>2, <1>9, <2>1
    <2> DEFINE i == Rank(K, k) + 1
    <2>3. Rank(K, k) \in 0..(Cardinality(K) - 1)
      BY <1>7, <2>2
    <2>4. i \in 1..Len(a.keys) /\ i - 1 = Rank(K, k)
      <3>1. ASSUME NEW r \in Nat, r < l, r < Cardinality(K)
            PROVE  r + 1 \in 1..Len(a.keys) /\ (r + 1) - 1 = r
        BY <1>3, <1>4, <1>6, <3>1
      <3>2. Rank(K, k) \in Nat /\ Rank(K, k) < Cardinality(K) /\ Rank(K, k) < l
        BY <1>3, <1>6, <1>9, <2>2, <2>3
      <3> QED
        BY <3>1, <3>2
    <2>5. a.keys[i] \in K /\ Rank(K, a.keys[i]) = Rank(K, k)
      BY <1>4, <2>4
    <2>6. a.keys[i] = k
      BY <1>1, <2>2, <2>5, RankTells
    <2> QED
      BY <2>4, <2>6 DEF Holds
  <1>10. a.more <=> n + l < Cardinality(U)
    BY <1>2, <1>3, <1>4, <1>6
  <1>11. ASSUME a.more PROVE Passes(U, a.next, n + l) /\ a.next \in U
    <2>1. a.next \in K /\ Rank(K, a.next) = l - 1
      BY <1>4, <1>5, <1>11
    <2>2. a.next \in U /\ Rank(U, a.next) = n + (l - 1)
      BY <1>2, <2>1
    <2>3. Rank(U, a.next) + 1 = n + l
      BY <1>3, <2>2
    <2> QED
      BY <2>2, <2>3 DEF Passes
  <1>12. a.keys \in Seq(Keys)
    BY <1>1, <1>4, SeqMonotonic
  <1> QED
    BY <1>5, <1>8, <1>9, <1>10, <1>11, <1>12 DEF U, l

LEMMA DivMeans ==
  ASSUME NEW r \in Nat, NEW l \in Nat, l >= 1, NEW i \in Nat
  PROVE  r \div l = i <=> i * l <= r /\ r < i * l + l
  <1> DEFINE q == r \div l
  <1>1. q \in Nat /\ q * l <= r /\ r < q * l + l
    BY SMTT(30)
  <1> HIDE DEF q
  <1>2. ASSUME i * l <= r, r < i * l + l PROVE q = i
    <2>1. ASSUME i < q PROVE FALSE
      <3>1. (i + 1) * l <= q * l /\ (i + 1) * l = i * l + l
        BY <1>1, <2>1, SMTT(30)
      <3>2. i * l \in Nat /\ q * l \in Nat
        BY <1>1
      <3> QED
        BY <1>1, <1>2, <3>1, <3>2
    <2>2. ASSUME q < i PROVE FALSE
      <3>1. (q + 1) * l <= i * l /\ (q + 1) * l = q * l + l
        BY <1>1, <2>2, SMTT(30)
      <3>2. i * l \in Nat /\ q * l \in Nat
        BY <1>1
      <3> QED
        BY <1>1, <1>2, <3>1, <3>2
    <2> QED
      BY <1>1, <2>1, <2>2
  <1> QED
    BY <1>1, <1>2 DEF q

\* What the table should show now, and what the cursor after page i comes after.
Current == Page(rows, prefix, pageCursors[pageIndex], pageSize)
Ends(i, cursor) == cursor \in Under(rows, prefix)
                   /\ Passes(Under(rows, prefix), cursor, i * Limit(pageSize))

AsksCurrent(c) ==
  /\ c.cursor = pageCursors[pageIndex] /\ c.size = pageSize
  /\ c.answer \notin {None, Failed} => c.answer = Current
Exact ==
  quiet /\ ~ahead =>
    /\ pageCursors[0] = None
    /\ \A i \in Pages : i > 0 /\ pageCursors[i] # None => Ends(i, pageCursors[i])
    /\ \A i \in Pages : i > 0 /\ i <= pageIndex => pageCursors[i] # None
    /\ \A c \in calls : Newest(c) => AsksCurrent(c)
    /\ Settled /\ shown # None => shown.keys = Current.keys /\ shown.more = Current.more

LEMMA CursorNow ==
  ASSUME Known, Exact, quiet, ~ahead
  PROVE  Passes(Under(rows, prefix), pageCursors[pageIndex], pageIndex * Limit(pageSize))
  <1>1. pageIndex \in Pages /\ pageIndex \in Nat /\ Limit(pageSize) \in Nat
    BY PagerConstants, LimitIs DEF Known, TypeInv, ConsoleTyped, Pages
  <1>2. CASE pageIndex = 0
    <2>1. pageCursors[pageIndex] = None /\ pageIndex * Limit(pageSize) = 0
      BY <1>1, <1>2 DEF Exact
    <2> QED
      BY <2>1 DEF Passes
  <1>3. CASE pageIndex > 0
    BY <1>1, <1>3 DEF Exact, Ends
  <1> QED
    BY <1>1, <1>2, <1>3

\* The page at the cursor of page i is the i-th slice.
LEMMA CurrentSlice ==
  ASSUME Known, Exact, quiet, ~ahead
  PROVE  /\ \A k : Holds(Current.keys, k) <=> k \in Slice(pageIndex)
         /\ Current.keys \in Seq(Keys) /\ Ascending(Current.keys)
         /\ Current.more <=> Slice(pageIndex + 1) # {}
         /\ Current.more => Ends(pageIndex + 1, Current.next)
  <1> DEFINE U == Under(rows, prefix)  l == Limit(pageSize)  i == pageIndex  n == i * l
  <1>1. rows \in SUBSET Keys /\ pageSize \in Nat /\ i \in Nat /\ U \in SUBSET Keys
    BY PagerConstants DEF Known, TypeInv, ConsoleTyped, Pages, Under
  <1>2. l \in Nat /\ l >= 1
    BY <1>1, LimitIs
  <1>3. Passes(U, pageCursors[pageIndex], n)
    BY CursorNow
  <1>4. n \in Nat /\ n + l \in Nat /\ (i + 1) * l = n + l
    <2> HIDE DEF l, i
    <2>1. i * l \in Nat
      BY <1>1, <1>2
    <2>2. (i + 1) * l = i * l + l
      BY <1>1, <1>2
    <2> QED
      BY <1>2, <2>1, <2>2
  <1>5. /\ \A k : Holds(Current.keys, k) <=> k \in U /\ n <= Rank(U, k) /\ Rank(U, k) < n + l
        /\ Current.keys \in Seq(Keys) /\ Ascending(Current.keys)
        /\ Current.more <=> n + l < Cardinality(U)
        /\ Current.more => Passes(U, Current.next, n + l) /\ Current.next \in U
    <2>1. n \in Nat
      BY <1>4
    <2> HIDE DEF n
    <2> QED
      BY <1>1, <1>3, <2>1, PageSlice DEF Current
  <1>6. \A k \in U : Rank(U, k) \in Nat
    BY <1>1, FiniteKeys, RankBounds
  <1>7. ASSUME NEW m \in Nat
        PROVE  \A k : k \in Slice(m) <=> k \in U /\ m * l <= Rank(U, k) /\ Rank(U, k) < m * l + l
    <2>1. Slice(m) = {k \in U : Rank(U, k) \div l = m}
      BY DEF Slice, Rank
    <2>2. \A k \in U : Rank(U, k) \div l = m <=> m * l <= Rank(U, k) /\ Rank(U, k) < m * l + l
      <3> HIDE DEF U, l
      <3> QED
        BY <1>2, <1>6, DivMeans
    <2> HIDE DEF U, l
    <2> QED
      BY <2>1, <2>2
  <1> HIDE DEF U, l
  <1>8. \A k : Holds(Current.keys, k) <=> k \in Slice(pageIndex)
    BY <1>1, <1>5, <1>7
  <1>9. \A k : k \in Slice(i + 1) <=> k \in U /\ n + l <= Rank(U, k) /\ Rank(U, k) < (n + l) + l
    <2>1. i + 1 \in Nat
      BY <1>1
    <2> HIDE DEF i, n
    <2> QED
      BY <1>4, <1>7, <2>1
  <1> HIDE DEF n
  <1>10. Cardinality(U) \in Nat
    BY <1>1, FiniteKeys
  <1>11. Slice(i + 1) # {} => n + l < Cardinality(U)
    <2> SUFFICES ASSUME NEW k \in Slice(i + 1) PROVE n + l < Cardinality(U)
      OBVIOUS
    <2>1. k \in U /\ n + l <= Rank(U, k)
      BY <1>9
    <2>2. Rank(U, k) \in 0..(Cardinality(U) - 1)
      BY <1>1, <2>1, RankBounds
    <2> QED
      BY <1>4, <1>10, <2>1, <2>2
  <1>12. n + l < Cardinality(U) => Slice(i + 1) # {}
    <2> SUFFICES ASSUME n + l < Cardinality(U) PROVE Slice(i + 1) # {}
      OBVIOUS
    <2>1. n + l \in 0..(Cardinality(U) - 1)
      BY <1>4, <1>10
    <2>2. PICK k \in U : Rank(U, k) = n + l
      BY <1>1, <2>1, RankTaken
    <2>3. n + l <= Rank(U, k) /\ Rank(U, k) < (n + l) + l
      BY <1>2, <1>4, <2>2
    <2> QED
      BY <1>9, <2>3
  <1>13. Current.more => Ends(pageIndex + 1, Current.next)
    BY <1>4, <1>5 DEF Ends, U, l
  <1> QED
    BY <1>5, <1>8, <1>11, <1>12, <1>13

\* Of a sequence without repetitions: as many keys as it is long.
LEMMA AscendingCounts ==
  ASSUME NEW s \in Seq(Keys), Ascending(s), NEW S, \A k : Holds(s, k) <=> k \in S
  PROVE  /\ {s[j] : j \in 1..Len(s)} = S /\ IsFiniteSet(S) /\ Cardinality(S) = Len(s)
         /\ \A i, j \in 1..Len(s) : s[i] = s[j] => i = j
  <1> DEFINE I == 1..Len(s)  f == [j \in I |-> s[j]]
  <1>1. Len(s) \in Nat /\ \A j \in I : s[j] \in Keys
    BY ElementOfSeq
  <1>2. \A i, j \in I : s[i] = s[j] => i = j
    <2> SUFFICES ASSUME NEW i \in I, NEW j \in I, s[i] = s[j], i # j PROVE FALSE
      OBVIOUS
    <2>1. i < j \/ j < i
      BY <1>1
    <2>2. Before(s[i], s[j]) \/ Before(s[j], s[i])
      BY <2>1 DEF Ascending
    <2> QED
      BY <1>1, <2>2, KeysInOrder
  <1>3. {s[j] : j \in I} = S
    BY DEF Holds
  <1>4. IsFiniteSet(I) /\ Cardinality(I) = Len(s)
    <2>1. 1 \in Int /\ Len(s) \in Int
      BY <1>1
    <2>2. IsFiniteSet(I) /\ Cardinality(I) = IF 1 > Len(s) THEN 0 ELSE Len(s) - 1 + 1
      BY <2>1, FS_Interval
    <2> HIDE DEF I
    <2> QED
      BY <1>1, <2>2
  <1>5. /\ f \in [I -> S] /\ \A x \in S : \E j \in I : f[j] = x
        /\ \A i, j \in I : f[i] = f[j] => i = j
    <2>1. \A j \in I : s[j] \in S
      BY <1>3
    <2> QED
      BY <1>2, <1>3, <2>1
  <1> HIDE DEF I, f
  <1>6. f \in Surjection(I, S) /\ f \in Injection(I, S)
    BY <1>5, Fun_IsSurj, Fun_IsInj
  <1>7. IsFiniteSet(S) /\ Cardinality(S) = Cardinality(I)
    BY <1>4, <1>6, FS_Surjection
  <1> QED
    BY <1>2, <1>3, <1>4, <1>7 DEF I

LEMMA ExactSuffices ==
  ASSUME Known, Exact PROVE ExactPages
  <1> SUFFICES ASSUME Settled, shown # None, quiet, ~ahead
      PROVE  /\ {shown.keys[j] : j \in 1..Len(shown.keys)} = Slice(pageIndex)
             /\ Len(shown.keys) = Cardinality(Slice(pageIndex))
             /\ shown.more <=> Slice(pageIndex + 1) # {}
    BY DEF ExactPages
  <1>1. shown.keys = Current.keys /\ shown.more = Current.more
    BY DEF Exact
  <1>2. /\ \A k : Holds(Current.keys, k) <=> k \in Slice(pageIndex)
        /\ Current.keys \in Seq(Keys) /\ Ascending(Current.keys)
        /\ Current.more <=> Slice(pageIndex + 1) # {}
    BY CurrentSlice
  <1>3. /\ {Current.keys[j] : j \in 1..Len(Current.keys)} = Slice(pageIndex)
        /\ Cardinality(Slice(pageIndex)) = Len(Current.keys)
    BY <1>2, AscendingCounts
  <1> QED
    BY <1>1, <1>2, <1>3

LEMMA ExactInit == Init => Exact
  <1> SUFFICES ASSUME Init PROVE Exact
    OBVIOUS
  <1> DEFINE k == ListCall(1, <<>>, None, FirstSize)  s == StatsCall(1, <<>>)
  <1>1. /\ k.what = "list" /\ k.cursor = None /\ k.answer = None /\ k.size = FirstSize
        /\ s.what = "stats" /\ calls = {k, s} /\ shown = None /\ pageIndex = 0
        /\ pageSize = FirstSize /\ pageCursors = [i \in Pages |-> None]
    BY CallMade, MadeOf DEF Init
  <1> HIDE DEF k, s
  <1>2. 0 \in Pages /\ \A i \in Pages : i \in Nat
    BY PagerConstants DEF Pages
  <1>3. AsksCurrent(k)
    BY <1>1, <1>2 DEF AsksCurrent
  <1>4. \A c \in calls : Newest(c) => AsksCurrent(c)
    BY <1>1, <1>3 DEF Newest
  <1> QED
    BY <1>1, <1>2, <1>4 DEF Exact

LEMMA ExactRelist ==
  ASSUME Known, Relist PROVE Exact'
  <1>1. \E p, size : ListObjects(p, size)
    BY DEF Relist
  <1>2. PICK p, size : ListObjects(p, size)
    BY <1>1
  <1>3. PICK k : k = ListCall(listSeq + 1, p, None, size)
    OBVIOUS
  <1> DEFINE s == StatsCall(listSeq + 1, p)
  <1>4. /\ k.what = "list" /\ k.seq = listSeq + 1 /\ k.cursor = None /\ k.answer = None
        /\ k.size = size /\ s.what = "stats" /\ calls' = calls \cup {k, s}
        /\ listSeq' = listSeq + 1 /\ pageIndex' = 0 /\ pageSize' = size
        /\ pageCursors' = [i \in Pages |-> None]
    BY <1>2, <1>3, CallMade, MadeOf DEF ListObjects
  <1> HIDE DEF s
  <1>5. (\A c \in calls' : Newest(c)' => c = k) /\ ~Settled'
    BY <1>4, NewerCall
  <1>6. 0 \in Pages /\ \A i \in Pages : i \in Nat
    BY PagerConstants DEF Pages
  <1>7. AsksCurrent(k)'
    BY <1>4, <1>6 DEF AsksCurrent
  <1>8. \A c \in calls' : Newest(c)' => AsksCurrent(c)'
    BY <1>5, <1>7
  <1> QED
    BY <1>4, <1>5, <1>6, <1>8 DEF Exact

LEMMA ExactFetch ==
  ASSUME Known, Exact, NEW i \in Pages, FetchObjectPage(prefix, pageSize, pageCursors, i),
         UNCHANGED <<rows, prefix, pageSize, pageCursors, quiet>>,
         quiet /\ ~ahead' => ~ahead /\ \A j \in Pages : j > 0 /\ j <= i => pageCursors[j] # None
  PROVE  Exact'
  <1>1. PICK k : k = ListCall(listSeq + 1, prefix, pageCursors[i], pageSize)
    OBVIOUS
  <1>2. /\ k.what = "list" /\ k.seq = listSeq + 1 /\ k.cursor = pageCursors[i] /\ k.answer = None
        /\ k.size = pageSize /\ calls' = calls \cup {k} /\ listSeq' = listSeq + 1
        /\ pageIndex' = i
    BY <1>1, CallMade, MadeOf DEF FetchObjectPage
  <1>3. (\A c \in calls' : Newest(c)' => c = k) /\ ~Settled'
    BY <1>2, NewerCall
  <1>4. AsksCurrent(k)'
    BY <1>2 DEF AsksCurrent
  <1>5. \A c \in calls' : Newest(c)' => AsksCurrent(c)'
    BY <1>3, <1>4
  <1>6. quiet /\ ~ahead' =>
          /\ pageCursors[0] = None
          /\ \A j \in Pages : j > 0 /\ pageCursors[j] # None => Ends(j, pageCursors[j])
    BY DEF Exact
  <1>7. quiet /\ ~ahead' =>
          \A j \in Pages : j > 0 /\ pageCursors'[j] # None => Ends(j, pageCursors[j])'
    <2> SUFFICES ASSUME quiet, ~ahead', NEW j \in Pages, j > 0, pageCursors[j] # None
        PROVE  Ends(j, pageCursors[j])'
      OBVIOUS
    <2>1. Ends(j, pageCursors[j])
      BY <1>6
    <2> QED
      BY <2>1 DEF Ends
  <1> QED
    BY <1>2, <1>3, <1>5, <1>6, <1>7 DEF Exact

LEMMA ExactAnswer ==
  ASSUME Known, Exact, NEW c \in calls, NEW a, Answer(c, a),
         a \in {None, Failed} \cup (IF c.what = "list" THEN PageTypes ELSE StatsTypes),
         c.what = "list" /\ a \notin {None, Failed} => a = Page(rows, c.prefix, c.cursor, c.size),
         UNCHANGED <<rows, console, shown, past>>
  PROVE  Exact'
  <1> DEFINE d == [c EXCEPT !.answer = a]
  <1>1. calls' = (calls \ {c}) \cup {d}
    BY DEF Answer
  <1>2. /\ d.what = c.what /\ d.seq = c.seq /\ d.cursor = c.cursor /\ d.size = c.size
        /\ d.answer = a
    BY Answered DEF Known, TypeInv
  <1> HIDE DEF d
  <1>3. UNCHANGED <<rows, listSeq, quiet, ahead, prefix, pageSize, pageIndex, pageCursors, shown>>
    BY DEF console, past
  <1>4. Settled' => Settled
    BY <1>1, <1>2, <1>3 DEF Settled
  <1>5. Current' = Current
    BY <1>3 DEF Current
  <1>6. ASSUME quiet, ~ahead, NEW e \in calls', Newest(e)' PROVE AsksCurrent(e)'
    <2>1. CASE e = d
      <3>1. Newest(c)
        BY <1>2, <1>3, <1>6, <2>1 DEF Newest
      <3>2. AsksCurrent(c)
        BY <1>6, <3>1 DEF Exact
      <3>3. c.prefix = prefix /\ c.what = "list"
        BY <3>1 DEF Newest, Known, PagerInv, NewestAsks
      <3>4. a \notin {None, Failed} => a = Current
        BY <3>2, <3>3 DEF AsksCurrent, Current
      <3> QED
        BY <1>2, <1>3, <1>5, <2>1, <3>2, <3>4 DEF AsksCurrent
    <2>2. CASE e # d
      <3>1. e \in calls /\ Newest(e)
        BY <1>1, <1>3, <1>6, <2>2 DEF Newest
      <3>2. AsksCurrent(e)
        BY <1>6, <3>1 DEF Exact
      <3> QED
        BY <1>3, <1>5, <3>2 DEF AsksCurrent
    <2> QED
      BY <2>1, <2>2
  <1>7. \A i \in Pages : Ends(i, pageCursors[i])' <=> Ends(i, pageCursors[i])
    BY <1>3 DEF Ends
  <1> QED
    BY <1>3, <1>4, <1>5, <1>6, <1>7 DEF Exact

LEMMA ExactPage ==
  ASSUME Known, WalkInv, Exact, NEW c \in calls, ReceivePage(c)
  PROVE  Exact'
  <1>1. /\ calls' = calls \ {c} /\ c.what = "list" /\ c.answer # None
        /\ UNCHANGED <<rows, prefix, pageSize, pageIndex, listSeq, quiet, ahead>>
    BY DEF ReceivePage
  <1>2. \A e \in calls' : e \in calls /\ (Newest(e)' <=> Newest(e))
    BY <1>1 DEF Newest
  <1>3. CASE c.seq # listSeq
    <2>1. UNCHANGED <<shown, pageCursors>> /\ (Settled' => Settled)
      BY <1>1, <1>3 DEF ReceivePage, Settled
    <2>2. Current' = Current /\ \A e : AsksCurrent(e)' <=> AsksCurrent(e)
      BY <1>1, <2>1 DEF Current, AsksCurrent
    <2>3. \A i \in Pages : Ends(i, pageCursors[i])' <=> Ends(i, pageCursors[i])
      BY <1>1, <2>1 DEF Ends
    <2> QED
      BY <1>1, <1>2, <2>1, <2>2, <2>3 DEF Exact
  <1>4. CASE c.seq = listSeq /\ c.answer = Failed
    <2>1. shown' = None /\ pageCursors' = pageCursors
      BY <1>4 DEF ReceivePage, ShowPage
    <2>2. Current' = Current /\ \A e : AsksCurrent(e)' <=> AsksCurrent(e)
      BY <1>1, <2>1 DEF Current, AsksCurrent
    <2>3. \A i \in Pages : Ends(i, pageCursors[i])' <=> Ends(i, pageCursors[i])
      BY <1>1, <2>1 DEF Ends
    <2> QED
      BY <1>1, <1>2, <2>1, <2>2, <2>3 DEF Exact
  <1>5. CASE c.seq = listSeq /\ c.answer # Failed
    <2> SUFFICES ASSUME quiet, ~ahead PROVE Exact'
      BY <1>1 DEF Exact
    <2>1. Newest(c) /\ \A e \in calls' : ~Newest(e)'
      BY <1>1, <1>5 DEF Newest, WalkInv, OneNewest
    <2>2. c.answer = Current
      BY <1>1, <1>5, <2>1 DEF Exact, AsksCurrent
    <2>3. /\ shown' = [index |-> pageIndex, keys |-> Current.keys, more |-> Current.more,
                       prefix |-> c.prefix]
          /\ pageCursors' = IF Current.more /\ pageIndex < MaxPages
                               /\ pageCursors[pageIndex + 1] = None
                              THEN [pageCursors EXCEPT ![pageIndex + 1] = Current.next]
                              ELSE pageCursors
      BY <1>5, <2>2 DEF ReceivePage, ShowPage
    <2>4. Current.more => Ends(pageIndex + 1, Current.next)
      BY CurrentSlice
    <2>5. /\ pageIndex \in Pages /\ pageIndex \in Nat /\ 0 \in Pages
          /\ pageCursors \in [Pages -> Keys \cup {None}] /\ \A i \in Pages : i \in Nat
          /\ rows \in SUBSET Keys
      BY PagerConstants DEF Known, TypeInv, ConsoleTyped, Pages
    <2>6. /\ \A i \in Pages : i # pageIndex + 1 => pageCursors'[i] = pageCursors[i]
          /\ \A i \in Pages : /\ pageCursors[i] # None => pageCursors'[i] = pageCursors[i]
                              /\ pageCursors'[i] # pageCursors[i] =>
                                   /\ Current.more /\ i = pageIndex + 1
                                   /\ pageCursors'[i] = Current.next
      BY <2>3, <2>5
    <2>7. Current' = Current
      <3>1. pageCursors'[pageIndex] = pageCursors[pageIndex]
        BY <2>5, <2>6
      <3> QED
        BY <1>1, <3>1 DEF Current
    <2>8. pageCursors'[0] = None
      <3>1. pageCursors'[0] = pageCursors[0]
        BY <2>5, <2>6
      <3> QED
        BY <3>1 DEF Exact
    <2>9. ASSUME NEW i \in Pages, i > 0, pageCursors'[i] # None
          PROVE  Ends(i, pageCursors[i])'
      <3>1. CASE pageCursors'[i] = pageCursors[i]
        <4>1. Ends(i, pageCursors[i])
          BY <2>9, <3>1 DEF Exact
        <4> QED
          BY <1>1, <3>1, <4>1 DEF Ends
      <3>2. CASE pageCursors'[i] # pageCursors[i]
        <4>1. Current.more /\ i = pageIndex + 1 /\ pageCursors'[i] = Current.next
          BY <2>6, <3>2
        <4>2. Ends(i, Current.next)
          BY <2>4, <4>1
        <4> QED
          BY <1>1, <4>1, <4>2 DEF Ends
      <3> QED
        BY <3>1, <3>2
    <2>10. \A i \in Pages : i > 0 /\ i <= pageIndex => pageCursors'[i] # None
      <3>1. \A i \in Pages : i > 0 /\ i <= pageIndex => pageCursors[i] # None
        BY DEF Exact
      <3> QED
        BY <2>6, <3>1
    <2>11. shown'.keys = Current.keys /\ shown'.more = Current.more
      BY <2>3
    <2> QED
      BY <1>1, <2>1, <2>7, <2>8, <2>9, <2>10, <2>11 DEF Exact
  <1> QED
    BY <1>3, <1>4, <1>5

LEMMA ExactStep == Known /\ WalkInv /\ Exact /\ [Next]_vars => Exact'
  <1> SUFFICES ASSUME Known, WalkInv, Exact, [Next]_vars PROVE Exact'
    OBVIOUS
  <1>1. pageIndex \in Pages /\ pageIndex \in Nat /\ \A j \in Pages : j \in Nat
    BY PagerConstants DEF Known, TypeInv, ConsoleTyped, Pages
  <1>2. quiet /\ ~ahead => \A j \in Pages : j > 0 /\ j <= pageIndex => pageCursors[j] # None
    BY DEF Exact
  <1>3. CASE Relist
    BY <1>3, ExactRelist
  <1>4. CASE ClickNext
    <2>1. /\ FetchObjectPage(prefix, pageSize, pageCursors, pageIndex + 1)
          /\ UNCHANGED <<rows, prefix, pageSize, pageCursors, quiet>>
          /\ ~ahead /\ (ahead' <=> pageCursors[pageIndex + 1] = None) /\ pageIndex < MaxPages
      BY <1>4 DEF ClickNext
    <2>2. pageIndex + 1 \in Pages
      BY <1>1, <2>1, PagerConstants DEF Pages
    <2>3. \A j \in Pages : j <= pageIndex + 1 => j <= pageIndex \/ j = pageIndex + 1
      BY <1>1
    <2>4. quiet /\ ~ahead' =>
            ~ahead /\ \A j \in Pages : j > 0 /\ j <= pageIndex + 1 => pageCursors[j] # None
      BY <1>2, <2>1, <2>3
    <2> QED
      BY <2>1, <2>2, <2>4, ExactFetch
  <1>5. CASE ClickPrev
    <2>1. /\ FetchObjectPage(prefix, pageSize, pageCursors, pageIndex - 1)
          /\ UNCHANGED <<rows, prefix, pageSize, pageCursors, quiet, ahead>> /\ pageIndex > 0
      BY <1>5 DEF ClickPrev, Move
    <2>2. pageIndex - 1 \in Pages
      BY <1>1, <2>1, PagerConstants DEF Pages
    <2>3. \A j \in Pages : j <= pageIndex - 1 => j <= pageIndex
      BY <1>1
    <2>4. quiet /\ ~ahead' =>
            ~ahead /\ \A j \in Pages : j > 0 /\ j <= pageIndex - 1 => pageCursors[j] # None
      BY <1>2, <2>1, <2>3
    <2> QED
      BY <2>1, <2>2, <2>4, ExactFetch
  <1>6. CASE Refresh
    <2>1. /\ FetchObjectPage(prefix, pageSize, pageCursors, pageIndex)
          /\ UNCHANGED <<rows, prefix, pageSize, pageCursors, quiet, ahead>>
      BY <1>6 DEF Refresh, Move
    <2> QED
      BY <1>1, <1>2, <2>1, ExactFetch
  <1>7. ASSUME NEW c \in calls, Serve(c) PROVE Exact'
    <2> DEFINE a == IF c.what = "list" THEN Page(rows, c.prefix, c.cursor, c.size)
                                       ELSE Stats(rows, c.prefix)
    <2>1. Answer(c, a) /\ UNCHANGED <<rows, console, shown, past>>
      BY <1>7 DEF Serve
    <2>2. rows \in SUBSET Keys /\ c.size \in Nat
      BY DEF Known, TypeInv, ConsoleTyped, CallOK
    <2>3. a \in {None, Failed} \cup (IF c.what = "list" THEN PageTypes ELSE StatsTypes)
      BY <2>2, PageTyped, StatsTyped
    <2>4. c.what = "list" => a = Page(rows, c.prefix, c.cursor, c.size)
      OBVIOUS
    <2> HIDE DEF a
    <2> QED
      BY <2>1, <2>3, <2>4, ExactAnswer
  <1>8. ASSUME NEW c \in calls, Fail(c) PROVE Exact'
    BY <1>8, ExactAnswer DEF Fail
  <1>9. ASSUME NEW c \in calls, ReceivePage(c) PROVE Exact'
    BY <1>9, ExactPage
  <1>10. CASE Change
    BY <1>10 DEF Change, Exact
  <1>11. CASE (\E c \in calls : ReceiveStats(c)) \/ Rest \/ UNCHANGED vars
    <2>1. /\ UNCHANGED <<rows, console, shown, quiet, ahead>>
          /\ calls' \subseteq calls /\ \A c \in calls \ calls' : c.what = "stats"
      BY <1>11 DEF ReceiveStats, Rest, vars, past
    <2>2. UNCHANGED <<listSeq, prefix, pageSize, pageIndex, pageCursors>>
      BY <2>1 DEF console
    <2>3. (Settled' => Settled) /\ Current' = Current
      BY <2>1, <2>2 DEF Settled, Current
    <2>4. \A e : (Newest(e)' <=> Newest(e)) /\ (AsksCurrent(e)' <=> AsksCurrent(e))
      BY <2>2, <2>3 DEF Newest, AsksCurrent
    <2>5. \A i \in Pages : Ends(i, pageCursors[i])' <=> Ends(i, pageCursors[i])
      BY <2>1, <2>2 DEF Ends
    <2> QED
      BY <2>1, <2>2, <2>3, <2>4, <2>5 DEF Exact
  <1> QED
    BY <1>3, <1>4, <1>5, <1>6, <1>7, <1>8, <1>9, <1>10, <1>11 DEF Next

\* As long as no rows come or go, page i shows the i-th slice of the keys and offers Next
\* just if another follows, by whatever clicks it was reached.
THEOREM PagesAreSlices == Spec => []ExactPages
  <1>1. Init => Known /\ WalkInv /\ Exact
    BY TypeInit, PagerInit, WalkInit, ExactInit DEF Known
  <1>2. Known /\ WalkInv /\ Exact /\ [Next]_vars => Known' /\ WalkInv' /\ Exact'
    BY TypeStep, PagerStep, WalkStep, ExactStep DEF Known
  <1>3. Known /\ Exact => ExactPages
    BY ExactSuffices
  <1> QED
    BY <1>1, <1>2, <1>3, PTL DEF Spec

-----------------------------------------------------------------------------
(* The totals: a walk to the end has seen what they count.                   *)

\* At the top of the folder are its folders and its files.
LEMMA TopLevels ==
  ASSUME NEW U \in SUBSET Keys
  PROVE  Cardinality({TopLevel(k) : k \in U})
           = Cardinality({Folder(k) : k \in {m \in U : HasSlash(m)}})
             + Cardinality({k \in U : ~HasSlash(k)})
  <1> DEFINE M == {m \in U : HasSlash(m)}  F == {Folder(k) : k \in M}
             L == {k \in U : ~HasSlash(k)}
             A == {<<f, Slash>> : f \in F}  B == {<<k>> : k \in L}
             o == [k \in M |-> Folder(k)]
             g == [f \in F |-> <<f, Slash>>]  h == [k \in L |-> <<k>>]
  <1>1. {TopLevel(k) : k \in U} = A \cup B
    <2>1. \A k \in M : TopLevel(k) = <<Folder(k), Slash>>
      BY DEF TopLevel
    <2>2. \A k \in L : TopLevel(k) = <<k>>
      BY DEF TopLevel
    <2>3. \A k \in U : k \in M \/ k \in L
      OBVIOUS
    <2>4. \A k \in U : TopLevel(k) \in A \cup B
      BY <2>1, <2>2, <2>3
    <2>5. \A x \in A : \E k \in U : x = TopLevel(k)
      BY <2>1
    <2>6. \A x \in B : \E k \in U : x = TopLevel(k)
      BY <2>2
    <2> QED
      BY <2>4, <2>5, <2>6
  <1>2. A \cap B = {}
    OBVIOUS
  <1>3. M \in SUBSET Keys /\ L \in SUBSET Keys
    OBVIOUS
  <1>4. o \in [M -> F] /\ \A x \in F : \E k \in M : o[k] = x
    OBVIOUS
  <1>5. /\ g \in [F -> A] /\ \A x \in A : \E f \in F : g[f] = x
        /\ \A e, f \in F : g[e] = g[f] => e = f
    <2> HIDE DEF F
    <2> QED
      OBVIOUS
  <1>6. /\ h \in [L -> B] /\ \A x \in B : \E k \in L : h[k] = x
        /\ \A j, k \in L : h[j] = h[k] => j = k
    <2> HIDE DEF L
    <2> QED
      OBVIOUS
  <1> HIDE DEF M, F, L, A, B, o, g, h
  <1>7. IsFiniteSet(F) /\ IsFiniteSet(L)
    <2>1. o \in Surjection(M, F)
      BY <1>4, Fun_IsSurj
    <2> QED
      BY <1>3, <2>1, FiniteKeys, FS_Surjection
  <1>8. IsFiniteSet(A) /\ Cardinality(A) = Cardinality(F)
    <2>1. g \in Surjection(F, A) /\ g \in Injection(F, A)
      BY <1>5, Fun_IsSurj, Fun_IsInj
    <2> QED
      BY <1>7, <2>1, FS_Surjection
  <1>9. IsFiniteSet(B) /\ Cardinality(B) = Cardinality(L)
    <2>1. h \in Surjection(L, B) /\ h \in Injection(L, B)
      BY <1>6, Fun_IsSurj, Fun_IsInj
    <2> QED
      BY <1>7, <2>1, FS_Surjection
  <1>10. Cardinality(A \cup B) = Cardinality(F) + Cardinality(L)
    BY <1>2, <1>8, <1>9, DisjointUnion
  <1> QED
    BY <1>1, <1>10 DEF F, L, M

\* While no rows come or go: the totals of this listing are those of the rows, and the walk
\* has seen none that is not there.
TotalsInv ==
  quiet =>
    /\ stayed = rows
    /\ \A c \in calls : c.what = "stats" /\ c.seq = begun =>
         c.prefix = prefix /\ (c.answer \notin {None, Failed} => c.answer = Stats(rows, prefix))
    /\ summary # None /\ summary.seq = begun => summary.totals = Stats(rows, prefix)
    /\ ~ahead /\ walk # None => \A k : Holds(walk, k) => k \in Under(rows, prefix)

LEMMA TotalsSuffice ==
  ASSUME Known, WalkInv, TotalsInv PROVE TotalsMatchWalk
  <1> SUFFICES ASSUME walk # None, quiet, ~ahead, Settled, shown # None, ~shown.more,
                      summary # None, summary.seq = begun
      PROVE  /\ summary.totals.objects = Len(walk)
             /\ summary.totals.folders + summary.totals.files
                  = Cardinality({TopLevel(walk[i]) : i \in 1..Len(walk)})
    BY DEF TotalsMatchWalk
  <1> DEFINE U == Under(rows, prefix)
  <1>1. /\ summary.totals = Stats(rows, prefix) /\ stayed = rows
        /\ \A k : Holds(walk, k) => k \in U
    BY DEF TotalsInv
  <1>2. Ascending(walk) /\ \A k \in U : Holds(walk, k)
    BY <1>1 DEF WalkInv, WalkSound, Stands
  <1>3. walk \in Seq(Keys) /\ U \in SUBSET Keys
    BY DEF Known, TypeInv, ConsoleTyped, Under
  <1>4. /\ Stats(rows, prefix).objects = Cardinality(U)
        /\ Stats(rows, prefix).folders = Cardinality({Folder(k) : k \in {m \in U : HasSlash(m)}})
        /\ Stats(rows, prefix).files = Cardinality({k \in U : ~HasSlash(k)})
    BY DEF Stats
  <1> HIDE DEF U
  <1>5. {walk[j] : j \in 1..Len(walk)} = U /\ Cardinality(U) = Len(walk)
    BY <1>1, <1>2, <1>3, AscendingCounts
  <1>6. {TopLevel(walk[i]) : i \in 1..Len(walk)} = {TopLevel(k) : k \in U}
    BY <1>5
  <1> QED
    BY <1>1, <1>3, <1>4, <1>5, <1>6, TopLevels

LEMMA TotalsInit == Init => TotalsInv
  <1> SUFFICES ASSUME Init PROVE TotalsInv
    OBVIOUS
  <1> DEFINE k == ListCall(1, <<>>, None, FirstSize)  s == StatsCall(1, <<>>)
  <1>1. /\ k.what = "list" /\ s.what = "stats" /\ s.prefix = prefix /\ s.answer = None
        /\ calls = {k, s} /\ summary = None /\ stayed = rows /\ walk = <<>>
    BY CallMade, MadeOf DEF Init
  <1> HIDE DEF k, s
  <1>2. \A x : ~Holds(walk, x)
    BY <1>1 DEF Holds
  <1> QED
    BY <1>1, <1>2 DEF TotalsInv

LEMMA TotalsRelist ==
  ASSUME Known, Relist PROVE TotalsInv'
  <1>1. UNCHANGED <<rows, summary>> /\ \E p, size : ListObjects(p, size)
    BY DEF Relist, Move
  <1>2. PICK p, size : ListObjects(p, size)
    BY <1>1
  <1> DEFINE k == ListCall(listSeq + 1, p, None, size)  s == StatsCall(listSeq + 1, p)
  <1>3. /\ k.what = "list" /\ s.what = "stats" /\ s.prefix = p /\ s.answer = None
        /\ calls' = calls \cup {k, s} /\ prefix' = p /\ begun' = listSeq + 1
        /\ stayed' = rows /\ walk' = <<>>
    BY <1>2, CallMade, MadeOf DEF ListObjects
  <1> HIDE DEF k, s
  <1>4. \A c \in calls : c.seq # listSeq + 1
    BY DEF Known, PagerInv, Overtaken
  <1>5. summary # None => summary.seq # listSeq + 1
    BY DEF Known, TypeInv, ConsoleTyped, SummaryTyped
  <1>6. \A x : ~Holds(walk', x)
    BY <1>3 DEF Holds
  <1>7. \A c \in calls' : c.what = "stats" /\ c.seq = begun' =>
          c.prefix = prefix' /\ c.answer = None
    BY <1>3, <1>4
  <1> QED
    BY <1>1, <1>3, <1>5, <1>6, <1>7 DEF TotalsInv

LEMMA TotalsFetch ==
  ASSUME TotalsInv, NEW i, FetchObjectPage(prefix, pageSize, pageCursors, i),
         UNCHANGED <<rows, prefix, summary, begun, quiet, stayed>>,
         walk' = None \/ (walk' = walk /\ (~ahead' => ~ahead))
  PROVE  TotalsInv'
  <1>1. \A c \in calls' : c.what = "stats" => c \in calls
    BY CallMade DEF FetchObjectPage
  <1> QED
    BY <1>1 DEF TotalsInv

LEMMA TotalsAnswer ==
  ASSUME Known, TotalsInv, NEW c \in calls, NEW a, Answer(c, a),
         a \in {None, Failed} \cup (IF c.what = "list" THEN PageTypes ELSE StatsTypes),
         c.what = "stats" /\ a \notin {None, Failed} => a = Stats(rows, c.prefix),
         UNCHANGED <<rows, console, summary, past>>
  PROVE  TotalsInv'
  <1> DEFINE d == [c EXCEPT !.answer = a]
  <1>1. calls' = (calls \ {c}) \cup {d}
    BY DEF Answer
  <1>2. d.what = c.what /\ d.seq = c.seq /\ d.prefix = c.prefix /\ d.answer = a
    BY Answered DEF Known, TypeInv
  <1> HIDE DEF d
  <1>3. UNCHANGED <<rows, prefix, summary, begun, quiet, stayed, ahead, walk>>
    BY DEF console, past
  <1>4. ASSUME quiet, NEW e \in calls', e.what = "stats", e.seq = begun
        PROVE  /\ e.prefix = prefix
               /\ e.answer \notin {None, Failed} => e.answer = Stats(rows, prefix)
    <2>1. CASE e = d
      BY <1>2, <1>4, <2>1 DEF TotalsInv
    <2>2. CASE e # d
      BY <1>1, <1>4, <2>2 DEF TotalsInv
    <2> QED
      BY <2>1, <2>2
  <1> QED
    BY <1>3, <1>4 DEF TotalsInv

LEMMA TotalsPage ==
  ASSUME Known, WalkInv, Exact, TotalsInv, NEW c \in calls, ReceivePage(c)
  PROVE  TotalsInv'
  <1>1. /\ calls' = calls \ {c} /\ c.what = "list" /\ c.answer # None
        /\ UNCHANGED <<rows, prefix, summary, begun, quiet, stayed, ahead>>
    BY DEF ReceivePage
  <1>2. ASSUME quiet, ~ahead, walk' # None, NEW k, Holds(walk', k)
        PROVE  k \in Under(rows, prefix)
    <2>1. CASE c.seq # listSeq
      BY <1>2, <2>1 DEF ReceivePage, TotalsInv
    <2>2. CASE c.seq = listSeq
      <3>1. Newest(c)
        BY <1>1, <2>2 DEF Newest
      <3>2. c.answer # Failed /\ walk # None /\ walk' = walk \o c.answer.keys
        BY <1>2, <2>2 DEF ReceivePage, ShowPage
      <3>3. c.answer = Current
        BY <1>1, <1>2, <3>1, <3>2 DEF Exact, AsksCurrent
      <3>4. Current.keys \in Seq(Keys) /\ \A x : Holds(Current.keys, x) <=> x \in Slice(pageIndex)
        BY <1>2, CurrentSlice
      <3>5. walk \in Seq(Keys)
        BY <3>2 DEF Known, TypeInv, ConsoleTyped
      <3> DEFINE s == Current.keys
      <3>6. s \in Seq(Keys) /\ walk' = walk \o s
        BY <3>2, <3>3, <3>4
      <3> HIDE DEF s
      <3>7. Holds(walk, k) \/ Holds(s, k)
        <4>1. /\ walk \o s \in Seq(Keys) /\ Len(walk \o s) = Len(walk) + Len(s)
              /\ \A i \in 1..(Len(walk) + Len(s)) :
                   (walk \o s)[i] = IF i <= Len(walk) THEN walk[i] ELSE s[i - Len(walk)]
          BY <3>5, <3>6, ConcatProperties
        <4>2. PICK i \in 1..(Len(walk) + Len(s)) : (walk \o s)[i] = k
          BY <1>2, <3>6, <4>1 DEF Holds
        <4>3. Len(walk) \in Nat /\ Len(s) \in Nat
          BY <3>5, <3>6
        <4>4. CASE i <= Len(walk)
          <5>1. i \in 1..Len(walk) /\ walk[i] = k
            BY <4>1, <4>2, <4>3, <4>4
          <5> QED
            BY <5>1 DEF Holds
        <4>5. CASE ~(i <= Len(walk))
          <5>1. i - Len(walk) \in 1..Len(s) /\ s[i - Len(walk)] = k
            BY <4>1, <4>2, <4>3, <4>5
          <5> QED
            BY <5>1 DEF Holds
        <4> QED
          BY <4>4, <4>5
      <3>8. Holds(s, k) => k \in Under(rows, prefix)
        BY <3>4 DEF s, Slice
      <3> QED
        BY <1>2, <3>2, <3>7, <3>8 DEF TotalsInv
    <2> QED
      BY <2>1, <2>2
  <1> QED
    BY <1>1, <1>2 DEF TotalsInv

LEMMA TotalsStep == Known /\ WalkInv /\ Exact /\ TotalsInv /\ [Next]_vars => TotalsInv'
  <1> SUFFICES ASSUME Known, WalkInv, Exact, TotalsInv, [Next]_vars PROVE TotalsInv'
    OBVIOUS
  <1>1. CASE Relist
    BY <1>1, TotalsRelist
  <1>2. CASE ClickNext
    BY <1>2, TotalsFetch DEF ClickNext
  <1>3. CASE ClickPrev
    BY <1>3, TotalsFetch DEF ClickPrev, Move
  <1>4. CASE Refresh
    BY <1>4, TotalsFetch DEF Refresh, Move
  <1>5. ASSUME NEW c \in calls, Serve(c) PROVE TotalsInv'
    <2> DEFINE a == IF c.what = "list" THEN Page(rows, c.prefix, c.cursor, c.size)
                                       ELSE Stats(rows, c.prefix)
    <2>1. Answer(c, a) /\ UNCHANGED <<rows, console, summary, past>>
      BY <1>5 DEF Serve
    <2>2. rows \in SUBSET Keys /\ c.size \in Nat
      BY DEF Known, TypeInv, ConsoleTyped, CallOK
    <2>3. a \in {None, Failed} \cup (IF c.what = "list" THEN PageTypes ELSE StatsTypes)
      BY <2>2, PageTyped, StatsTyped
    <2>4. c.what = "stats" => a = Stats(rows, c.prefix)
      OBVIOUS
    <2> HIDE DEF a
    <2> QED
      BY <2>1, <2>3, <2>4, TotalsAnswer
  <1>6. ASSUME NEW c \in calls, Fail(c) PROVE TotalsInv'
    BY <1>6, TotalsAnswer DEF Fail
  <1>7. ASSUME NEW c \in calls, ReceivePage(c) PROVE TotalsInv'
    BY <1>7, TotalsPage
  <1>8. ASSUME NEW c \in calls, ReceiveStats(c) PROVE TotalsInv'
    <2>1. /\ calls' = calls \ {c} /\ c.what = "stats" /\ c.answer # None
          /\ UNCHANGED <<rows, console, past>>
          /\ summary' = IF c.answer = Failed THEN None ELSE [seq |-> c.seq, totals |-> c.answer]
      BY <1>8 DEF ReceiveStats
    <2>2. UNCHANGED <<rows, prefix, begun, quiet, stayed, ahead, walk>>
      BY <2>1 DEF console, past
    <2>3. quiet /\ summary' # None /\ summary'.seq = begun =>
            summary'.totals = Stats(rows, prefix)
      BY <2>1 DEF TotalsInv
    <2> QED
      BY <2>1, <2>2, <2>3 DEF TotalsInv
  <1>9. CASE Change
    BY <1>9 DEF Change, TotalsInv
  <1>10. CASE Rest \/ UNCHANGED vars
    <2>1. UNCHANGED <<rows, calls, prefix, summary, begun, quiet, stayed, ahead, walk>>
      BY <1>10 DEF Rest, vars, console, past
    <2> QED
      BY <2>1 DEF TotalsInv
  <1> QED
    BY <1>1, <1>2, <1>3, <1>4, <1>5, <1>6, <1>7, <1>8, <1>9, <1>10 DEF Next

\* As long as no rows come or go, the totals above the table count the objects, the folders
\* and the files that a walk to the end of the listing has shown.
THEOREM TotalsAgree == Spec => []TotalsMatchWalk
  <1>1. Init => Known /\ WalkInv /\ Exact /\ TotalsInv
    BY TypeInit, PagerInit, WalkInit, ExactInit, TotalsInit DEF Known
  <1>2. Known /\ WalkInv /\ Exact /\ TotalsInv /\ [Next]_vars
          => Known' /\ WalkInv' /\ Exact' /\ TotalsInv'
    BY TypeStep, PagerStep, WalkStep, ExactStep, TotalsStep DEF Known
  <1>3. Known /\ WalkInv /\ TotalsInv => TotalsMatchWalk
    BY TotalsSuffice
  <1> QED
    BY <1>1, <1>2, <1>3, PTL DEF Spec
=============================================================================
