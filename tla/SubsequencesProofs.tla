------------------------- MODULE SubsequencesProofs -------------------------
(***************************************************************************)
(* What a pass over a sequence keeps: exactly the entries at the chosen    *)
(* places, each once and in the order they had. And what a loop over the   *)
(* places 1..n has at each of them.                                        *)
(***************************************************************************)
EXTENDS Subsequences, SequenceTheorems, FiniteSetTheorems, TLAPS

Rank(I, i) == Cardinality({j \in I : j <= i})

LEMMA RankIsPlace ==
  ASSUME NEW n \in Nat, NEW I \in SUBSET (1..n)
  PROVE  /\ IsFiniteSet(I) /\ Cardinality(I) \in 0..n
         /\ \A i \in I : Rank(I, i) \in 1..Cardinality(I)
         /\ \A i, j \in I : i < j => Rank(I, i) < Rank(I, j)
<1>. DEFINE Upto(i) == {j \in I : j <= i}
<1>1. IsFiniteSet(1..n) /\ Cardinality(1..n) = n
  BY FS_Interval
<1>2. IsFiniteSet(I) /\ Cardinality(I) <= n /\ Cardinality(I) \in Nat
  BY <1>1, FS_Subset, FS_CardinalityType
<1>3. \A i \in I : /\ IsFiniteSet(Upto(i)) /\ Cardinality(Upto(i)) \in Nat
                   /\ Cardinality(Upto(i)) <= Cardinality(I)
  <2>1. \A i \in I : Upto(i) \subseteq I
    OBVIOUS
  <2>. HIDE DEF Upto
  <2>. QED
    BY <1>2, <2>1, FS_Subset, FS_CardinalityType
<1>4. \A i \in I : Cardinality(Upto(i)) # 0
  <2>1. \A i \in I : i \in Upto(i)
    OBVIOUS
  <2>2. \A i \in I : Upto(i) # {}
    BY <2>1
  <2>. HIDE DEF Upto
  <2>. QED
    BY <1>3, <2>2, FS_EmptySet
<1>5. ASSUME NEW i \in I, NEW j \in I, i < j
      PROVE  Cardinality(Upto(i)) < Cardinality(Upto(j))
  <2>0. \A k \in I : k \in Int
    OBVIOUS
  <2>1. Upto(i) \subseteq Upto(j) /\ j \in Upto(j) /\ j \notin Upto(i)
    <3>1. i \in Int /\ j \in Int /\ j <= j /\ ~(j <= i)
      BY <1>5, <2>0
    <3>2. \A k \in I : k <= i => k <= j
      BY <1>5, <2>0
    <3>. QED
      BY <3>1, <3>2
  <2>. HIDE DEF Upto
  <2>2. /\ Cardinality(Upto(i)) <= Cardinality(Upto(j))
        /\ Cardinality(Upto(i)) = Cardinality(Upto(j)) => Upto(i) = Upto(j)
    BY <1>3, <2>1, FS_Subset
  <2>. QED
    BY <1>3, <2>1, <2>2
<1>6. \A i \in I : Rank(I, i) = Cardinality(Upto(i))
  BY DEF Rank
<1>. HIDE DEF Upto
<1>. QED
  BY <1>2, <1>3, <1>4, <1>5, <1>6

\* Each place of a subsequence is that of one entry.
LEMMA EveryPlace ==
  ASSUME NEW n \in Nat, NEW I \in SUBSET (1..n), NEW k \in 1..Cardinality(I)
  PROVE  \E i \in I : Rank(I, i) = k
<1>. DEFINE f == [i \in I |-> Rank(I, i)]
            T == 1..Cardinality(I)
<1>1. /\ IsFiniteSet(I) /\ Cardinality(I) \in Nat
      /\ \A i \in I : Rank(I, i) \in T
      /\ \A i, j \in I : i < j => Rank(I, i) < Rank(I, j)
  BY RankIsPlace
<1>2. IsFiniteSet(T) /\ Cardinality(T) = Cardinality(I)
  BY <1>1, FS_Interval
<1>3. \A i, j \in I : Rank(I, i) = Rank(I, j) => i = j
  <2>1. \A i \in I : i \in Int /\ Rank(I, i) \in Int
    BY <1>1
  <2>. QED
    BY <1>1, <2>1
<1>4. f \in Injection(I, T)
  <2>1. f \in [I -> T]
    BY <1>1
  <2>. QED
    BY <1>3, <2>1 DEF Injection, IsInjective
<1>. HIDE DEF f, T
<1>5. f \in Surjection(I, T)
  BY <1>1, <1>2, <1>4, FS_Injection
<1>6. \E i \in I : f[i] = k
  BY <1>5 DEF Surjection, T
<1>. QED
  BY <1>6 DEF f

\* The entries of a subsequence are those of the sequence at places of its own,
\* further on from one to the next; and none that was chosen is missing.
Places(s, I, q, f) ==
  /\ f \in [1..Len(q) -> I]
  /\ \A k \in 1..Len(q) : q[k] = s[f[k]]
  /\ \A k, l \in 1..Len(q) : k < l => f[k] < f[l]
  /\ \A i \in I : \E k \in 1..Len(q) : f[k] = i

LEMMA SubsequenceIs ==
  ASSUME NEW A, NEW s \in Seq(A), NEW I \in SUBSET (1..Len(s))
  PROVE  /\ Subsequence(s, I) \in Seq(A)
         /\ Len(Subsequence(s, I)) = Cardinality(I)
         /\ Len(Subsequence(s, I)) \in 0..Len(s)
         /\ \E f : Places(s, I, Subsequence(s, I), f)
<1>. DEFINE q == Subsequence(s, I)
            c == Cardinality(I)
            f == [k \in 1..c |-> CHOOSE i \in I : Rank(I, i) = k]
<1>1. Len(s) \in Nat /\ \A i \in 1..Len(s) : s[i] \in A
  BY LenProperties, ElementOfSeq
<1>0. \A i \in I : i \in Int
  BY <1>1
<1>2. /\ c \in 0..Len(s)
      /\ \A i \in I : Rank(I, i) \in 1..c
      /\ \A i, j \in I : i < j => Rank(I, i) < Rank(I, j)
  BY <1>1, RankIsPlace
<1>3. \A k \in 1..c : f[k] \in I /\ Rank(I, f[k]) = k
  <2>1. \A k \in 1..c : \E i \in I : Rank(I, i) = k
    BY <1>1, EveryPlace
  <2>. QED
    BY <2>1
<1>4. q = [k \in 1..c |-> s[CHOOSE i \in I : Rank(I, i) = k]]
  BY DEF Subsequence, Rank
<1>5. \A k \in 1..c : q[k] = s[f[k]]
  BY <1>4
<1>6. f \in [1..c -> I]
  BY <1>3
<1>7. q = [k \in 1..c |-> q[k]]
  BY <1>4
<1>. HIDE DEF q, f, c
<1>8. \A k \in 1..c : q[k] \in A
  BY <1>1, <1>3, <1>5
<1>9. q \in [1..c -> A]
  BY <1>7, <1>8
<1>10. q \in Seq(A) /\ Len(q) = c
  <2>1. c \in Nat
    BY <1>2
  <2>2. q \in Seq(A)
    BY <1>9, <2>1, SeqDef
  <2>3. DOMAIN q = 1..c /\ DOMAIN q = 1..Len(q) /\ Len(q) \in Nat
    BY <1>9, <2>2, LenProperties
  <2>4. 1..Len(q) = 1..c
    BY Zenon, <2>3
  <2>5. (c > 0 => c \in 1..Len(q)) /\ (Len(q) > 0 => Len(q) \in 1..c)
    BY <2>1, <2>3, <2>4
  <2>6. Len(q) = c
    BY <2>1, <2>3, <2>5
  <2>. QED
    BY <2>2, <2>6
<1>11. ASSUME NEW k \in 1..c, NEW l \in 1..c, k < l
       PROVE  f[k] < f[l]
  <2>1. f[k] \in Int /\ f[l] \in Int /\ f[k] \in I /\ f[l] \in I
    BY <1>0, <1>3
  <2>2. ~(f[l] < f[k])
    <3>1. f[l] < f[k] => Rank(I, f[l]) < Rank(I, f[k])
      BY <1>2, <2>1
    <3>2. Rank(I, f[k]) = k /\ Rank(I, f[l]) = l
      BY <1>3
    <3>. QED
      BY <1>11, <3>1, <3>2
  <2>3. f[l] # f[k]
    <3>1. Rank(I, f[k]) = k /\ Rank(I, f[l]) = l /\ k # l
      BY <1>3, <1>11
    <3>. QED
      BY <3>1
  <2>. QED
    BY <2>1, <2>2, <2>3
<1>12. ASSUME NEW i \in I
       PROVE  \E k \in 1..c : f[k] = i
  <2>. DEFINE k == Rank(I, i)
  <2>1. k \in 1..c
    BY <1>2
  <2>2. f[k] \in I /\ Rank(I, f[k]) = Rank(I, i)
    BY <1>3, <2>1
  <2>3. i \in Int /\ f[k] \in Int
    BY <1>0, <2>2
  <2>4. ~(i < f[k]) /\ ~(f[k] < i)
    <3>1. k \in Int
      BY <2>1
    <3>2. i < f[k] => Rank(I, i) < Rank(I, f[k])
      BY <1>2, <2>2
    <3>3. f[k] < i => Rank(I, f[k]) < Rank(I, i)
      BY <1>2, <2>2
    <3>. QED
      BY <2>2, <3>1, <3>2, <3>3
  <2>. QED
    BY <2>1, <2>3, <2>4
<1>13. Places(s, I, q, f)
  BY <1>5, <1>6, <1>10, <1>11, <1>12 DEF Places
<1>14. q \in Seq(A) /\ Len(q) = c /\ Len(q) \in 0..Len(s) /\ \E g : Places(s, I, q, g)
  BY <1>2, <1>10, <1>13
<1>. QED
  BY <1>14 DEF q, c

\* A pass over a sequence drops what is not chosen, and nothing else.
LEMMA SubsequenceKeeps ==
  ASSUME NEW A, NEW s \in Seq(A), NEW I \in SUBSET (1..Len(s))
  PROVE  LET q == Subsequence(s, I) IN
         /\ q \in Seq(A) /\ Len(q) <= Len(s)
         /\ \A k \in 1..Len(q) : \E i \in I : q[k] = s[i]
         /\ \A i \in I : \E k \in 1..Len(q) : q[k] = s[i]
<1>. DEFINE q == Subsequence(s, I)
<1>1. q \in Seq(A) /\ Len(q) \in 0..Len(s) /\ Len(s) \in Nat
  BY SubsequenceIs, LenProperties
<1>2. PICK f : Places(s, I, q, f)
  BY SubsequenceIs
<1>. HIDE DEF q
<1>3. /\ \A k \in 1..Len(q) : f[k] \in I /\ q[k] = s[f[k]]
      /\ \A i \in I : \E k \in 1..Len(q) : f[k] = i
  BY <1>2 DEF Places
<1>4. \A i \in I : \E k \in 1..Len(q) : q[k] = s[i]
  BY <1>3
<1>5. q \in Seq(A) /\ Len(q) <= Len(s)
  BY <1>1
<1>6. \A k \in 1..Len(q) : \E i \in I : q[k] = s[i]
  BY <1>3
<1>. QED
  BY <1>4, <1>5, <1>6 DEF q

-----------------------------------------------------------------------------
(* Among places there is a first one, so what holds at 0 and is handed on  *)
(* from each place to the next holds at all of them.                       *)

LEMMA FirstPlace ==
  ASSUME NEW n \in Nat, NEW I \in SUBSET (1..n), I # {}
  PROVE  \E i \in I : \A j \in I : i <= j
<1>1. /\ Cardinality(I) \in Nat /\ \A i \in I : Rank(I, i) \in 1..Cardinality(I)
      /\ \A i, j \in I : i < j => Rank(I, i) < Rank(I, j)
  BY RankIsPlace
<1>2. 1 \in 1..Cardinality(I)
  <2>1. PICK i \in I : TRUE
    OBVIOUS
  <2>2. Rank(I, i) \in 1..Cardinality(I)
    BY <1>1
  <2>. QED
    BY <1>1, <2>2
<1>3. PICK i \in I : Rank(I, i) = 1
  BY <1>2, EveryPlace
<1>4. ASSUME NEW j \in I PROVE i <= j
  <2>1. i \in Int /\ j \in Int
    OBVIOUS
  <2>2. ~(j < i)
    <3>1. j < i => Rank(I, j) < 1 /\ Rank(I, j) \in 1..Cardinality(I)
      BY <1>1, <1>3
    <3>. QED
      BY <1>1, <3>1
  <2>. QED
    BY <2>1, <2>2
<1>. QED
  BY <1>4

LEMMA PlaceByPlace ==
  ASSUME NEW n \in Nat, NEW T, 0 \in T, \A k \in 1..n : k - 1 \in T => k \in T
  PROVE  0..n \subseteq T
<1>. DEFINE Missing == (1..n) \ T
<1>1. SUFFICES Missing = {}
  <2>1. \A k \in 0..n : k = 0 \/ k \in 1..n
    OBVIOUS
  <2>. QED
    BY <2>1
<1>2. SUFFICES ASSUME Missing # {} PROVE FALSE
  OBVIOUS
<1>3. Missing \in SUBSET (1..n)
  OBVIOUS
<1>. HIDE DEF Missing
<1>4. PICK k \in Missing : \A j \in Missing : k <= j
  BY <1>2, <1>3, FirstPlace
<1>5. k \in 1..n /\ k \notin T
  BY DEF Missing
<1>6. k - 1 \in T
  <2>1. CASE k = 1
    BY <2>1
  <2>2. CASE k # 1
    <3>1. k - 1 \in 1..n /\ ~(k <= k - 1)
      BY <1>5, <2>2
    <3>2. k - 1 \notin Missing
      BY <1>4, <3>1
    <3>. QED
      BY <3>1, <3>2 DEF Missing
  <2>. QED
    BY <2>1, <2>2
<1>. QED
  BY <1>5, <1>6

\* An iteration that starts in S and stays there has its values at each place.
Iterates(f, n, S, b, step) ==
  f \in [0..n -> S] /\ f[0] = b /\ \A k \in 1..n : f[k] = step[<<f[k - 1], k>>]

LEMMA IterationExists ==
  ASSUME NEW n \in Nat, NEW S, NEW b \in S, NEW step \in [S \X (1..n) -> S]
  PROVE  \E f : Iterates(f, n, S, b, step)
<1>. DEFINE T == {m \in 0..n : \E f : Iterates(f, m, S, b, step)}
<1>1. 0 \in T
  <2>. DEFINE f == [k \in 0..0 |-> b]
  <2>1. Iterates(f, 0, S, b, step)
    BY DEF Iterates
  <2>. QED
    BY <2>1
<1>2. ASSUME NEW k \in 1..n, k - 1 \in T PROVE k \in T
  <2>1. PICK f : Iterates(f, k - 1, S, b, step)
    BY <1>2
  <2>2. k \in 0..n /\ k - 1 \in 0..(k - 1) /\ k \notin 0..(k - 1)
    OBVIOUS
  <2>3. f \in [0..(k - 1) -> S] /\ f[0] = b
        /\ \A j \in 1..(k - 1) : f[j] = step[<<f[j - 1], j>>]
    BY <2>1 DEF Iterates
  <2>. DEFINE x == step[<<f[k - 1], k>>]
              g == [j \in 0..k |-> IF j = k THEN x ELSE f[j]]
  <2>4. x \in S
    <3>1. f[k - 1] \in S
      BY <2>2, <2>3
    <3>2. <<f[k - 1], k>> \in S \X (1..n)
      BY <3>1
    <3>. QED
      BY <3>2
  <2>5. g \in [0..k -> S]
    <3>1. \A j \in 0..k : j # k => j \in 0..(k - 1)
      OBVIOUS
    <3>. QED
      BY <2>3, <2>4, <3>1
  <2>6. g[0] = b /\ g[k] = x /\ \A j \in 0..(k - 1) : g[j] = f[j]
    <3>1. 0 \in 0..k /\ 0 # k /\ k \in 0..k
      OBVIOUS
    <3>2. \A j \in 0..(k - 1) : j \in 0..k /\ j # k
      OBVIOUS
    <3>. QED
      BY <2>3, <3>1, <3>2
  <2>7. ASSUME NEW j \in 1..k PROVE g[j] = step[<<g[j - 1], j>>]
    <3>1. j - 1 \in 0..(k - 1)
      OBVIOUS
    <3>2. g[j - 1] = f[j - 1]
      BY <2>6, <3>1
    <3>3. CASE j = k
      BY <2>6, <3>2, <3>3
    <3>4. CASE j # k
      <4>1. j \in 1..(k - 1) /\ j \in 0..(k - 1)
        BY <3>4
      <4>. QED
        BY <2>3, <2>6, <3>2, <4>1
    <3>. QED
      BY <3>3, <3>4
  <2>. HIDE DEF g, x
  <2>8. Iterates(g, k, S, b, step)
    BY <2>3, <2>5, <2>6, <2>7 DEF Iterates
  <2>. QED
    BY <2>2, <2>8
<1>. HIDE DEF T
<1>3. 0..n \subseteq T
  BY <1>1, <1>2, PlaceByPlace
<1>. QED
  BY <1>3 DEF T
=============================================================================
