-------------------------- MODULE StateMergeProofs --------------------------
(***************************************************************************)
(* What the merge of save_run returns, for all sequences of items: where   *)
(* its items come from, that the keys on disk stay in place, and that no   *)
(* key comes twice if none was twice on disk.  Then what one more item of  *)
(* the command changes in it: what the loop of the code relies on.  And    *)
(* what a filter keeps.                                                    *)
(***************************************************************************)
EXTENDS StateMerge, FiniteSetTheorems, WellFoundedInduction, TLAPS

\* No key is twice in s; t has the keys of s in their places, and maybe more.
OneEach(s) == \A i, j \in 1 .. Len(s) : s[i].key = s[j].key => i = j
Extends(s, t) == Len(s) <= Len(t) /\ \A i \in 1 .. Len(s) : t[i].key = s[i].key

\* A non-empty set of numbers has a least one.
LEMMA LeastNumber ==
  ASSUME NEW T \in SUBSET Nat, T # {}
  PROVE  \E x \in T : \A y \in T : x <= y
<1>1. \E x \in T : \A y \in T : ~(<<y, x>> \in OpToRel(<, Nat))
  BY NatLessThanWellFounded, WFMin
<1>2. \A x, y \in Nat : y < x => <<y, x>> \in OpToRel(<, Nat)
  BY DEF OpToRel
<1>3. \E x \in T : \A y \in T : ~(y < x)
  BY <1>1, <1>2, Zenon
<1> QED BY <1>3

\* A key of a sequence occurs a last and a first time in it.
LEMMA LastExists ==
  ASSUME NEW S, NEW s \in Seq(S), NEW k \in Keys(s)
  PROVE  \E i \in 1 .. Len(s) : s[i].key = k /\ \A j \in i + 1 .. Len(s) : s[j].key # k
<1> DEFINE T == {n \in Nat : n < Len(s) /\ s[Len(s) - n].key = k}
<1>1. PICK i \in 1 .. Len(s) : s[i].key = k
  BY DEF Keys
<1>2. Len(s) - i \in T
  BY <1>1
<1>3. PICK n \in T : \A m \in T : n <= m
  BY <1>2, LeastNumber
<1>4. Len(s) - n \in 1 .. Len(s) /\ s[Len(s) - n].key = k
  BY <1>3
<1>5. ASSUME NEW j \in Len(s) - n + 1 .. Len(s) PROVE s[j].key # k
  <2>1. Len(s) - j \in Nat /\ Len(s) - j < n /\ Len(s) - (Len(s) - j) = j /\ j \in Nat
    BY <1>3, <1>4
  <2>2. Len(s) - j < Len(s)
    BY <1>4
  <2>3. Len(s) - j \notin T
    BY <1>3, <2>1
  <2> QED BY <2>1, <2>2, <2>3
<1> QED BY <1>4, <1>5

LEMMA FirstExists ==
  ASSUME NEW S, NEW s \in Seq(S), NEW k \in Keys(s)
  PROVE  \E i \in 1 .. Len(s) : s[i].key = k /\ IsFirst(s, i)
<1> DEFINE T == {n \in 1 .. Len(s) : s[n].key = k}
<1>1. T # {} /\ T \in SUBSET Nat
  BY DEF Keys
<1>2. PICK n \in T : \A m \in T : n <= m
  BY <1>1, LeastNumber
<1> QED BY <1>2 DEF IsFirst

\* LastOf is an item of the sequence, with the key.
LEMMA LastOfFacts ==
  ASSUME NEW S, NEW s \in Seq(S), NEW k \in Keys(s)
  PROVE  \E i \in 1 .. Len(s) :
           LastOf(s, k) = s[i] /\ s[i].key = k /\ IsLast(s, i)
<1> DEFINE P(i) == s[i].key = k /\ \A j \in i + 1 .. Len(s) : s[j].key # k
           n == CHOOSE i \in 1 .. Len(s) : P(i)
<1>1. \E i \in 1 .. Len(s) : P(i)
  BY LastExists
<1>2. n \in 1 .. Len(s) /\ P(n)
  BY <1>1
<1>3. LastOf(s, k) = s[n]
  BY DEF LastOf
<1> QED BY <1>2, <1>3 DEF IsLast

\* The n-th of a finite set of numbers: different numbers have different ranks,
\* so that every rank is taken.
LEMMA NthFacts ==
  ASSUME NEW P \in SUBSET Nat, IsFiniteSet(P)
  PROVE  /\ Cardinality(P) \in Nat
         /\ \A n \in 1 .. Cardinality(P) : Nth(P, n) \in P
         /\ \A n, m \in 1 .. Cardinality(P) : Nth(P, n) = Nth(P, m) => n = m
         /\ \A i \in P : \E n \in 1 .. Cardinality(P) :
              Nth(P, n) = i /\ Cardinality({j \in P : j < i}) = n - 1
<1> DEFINE Low(i) == {j \in P : j < i}
           N == Cardinality(P)
           f == [i \in P |-> Cardinality(Low(i)) + 1]
<1>1. N \in Nat
  BY FS_CardinalityType
<1>2. ASSUME NEW i \in P
      PROVE  IsFiniteSet(Low(i)) /\ Cardinality(Low(i)) \in Nat /\ Cardinality(Low(i)) + 1 <= N
  <2>1. i \notin Low(i) /\ Low(i) \cup {i} \in SUBSET P /\ Low(i) \in SUBSET P
    OBVIOUS
  <2>2. IsFiniteSet(Low(i)) /\ Cardinality(Low(i) \cup {i}) <= N
    BY <2>1, FS_Subset
  <2>3. Cardinality(Low(i) \cup {i}) = Cardinality(Low(i)) + 1
    BY <2>1, <2>2, FS_AddElement
  <2> QED BY <2>2, <2>3, FS_CardinalityType
<1>3. ASSUME NEW i \in P, NEW k \in P, i < k
      PROVE  Cardinality(Low(i)) < Cardinality(Low(k))
  <2>1. i \in Nat /\ k \in Nat /\ \A j \in P : j \in Nat /\ (j < i => j < k)
    BY <1>3
  <2>2. i \notin Low(i) /\ i \in Low(k)
    BY <1>3, <2>1
  <2>3. \A j \in Low(i) : j \in Low(k)
    BY <2>1
  <2>4. Low(i) \cup {i} \in SUBSET Low(k)
    <3> HIDE DEF Low
    <3> QED BY <2>2, <2>3
  <2>5. Cardinality(Low(i) \cup {i}) <= Cardinality(Low(k))
    BY <2>4, <1>2, FS_Subset
  <2>6. Cardinality(Low(i) \cup {i}) = Cardinality(Low(i)) + 1
    BY <2>2, <1>2, FS_AddElement
  <2> QED BY <2>5, <2>6, <1>2
<1>4. f \in [P -> 1 .. N]
  <2> HIDE DEF Low, N
  <2> QED BY <1>1, <1>2
<1>5. ASSUME NEW i \in P, NEW k \in P, f[i] = f[k] PROVE i = k
  <2>1. Cardinality(Low(i)) = Cardinality(Low(k))
    <3> HIDE DEF Low, N
    <3> QED BY <1>5, <1>2
  <2>2. ~(i < k) /\ ~(k < i)
    <3> HIDE DEF Low
    <3> QED BY <2>1, <1>2, <1>3
  <2> QED BY <2>2
<1>6. f \in Injection(P, 1 .. N)
  <2> HIDE DEF f, N
  <2> QED BY <1>4, <1>5 DEF Injection, IsInjective
<1>7. IsFiniteSet(1 .. N) /\ Cardinality(1 .. N) = N
  <2> HIDE DEF N
  <2> QED BY <1>1, FS_Interval
<1>8. f \in Surjection(P, 1 .. N)
  <2> HIDE DEF f
  <2> QED BY <1>6, <1>7, FS_Injection
<1>9. ASSUME NEW n \in 1 .. N
      PROVE  Nth(P, n) \in P /\ Cardinality(Low(Nth(P, n))) = n - 1
  <2>1. PICK i \in P : f[i] = n
    <3> HIDE DEF f, N
    <3> QED BY <1>8 DEF Surjection
  <2>2. Cardinality(Low(i)) = n - 1
    <3> HIDE DEF Low, N
    <3> QED BY <2>1, <1>1, <1>2
  <2> QED BY <2>2 DEF Nth
<1>10. ASSUME NEW n \in 1 .. N, NEW m \in 1 .. N, Nth(P, n) = Nth(P, m) PROVE n = m
  <2>1. n - 1 = m - 1
    <3> HIDE DEF Low, N
    <3> QED BY <1>9, <1>10
  <2> HIDE DEF N
  <2> QED BY <2>1, <1>1
<1>11. ASSUME NEW i \in P
       PROVE  \E n \in 1 .. N : Nth(P, n) = i /\ Cardinality(Low(i)) = n - 1
  <2> DEFINE n == Cardinality(Low(i)) + 1
  <2>1. n \in 1 .. N /\ Cardinality(Low(i)) = n - 1
    <3> HIDE DEF Low, N
    <3> QED BY <1>1, <1>2
  <2>2. Nth(P, n) \in P /\ Cardinality(Low(Nth(P, n))) = Cardinality(Low(i))
    <3> HIDE DEF Low, N, n
    <3> QED BY <1>9, <2>1
  <2>3. f[Nth(P, n)] = f[i]
    <3> HIDE DEF Low, n
    <3> QED BY <2>2
  <2>4. Nth(P, n) = i
    <3> HIDE DEF f, n
    <3> QED BY <1>5, <2>2, <2>3
  <2> HIDE DEF n
  <2> QED BY <2>1, <2>4
<1> QED BY <1>1, <1>9, <1>10, <1>11

\* The parts of the merge: the positions of the disk's items, then those of the
\* new keys.
LEMMA FreshFacts ==
  ASSUME NEW S, NEW cur \in Seq(S), NEW nxt \in Seq(S)
  PROVE  /\ Fresh(cur, nxt) \in Seq(S)
         /\ \A n \in 1 .. Len(Fresh(cur, nxt)) :
              \E i \in 1 .. Len(nxt) :
                 /\ Fresh(cur, nxt)[n] = nxt[i]
                 /\ IsLast(nxt, i)
                 /\ nxt[i].key \notin Keys(cur)
         /\ \A n, m \in 1 .. Len(Fresh(cur, nxt)) :
              Fresh(cur, nxt)[n].key = Fresh(cur, nxt)[m].key => n = m
<1> DEFINE P == NewAt(cur, nxt)
           N == Cardinality(P)
           F == Fresh(cur, nxt)
<1>1. P \in SUBSET Nat /\ P \in SUBSET (1 .. Len(nxt)) /\ Len(nxt) \in Nat
  BY DEF NewAt
<1>2. IsFiniteSet(P)
  <2>1. 1 \in Int /\ Len(nxt) \in Int
    BY <1>1
  <2>2. IsFiniteSet(1 .. Len(nxt))
    BY <2>1, FS_Interval
  <2> HIDE DEF P
  <2> QED BY <1>1, <2>2, FS_Subset
<1>3. /\ N \in Nat
      /\ \A n \in 1 .. N : Nth(P, n) \in P
      /\ \A n, m \in 1 .. N : Nth(P, n) = Nth(P, m) => n = m
  BY <1>1, <1>2, NthFacts
<1> HIDE DEF P, N
<1>4. F = [n \in 1 .. N |-> LastOf(nxt, nxt[Nth(P, n)].key)]
  BY DEF Fresh, P, N
<1>5. ASSUME NEW n \in 1 .. N
      PROVE  \E i \in 1 .. Len(nxt) :
               /\ F[n] = nxt[i]
               /\ IsLast(nxt, i)
               /\ nxt[i].key \notin Keys(cur)
               /\ nxt[i].key = nxt[Nth(P, n)].key
  <2>1. Nth(P, n) \in P
    BY <1>3
  <2>2. Nth(P, n) \in 1 .. Len(nxt) /\ nxt[Nth(P, n)].key \notin Keys(cur)
    BY <2>1 DEF P, NewAt
  <2>3. nxt[Nth(P, n)].key \in Keys(nxt)
    BY <2>2 DEF Keys
  <2>4. PICK i \in 1 .. Len(nxt) :
          LastOf(nxt, nxt[Nth(P, n)].key) = nxt[i] /\ nxt[i].key = nxt[Nth(P, n)].key
            /\ IsLast(nxt, i)
    BY <2>3, LastOfFacts
  <2>5. F[n] = LastOf(nxt, nxt[Nth(P, n)].key)
    <3> HIDE DEF F
    <3> QED BY <1>4
  <2> HIDE DEF F
  <2> QED BY <2>2, <2>4, <2>5
<1>6. F \in Seq(S) /\ Len(F) = N
  <2>1. \A n \in 1 .. N : F[n] \in S
    BY <1>5
  <2> QED BY <1>3, <1>4, <2>1
<1>7. ASSUME NEW n \in 1 .. N, NEW m \in 1 .. N, F[n].key = F[m].key
      PROVE  n = m
  <2>1. nxt[Nth(P, n)].key = nxt[Nth(P, m)].key
    BY <1>5, <1>7
  <2>2. Nth(P, n) \in P /\ Nth(P, m) \in P
    BY <1>3
  <2>3. /\ Nth(P, n) \in 1 .. Len(nxt) /\ IsFirst(nxt, Nth(P, n))
        /\ Nth(P, m) \in 1 .. Len(nxt) /\ IsFirst(nxt, Nth(P, m))
    BY <2>2 DEF P, NewAt
  <2>4. ~(Nth(P, n) < Nth(P, m)) /\ ~(Nth(P, m) < Nth(P, n))
    BY <2>1, <2>3, <1>1 DEF IsFirst
  <2>5. Nth(P, n) = Nth(P, m)
    BY <2>3, <2>4
  <2> QED BY <1>3, <2>5
<1> HIDE DEF F
<1>8. /\ F \in Seq(S)
      /\ \A n \in 1 .. Len(F) :
           \E i \in 1 .. Len(nxt) :
              F[n] = nxt[i] /\ IsLast(nxt, i) /\ nxt[i].key \notin Keys(cur)
      /\ \A n, m \in 1 .. Len(F) : F[n].key = F[m].key => n = m
  BY <1>5, <1>6, <1>7
<1> QED BY <1>8 DEF F

LEMMA KeptFacts ==
  ASSUME NEW S, NEW cur \in Seq(S), NEW nxt \in Seq(S)
  PROVE  /\ Kept(cur, nxt) \in Seq(S)
         /\ Len(Kept(cur, nxt)) = Len(cur)
         /\ \A i \in 1 .. Len(cur) :
              /\ Kept(cur, nxt)[i].key = cur[i].key
              /\ \/ /\ Kept(cur, nxt)[i] = cur[i]
                    /\ IsLast(cur, i) => cur[i].key \notin Keys(nxt)
                 \/ \E j \in 1 .. Len(nxt) : Kept(cur, nxt)[i] = nxt[j] /\ IsLast(nxt, j)
<1> DEFINE K == Kept(cur, nxt)
<1>1. K = [i \in 1 .. Len(cur) |->
             IF cur[i].key \in Keys(nxt) /\ IsLast(cur, i)
             THEN LastOf(nxt, cur[i].key) ELSE cur[i]]
  BY DEF Kept
<1>2. ASSUME NEW i \in 1 .. Len(cur)
      PROVE  /\ K[i] \in S
             /\ K[i].key = cur[i].key
             /\ \/ K[i] = cur[i] /\ (IsLast(cur, i) => cur[i].key \notin Keys(nxt))
                \/ \E j \in 1 .. Len(nxt) : K[i] = nxt[j] /\ IsLast(nxt, j)
  <2>1. CASE cur[i].key \in Keys(nxt) /\ IsLast(cur, i)
    <3>1. PICK j \in 1 .. Len(nxt) :
            LastOf(nxt, cur[i].key) = nxt[j] /\ nxt[j].key = cur[i].key /\ IsLast(nxt, j)
      BY <2>1, LastOfFacts
    <3> QED BY <1>1, <2>1, <3>1
  <2>2. CASE ~(cur[i].key \in Keys(nxt) /\ IsLast(cur, i))
    BY <1>1, <2>2
  <2> QED BY <2>1, <2>2
<1>3. K \in Seq(S) /\ Len(K) = Len(cur)
  BY <1>1, <1>2
<1> QED BY <1>2, <1>3

\* In a sequence with one item to a key every item is the last of its key.
LEMMA OneEachIsLast ==
  ASSUME NEW S, NEW s \in Seq(S)
  PROVE  OneEach(s) <=> \A i \in 1 .. Len(s) : IsLast(s, i)
<1>1. ASSUME OneEach(s), NEW i \in 1 .. Len(s) PROVE IsLast(s, i)
  BY <1>1 DEF OneEach, IsLast
<1>2. ASSUME \A i \in 1 .. Len(s) : IsLast(s, i),
             NEW i \in 1 .. Len(s), NEW j \in 1 .. Len(s), s[i].key = s[j].key
      PROVE  i = j
  <2>1. ~(i < j)
    BY <1>2 DEF IsLast
  <2>2. ~(j < i)
    BY <1>2 DEF IsLast
  <2> QED BY <2>1, <2>2
<1> QED BY <1>1, <1>2 DEF OneEach

LEMMA OneEachLastOf ==
  ASSUME NEW S, NEW s \in Seq(S), OneEach(s), NEW i \in 1 .. Len(s)
  PROVE  LastOf(s, s[i].key) = s[i] /\ s[i].key \in Keys(s)
<1>1. s[i].key \in Keys(s)
  BY DEF Keys
<1>2. PICK j \in 1 .. Len(s) : LastOf(s, s[i].key) = s[j] /\ s[j].key = s[i].key
  BY <1>1, LastOfFacts
<1> QED BY <1>1, <1>2 DEF OneEach

LEMMA Concatenation ==
  ASSUME NEW S, NEW s \in Seq(S), NEW t \in Seq(S)
  PROVE  /\ s \o t \in Seq(S) /\ Len(s \o t) = Len(s) + Len(t)
         /\ Len(s) \in Nat /\ Len(t) \in Nat
         /\ \A i \in 1 .. Len(s) : (s \o t)[i] = s[i]
         /\ \A i \in Len(s) + 1 .. Len(s \o t) : (s \o t)[i] = t[i - Len(s)]
<1>1. s \o t \in Seq(S) /\ Len(s \o t) = Len(s) + Len(t) /\ Len(s) \in Nat /\ Len(t) \in Nat
  OBVIOUS
<1>2. \A i \in 1 .. Len(s) : (s \o t)[i] = s[i]
  OBVIOUS
<1>3. ASSUME NEW i \in Len(s) + 1 .. Len(s \o t) PROVE (s \o t)[i] = t[i - Len(s)]
  BY <1>1
<1> QED BY <1>1, <1>2, <1>3

\* What merge_stable_by_key promises, for any two versions of a collection: the
\* keys on disk stay where they are; an item is the command's version of it, the
\* last one, or, if the command has no item with that key, the disk's; a key is
\* twice in the result only if it was on disk.
THEOREM MergeTheorem ==
  ASSUME NEW S, NEW cur \in Seq(S), NEW nxt \in Seq(S)
  PROVE  LET m == Merged(cur, nxt) IN
         /\ m \in Seq(S)
         /\ Extends(cur, m)
         /\ \A i \in 1 .. Len(m) :
              \/ \E j \in 1 .. Len(cur) : m[i] = cur[j]
                   /\ (IsLast(cur, j) => cur[j].key \notin Keys(nxt))
              \/ \E j \in 1 .. Len(nxt) : m[i] = nxt[j] /\ IsLast(nxt, j)
         /\ OneEach(cur) => OneEach(m)
<1> DEFINE K == Kept(cur, nxt)
           F == Fresh(cur, nxt)
           m == Merged(cur, nxt)
           From(x) == \/ \E j \in 1 .. Len(cur) : x = cur[j]
                           /\ (IsLast(cur, j) => cur[j].key \notin Keys(nxt))
                      \/ \E j \in 1 .. Len(nxt) : x = nxt[j] /\ IsLast(nxt, j)
<1>1. /\ K \in Seq(S) /\ Len(K) = Len(cur)
      /\ \A i \in 1 .. Len(cur) : K[i].key = cur[i].key /\ From(K[i])
  BY KeptFacts
<1>2. /\ F \in Seq(S)
      /\ \A n \in 1 .. Len(F) : From(F[n])
      /\ \A n \in 1 .. Len(F) : F[n].key \notin Keys(cur)
      /\ \A n, k \in 1 .. Len(F) : F[n].key = F[k].key => n = k
  BY FreshFacts
<1>3. m = K \o F
  BY DEF Merged
<1> HIDE DEF K, F, m, From
<1>4. /\ m \in Seq(S) /\ Len(m) = Len(cur) + Len(F)
      /\ Len(cur) \in Nat /\ Len(F) \in Nat
      /\ \A i \in 1 .. Len(cur) : m[i] = K[i]
      /\ \A i \in Len(cur) + 1 .. Len(m) : m[i] = F[i - Len(cur)]
  <2>1. K \in Seq(S) /\ Len(K) = Len(cur) /\ F \in Seq(S)
    BY <1>1, <1>2
  <2>2. /\ m \in Seq(S) /\ Len(m) = Len(K) + Len(F)
        /\ Len(K) \in Nat /\ Len(F) \in Nat
        /\ \A i \in 1 .. Len(K) : m[i] = K[i]
        /\ \A i \in Len(K) + 1 .. Len(m) : m[i] = F[i - Len(K)]
    <3>1. /\ K \o F \in Seq(S) /\ Len(K \o F) = Len(K) + Len(F)
          /\ Len(K) \in Nat /\ Len(F) \in Nat
          /\ \A i \in 1 .. Len(K) : (K \o F)[i] = K[i]
          /\ \A i \in Len(K) + 1 .. Len(K \o F) : (K \o F)[i] = F[i - Len(K)]
      BY <2>1, Concatenation
    <3> QED BY <3>1, <1>3
  <2> QED BY <2>1, <2>2, Zenon
<1>5. Extends(cur, m)
  BY <1>1, <1>4 DEF Extends
<1>6. ASSUME NEW i \in 1 .. Len(m) PROVE From(m[i])
  <2>1. CASE i \in 1 .. Len(cur)
    BY <2>1, <1>1, <1>4
  <2>2. CASE i \in Len(cur) + 1 .. Len(m)
    <3>1. i - Len(cur) \in 1 .. Len(F)
      BY <2>2, <1>4
    <3> QED BY <2>2, <3>1, <1>2, <1>4
  <2> QED BY <2>1, <2>2, <1>4
<1>7. ASSUME OneEach(cur), NEW i \in 1 .. Len(m), NEW j \in 1 .. Len(m),
             m[i].key = m[j].key
      PROVE  i = j
  <2>1. ASSUME NEW a \in 1 .. Len(m), NEW b \in 1 .. Len(m), m[a].key = m[b].key,
               a \in 1 .. Len(cur), ~(b \in 1 .. Len(cur))
        PROVE  FALSE
    <3>1. b - Len(cur) \in 1 .. Len(F) /\ b \in Len(cur) + 1 .. Len(m)
      BY <2>1, <1>4
    <3>2. m[b].key \notin Keys(cur)
      BY <3>1, <1>2, <1>4
    <3>3. m[a].key = cur[a].key
      BY <2>1, <1>1, <1>4
    <3> QED BY <2>1, <3>2, <3>3 DEF Keys
  <2>2. CASE i \in 1 .. Len(cur) /\ j \in 1 .. Len(cur)
    BY <2>2, <1>7, <1>1, <1>4 DEF OneEach
  <2>3. CASE ~(i \in 1 .. Len(cur)) /\ ~(j \in 1 .. Len(cur))
    <3>1. /\ i - Len(cur) \in 1 .. Len(F) /\ i \in Len(cur) + 1 .. Len(m)
          /\ j - Len(cur) \in 1 .. Len(F) /\ j \in Len(cur) + 1 .. Len(m)
      BY <2>3, <1>4
    <3>2. F[i - Len(cur)].key = F[j - Len(cur)].key
      BY <3>1, <1>7, <1>4
    <3>3. i - Len(cur) = j - Len(cur)
      BY <3>1, <3>2, <1>2
    <3> QED BY <3>1, <3>3, <1>4
  <2> QED BY <1>7, <2>1, <2>2, <2>3
<1>8. OneEach(cur) => OneEach(m)
  BY <1>7 DEF OneEach
<1>9. \A i \in 1 .. Len(m) : From(m[i])
  BY <1>6
<1> QED BY <1>4, <1>5, <1>8, <1>9 DEF m, From

-----------------------------------------------------------------------------
(* The merge grown item by item, and done again. *)

\* The last item of a key, and what one more item makes of it.
LEMMA LastOfIs ==
  ASSUME NEW S, NEW s \in Seq(S), NEW i \in 1 .. Len(s), IsLast(s, i)
  PROVE  s[i].key \in Keys(s) /\ LastOf(s, s[i].key) = s[i]
<1>1. s[i].key \in Keys(s)
  BY DEF Keys
<1>2. PICK j \in 1 .. Len(s) : LastOf(s, s[i].key) = s[j] /\ s[j].key = s[i].key /\ IsLast(s, j)
  BY <1>1, LastOfFacts
<1>3. ~(i < j) /\ ~(j < i)
  BY <1>2 DEF IsLast
<1> QED BY <1>1, <1>2, <1>3

LEMMA AppendLast ==
  ASSUME NEW S, NEW s \in Seq(S), NEW x \in S
  PROVE  /\ Append(s, x) \in Seq(S) /\ Len(Append(s, x)) = Len(s) + 1
         /\ \A i \in 1 .. Len(s) : Append(s, x)[i] = s[i]
         /\ Append(s, x)[Len(s) + 1] = x
         /\ Keys(Append(s, x)) = Keys(s) \cup {x.key}
         /\ LastOf(Append(s, x), x.key) = x
         /\ \A k \in Keys(s) \ {x.key} : LastOf(Append(s, x), k) = LastOf(s, k)
<1> DEFINE t == Append(s, x)
<1>1. /\ t \in Seq(S) /\ Len(t) = Len(s) + 1 /\ Len(s) \in Nat
      /\ \A i \in 1 .. Len(s) : t[i] = s[i]
      /\ t[Len(s) + 1] = x
  OBVIOUS
<1> HIDE DEF t
<1>2. Keys(t) = Keys(s) \cup {x.key}
  <2>1. \A i \in 1 .. Len(t) : i \in 1 .. Len(s) \/ i = Len(s) + 1
    BY <1>1
  <2>2. 1 .. Len(s) \subseteq 1 .. Len(t) /\ Len(s) + 1 \in 1 .. Len(t)
    BY <1>1
  <2> QED BY <1>1, <2>1, <2>2 DEF Keys
<1>3. LastOf(t, x.key) = x
  <2>1. Len(s) + 1 \in 1 .. Len(t) /\ IsLast(t, Len(s) + 1)
    BY <1>1 DEF IsLast
  <2> QED BY <1>1, <2>1, LastOfIs
<1>4. ASSUME NEW k \in Keys(s) \ {x.key} PROVE LastOf(t, k) = LastOf(s, k)
  <2>1. PICK i \in 1 .. Len(s) : LastOf(s, k) = s[i] /\ s[i].key = k /\ IsLast(s, i)
    BY LastOfFacts
  <2>2. i \in 1 .. Len(t) /\ t[i] = s[i] /\ IsLast(t, i)
    BY <1>1, <1>4, <2>1 DEF IsLast
  <2>3. LastOf(t, t[i].key) = t[i]
    BY <1>1, <2>2, LastOfIs
  <2> QED BY <2>1, <2>2, <2>3
<1> QED BY <1>1, <1>2, <1>3, <1>4 DEF t

\* The fresh items by their places in the command's version.
FreshBy(S, s, t, P, F) ==
  /\ P \in SUBSET (1 .. Len(t)) /\ IsFiniteSet(P) /\ Cardinality(P) \in Nat
  /\ F \in Seq(S) /\ Len(F) = Cardinality(P)
  /\ \A n \in 1 .. Cardinality(P) :
       /\ Nth(P, n) \in P
       /\ F[n] = LastOf(t, t[Nth(P, n)].key)
       /\ F[n].key = t[Nth(P, n)].key

LEMMA FreshIs ==
  ASSUME NEW S, NEW s \in Seq(S), NEW t \in Seq(S)
  PROVE  FreshBy(S, s, t, NewAt(s, t), Fresh(s, t))
<1> DEFINE P == NewAt(s, t)
           N == Cardinality(P)
           F == Fresh(s, t)
<1>1. P \in SUBSET Nat /\ P \in SUBSET (1 .. Len(t)) /\ Len(t) \in Nat
  BY DEF NewAt
<1>2. IsFiniteSet(P)
  <2>1. 1 \in Int /\ Len(t) \in Int
    BY <1>1
  <2>2. IsFiniteSet(1 .. Len(t))
    BY <2>1, FS_Interval
  <2> HIDE DEF P
  <2> QED BY <1>1, <2>2, FS_Subset
<1>3. N \in Nat /\ \A n \in 1 .. N : Nth(P, n) \in P
  BY <1>1, <1>2, NthFacts
<1>4. F \in Seq(S)
  BY FreshFacts
<1>5. F = [n \in 1 .. N |-> LastOf(t, t[Nth(P, n)].key)]
  BY DEF Fresh
<1> HIDE DEF P, N, F
<1>6. Len(F) = N
  BY <1>3, <1>4, <1>5
<1>7. ASSUME NEW n \in 1 .. N
      PROVE  F[n] = LastOf(t, t[Nth(P, n)].key) /\ F[n].key = t[Nth(P, n)].key
  <2>1. F[n] = LastOf(t, t[Nth(P, n)].key)
    BY <1>5
  <2>2. Nth(P, n) \in 1 .. Len(t)
    BY <1>1, <1>3
  <2>3. t[Nth(P, n)].key \in Keys(t)
    BY <2>2 DEF Keys
  <2>4. LastOf(t, t[Nth(P, n)].key).key = t[Nth(P, n)].key
    BY <2>3, LastOfFacts
  <2> QED BY <2>1, <2>4
<1>8. FreshBy(S, s, t, P, F)
  BY <1>1, <1>2, <1>3, <1>4, <1>6, <1>7 DEF FreshBy, N
<1> QED BY <1>8 DEF P, F

\* One more item of the command: the last item with its key is replaced, ...
LEMMA KeptAppend ==
  ASSUME NEW S, NEW s \in Seq(S), NEW t \in Seq(S), NEW x \in S, NEW i \in 1 .. Len(s)
  PROVE  Kept(s, Append(t, x))[i] =
           IF s[i].key = x.key /\ IsLast(s, i) THEN x ELSE Kept(s, t)[i]
<1> DEFINE u == Append(t, x)
<1>1. /\ Keys(u) = Keys(t) \cup {x.key} /\ LastOf(u, x.key) = x
      /\ \A k \in Keys(t) \ {x.key} : LastOf(u, k) = LastOf(t, k)
  BY AppendLast
<1> HIDE DEF u
<1>2. /\ Kept(s, u)[i] = IF s[i].key \in Keys(u) /\ IsLast(s, i) THEN LastOf(u, s[i].key) ELSE s[i]
      /\ Kept(s, t)[i] = IF s[i].key \in Keys(t) /\ IsLast(s, i) THEN LastOf(t, s[i].key) ELSE s[i]
  BY DEF Kept
<1>3. Kept(s, u)[i] = IF s[i].key = x.key /\ IsLast(s, i) THEN x ELSE Kept(s, t)[i]
  BY <1>1, <1>2
<1> QED BY <1>3 DEF u

LEMMA NewAtAppend ==
  ASSUME NEW S, NEW s \in Seq(S), NEW t \in Seq(S), NEW x \in S
  PROVE  /\ x.key \in Keys(s) \cup Keys(t) => NewAt(s, Append(t, x)) = NewAt(s, t)
         /\ x.key \notin Keys(s) \cup Keys(t) => NewAt(s, Append(t, x)) = NewAt(s, t) \cup {Len(t) + 1}
<1> DEFINE u == Append(t, x)
<1>1. /\ Len(u) = Len(t) + 1 /\ Len(t) \in Nat
      /\ \A i \in 1 .. Len(t) : u[i] = t[i]
      /\ u[Len(t) + 1] = x
  OBVIOUS
<1> HIDE DEF u
<1>2. ASSUME NEW i \in 1 .. Len(t) PROVE i \in NewAt(s, u) <=> i \in NewAt(s, t)
  <2>1. i \in 1 .. Len(u) /\ u[i] = t[i] /\ \A j \in 1 .. i - 1 : u[j] = t[j]
    BY <1>1
  <2>2. IsFirst(u, i) <=> IsFirst(t, i)
    BY <2>1 DEF IsFirst
  <2> QED BY <2>1, <2>2 DEF NewAt
<1>3. Len(t) + 1 \in NewAt(s, u) <=> x.key \notin Keys(s) \cup Keys(t)
  <2>1. Len(t) + 1 \in 1 .. Len(u) /\ (Len(t) + 1) - 1 = Len(t)
    BY <1>1
  <2>2. IsFirst(u, Len(t) + 1) <=> \A j \in 1 .. Len(t) : t[j].key # x.key
    BY <1>1, <2>1 DEF IsFirst
  <2>3. IsFirst(u, Len(t) + 1) <=> x.key \notin Keys(t)
    BY <2>2 DEF Keys
  <2> QED BY <1>1, <2>1, <2>3 DEF NewAt
<1>4. \A i \in NewAt(s, u) : i \in 1 .. Len(t) \/ i = Len(t) + 1
  BY <1>1 DEF NewAt
<1>5. \A i \in NewAt(s, t) : i \in 1 .. Len(t)
  BY DEF NewAt
<1>6. /\ x.key \in Keys(s) \cup Keys(t) => NewAt(s, u) = NewAt(s, t)
      /\ x.key \notin Keys(s) \cup Keys(t) => NewAt(s, u) = NewAt(s, t) \cup {Len(t) + 1}
  BY <1>2, <1>3, <1>4, <1>5
<1> QED BY <1>6 DEF u

\* A position more, behind all others.
OneMoreNth(P, l, Q) ==
  /\ Cardinality(Q) = Cardinality(P) + 1
  /\ \A n \in 1 .. Cardinality(P) : Nth(Q, n) = Nth(P, n)
  /\ Nth(Q, Cardinality(P) + 1) = l

\* A greater number is the last of the set it joins.
LEMMA NthAppend ==
  ASSUME NEW P \in SUBSET Nat, IsFiniteSet(P), NEW l \in Nat, \A i \in P : i < l,
         NEW Q, Q = P \cup {l}
  PROVE  OneMoreNth(P, l, Q)
<1> DEFINE N == Cardinality(P)
           M == Cardinality(Q)
<1>1. l \notin P
  OBVIOUS
<1>2. IsFiniteSet(Q) /\ M = N + 1 /\ N \in Nat
  BY <1>1, FS_AddElement, FS_CardinalityType
<1>3. /\ \A n \in 1 .. N : Nth(P, n) \in P
      /\ \A n, k \in 1 .. N : Nth(P, n) = Nth(P, k) => n = k
      /\ \A i \in P : \E n \in 1 .. N : Nth(P, n) = i /\ Cardinality({j \in P : j < i}) = n - 1
  BY NthFacts
<1>4. Q \in SUBSET Nat
  OBVIOUS
<1>5. \A i \in Q : \E n \in 1 .. M : Nth(Q, n) = i /\ Cardinality({j \in Q : j < i}) = n - 1
  BY <1>2, <1>4, NthFacts
<1>6. ASSUME NEW i \in P PROVE {j \in Q : j < i} = {j \in P : j < i}
  <2>1. ~(l < i)
    OBVIOUS
  <2> QED BY <2>1
<1>7. {j \in Q : j < l} = P
  <2>1. ~(l < l)
    OBVIOUS
  <2> QED BY <2>1
<1> HIDE DEF N, M
<1>8. ASSUME NEW n \in 1 .. N PROVE Nth(Q, n) = Nth(P, n)
  <2> DEFINE i == Nth(P, n)
  <2>1. i \in P /\ i \in Q
    BY <1>3
  <2>2. PICK k \in 1 .. N : Nth(P, k) = i /\ Cardinality({j \in P : j < i}) = k - 1
    BY <1>3, <2>1
  <2>3. k = n
    BY <1>3, <2>2
  <2>4. PICK h \in 1 .. M : Nth(Q, h) = i /\ Cardinality({j \in Q : j < i}) = h - 1
    BY <1>5, <2>1
  <2>5. h - 1 = k - 1
    BY <1>6, <2>1, <2>2, <2>4
  <2>6. h = n
    BY <1>2, <2>3, <2>5
  <2> QED BY <2>4, <2>6
<1>9. Nth(Q, N + 1) = l
  <2>1. l \in Q
    OBVIOUS
  <2>2. PICK h \in 1 .. M : Nth(Q, h) = l /\ Cardinality({j \in Q : j < l}) = h - 1
    BY <1>5, <2>1
  <2>3. N = h - 1
    BY <1>7, <2>2 DEF N
  <2> QED BY <1>2, <2>2, <2>3
<1>10. M = N + 1 /\ (\A n \in 1 .. N : Nth(Q, n) = Nth(P, n)) /\ Nth(Q, N + 1) = l
  BY <1>2, <1>8, <1>9
<1> QED BY <1>10 DEF N, M, OneMoreNth

\* ... or, if there is none, it comes after the others.
LEMMA FreshAppend ==
  ASSUME NEW S, NEW s \in Seq(S), NEW t \in Seq(S), NEW x \in S,
         NEW F, F = Fresh(s, t), NEW G, G = Fresh(s, Append(t, x))
  PROVE  /\ F \in Seq(S) /\ G \in Seq(S)
         /\ \A n \in 1 .. Len(F) : G[n] = IF F[n].key = x.key THEN x ELSE F[n]
         /\ x.key \in Keys(s) \cup Keys(t) => Len(G) = Len(F)
         /\ x.key \notin Keys(s) \cup Keys(t) => Len(G) = Len(F) + 1 /\ G[Len(F) + 1] = x
<1> DEFINE u == Append(t, x)
           P == NewAt(s, t)
           Q == NewAt(s, u)
           N == Cardinality(P)
           M == Cardinality(Q)
<1>1. /\ u \in Seq(S) /\ Len(u) = Len(t) + 1 /\ Len(t) \in Nat
      /\ \A i \in 1 .. Len(t) : u[i] = t[i]
      /\ u[Len(t) + 1] = x /\ LastOf(u, x.key) = x
      /\ \A k \in Keys(t) \ {x.key} : LastOf(u, k) = LastOf(t, k)
  BY AppendLast
<1>2. /\ P \in SUBSET (1 .. Len(t)) /\ IsFiniteSet(P) /\ N \in Nat
      /\ F \in Seq(S) /\ Len(F) = N
      /\ \A n \in 1 .. N :
           /\ Nth(P, n) \in P
           /\ F[n] = LastOf(t, t[Nth(P, n)].key)
           /\ F[n].key = t[Nth(P, n)].key
  <2>1. FreshBy(S, s, t, P, F)
    BY FreshIs
  <2> HIDE DEF P
  <2> QED BY <2>1 DEF FreshBy
<1> HIDE DEF u
<1>30. G = Fresh(s, u)
  BY DEF u
<1>3. /\ G \in Seq(S) /\ Len(G) = M
      /\ \A n \in 1 .. M : G[n] = LastOf(u, u[Nth(Q, n)].key)
  <2>1. FreshBy(S, s, u, Q, G)
    BY <1>1, <1>30, FreshIs
  <2> HIDE DEF Q
  <2> QED BY <2>1 DEF FreshBy
<1>4. /\ x.key \in Keys(s) \cup Keys(t) => Q = P
      /\ x.key \notin Keys(s) \cup Keys(t) => Q = P \cup {Len(t) + 1}
  BY NewAtAppend DEF u
<1>5. x.key \notin Keys(s) \cup Keys(t) =>
        M = N + 1 /\ (\A n \in 1 .. N : Nth(Q, n) = Nth(P, n)) /\ Nth(Q, N + 1) = Len(t) + 1
  <2>1. P \in SUBSET Nat /\ Len(t) + 1 \in Nat /\ \A i \in P : i < Len(t) + 1
    BY <1>1, <1>2
  <2>2. N = Cardinality(P) /\ M = Cardinality(Q) /\ IsFiniteSet(P)
    BY <1>2
  <2> HIDE DEF P, Q, N, M
  <2>3. Q = P \cup {Len(t) + 1} => OneMoreNth(P, Len(t) + 1, Q)
    BY <2>1, <2>2, NthAppend
  <2> QED BY <1>4, <2>2, <2>3 DEF OneMoreNth
<1> HIDE DEF P, Q, N, M
<1>6. ASSUME NEW n \in 1 .. N PROVE n \in 1 .. M /\ Nth(Q, n) = Nth(P, n)
  BY <1>2, <1>4, <1>5 DEF N, M
<1>7. ASSUME NEW n \in 1 .. N PROVE G[n] = IF F[n].key = x.key THEN x ELSE F[n]
  <2> DEFINE i == Nth(P, n)
  <2>1. i \in 1 .. Len(t) /\ F[n] = LastOf(t, t[i].key) /\ F[n].key = t[i].key
    BY <1>2
  <2>2. G[n] = LastOf(u, u[i].key)
    BY <1>3, <1>6
  <2> HIDE DEF i
  <2>3. u[i].key = F[n].key /\ F[n].key \in Keys(t)
    BY <1>1, <2>1 DEF Keys
  <2> QED BY <1>1, <2>1, <2>2, <2>3
<1>8. x.key \in Keys(s) \cup Keys(t) => Len(G) = Len(F)
  BY <1>2, <1>3, <1>4 DEF N, M
<1>9. x.key \notin Keys(s) \cup Keys(t) => Len(G) = Len(F) + 1 /\ G[Len(F) + 1] = x
  BY <1>1, <1>2, <1>3, <1>5
<1>10. /\ F \in Seq(S) /\ G \in Seq(S)
       /\ \A n \in 1 .. Len(F) : G[n] = IF F[n].key = x.key THEN x ELSE F[n]
       /\ x.key \in Keys(s) \cup Keys(t) => Len(G) = Len(F)
       /\ x.key \notin Keys(s) \cup Keys(t) => Len(G) = Len(F) + 1 /\ G[Len(F) + 1] = x
  BY <1>2, <1>3, <1>7, <1>8, <1>9
<1> QED BY <1>10

\* The merge by its parts.
MergeBy(S, s, t, m, F) ==
  /\ m \in Seq(S) /\ F \in Seq(S) /\ Len(m) = Len(s) + Len(F)
  /\ \A i \in 1 .. Len(s) :
       m[i] = Kept(s, t)[i] /\ m[i].key = s[i].key /\ (IsLast(m, i) <=> IsLast(s, i))
  /\ \A i \in Len(s) + 1 .. Len(m) :
       /\ i - Len(s) \in 1 .. Len(F) /\ m[i] = F[i - Len(s)]
       /\ IsLast(m, i) /\ m[i].key \notin Keys(s)
  /\ Keys(m) = Keys(s) \cup Keys(t)

LEMMA MergeIs ==
  ASSUME NEW S, NEW s \in Seq(S), NEW t \in Seq(S)
  PROVE  MergeBy(S, s, t, Merged(s, t), Fresh(s, t))
<1> DEFINE K == Kept(s, t)
           F == Fresh(s, t)
           P == NewAt(s, t)
           m == Merged(s, t)
<1>1. K \in Seq(S) /\ Len(K) = Len(s) /\ \A i \in 1 .. Len(s) : K[i].key = s[i].key
  BY KeptFacts
<1>2. /\ F \in Seq(S)
      /\ \A n \in 1 .. Len(F) : F[n].key \in Keys(t) /\ F[n].key \notin Keys(s)
      /\ \A n, k \in 1 .. Len(F) : F[n].key = F[k].key => n = k
  <2>1. /\ F \in Seq(S)
        /\ \A n \in 1 .. Len(F) : \E i \in 1 .. Len(t) :
             F[n] = t[i] /\ IsLast(t, i) /\ t[i].key \notin Keys(s)
        /\ \A n, k \in 1 .. Len(F) : F[n].key = F[k].key => n = k
    BY FreshFacts
  <2> HIDE DEF F
  <2>2. \A i \in 1 .. Len(t) : t[i].key \in Keys(t)
    BY DEF Keys
  <2> QED BY <2>1, <2>2
<1>3. FreshBy(S, s, t, P, F)
  BY FreshIs
<1>4. /\ m \in Seq(S) /\ Len(m) = Len(K) + Len(F) /\ Len(K) \in Nat /\ Len(F) \in Nat
      /\ \A i \in 1 .. Len(K) : m[i] = K[i]
      /\ \A i \in Len(K) + 1 .. Len(m) : m[i] = F[i - Len(K)]
  <2>1. m = K \o F
    BY DEF Merged
  <2> HIDE DEF K, F, m
  <2>2. K \in Seq(S) /\ F \in Seq(S)
    BY <1>1, <1>2
  <2>3. /\ K \o F \in Seq(S) /\ Len(K \o F) = Len(K) + Len(F)
        /\ Len(K) \in Nat /\ Len(F) \in Nat
        /\ \A i \in 1 .. Len(K) : (K \o F)[i] = K[i]
        /\ \A i \in Len(K) + 1 .. Len(K \o F) : (K \o F)[i] = F[i - Len(K)]
    BY <2>2, Concatenation
  <2> QED BY <2>1, <2>3
<1> HIDE DEF K, F, P, m
<1>5. /\ Len(m) = Len(s) + Len(F) /\ Len(s) \in Nat /\ Len(F) \in Nat /\ Len(m) \in Nat
      /\ \A i \in 1 .. Len(s) : m[i] = K[i] /\ m[i].key = s[i].key
      /\ \A i \in Len(s) + 1 .. Len(m) :
           /\ i - Len(s) \in 1 .. Len(F) /\ m[i] = F[i - Len(s)]
           /\ m[i].key \notin Keys(s) /\ m[i].key \in Keys(t)
  <2>1. Len(m) = Len(s) + Len(F) /\ Len(s) \in Nat /\ Len(F) \in Nat /\ Len(m) \in Nat
    BY <1>1, <1>4
  <2>2. \A i \in 1 .. Len(s) : m[i] = K[i] /\ m[i].key = s[i].key
    BY <1>1, <1>4
  <2>3. ASSUME NEW i \in Len(s) + 1 .. Len(m)
        PROVE  i - Len(s) \in 1 .. Len(F) /\ m[i] = F[i - Len(s)]
    BY <1>1, <1>4, <2>1
  <2> QED BY <1>2, <2>1, <2>2, <2>3
<1>6. ASSUME NEW i \in 1 .. Len(s) PROVE IsLast(m, i) <=> IsLast(s, i)
  <2>1. s[i].key \in Keys(s)
    BY DEF Keys
  <2>2. \A j \in i + 1 .. Len(m) : j \in i + 1 .. Len(s) \/ j \in Len(s) + 1 .. Len(m)
    BY <1>5
  <2>3. \A j \in i + 1 .. Len(s) : j \in i + 1 .. Len(m) /\ m[j].key = s[j].key
    BY <1>5
  <2> QED BY <1>5, <2>1, <2>2, <2>3 DEF IsLast
<1>7. ASSUME NEW i \in Len(s) + 1 .. Len(m) PROVE IsLast(m, i)
  <2> SUFFICES ASSUME NEW j \in i + 1 .. Len(m), m[j].key = m[i].key PROVE FALSE
    BY DEF IsLast
  <2>1. j \in Len(s) + 1 .. Len(m) /\ i # j
    BY <1>5
  <2>2. F[j - Len(s)].key = F[i - Len(s)].key
    BY <1>5, <2>1
  <2>3. j - Len(s) = i - Len(s)
    BY <1>2, <1>5, <2>1, <2>2
  <2> QED BY <1>5, <2>1, <2>3
<1>8. Keys(m) \subseteq Keys(s) \cup Keys(t)
  <2>1. ASSUME NEW i \in 1 .. Len(m) PROVE m[i].key \in Keys(s) \cup Keys(t)
    <3>1. CASE i \in 1 .. Len(s)
      BY <1>5, <3>1 DEF Keys
    <3>2. CASE i \in Len(s) + 1 .. Len(m)
      BY <1>5, <3>2
    <3> QED BY <1>5, <3>1, <3>2
  <2> QED BY <2>1 DEF Keys
<1>9. Keys(s) \subseteq Keys(m)
  <2>1. \A i \in 1 .. Len(s) : i \in 1 .. Len(m) /\ m[i].key = s[i].key
    BY <1>5
  <2> QED BY <2>1 DEF Keys
<1>10. ASSUME NEW k \in Keys(t), k \notin Keys(s) PROVE k \in Keys(m)
  <2>1. PICK i \in 1 .. Len(t) : t[i].key = k /\ IsFirst(t, i)
    BY FirstExists
  <2>2. i \in P
    BY <1>10, <2>1 DEF P, NewAt
  <2>3. P \in SUBSET Nat /\ IsFiniteSet(P)
    BY <1>3 DEF FreshBy
  <2>4. PICK n \in 1 .. Cardinality(P) : Nth(P, n) = i
    BY <2>2, <2>3, NthFacts
  <2>5. n \in 1 .. Len(F) /\ F[n].key = k
    BY <1>3, <2>1, <2>4 DEF FreshBy
  <2>6. Len(s) + n \in 1 .. Len(m) /\ Len(s) + n \in Len(s) + 1 .. Len(m) /\ (Len(s) + n) - Len(s) = n
    BY <1>5, <2>5
  <2>7. m[Len(s) + n].key = k
    BY <1>5, <2>5, <2>6
  <2> QED BY <2>6, <2>7 DEF Keys
<1>11. Keys(m) = Keys(s) \cup Keys(t)
  BY <1>8, <1>9, <1>10
<1>12. MergeBy(S, s, t, m, F)
  BY <1>2, <1>4, <1>5, <1>6, <1>7, <1>11 DEF MergeBy, K
<1> QED BY <1>12 DEF m, F

\* Two sequences with the same items are the same.
LEMMA SameSequence ==
  ASSUME NEW S, NEW s \in Seq(S), NEW t \in Seq(S), Len(s) = Len(t), \A i \in 1 .. Len(s) : s[i] = t[i]
  PROVE  s = t
OBVIOUS

\* What item x makes of m.
GrownBy(S, m, w, x) ==
  /\ m \in Seq(S) /\ w \in Seq(S)
  /\ \A i \in 1 .. Len(m) : w[i] = IF m[i].key = x.key /\ IsLast(m, i) THEN x ELSE m[i]
  /\ x.key \in Keys(m) => Len(w) = Len(m)
  /\ x.key \notin Keys(m) => Len(w) = Len(m) + 1 /\ w[Len(m) + 1] = x

\* One more item of the command, in the whole merge.
LEMMA MergeAppend ==
  ASSUME NEW S, NEW s \in Seq(S), NEW t \in Seq(S), NEW x \in S,
         NEW m, m = Merged(s, t), NEW w, w = Merged(s, Append(t, x))
  PROVE  GrownBy(S, m, w, x)
<1> DEFINE u == Append(t, x)
           F == Fresh(s, t)
           G == Fresh(s, u)
<1>1. u \in Seq(S)
  BY AppendLast
<1>2. MergeBy(S, s, t, m, F)
  BY MergeIs
<1>3. MergeBy(S, s, u, w, G)
  BY <1>1, MergeIs
<1>4. /\ F \in Seq(S) /\ G \in Seq(S)
      /\ \A n \in 1 .. Len(F) : G[n] = IF F[n].key = x.key THEN x ELSE F[n]
      /\ x.key \in Keys(s) \cup Keys(t) => Len(G) = Len(F)
      /\ x.key \notin Keys(s) \cup Keys(t) => Len(G) = Len(F) + 1 /\ G[Len(F) + 1] = x
  BY FreshAppend
<1>5. \A i \in 1 .. Len(s) :
        Kept(s, u)[i] = IF s[i].key = x.key /\ IsLast(s, i) THEN x ELSE Kept(s, t)[i]
  BY KeptAppend
<1> HIDE DEF u, F, G
<1>6. /\ m \in Seq(S) /\ w \in Seq(S) /\ Keys(m) = Keys(s) \cup Keys(t)
      /\ Len(m) = Len(s) + Len(F) /\ Len(w) = Len(s) + Len(G)
      /\ Len(s) \in Nat /\ Len(F) \in Nat /\ Len(G) \in Nat
  BY <1>2, <1>3, <1>4 DEF MergeBy
<1>7. ASSUME NEW i \in 1 .. Len(s) PROVE w[i] = IF m[i].key = x.key /\ IsLast(m, i) THEN x ELSE m[i]
  BY <1>2, <1>3, <1>5 DEF MergeBy
<1>8. ASSUME NEW i \in Len(s) + 1 .. Len(m)
      PROVE  w[i] = IF m[i].key = x.key /\ IsLast(m, i) THEN x ELSE m[i]
  <2>1. i - Len(s) \in 1 .. Len(F) /\ m[i] = F[i - Len(s)] /\ IsLast(m, i)
    BY <1>2 DEF MergeBy
  <2>2. i \in Len(s) + 1 .. Len(w)
    BY <1>4, <1>6
  <2>3. w[i] = G[i - Len(s)]
    BY <1>3, <2>2 DEF MergeBy
  <2> QED BY <1>4, <2>1, <2>3
<1>9. ASSUME NEW i \in 1 .. Len(m) PROVE w[i] = IF m[i].key = x.key /\ IsLast(m, i) THEN x ELSE m[i]
  <2>1. i \in 1 .. Len(s) \/ i \in Len(s) + 1 .. Len(m)
    BY <1>6
  <2> QED BY <1>7, <1>8, <2>1
<1>10. ASSUME x.key \notin Keys(m) PROVE Len(w) = Len(m) + 1 /\ w[Len(m) + 1] = x
  <2>1. Len(G) = Len(F) + 1 /\ G[Len(F) + 1] = x
    BY <1>4, <1>6, <1>10
  <2>2. Len(w) = Len(m) + 1 /\ Len(m) + 1 \in Len(s) + 1 .. Len(w) /\ (Len(m) + 1) - Len(s) = Len(F) + 1
    BY <1>6, <2>1
  <2> QED BY <1>3, <2>1, <2>2 DEF MergeBy
<1>11. x.key \in Keys(m) => Len(w) = Len(m)
  BY <1>4, <1>6
<1> QED BY <1>6, <1>9, <1>10, <1>11 DEF GrownBy

\* Merging the same version again changes nothing.
LEMMA MergeAgain ==
  ASSUME NEW S, NEW s \in Seq(S), NEW t \in Seq(S), NEW m, m = Merged(s, t)
  PROVE  Merged(m, t) = m
<1> DEFINE F == Fresh(s, t)
           G == Fresh(m, t)
           w == Merged(m, t)
<1>1. MergeBy(S, s, t, m, F) /\ FreshBy(S, s, t, NewAt(s, t), F)
  BY MergeIs, FreshIs
<1>2. m \in Seq(S) /\ Keys(t) \subseteq Keys(m) /\ Len(m) \in Nat /\ Len(s) \in Nat
  BY <1>1 DEF MergeBy
<1>3. MergeBy(S, m, t, w, G) /\ FreshBy(S, m, t, NewAt(m, t), G)
  BY <1>2, MergeIs, FreshIs
<1> HIDE DEF F, G, w
<1>4. Len(G) = 0
  <2>1. NewAt(m, t) = {}
    BY <1>2 DEF NewAt, Keys
  <2> QED BY <1>3, <2>1, FS_EmptySet DEF FreshBy
<1>5. w \in Seq(S) /\ Len(w) = Len(m)
  BY <1>2, <1>3, <1>4 DEF MergeBy
<1>6. ASSUME NEW i \in 1 .. Len(m), m[i].key \in Keys(t), IsLast(m, i) PROVE LastOf(t, m[i].key) = m[i]
  <2>1. CASE i \in 1 .. Len(s)
    <3>1. m[i] = Kept(s, t)[i] /\ m[i].key = s[i].key /\ IsLast(s, i)
      BY <1>1, <1>6, <2>1 DEF MergeBy
    <3> QED BY <1>6, <2>1, <3>1 DEF Kept
  <2>2. CASE i \in Len(s) + 1 .. Len(m)
    <3>1. i - Len(s) \in 1 .. Len(F) /\ m[i] = F[i - Len(s)]
      BY <1>1, <2>2 DEF MergeBy
    <3> QED BY <1>1, <3>1 DEF FreshBy
  <2> QED BY <1>2, <2>1, <2>2
<1>7. ASSUME NEW i \in 1 .. Len(m) PROVE w[i] = m[i]
  <2>1. w[i] = Kept(m, t)[i]
    BY <1>3 DEF MergeBy
  <2>2. Kept(m, t)[i] = IF m[i].key \in Keys(t) /\ IsLast(m, i) THEN LastOf(t, m[i].key) ELSE m[i]
    BY DEF Kept
  <2> QED BY <1>6, <2>1, <2>2
<1>8. w = m
  BY <1>2, <1>5, <1>7, SameSequence
<1> QED BY <1>8 DEF w

\* What one more item of the command makes of the merge, as the loop of
\* merge_stable_by_key writes it: in its place, or at the end.
LEMMA MergePut ==
  ASSUME NEW S, NEW s \in Seq(S), NEW t \in Seq(S), NEW x \in S,
         NEW m, m = Merged(s, t), NEW i \in 1 .. Len(m), m[i].key = x.key, IsLast(m, i)
  PROVE  /\ Merged(s, Append(t, x)) = [m EXCEPT ![i] = x]
         /\ Merged(s, Append(t, x)) \in Seq(S)
         /\ Len(Merged(s, Append(t, x))) = Len(m)
         /\ \A j \in 1 .. Len(m) : Merged(s, Append(t, x))[j].key = m[j].key
<1> DEFINE w == Merged(s, Append(t, x))
<1>1. /\ m \in Seq(S) /\ w \in Seq(S)
      /\ \A j \in 1 .. Len(m) : w[j] = IF m[j].key = x.key /\ IsLast(m, j) THEN x ELSE m[j]
      /\ x.key \in Keys(m) => Len(w) = Len(m)
  <2>1. GrownBy(S, m, w, x)
    BY MergeAppend
  <2> HIDE DEF w
  <2> QED BY <2>1 DEF GrownBy
<1> HIDE DEF w
<1>2. Len(w) = Len(m)
  BY <1>1 DEF Keys
<1>3. ASSUME NEW j \in 1 .. Len(m), m[j].key = x.key, IsLast(m, j) PROVE j = i
  <2>1. ~(i < j) /\ ~(j < i)
    BY <1>1, <1>3 DEF IsLast
  <2> QED BY <1>1, <2>1
<1>4. \A j \in 1 .. Len(m) : w[j] = [m EXCEPT ![i] = x][j]
  BY <1>1, <1>3
<1>5. [m EXCEPT ![i] = x] \in Seq(S) /\ Len([m EXCEPT ![i] = x]) = Len(m)
  BY <1>1
<1>6. w = [m EXCEPT ![i] = x]
  BY <1>1, <1>2, <1>4, <1>5, SameSequence
<1>7. \A j \in 1 .. Len(m) : w[j].key = m[j].key
  BY <1>1
<1> QED BY <1>1, <1>2, <1>6, <1>7 DEF w

LEMMA MergePush ==
  ASSUME NEW S, NEW s \in Seq(S), NEW t \in Seq(S), NEW x \in S,
         NEW m, m = Merged(s, t), x.key \notin Keys(m)
  PROVE  m \in Seq(S) /\ Merged(s, Append(t, x)) = Append(m, x)
<1> DEFINE w == Merged(s, Append(t, x))
           v == Append(m, x)
<1>1. /\ m \in Seq(S) /\ w \in Seq(S)
      /\ \A j \in 1 .. Len(m) : w[j] = IF m[j].key = x.key /\ IsLast(m, j) THEN x ELSE m[j]
      /\ Len(w) = Len(m) + 1 /\ w[Len(m) + 1] = x
  <2>1. GrownBy(S, m, w, x)
    BY MergeAppend
  <2> HIDE DEF w
  <2> QED BY <2>1 DEF GrownBy
<1>2. v \in Seq(S) /\ Len(v) = Len(m) + 1 /\ v[Len(m) + 1] = x /\ \A j \in 1 .. Len(m) : v[j] = m[j]
  BY <1>1
<1> HIDE DEF w, v
<1>3. ASSUME NEW j \in 1 .. Len(w) PROVE w[j] = v[j]
  <2>1. j \in 1 .. Len(m) \/ j = Len(m) + 1
    BY <1>1
  <2> QED BY <1>1, <1>2, <2>1 DEF Keys
<1>4. w = v
  BY <1>1, <1>2, <1>3, SameSequence
<1> QED BY <1>1, <1>4 DEF w, v

\* The one place of a key that the loop's map holds.
IsPlace(s, k, i) ==
  /\ k \notin Keys(s) => i = 0
  /\ k \in Keys(s) => i \in 1 .. Len(s) /\ s[i].key = k /\ IsLast(s, i)

LEMMA PlaceIsOne ==
  ASSUME NEW S, NEW s \in Seq(S), NEW k, NEW i, NEW j, IsPlace(s, k, i), IsPlace(s, k, j)
  PROVE  i = j
<1>1. CASE k \in Keys(s)
  <2>1. i \in 1 .. Len(s) /\ j \in 1 .. Len(s) /\ ~(i < j) /\ ~(j < i)
    BY <1>1 DEF IsPlace, IsLast
  <2> QED BY <2>1
<1> QED BY <1>1 DEF IsPlace

LEMMA PlaceKept ==
  ASSUME NEW S, NEW s \in Seq(S), NEW w \in Seq(S), Len(w) = Len(s),
         \A j \in 1 .. Len(s) : w[j].key = s[j].key,
         NEW k, NEW i, IsPlace(s, k, i)
  PROVE  IsPlace(w, k, i)
<1>1. Keys(w) = Keys(s)
  BY DEF Keys
<1>2. ASSUME i \in 1 .. Len(s), IsLast(s, i) PROVE IsLast(w, i)
  <2>1. \A j \in i + 1 .. Len(s) : j \in 1 .. Len(s)
    BY <1>2
  <2> QED BY <1>2, <2>1 DEF IsLast
<1> QED BY <1>1, <1>2 DEF IsPlace

LEMMA PlaceAppend ==
  ASSUME NEW S, NEW s \in Seq(S), NEW x \in S, x.key \notin Keys(s), NEW k, NEW i, IsPlace(s, k, i)
  PROVE  IsPlace(Append(s, x), k, IF k = x.key THEN Len(s) + 1 ELSE i)
<1> DEFINE w == Append(s, x)
<1>1. /\ w \in Seq(S) /\ Len(w) = Len(s) + 1 /\ Len(s) \in Nat
      /\ \A j \in 1 .. Len(s) : w[j] = s[j]
      /\ w[Len(s) + 1] = x
      /\ Keys(w) = Keys(s) \cup {x.key}
  BY AppendLast
<1> HIDE DEF w
<1>2. CASE k = x.key
  <2>1. Len(s) + 1 \in 1 .. Len(w) /\ IsLast(w, Len(s) + 1)
    BY <1>1 DEF IsLast
  <2>2. IsPlace(w, k, Len(s) + 1)
    BY <1>1, <1>2, <2>1 DEF IsPlace
  <2> QED BY <1>2, <2>2 DEF w
<1>3. CASE k # x.key
  <2>1. ASSUME k \in Keys(s) PROVE i \in 1 .. Len(w) /\ w[i].key = k /\ IsLast(w, i)
    <3>1. i \in 1 .. Len(s) /\ s[i].key = k /\ IsLast(s, i)
      BY <2>1 DEF IsPlace
    <3>2. \A j \in i + 1 .. Len(w) : j \in i + 1 .. Len(s) \/ j = Len(s) + 1
      BY <1>1, <3>1
    <3>3. \A j \in i + 1 .. Len(s) : j \in 1 .. Len(s)
      BY <3>1
    <3> QED BY <1>1, <1>3, <3>1, <3>2, <3>3 DEF IsLast
  <2>2. IsPlace(w, k, i)
    BY <1>1, <1>3, <2>1 DEF IsPlace
  <2> QED BY <1>3, <2>2 DEF w
<1> QED BY <1>2, <1>3

\* Nothing merged yet: the version on disk.
LEMMA MergeNone ==
  ASSUME NEW S, NEW s \in Seq(S), NEW t \in Seq(S), Len(t) = 0
  PROVE  Merged(s, t) = s
<1> DEFINE m == Merged(s, t)
<1>1. MergeBy(S, s, t, m, Fresh(s, t)) /\ FreshBy(S, s, t, NewAt(s, t), Fresh(s, t))
  BY MergeIs, FreshIs
<1>2. NewAt(s, t) = {} /\ Keys(t) = {}
  BY DEF NewAt, Keys
<1> HIDE DEF m
<1>3. m \in Seq(S) /\ Len(m) = Len(s)
  BY <1>1, <1>2, FS_EmptySet DEF MergeBy, FreshBy
<1>4. \A i \in 1 .. Len(s) : m[i] = s[i]
  BY <1>1, <1>2 DEF MergeBy, Kept
<1>5. m = s
  BY <1>3, <1>4, SameSequence
<1> QED BY <1>5 DEF m

\* The first items of a sequence, and one more.
LEMMA PrefixFacts ==
  ASSUME NEW S, NEW s \in Seq(S), NEW n \in 0 .. Len(s)
  PROVE  /\ SubSeq(s, 1, n) \in Seq(S) /\ Len(SubSeq(s, 1, n)) = n
         /\ \A i \in 1 .. n : SubSeq(s, 1, n)[i] = s[i]
OBVIOUS

LEMMA PrefixGrows ==
  ASSUME NEW S, NEW s \in Seq(S), NEW n \in 0 .. Len(s), n < Len(s)
  PROVE  SubSeq(s, 1, n + 1) = Append(SubSeq(s, 1, n), s[n + 1])
<1> DEFINE p == SubSeq(s, 1, n)
           q == SubSeq(s, 1, n + 1)
           a == Append(p, s[n + 1])
<1>1. n + 1 \in 0 .. Len(s) /\ n + 1 \in 1 .. Len(s) /\ n \in Nat
  OBVIOUS
<1>2. p \in Seq(S) /\ Len(p) = n /\ \A i \in 1 .. n : p[i] = s[i]
  BY PrefixFacts
<1>3. q \in Seq(S) /\ Len(q) = n + 1 /\ \A i \in 1 .. n + 1 : q[i] = s[i]
  BY <1>1, PrefixFacts
<1>4. s[n + 1] \in S
  BY <1>1
<1> HIDE DEF p, q
<1>5. a \in Seq(S) /\ Len(a) = n + 1 /\ (\A i \in 1 .. n : a[i] = p[i]) /\ a[n + 1] = s[n + 1]
  BY <1>2, <1>4
<1> HIDE DEF a
<1>6. ASSUME NEW i \in 1 .. Len(q) PROVE q[i] = a[i]
  <2>1. i \in 1 .. n \/ i = n + 1
    BY <1>1, <1>3
  <2> QED BY <1>1, <1>2, <1>3, <1>5, <2>1
<1>7. q = a
  BY <1>3, <1>5, <1>6, SameSequence
<1> QED BY <1>7 DEF p, q, a

-----------------------------------------------------------------------------
(* What a filter keeps. *)

\* Q is what s has at the positions in P: each item is one of them, each of
\* them is there, in their order.
PicksBy(S, s, P, Q) ==
  /\ IsFiniteSet(P) /\ Cardinality(P) \in Nat
  /\ Q \in Seq(S) /\ Len(Q) = Cardinality(P)
  /\ \A n \in 1 .. Len(Q) : Nth(P, n) \in P /\ Q[n] = s[Nth(P, n)]
  /\ \A n, k \in 1 .. Len(Q) : n < k => Nth(P, n) < Nth(P, k)
  /\ \A i \in P : \E n \in 1 .. Len(Q) : Nth(P, n) = i
  /\ Len(Q) = 0 <=> P = {}

LEMMA PickedIs ==
  ASSUME NEW S, NEW s \in Seq(S), NEW P \in SUBSET (1 .. Len(s))
  PROVE  PicksBy(S, s, P, Picked(s, P))
<1> DEFINE N == Cardinality(P)
           Q == Picked(s, P)
<1>1. P \in SUBSET Nat /\ IsFiniteSet(P) /\ N \in Nat
  <2>1. 1 \in Int /\ Len(s) \in Int /\ 1 .. Len(s) \subseteq Nat
    OBVIOUS
  <2>2. IsFiniteSet(1 .. Len(s))
    BY <2>1, FS_Interval
  <2> QED BY <2>1, <2>2, FS_Subset, FS_CardinalityType
<1>2. /\ \A n \in 1 .. N : Nth(P, n) \in P
      /\ \A n, k \in 1 .. N : Nth(P, n) = Nth(P, k) => n = k
      /\ \A i \in P : \E n \in 1 .. N : Nth(P, n) = i /\ Cardinality({j \in P : j < i}) = n - 1
  BY <1>1, NthFacts
<1>3. Q = [n \in 1 .. N |-> s[Nth(P, n)]]
  BY DEF Picked
<1>4. N = 0 <=> P = {}
  BY <1>1, FS_EmptySet
<1> HIDE DEF N, Q
<1>5. ASSUME NEW n \in 1 .. N, NEW k \in 1 .. N, n < k PROVE Nth(P, n) < Nth(P, k)
  <2> DEFINE i == Nth(P, n)
             h == Nth(P, k)
             I == {j \in P : j < i}
             H == {j \in P : j < h}
  <2>1. i \in P /\ h \in P /\ n # k
    BY <1>1, <1>2, <1>5
  <2>2. i # h
    BY <1>2, <2>1
  <2>3. Cardinality(I) = n - 1 /\ Cardinality(H) = k - 1
    BY <1>2, <2>1
  <2>4. IsFiniteSet(I)
    BY <1>1, FS_Subset
  <2> HIDE DEF i, h
  <2>5. ASSUME h < i PROVE FALSE
    <3>1. H \subseteq I
      <4> SUFFICES ASSUME NEW j \in P, j < h PROVE j < i
        OBVIOUS
      <4>1. j \in Nat /\ h \in Nat /\ i \in Nat
        BY <1>1, <2>1
      <4> QED BY <2>5, <4>1
    <3> HIDE DEF I, H
    <3>2. Cardinality(H) <= Cardinality(I)
      BY <3>1, <2>4, FS_Subset
    <3> QED BY <1>1, <1>5, <2>3, <3>2
  <2>6. i \in Nat /\ h \in Nat
    BY <1>1, <2>1
  <2>7. i < h
    BY <2>2, <2>5, <2>6
  <2> QED BY <2>7 DEF i, h
<1>6. Q \in Seq(S) /\ Len(Q) = N /\ \A n \in 1 .. N : Q[n] = s[Nth(P, n)]
  <2>1. ASSUME NEW n \in 1 .. N PROVE s[Nth(P, n)] \in S
    <3>1. Nth(P, n) \in 1 .. Len(s)
      BY <1>2
    <3> QED BY <3>1
  <2> QED BY <1>1, <1>3, <2>1
<1>7. PicksBy(S, s, P, Q)
  BY <1>1, <1>2, <1>4, <1>5, <1>6 DEF PicksBy, N
<1> QED BY <1>7 DEF Q

=============================================================================
