----------------------- MODULE ManifestReadingProofs -----------------------
(***************************************************************************)
(* What a patched file reads as, for every legible file and change set.    *)
(*                                                                         *)
(* A key is known by its path, and its path by the keys above it.  Keys    *)
(* that are inserted go into a gap behind the last line of a mapping       *)
(* (Gap): the new file is the old one with lines put between others        *)
(* (Grown), each old key has the path it had, and an added one the path    *)
(* it was added for (Insertion).  From then on lines are left behind:      *)
(* Kept says by paths what an edit leaves as it was, and holds through     *)
(* any number of edits.                                                    *)
(***************************************************************************)
EXTENDS ManifestProofs

-----------------------------------------------------------------------------
(* Sets of numbers in their order. *)

(* The n-th of a set of numbers, as Tree and Remarks pick it. *)
Nth(S, n) == CHOOSE j \in S : Cardinality(S \cap 1..j) = n

LEMMA PrefixCount ==
  ASSUME NEW N \in Nat, NEW S \in SUBSET (1..N)
  PROVE  /\ IsFiniteSet(S) /\ Cardinality(S) \in Nat
         /\ \A j \in Int : IsFiniteSet(S \cap 1..j) /\ Cardinality(S \cap 1..j) \in Nat
                           /\ Cardinality(S \cap 1..j) <= Cardinality(S)
<1>1. IsFiniteSet(S)
  <2>1. IsFiniteSet(1..N)
    BY FS_Interval
  <2>. QED
    BY <2>1, FS_Subset
<1>2. Cardinality(S) \in Nat
  BY <1>1, FS_CardinalityType
<1>3. ASSUME NEW j \in Int
      PROVE  IsFiniteSet(S \cap 1..j) /\ Cardinality(S \cap 1..j) \in Nat
             /\ Cardinality(S \cap 1..j) <= Cardinality(S)
  BY <1>1, FS_Intersection, FS_CardinalityType
<1>. QED
  BY <1>1, <1>2, <1>3

LEMMA CountGrows ==
  ASSUME NEW N \in Nat, NEW S \in SUBSET (1..N), NEW j \in Int, NEW k \in S, j < k
  PROVE  Cardinality(S \cap 1..j) < Cardinality(S \cap 1..k)
<1>. DEFINE A == S \cap 1..j
            B == S \cap 1..k
<1>1. IsFiniteSet(A) /\ Cardinality(A) \in Nat /\ IsFiniteSet(B) /\ Cardinality(B) \in Nat
  BY PrefixCount
<1>2. k \notin A /\ A \union {k} \subseteq B
  OBVIOUS
<1>. HIDE DEF A, B
<1>3. Cardinality(A \union {k}) = Cardinality(A) + 1
  BY <1>1, <1>2, FS_AddElement
<1>4. Cardinality(A \union {k}) <= Cardinality(B)
  BY <1>1, <1>2, FS_Subset
<1>5. Cardinality(A) < Cardinality(B)
  BY <1>1, <1>3, <1>4
<1>. QED
  BY <1>5 DEF A, B

LEMMA NthCount ==
  ASSUME NEW N \in Nat, NEW S \in SUBSET (1..N), NEW j \in S
  PROVE  /\ Cardinality(S \cap 1..j) \in 1..Cardinality(S)
         /\ Nth(S, Cardinality(S \cap 1..j)) = j
<1>1. /\ Cardinality(S \cap 1..j) \in Nat /\ Cardinality(S) \in Nat
      /\ Cardinality(S \cap 1..j) <= Cardinality(S)
      /\ Cardinality(S \cap 1..0) \in Nat
  BY PrefixCount
<1>0. j \in 1..N
  OBVIOUS
<1>2. Cardinality(S \cap 1..0) < Cardinality(S \cap 1..j)
  <2>1. 0 \in Int /\ 0 < j
    BY <1>0
  <2>. QED
    BY <2>1, CountGrows
<1>3. Cardinality(S \cap 1..j) \in 1..Cardinality(S)
  BY <1>1, <1>2
<1>4. ASSUME NEW k \in S, Cardinality(S \cap 1..k) = Cardinality(S \cap 1..j) PROVE k = j
  <2>1. j \in Int /\ k \in Int
    BY <1>0
  <2>2. CASE j < k
    <3>1. Cardinality(S \cap 1..j) < Cardinality(S \cap 1..k)
      BY <2>1, <2>2, CountGrows
    <3>. QED
      BY <1>1, <1>4, <3>1
  <2>3. CASE k < j
    <3>1. Cardinality(S \cap 1..k) < Cardinality(S \cap 1..j)
      BY <2>1, <2>3, CountGrows
    <3>. QED
      BY <1>1, <1>4, <3>1
  <2>. QED
    BY <2>1, <2>2, <2>3
<1>. QED
  BY <1>3, <1>4 DEF Nth

LEMMA NthIs ==
  ASSUME NEW N \in Nat, NEW S \in SUBSET (1..N), NEW n \in 1..Cardinality(S)
  PROVE  /\ Nth(S, n) \in S /\ Nth(S, n) \in 1..N
         /\ Cardinality(S \cap 1..Nth(S, n)) = n
<1>1. \E j \in S : Cardinality(S \cap 1..j) = n
  BY NthOf
<1>2. Nth(S, n) \in S /\ Cardinality(S \cap 1..Nth(S, n)) = n
  BY <1>1 DEF Nth
<1>. QED
  BY <1>2

(* The first ones of a set are those of its lower part. *)
LEMMA NthLower ==
  ASSUME NEW N \in Nat, NEW T \in SUBSET (1..N), NEW b \in Int,
         NEW n \in 1..Cardinality(T \cap 1..b)
  PROVE  Nth(T, n) = Nth(T \cap 1..b, n)
<1>. DEFINE S == T \cap 1..b
            j == Nth(S, n)
<1>1. S \in SUBSET (1..N)
  OBVIOUS
<1>2. j \in S /\ Cardinality(S \cap 1..j) = n
  <2>. HIDE DEF j
  <2>1. n \in 1..Cardinality(S)
    OBVIOUS
  <2>. HIDE DEF S
  <2>. QED
    BY <1>1, <2>1, NthIs DEF j
<1>. HIDE DEF j
<1>3. T \cap 1..j = S \cap 1..j
  BY <1>2
<1>4. Nth(T, Cardinality(T \cap 1..j)) = j
  BY <1>2, NthCount
<1>. QED
  BY <1>2, <1>3, <1>4 DEF j

(* Lines behind a cut move down. *)
Sh(at, m, i) == IF i <= at THEN i ELSE i + m

Shifted(at, m, S) == {Sh(at, m, i) : i \in S}

LEMMA ShiftCount ==
  ASSUME NEW N \in Nat, NEW S \in SUBSET (1..N), NEW at \in Nat, NEW m \in Nat
  PROVE  /\ IsFiniteSet(Shifted(at, m, S)) /\ Shifted(at, m, S) \in SUBSET (1..(N + m))
         /\ Cardinality(Shifted(at, m, S)) = Cardinality(S)
<1>. DEFINE T == Shifted(at, m, S)
            h == [i \in S |-> Sh(at, m, i)]
<1>1. T \in SUBSET (1..(N + m))
  BY DEF Shifted, Sh
<1>2. h \in Bijection(S, T)
  <2>1. h \in [S -> T]
    BY DEF Shifted
  <2>2. \A i, j \in S : h[i] = h[j] => i = j
    BY DEF Sh
  <2>3. \A t \in T : \E i \in S : h[i] = t
    BY DEF Shifted
  <2>4. DOMAIN h = S
    OBVIOUS
  <2>. HIDE DEF h, T
  <2>. QED
    BY <2>1, <2>2, <2>3, <2>4 DEF Bijection, Injection, Surjection, IsInjective
<1>3. IsFiniteSet(S)
  BY PrefixCount
<1>4. ExistsBijection(S, T)
  BY <1>2 DEF ExistsBijection
<1>. QED
  BY <1>1, <1>3, <1>4, FS_Bijection

LEMMA NthShift ==
  ASSUME NEW N \in Nat, NEW S \in SUBSET (1..N), NEW at \in Nat, NEW m \in Nat,
         NEW n \in 1..Cardinality(S)
  PROVE  Nth(Shifted(at, m, S), n) = Sh(at, m, Nth(S, n))
<1>. DEFINE T == Shifted(at, m, S)
            j == Nth(S, n)
            k == Sh(at, m, j)
<1>1. j \in S /\ j \in 1..N /\ Cardinality(S \cap 1..j) = n
  BY NthIs
<1>. HIDE DEF j
<1>2. T \in SUBSET (1..(N + m)) /\ k \in T
  <2>1. T \in SUBSET (1..(N + m))
    BY ShiftCount
  <2>2. k \in T
    BY <1>1 DEF Shifted
  <2>. QED
    BY <2>1, <2>2
<1>3. T \cap 1..k = Shifted(at, m, S \cap 1..j)
  BY <1>1 DEF Shifted, Sh
<1>4. Cardinality(T \cap 1..k) = n
  <2>1. S \cap 1..j \in SUBSET (1..N)
    OBVIOUS
  <2>2. Cardinality(Shifted(at, m, S \cap 1..j)) = Cardinality(S \cap 1..j)
    BY <2>1, ShiftCount, ZenonT(40)
  <2>. QED
    BY <1>1, <1>3, <2>2
<1>. HIDE DEF k, T
<1>5. Nth(T, n) = k
  <2>1. N + m \in Nat
    OBVIOUS
  <2>. QED
    BY <1>2, <1>4, <2>1, NthCount
<1>. QED
  BY <1>5 DEF k, j, T

(* A set of numbers and a stretch of numbers behind it. *)
LEMMA ChainNth ==
  ASSUME NEW at \in Nat, NEW A \in SUBSET (1..at), NEW n \in Nat
  PROVE  LET T == A \union ((at + 1)..(at + n))
         IN  /\ T \in SUBSET (1..(at + n))
             /\ Cardinality(A) \in Nat /\ Cardinality(T) = Cardinality(A) + n
             /\ \A r \in 1..Cardinality(A) : Nth(T, r) = Nth(A, r) /\ Nth(A, r) \in A
             /\ \A r \in 1..n : Nth(T, Cardinality(A) + r) = at + r
<1>. DEFINE T == A \union ((at + 1)..(at + n))
            N == at + n
<1>1. T \in SUBSET (1..N) /\ N \in Nat
  OBVIOUS
<1>2. IsFiniteSet(A) /\ Cardinality(A) \in Nat
  BY PrefixCount
<1>0. \A k \in A : k \in Int /\ 1 <= k /\ k <= at
  OBVIOUS
<1>. HIDE DEF N
<1>3. ASSUME NEW r \in 0..n PROVE Cardinality(T \cap 1..(at + r)) = Cardinality(A) + r
  <2>. DEFINE C == (at + 1)..(at + r)
  <2>1. T \cap 1..(at + r) = A \union C /\ A \cap C = {}
    <3>1. \A k \in T \cap 1..(at + r) : k \in A \union C
      OBVIOUS
    <3>2. \A k \in A \union C : k \in T \cap 1..(at + r)
      BY <1>0
    <3>3. \A k \in A : k \notin C
      BY <1>0
    <3>. QED
      BY <3>1, <3>2, <3>3
  <2>2. /\ IsFiniteSet(C)
        /\ Cardinality(C) = IF at + 1 > at + r THEN 0 ELSE (at + r) - (at + 1) + 1
    <3>1. at + 1 \in Int /\ at + r \in Int
      OBVIOUS
    <3>. QED
      BY <3>1, FS_Interval
  <2>3. Cardinality(C) = r
    BY <2>2
  <2>. HIDE DEF C, T
  <2>4. Cardinality(A \union C) = Cardinality(A) + Cardinality(C) - Cardinality(A \cap C)
    BY <1>2, <2>2, FS_Union
  <2>5. Cardinality(A \cap C) = 0
    BY <2>1, FS_EmptySet
  <2>. QED
    BY <1>2, <2>1, <2>3, <2>4, <2>5
<1>4. Cardinality(T) = Cardinality(A) + n
  <2>1. n \in 0..n /\ \A k \in T : k \in 1..(at + n)
    BY <1>0
  <2>. HIDE DEF T
  <2>2. T \cap 1..(at + n) = T
    BY <2>1
  <2>. QED
    BY <1>3, <2>1, <2>2
<1>5. ASSUME NEW r \in 1..Cardinality(A) PROVE Nth(T, r) = Nth(A, r) /\ Nth(A, r) \in A
  <2>1. T \cap 1..at = A
    <3>1. \A k \in T \cap 1..at : k \in A
      OBVIOUS
    <3>. QED
      BY <1>0, <3>1
  <2>. HIDE DEF T, N
  <2>2. at \in Int /\ r \in 1..Cardinality(T \cap 1..at)
    BY <2>1
  <2>3. Nth(T, r) = Nth(T \cap 1..at, r)
    BY <1>1, <2>2, NthLower
  <2>4. Nth(A, r) \in A
    BY NthIs
  <2>. QED
    BY <2>1, <2>3, <2>4
<1>6. ASSUME NEW r \in 1..n PROVE Nth(T, Cardinality(A) + r) = at + r
  <2>1. at + r \in T /\ r \in 0..n
    OBVIOUS
  <2>. HIDE DEF T, N
  <2>2. Nth(T, Cardinality(T \cap 1..(at + r))) = at + r
    BY <1>1, <2>1, NthCount
  <2>. QED
    BY <1>3, <2>1, <2>2
<1>. QED
  BY <1>1, <1>2, <1>4, <1>5, <1>6

-----------------------------------------------------------------------------
(* How sequences begin. *)

LEMMA StartOf ==
  ASSUME NEW S, NEW p \in Seq(S), NEW n \in 0..Len(p)
  PROVE  /\ SubSeq(p, 1, n) \in Seq(S) /\ Len(SubSeq(p, 1, n)) = n
         /\ \A r \in 1..n : SubSeq(p, 1, n)[r] = p[r]
OBVIOUS

LEMMA SeqStart ==
  ASSUME NEW p, p \in Seq(Range(p)), NEW q, q \in Seq(Range(q)), NEW n \in 0..Len(p),
         Len(q) = n, \A r \in 1..n : q[r] = p[r]
  PROVE  q = SubSeq(p, 1, n)
<1>. DEFINE S == Range(p) \union Range(q)
            t == SubSeq(p, 1, n)
<1>1. p \in Seq(S) /\ q \in Seq(S)
  OBVIOUS
<1>. HIDE DEF S
<1>2. t \in Seq(S) /\ Len(t) = n /\ \A r \in 1..n : t[r] = p[r]
  BY <1>1, StartOf
<1>. HIDE DEF t
<1>3. q = t
  BY <1>1, <1>2, SeqEqual
<1>. QED
  BY <1>3 DEF t

-----------------------------------------------------------------------------
(* The keys an entry is nested in, and its path. *)

Above(f, i) == Nesting(f, Keys(f), i)

LEMMA KeyLines ==
  ASSUME NEW f, IsFile(f)
  PROVE  /\ Len(f) \in Nat /\ DOMAIN f = 1..Len(f) /\ Keys(f) \in SUBSET (1..Len(f))
         /\ \A i \in DOMAIN f : f[i].indent \in Nat
         /\ \A i \in Keys(f) : /\ i \in Heads(f) /\ f[i].kind = "entry" /\ f[i].indent \in Nat
                               /\ i \in Int /\ 1 <= i /\ i <= Len(f)
<1>1. Len(f) \in Nat /\ DOMAIN f = 1..Len(f)
  BY LinesOf
<1>2. Keys(f) \in SUBSET (1..Len(f)) /\ \A i \in Keys(f) : i \in Heads(f) /\ f[i].kind = "entry"
  BY <1>1 DEF Keys, Heads
<1>3. \A i \in DOMAIN f : f[i].indent \in Nat
  BY DEF IsFile
<1>. QED
  BY <1>1, <1>2, <1>3

LEMMA AboveFacts ==
  ASSUME NEW f, IsFile(f), NEW i \in Keys(f)
  PROVE  /\ Above(f, i) \in SUBSET (1..Len(f)) /\ Above(f, i) \subseteq Keys(f)
         /\ i \in Above(f, i)
         /\ \A j \in Above(f, i) : /\ j <= i /\ Doc(f, j) = Doc(f, i)
                                   /\ Above(f, j) = Above(f, i) \cap 1..j
         /\ \A j, k \in Above(f, i) : j < k => f[j].indent < f[k].indent
<1>. DEFINE K == Keys(f)
<1>1. /\ Len(f) \in Nat /\ K \in SUBSET (1..Len(f))
      /\ \A j \in K : f[j].indent \in Nat /\ j \in Int /\ j \in 1..Len(f)
  BY KeyLines
<1>. HIDE DEF K
<1>2. Above(f, i) = {j \in K : /\ j <= i /\ Doc(f, j) = Doc(f, i)
                               /\ \A k \in K : j < k /\ k <= i => f[k].indent > f[j].indent}
  BY DEF Above, Nesting, K
<1>3. i \in K
  BY DEF K
<1>4. Above(f, i) \in SUBSET (1..Len(f)) /\ Above(f, i) \subseteq K /\ i \in Above(f, i)
  <2>1. Above(f, i) \subseteq K
    BY <1>2
  <2>2. i <= i /\ \A k \in K : ~(i < k /\ k <= i)
    BY <1>1, <1>3
  <2>3. i \in Above(f, i)
    BY <1>2, <1>3, <2>2
  <2>. QED
    BY <1>1, <2>1, <2>3
<1>5. ASSUME NEW j \in Above(f, i)
      PROVE  /\ j <= i /\ Doc(f, j) = Doc(f, i)
             /\ Above(f, j) = Above(f, i) \cap 1..j
  <2>1. j \in K /\ j <= i /\ Doc(f, j) = Doc(f, i)
        /\ \A k \in K : j < k /\ k <= i => f[k].indent > f[j].indent
    BY <1>2
  <2>2. Above(f, j) = {l \in K : /\ l <= j /\ Doc(f, l) = Doc(f, j)
                                 /\ \A k \in K : l < k /\ k <= j => f[k].indent > f[l].indent}
    BY DEF Above, Nesting, K
  <2>3. ASSUME NEW l \in Above(f, j) PROVE l \in Above(f, i) /\ l \in 1..j
    <3>1. l \in K /\ l <= j /\ Doc(f, l) = Doc(f, j)
          /\ \A k \in K : l < k /\ k <= j => f[k].indent > f[l].indent
      BY <2>2
    <3>2. ASSUME NEW k \in K, l < k, k <= i PROVE f[k].indent > f[l].indent
      <4>1. CASE k <= j
        BY <3>1, <3>2, <4>1
      <4>2. CASE l = j
        BY <2>1, <3>2, <4>2
      <4>3. CASE j < k /\ l < j
        <5>1. f[k].indent > f[j].indent /\ f[j].indent > f[l].indent
          BY <1>1, <2>1, <3>1, <3>2, <4>3
        <5>. QED
          BY <1>1, <2>1, <3>1, <5>1
      <4>. QED
        BY <1>1, <2>1, <3>1, <4>1, <4>2, <4>3
    <3>3. l <= i /\ l \in 1..j
      BY <1>1, <1>3, <2>1, <3>1
    <3>4. Doc(f, l) = Doc(f, i)
      BY <2>1, <3>1
    <3>. QED
      BY <1>2, <3>1, <3>2, <3>3, <3>4
  <2>4. ASSUME NEW l \in Above(f, i), l \in 1..j PROVE l \in Above(f, j)
    BY <1>1, <1>2, <1>3, <2>1, <2>2, <2>4
  <2>. QED
    BY <2>1, <2>3, <2>4
<1>6. \A j, k \in Above(f, i) : j < k => f[j].indent < f[k].indent
  BY <1>1, <1>2
<1>. QED
  BY <1>4, <1>5, <1>6 DEF K

(* What is nested in an entry comes in one stretch. *)
LEMMA AboveBetween ==
  ASSUME NEW f, IsFile(f), NEW i \in Keys(f), NEW p \in Above(f, i),
         NEW j \in Keys(f), p <= j, j <= i, Doc(f, j) = Doc(f, i)
  PROVE  p \in Above(f, j)
<1>1. /\ Len(f) \in Nat /\ Keys(f) \in SUBSET (1..Len(f))
  BY KeyLines
<1>. QED
  BY <1>1 DEF Above, Nesting

LEMMA PathFacts ==
  ASSUME NEW f, IsFile(f), NEW i \in Keys(f)
  PROVE  LET path == PathOf(f, i)
             count == Cardinality(Above(f, i))
         IN  /\ count \in Nat \ {0} /\ path \in Seq(Range(path)) /\ Len(path) = count + 1
             /\ path[1] = Doc(f, i)
             /\ \A n \in 1..count : path[n + 1] = f[Nth(Above(f, i), n)].key
<1>. DEFINE above == Above(f, i)
            count == Cardinality(above)
            k == KeysOn(f, above)
            path == PathOf(f, i)
<1>1. Len(f) \in Nat /\ above \in SUBSET (1..Len(f)) /\ i \in above
  BY AboveFacts, LinesOf
<1>. HIDE DEF above
<1>2. count \in Nat /\ count # 0
  BY <1>1, PrefixCount, FS_EmptySet
<1>3. path = <<Doc(f, i)>> \o k
  BY DEF PathOf, Above, above
<1>4. DOMAIN k = 1..count /\ \A n \in 1..count : k[n] = f[Nth(above, n)].key
  BY DEF KeysOn, Nth
<1>5. k = [n \in 1..count |-> k[n]]
  BY DEF KeysOn
<1>. HIDE DEF count
<1>. DEFINE S == {Doc(f, i)} \union Range(k)
<1>6. k \in Seq(S) /\ Len(k) = count
  <2>. HIDE DEF k
  <2>1. \A n \in 1..count : k[n] \in S
    BY <1>4 DEF Range
  <2>. HIDE DEF S
  <2>2. k \in [1..count -> S]
    BY <1>5, <2>1
  <2>. QED
    BY <1>2, <2>2
<1>7. <<Doc(f, i)>> \in Seq(S) /\ Len(<<Doc(f, i)>>) = 1
  OBVIOUS
<1>. HIDE DEF S, k, path
<1>8. path \in Seq(S) /\ Len(path) = count + 1 /\ path[1] = Doc(f, i)
      /\ \A n \in 1..count : path[n + 1] = k[n]
  <2>1. /\ path \in Seq(S) /\ Len(path) = 1 + count
        /\ \A n \in 1 .. 1 + count : path[n] = IF n <= 1 THEN <<Doc(f, i)>>[n] ELSE k[n - 1]
    BY <1>3, <1>6, <1>7, ConcatProperties
  <2>2. ASSUME NEW n \in 1..count PROVE path[n + 1] = k[n]
    <3>1. n + 1 \in 1 .. 1 + count /\ ~(n + 1 <= 1) /\ (n + 1) - 1 = n
      BY <1>2
    <3>. QED
      BY <2>1, <3>1
  <2>3. 1 \in 1 .. 1 + count
    BY <1>2
  <2>. QED
    BY <1>2, <2>1, <2>2, <2>3
<1>9. path \in Seq(Range(path))
  BY <1>8, SequenceOfItsRange
<1>. QED
  BY <1>2, <1>4, <1>8, <1>9 DEF above, path, count

(* The path of what an entry is nested in begins its own. *)
LEMMA PathOfAbove ==
  ASSUME NEW f, IsFile(f), NEW i \in Keys(f), NEW j \in Above(f, i)
  PROVE  LET n == Cardinality(Above(f, i) \cap 1..j)
         IN  /\ j \in Keys(f) /\ n \in 1..Cardinality(Above(f, i))
             /\ Len(PathOf(f, j)) = n + 1
             /\ PathOf(f, j) = SubSeq(PathOf(f, i), 1, n + 1)
<1>. DEFINE above == Above(f, i)
            n == Cardinality(above \cap 1..j)
            p == PathOf(f, i)
            q == PathOf(f, j)
<1>1. /\ above \in SUBSET (1..Len(f)) /\ Len(f) \in Nat /\ j \in Keys(f) /\ j \in Int
      /\ Doc(f, j) = Doc(f, i) /\ Above(f, j) = above \cap 1..j
  BY AboveFacts, KeyLines
<1>2. n \in 1..Cardinality(above) /\ Cardinality(above) \in Nat
  <2>. HIDE DEF above
  <2>1. j \in above
    BY DEF above
  <2>. QED
    BY <1>1, <2>1, NthCount, PrefixCount
<1>3. /\ Len(p) = Cardinality(above) + 1 /\ p \in Seq(Range(p)) /\ p[1] = Doc(f, i)
      /\ \A r \in 1..Cardinality(above) : p[r + 1] = f[Nth(above, r)].key
  BY PathFacts
<1>4. /\ Len(q) = n + 1 /\ q \in Seq(Range(q)) /\ q[1] = Doc(f, i)
      /\ \A r \in 1..n : q[r + 1] = f[Nth(above \cap 1..j, r)].key
  BY <1>1, PathFacts
<1>5. \A r \in 1..n : Nth(above \cap 1..j, r) = Nth(above, r)
  <2>. HIDE DEF above
  <2>. QED
    BY <1>1, NthLower
<1>. HIDE DEF p, q, n, above
<1>6. ASSUME NEW r \in 1 .. n + 1 PROVE q[r] = p[r]
  <2>1. CASE r = 1
    BY <1>3, <1>4, <2>1
  <2>2. CASE r # 1
    <3>1. r - 1 \in 1..n /\ r - 1 \in 1..Cardinality(above) /\ (r - 1) + 1 = r
      BY <1>2, <2>2
    <3>2. q[r] = f[Nth(above \cap 1..j, r - 1)].key /\ p[r] = f[Nth(above, r - 1)].key
      BY <1>3, <1>4, <3>1
    <3>. QED
      BY <1>5, <3>1, <3>2
  <2>. QED
    BY <2>1, <2>2
<1>7. q = SubSeq(p, 1, n + 1)
  BY <1>2, <1>3, <1>4, <1>6, SeqStart
<1>. QED
  BY <1>1, <1>2, <1>4, <1>7 DEF p, q, n, above

(* Every prefix of a path that names more than a document is a path. *)
LEMMA PrefixIsPath ==
  ASSUME NEW f, IsFile(f), NEW i \in Keys(f), NEW n \in 2 .. Len(PathOf(f, i))
  PROVE  \E j \in Above(f, i) : PathOf(f, j) = SubSeq(PathOf(f, i), 1, n) /\ Len(PathOf(f, j)) = n
<1>. DEFINE above == Above(f, i)
            j == Nth(above, n - 1)
<1>1. /\ Cardinality(above) \in Nat /\ Len(PathOf(f, i)) = Cardinality(above) + 1
      /\ above \in SUBSET (1..Len(f)) /\ Len(f) \in Nat
  BY PathFacts, AboveFacts, KeyLines
<1>2. n - 1 \in 1..Cardinality(above) /\ (n - 1) + 1 = n
  BY <1>1
<1>. HIDE DEF above
<1>3. j \in above /\ Cardinality(above \cap 1..j) = n - 1
  BY <1>1, <1>2, NthIs
<1>. HIDE DEF j
<1>4. PathOf(f, j) = SubSeq(PathOf(f, i), 1, (n - 1) + 1) /\ Len(PathOf(f, j)) = (n - 1) + 1
  BY <1>3, PathOfAbove DEF above
<1>. QED
  BY <1>2, <1>3, <1>4 DEF above

UniquePaths(f) ==
  \A i, j \in Keys(f) : PathOf(f, i) = PathOf(f, j) => i = j

LEMMA PathPrefix ==
  ASSUME NEW f, IsFile(f), UniquePaths(f), NEW p \in Keys(f), NEW i \in Keys(f)
  PROVE  IsPrefix(PathOf(f, p), PathOf(f, i)) <=> p \in Above(f, i)
<1>. DEFINE s == PathOf(f, p)
            t == PathOf(f, i)
<1>1. /\ s \in Seq(Range(s)) /\ Len(s) \in Nat /\ Len(s) >= 2
      /\ t \in Seq(Range(t)) /\ Len(t) \in Nat
  BY PathFacts
<1>2. SubSeq(s, 1, Len(s)) = s
  <2>. HIDE DEF s
  <2>. QED
    BY <1>1, SubSeqFull
<1>3. ASSUME p \in Above(f, i) PROVE Len(s) <= Len(t) /\ s = SubSeq(t, 1, Len(s))
  <2>. DEFINE n == Cardinality(Above(f, i) \cap 1..p)
  <2>1. n \in 1..Cardinality(Above(f, i)) /\ Len(s) = n + 1 /\ s = SubSeq(t, 1, n + 1)
    BY <1>3, PathOfAbove
  <2>2. Cardinality(Above(f, i)) \in Nat /\ Len(t) = Cardinality(Above(f, i)) + 1
    BY PathFacts
  <2>. HIDE DEF s, t, n
  <2>. QED
    BY <2>1, <2>2
<1>4. ASSUME Len(s) <= Len(t), s = SubSeq(t, 1, Len(s)) PROVE p \in Above(f, i)
  <2>1. Len(s) \in 2..Len(t)
    <3>. HIDE DEF s, t
    <3>. QED
      BY <1>1, <1>4
  <2>2. PICK j \in Above(f, i) : PathOf(f, j) = SubSeq(t, 1, Len(s))
    BY <2>1, PrefixIsPath
  <2>3. j \in Keys(f)
    BY AboveFacts
  <2>. QED
    BY <1>4, <2>2, <2>3 DEF UniquePaths
<1>. QED
  BY <1>2, <1>3, <1>4 DEF IsPrefix

-----------------------------------------------------------------------------
(* Files that a YAML decoder takes. *)

Child(f, p, c) ==
  c \in Keys(f) /\ p \in Above(f, c) /\ Len(PathOf(f, c)) = Len(PathOf(f, p)) + 1

(* What WellFormed asks of the keys, said of lines. *)
Sound(f) ==
  /\ IsFile(f)
  /\ UniquePaths(f)
  /\ \A i \in Keys(f) : Len(PathOf(f, i)) = 2 => f[i].indent = 0
  /\ \A p \in Keys(f) : \A c : Child(f, p, c) => f[p].style = "nothing"
  /\ \A p \in Keys(f) : \A b, c : Child(f, p, b) /\ Child(f, p, c) => f[b].indent = f[c].indent
  /\ Unparted(f)

(* What it asks of the other lines. *)
Covered(f) ==
  \A k \in DOMAIN f : f[k].kind = "text" => \E i \in Keys(f) : k \in Body(f, i)

(* The node that an entry begins. *)
Node(f, i) == [line |-> i, path |-> PathOf(f, i)]

LEMMA Nodes ==
  ASSUME NEW f
  PROVE  Tree(f) = {Node(f, i) : i \in Keys(f)}
BY TreeOfPaths DEF Node

LEMMA FoundLines ==
  ASSUME NEW f, NEW path
  PROVE  Found(Tree(f), path) = {i \in Keys(f) : PathOf(f, i) = path}
<1>1. ASSUME NEW i \in Found(Tree(f), path) PROVE i \in Keys(f) /\ PathOf(f, i) = path
  BY LinesOfTheTree DEF Found
<1>2. ASSUME NEW i \in Keys(f), PathOf(f, i) = path PROVE i \in Found(Tree(f), path)
  <2>1. Node(f, i) \in Tree(f) /\ Node(f, i).line = i /\ Node(f, i).path = path
    BY <1>2, Nodes DEF Node
  <2>. QED
    BY <2>1 DEF Found
<1>. QED
  BY <1>1, <1>2

LEMMA SubtreeLines ==
  ASSUME NEW f, IsFile(f), UniquePaths(f), NEW p \in Keys(f)
  PROVE  /\ Subtree(Tree(f), PathOf(f, p)) = {Node(f, i) : i \in {j \in Keys(f) : p \in Above(f, j)}}
         /\ Children(Tree(f), PathOf(f, p)) = {Node(f, c) : c \in {j \in Keys(f) : Child(f, p, j)}}
<1>1. Subtree(Tree(f), PathOf(f, p)) = {x \in Tree(f) : IsPrefix(PathOf(f, p), x.path)}
  BY DEF Subtree
<1>2. \A i \in Keys(f) : Node(f, i).path = PathOf(f, i)
                         /\ (IsPrefix(PathOf(f, p), PathOf(f, i)) <=> p \in Above(f, i))
  BY PathPrefix DEF Node
<1>3. Subtree(Tree(f), PathOf(f, p)) = {Node(f, i) : i \in {j \in Keys(f) : p \in Above(f, j)}}
  BY <1>1, <1>2, Nodes
<1>4. Children(Tree(f), PathOf(f, p))
        = {x \in Subtree(Tree(f), PathOf(f, p)) : Len(x.path) = Len(PathOf(f, p)) + 1}
  BY DEF Children
<1>5. Children(Tree(f), PathOf(f, p)) = {Node(f, c) : c \in {j \in Keys(f) : Child(f, p, j)}}
  BY <1>2, <1>3, <1>4 DEF Child
<1>. QED
  BY <1>3, <1>5

LEMMA WellFormedIsSound ==
  ASSUME NEW f, IsFile(f), WellFormed(f), Unparted(f)
  PROVE  Sound(f) /\ Covered(f)
<1>. DEFINE tree == Tree(f)
<1>1. /\ \A i \in DOMAIN f : f[i].kind = "text" => \E x \in tree : i \in Body(f, x.line)
      /\ \A x \in tree : GoodNode(f, tree, x)
  BY DEF WellFormed, GoodNode
<1>2. \A i \in Keys(f) : /\ Node(f, i) \in tree
                         /\ Node(f, i).line = i /\ Node(f, i).path = PathOf(f, i)
  BY Nodes DEF Node
<1>3. \A x \in tree : x.line \in Keys(f)
  BY LinesOfTheTree
<1>. HIDE DEF tree
<1>4. \A i \in Keys(f) : /\ Found(tree, PathOf(f, i)) = {i}
                         /\ Len(PathOf(f, i)) = 2 => f[i].indent = 0
                         /\ ~IsLeaf(tree, PathOf(f, i)) => f[i].style = "nothing"
                         /\ \A y, z \in Children(tree, PathOf(f, i)) :
                              f[y.line].indent = f[z.line].indent
  BY <1>1, <1>2 DEF GoodNode
<1>5. UniquePaths(f)
  BY <1>4, FoundLines DEF UniquePaths, tree
<1>6. ASSUME NEW p \in Keys(f), NEW c, Child(f, p, c)
      PROVE  Node(f, c) \in Children(tree, PathOf(f, p)) /\ Node(f, c).line = c
  BY <1>2, <1>5, <1>6, SubtreeLines DEF Child, tree
<1>7. \A p \in Keys(f) : \A c : Child(f, p, c) => f[p].style = "nothing"
  BY <1>4, <1>6 DEF IsLeaf
<1>8. ASSUME NEW p \in Keys(f), NEW b, NEW c, Child(f, p, b), Child(f, p, c)
      PROVE  f[b].indent = f[c].indent
  BY <1>4, <1>6, <1>8
<1>9. Covered(f)
  BY <1>1, <1>3 DEF Covered
<1>. QED
  BY <1>4, <1>5, <1>7, <1>8, <1>9 DEF Sound

(* Between an entry and what is nested in it stands a child. *)
LEMMA ChildBetween ==
  ASSUME NEW f, IsFile(f), UniquePaths(f), NEW i \in Keys(f), NEW p \in Above(f, i), p # i
  PROVE  \E c \in Above(f, i) : Child(f, p, c) /\ p < c
<1>. DEFINE n == Cardinality(Above(f, i) \cap 1..p)
<1>1. /\ Above(f, i) \in SUBSET (1..Len(f)) /\ Len(f) \in Nat /\ p \in Keys(f)
      /\ p <= i /\ i \in Above(f, i) /\ Above(f, i) \subseteq Keys(f)
  BY AboveFacts, KeyLines
<1>2. /\ n \in 1..Cardinality(Above(f, i)) /\ Len(PathOf(f, p)) = n + 1
      /\ PathOf(f, p) = SubSeq(PathOf(f, i), 1, n + 1)
  BY PathOfAbove
<1>3. Cardinality(Above(f, i)) \in Nat /\ Len(PathOf(f, i)) = Cardinality(Above(f, i)) + 1
  BY PathFacts
<1>. HIDE DEF n
<1>4. Len(PathOf(f, p)) # Len(PathOf(f, i))
  <2>1. SUFFICES ASSUME Len(PathOf(f, p)) = Len(PathOf(f, i)) PROVE FALSE
    OBVIOUS
  <2>2. n + 1 = Len(PathOf(f, i)) /\ PathOf(f, i) \in Seq(Range(PathOf(f, i)))
    BY <1>2, <2>1, PathFacts
  <2>3. PathOf(f, p) = PathOf(f, i)
    BY <1>2, <2>2, SubSeqFull
  <2>. QED
    BY <1>1, <2>3 DEF UniquePaths
<1>5. n + 2 \in 2 .. Len(PathOf(f, i))
  BY <1>2, <1>3, <1>4
<1>6. PICK c \in Above(f, i) : PathOf(f, c) = SubSeq(PathOf(f, i), 1, n + 2)
                               /\ Len(PathOf(f, c)) = n + 2
  BY <1>5, PrefixIsPath
<1>7. c \in Keys(f) /\ Above(f, c) = Above(f, i) \cap 1..c /\ p \in Int /\ c \in Int
  BY <1>1, AboveFacts, KeyLines
<1>8. p < c
  <2>1. SUFFICES ASSUME c <= p PROVE FALSE
    BY <1>7
  <2>2. c \in Above(f, p)
    BY <1>1, <1>7, <2>1, AboveFacts
  <2>3. Len(PathOf(f, c)) <= Len(PathOf(f, p))
    <3>1. /\ Len(PathOf(f, c)) = Cardinality(Above(f, p) \cap 1..c) + 1
          /\ Cardinality(Above(f, p) \cap 1..c) \in 1..Cardinality(Above(f, p))
      BY <1>1, <2>2, PathOfAbove
    <3>2. Cardinality(Above(f, p)) \in Nat /\ Len(PathOf(f, p)) = Cardinality(Above(f, p)) + 1
      BY <1>1, PathFacts
    <3>. QED
      BY <3>1, <3>2
  <2>. QED
    BY <1>2, <1>6, <2>3
<1>9. Child(f, p, c)
  BY <1>1, <1>2, <1>6, <1>7, <1>8 DEF Child
<1>. QED
  BY <1>8, <1>9

-----------------------------------------------------------------------------
(* Where insertKeys cuts a file: behind line "at", the last that belongs to the
   mapping which begins on line p, whose keys are indented by d; "last" is the
   last key in it. *)
GoesOn(f, d, k) == f[k].kind \notin {"blank", "separator"} /\ f[k].indent > d

Gap(f, p, d, last, at) ==
  /\ Sound(f)
  /\ d \in Nat /\ last \in Keys(f) /\ p \in Above(f, last) /\ p < last
  /\ p \in Keys(f) /\ f[p].indent < d /\ f[p].style = "nothing"
  /\ at \in last .. Len(f)
  /\ \A i \in Keys(f) : p \in Above(f, i) => i <= last
  /\ \A i \in Keys(f) : p \in Above(f, i) /\ i # p =>
       \E c \in Above(f, i) : p < c /\ Child(f, p, c)
  /\ \A c : Child(f, p, c) => f[c].indent = d
  /\ \A k \in last + 1 .. at : GoesOn(f, d, k)
  /\ at < Len(f) => ~GoesOn(f, d, at + 1)

LEMMA ParentLine ==
  ASSUME NEW f, Sound(f), NEW path, Found(Tree(f), path) # {}
  PROVE  LET p == Line(Tree(f), path) IN p \in Keys(f) /\ PathOf(f, p) = path
BY FoundLines DEF Line

LEMMA InsertionGap ==
  ASSUME NEW f, Sound(f), NEW p \in Keys(f), NEW path, path = PathOf(f, p),
         BlockMapping(f, Tree(f), path)
  PROVE  LET d  == f[Min({x.line : x \in Children(Tree(f), path)})].indent
             at == InsertionLine(f, Tree(f), path, d)
         IN  \E last : Gap(f, p, d, last, at)
<1>. DEFINE kids == {j \in Keys(f) : Child(f, p, j)}
            nested == {j \in Keys(f) : p \in Above(f, j)}
            d == f[Min(kids)].indent
            last == Max(nested)
            reach == {j \in last .. Len(f) : \A k \in last + 1 .. j : GoesOn(f, d, k)}
            at == Max(reach)
<1>1. /\ IsFile(f) /\ UniquePaths(f) /\ Len(f) \in Nat /\ Keys(f) \in SUBSET (1..Len(f))
      /\ \A i \in Keys(f) : i \in Int /\ 1 <= i /\ i <= Len(f) /\ f[i].indent \in Nat
  BY KeyLines DEF Sound
<1>2. /\ {x.line : x \in Children(Tree(f), path)} = kids
      /\ {x.line : x \in Subtree(Tree(f), path)} = nested
      /\ Children(Tree(f), path) # {}
  <2>1. /\ Subtree(Tree(f), path) = {Node(f, i) : i \in nested}
        /\ Children(Tree(f), path) = {Node(f, c) : c \in kids}
    BY <1>1, SubtreeLines
  <2>2. \A i : Node(f, i).line = i
    BY DEF Node
  <2>. QED
    BY <2>1, <2>2 DEF BlockMapping, IsLeaf
<1>3. InsertionLine(f, Tree(f), path, f[Min({x.line : x \in Children(Tree(f), path)})].indent) = at
  BY <1>2 DEF InsertionLine, GoesOn
<1>4. Min(kids) \in kids
  <2>1. kids # {}
    BY <1>2
  <2>2. kids \in SUBSET (0..Len(f))
    BY <1>1
  <2>. HIDE DEF kids
  <2>. QED
    BY <1>1, <2>1, <2>2, MinIn
<1>5. PICK c0 \in Keys(f) : c0 = Min(kids) /\ Child(f, p, c0)
  BY <1>4
<1>6. d \in Nat /\ \A c : Child(f, p, c) => f[c].indent = d
  BY <1>1, <1>5 DEF Sound
<1>7. last \in nested /\ \A j \in nested : j <= last
  <2>1. nested \in SUBSET (0..Len(f)) /\ nested # {}
    BY <1>1, <1>5 DEF Child
  <2>. HIDE DEF nested
  <2>. QED
    BY <1>1, <2>1, MaxIn
<1>8. p \in Above(f, c0) /\ p < c0 /\ f[p].indent < d /\ p # c0
  <2>1. p \in Above(f, c0) /\ Len(PathOf(f, c0)) = Len(PathOf(f, p)) + 1
    BY <1>5 DEF Child
  <2>2. p # c0
    BY <1>1, <2>1, PathFacts
  <2>3. p <= c0 /\ c0 \in Above(f, c0)
    BY <1>1, <2>1, AboveFacts
  <2>4. p < c0
    BY <1>1, <2>2, <2>3
  <2>5. f[p].indent < f[c0].indent
    BY <1>1, <2>1, <2>3, <2>4, AboveFacts
  <2>. QED
    BY <1>5, <2>1, <2>2, <2>4, <2>5
<1>. HIDE DEF kids, d
<1>9. last \in Keys(f) /\ p \in Above(f, last) /\ p < last /\ c0 <= last
  <2>1. c0 \in nested
    BY <1>8
  <2>2. c0 <= last /\ last \in Keys(f) /\ p \in Above(f, last)
    BY <1>7, <2>1
  <2>. HIDE DEF last
  <2>. QED
    BY <1>1, <1>8, <2>2
<1>10. \A i \in Keys(f) : p \in Above(f, i) => i <= last
  BY <1>7
<1>. HIDE DEF nested, last
<1>11. at \in reach /\ \A j \in reach : j <= at
  <2>1. reach \in SUBSET (0..Len(f)) /\ last \in reach
    BY <1>1, <1>9
  <2>. HIDE DEF reach
  <2>. QED
    BY <1>1, <2>1, MaxIn
<1>. HIDE DEF at
<1>12. at \in last .. Len(f) /\ \A k \in last + 1 .. at : GoesOn(f, d, k)
  BY <1>11
<1>13. at < Len(f) => ~GoesOn(f, d, at + 1)
  <2>1. SUFFICES ASSUME at < Len(f), GoesOn(f, d, at + 1) PROVE FALSE
    OBVIOUS
  <2>2. last \in Int /\ at \in Int
    BY <1>1, <1>9, <1>12
  <2>3. at + 1 \in reach
    BY <1>1, <1>12, <2>1, <2>2
  <2>. QED
    BY <1>11, <2>2, <2>3
<1>14. f[p].style = "nothing"
  BY <1>5 DEF Sound
<1>15. \A i \in Keys(f) : p \in Above(f, i) /\ i # p =>
         \E c \in Above(f, i) : p < c /\ Child(f, p, c)
  BY <1>1, ChildBetween
<1>16. Gap(f, p, d, last, at)
  BY <1>6, <1>8, <1>9, <1>10, <1>12, <1>13, <1>14, <1>15 DEF Gap
<1>. QED
  BY <1>2, <1>3, <1>16 DEF d

-----------------------------------------------------------------------------
(* The lines of scalars. *)

LEMMA BodyFacts ==
  ASSUME NEW f, IsFile(f), NEW i \in Heads(f), NEW k \in Body(f, i)
  PROVE  /\ i \in 1..Len(f) /\ k \in i + 1 .. Len(f)
         /\ \A l \in i + 1 .. k : l \in Body(f, i) /\ Continues(f[i], f[l])
<1>1. Len(f) \in Nat /\ i \in 1..Len(f)
  BY LinesOf DEF Heads
<1>. QED
  BY <1>1 DEF Body

LEMMA BodyNests ==
  ASSUME NEW f, IsFile(f), NEW i \in Heads(f), NEW j \in Body(f, i), j \in Heads(f)
  PROVE  Body(f, j) \subseteq Body(f, i) /\ f[i].style = "block" /\ f[i].indent < f[j].indent
<1>1. /\ Len(f) \in Nat /\ i \in 1..Len(f) /\ j \in i + 1 .. Len(f)
      /\ \A l \in i + 1 .. j : Continues(f[i], f[l])
  BY LinesOf, BodyFacts
<1>2. /\ f[i].indent \in Nat /\ f[j].indent \in Nat /\ f[j].kind = "entry"
  BY <1>1, KeyLines DEF Heads
<1>3. f[i].style = "block" /\ f[i].indent < f[j].indent
  <2>1. Continues(f[i], f[j])
    BY <1>1
  <2>. QED
    BY <1>2, <2>1 DEF Continues
<1>4. ASSUME NEW k \in Body(f, j) PROVE k \in Body(f, i)
  <2>1. k \in j + 1 .. Len(f) /\ \A l \in j + 1 .. k : Continues(f[j], f[l])
    BY <1>4, BodyFacts
  <2>2. ASSUME NEW l \in i + 1 .. k PROVE Continues(f[i], f[l])
    <3>1. CASE l <= j
      BY <1>1, <2>1, <2>2, <3>1
    <3>2. CASE l > j
      <4>1. Continues(f[j], f[l]) /\ f[l].indent \in Nat
        BY <1>1, <2>1, <2>2, <3>2, KeyLines
      <4>. QED
        BY <1>2, <1>3, <4>1 DEF Continues
    <3>. QED
      BY <1>1, <2>1, <3>1, <3>2
  <2>3. k \in i + 1 .. Len(f)
    BY <1>1, <2>1
  <2>. QED
    BY <2>2, <2>3 DEF Body
<1>. QED
  BY <1>3, <1>4

(* What is part of a scalar is part of a key's. *)
LEMMA OwnedByKey ==
  ASSUME NEW f, IsFile(f), NEW i \in Heads(f), NEW k \in Body(f, i)
  PROVE  \E h \in Keys(f) : k \in Body(f, h)
<1>. DEFINE owners == {h \in Heads(f) : k \in Body(f, h)}
<1>1. Len(f) \in Nat /\ Heads(f) \subseteq 1..Len(f)
  BY LinesOf DEF Heads
<1>2. PICK h \in owners : \A j \in owners : h <= j
  <2>1. owners \in SUBSET (0..Len(f)) /\ owners # {}
    BY <1>1
  <2>. HIDE DEF owners
  <2>. QED
    BY <1>1, <2>1, LeastOf
<1>3. ASSUME NEW j \in Heads(f), h \in Body(f, j) PROVE FALSE
  <2>1. k \in Body(f, j)
    BY <1>2, <1>3, BodyNests
  <2>2. j < h /\ j \in Int /\ h \in Int
    BY <1>1, <1>3, BodyFacts
  <2>3. h <= j
    BY <1>2, <2>1
  <2>. QED
    BY <2>2, <2>3
<1>4. h \in Keys(f)
  BY <1>2, <1>3 DEF Keys
<1>. QED
  BY <1>2, <1>4

LEMMA KeysAreFree ==
  ASSUME NEW f, NEW i \in Keys(f), NEW h \in Heads(f)
  PROVE  i \notin Body(f, h)
BY DEF Keys

-----------------------------------------------------------------------------
(* What surrounds the cut. *)

LEMMA SameDoc ==
  ASSUME NEW f, NEW i \in Int, NEW j \in Int, i <= j,
         \A k \in i + 1 .. j : f[k].kind # "separator"
  PROVE  Doc(f, j) = Doc(f, i)
<1>1. {k \in 1..j : f[k].kind = "separator"} = {k \in 1..i : f[k].kind = "separator"}
  OBVIOUS
<1>. QED
  BY <1>1 DEF Doc

LEMMA GapLines ==
  ASSUME NEW f, NEW p, NEW d, NEW last, NEW at, Gap(f, p, d, last, at)
  PROVE  /\ IsFile(f) /\ UniquePaths(f) /\ Len(f) \in Nat /\ DOMAIN f = 1..Len(f)
         /\ Keys(f) \in SUBSET (1..Len(f)) /\ last \in Keys(f) /\ p \in Keys(f)
         /\ p \in 1..Len(f) /\ last \in 1..Len(f) /\ at \in 1..Len(f)
         /\ p < last /\ last <= at /\ d \in Nat
         /\ \A k \in 1..Len(f) : f[k].indent \in Nat
<1>1. IsFile(f) /\ UniquePaths(f) /\ last \in Keys(f) /\ p \in Keys(f) /\ at \in last .. Len(f)
      /\ p < last /\ d \in Nat
  BY DEF Gap, Sound
<1>2. /\ Len(f) \in Nat /\ DOMAIN f = 1..Len(f) /\ Keys(f) \in SUBSET (1..Len(f))
      /\ \A k \in DOMAIN f : f[k].indent \in Nat
  BY <1>1, KeyLines
<1>. QED
  BY <1>1, <1>2

(* Every key in the mapping is indented by d or more. *)
LEMMA GapIndents ==
  ASSUME NEW f, NEW p, NEW d, NEW last, NEW at, Gap(f, p, d, last, at),
         NEW i \in Keys(f), p \in Above(f, i), i # p
  PROVE  /\ f[i].indent >= d
         /\ \E c \in Above(f, i) : p < c /\ Child(f, p, c) /\ f[c].indent = d
<1>1. PICK c \in Above(f, i) : p < c /\ Child(f, p, c) /\ f[c].indent = d
  BY DEF Gap
<1>2. /\ IsFile(f) /\ Len(f) \in Nat /\ DOMAIN f = 1..Len(f) /\ Keys(f) \in SUBSET (1..Len(f))
      /\ d \in Nat /\ \A k \in 1..Len(f) : f[k].indent \in Nat
  BY GapLines
<1>3. c <= i /\ i \in Above(f, i) /\ c \in Keys(f)
      /\ (c < i => f[c].indent < f[i].indent)
  BY <1>2, AboveFacts
<1>4. f[i].indent >= d
  BY <1>1, <1>2, <1>3
<1>. QED
  BY <1>1, <1>4

LEMMA NoKeyAtTheGap ==
  ASSUME NEW f, NEW p, NEW d, NEW last, NEW at, Gap(f, p, d, last, at)
  PROVE  \A k \in Keys(f) : ~(last < k /\ k <= at)
<1>1. /\ IsFile(f) /\ Len(f) \in Nat /\ DOMAIN f = 1..Len(f) /\ Keys(f) \in SUBSET (1..Len(f))
      /\ last \in Keys(f) /\ p \in Keys(f) /\ p < last /\ last <= at /\ at \in 1..Len(f)
      /\ d \in Nat /\ \A k \in 1..Len(f) : f[k].indent \in Nat
  BY GapLines
<1>2. SUFFICES ASSUME NEW k \in Keys(f), last < k, k <= at PROVE FALSE
  OBVIOUS
<1>3. \A l \in last + 1 .. k : GoesOn(f, d, l)
  BY <1>1, <1>2 DEF Gap
<1>4. Doc(f, k) = Doc(f, last)
  <2>1. \A l \in last + 1 .. k : f[l].kind # "separator"
    BY <1>3 DEF GoesOn
  <2>2. last \in Int /\ k \in Int /\ last <= k
    BY <1>1, <1>2
  <2>. QED
    BY <2>1, <2>2, SameDoc
<1>5. PICK c \in Above(f, last) : p < c /\ f[c].indent = d
  <2>1. p \in Above(f, last) /\ last # p
    BY <1>1 DEF Gap
  <2>. QED
    BY <1>1, <2>1, GapIndents
<1>6. c \in Keys(f) /\ c <= last /\ Doc(f, c) = Doc(f, last)
      /\ Above(f, c) = Above(f, last) \cap 1..c
  BY <1>1, AboveFacts
<1>7. p \in Above(f, c)
  <2>1. p \in Above(f, last)
    BY DEF Gap
  <2>. QED
    BY <1>1, <1>5, <1>6, <2>1
<1>8. \A l \in Keys(f) : c < l /\ l <= k => f[l].indent > d
  <2>1. ASSUME NEW l \in Keys(f), c < l, l <= last PROVE f[l].indent > d
    BY <1>5, <2>1 DEF Above, Nesting
  <2>2. ASSUME NEW l \in Keys(f), last < l, l <= k PROVE f[l].indent > d
    BY <1>1, <1>3, <2>2 DEF GoesOn
  <2>. QED
    BY <1>1, <2>1, <2>2
<1>9. c \in Above(f, k)
  BY <1>1, <1>2, <1>4, <1>5, <1>6, <1>8 DEF Above, Nesting
<1>10. p \in Above(f, k)
  BY <1>1, <1>7, <1>9, AboveFacts
<1>11. k <= last
  BY <1>10 DEF Gap
<1>. QED
  BY <1>1, <1>2, <1>11

(* A scalar that goes on behind the cut is a block scalar, the last one of the
   mapping, that goes on with a blank. *)
LEMMA CutScalar ==
  ASSUME NEW f, NEW p, NEW d, NEW last, NEW at, Gap(f, p, d, last, at),
         NEW i \in Heads(f), i <= at
  PROVE  /\ last <= i => f[i].indent >= d /\ (i # last => i \in Body(f, last))
         /\ \A l \in Body(f, i) : at < l =>
              /\ last <= i /\ l \in Body(f, last)
              /\ f[l].kind \in {"blank", "text"}
<1>1. /\ IsFile(f) /\ Len(f) \in Nat /\ DOMAIN f = 1..Len(f) /\ Keys(f) \in SUBSET (1..Len(f))
      /\ last \in Keys(f) /\ p \in Keys(f) /\ p < last /\ last <= at /\ at \in 1..Len(f)
      /\ d \in Nat /\ \A k \in 1..Len(f) : f[k].indent \in Nat
      /\ last \in Heads(f) /\ i \in 1..Len(f) /\ f[i].kind = "entry"
  BY GapLines, KeyLines DEF Heads
<1>2. ASSUME last <= i PROVE f[i].indent >= d /\ (i # last => i \in Body(f, last))
  <2>1. CASE i = last
    <3>1. p \in Above(f, last) /\ last # p
      BY <1>1 DEF Gap
    <3>. QED
      BY <1>1, <2>1, <3>1, GapIndents
  <2>2. CASE i # last
    <3>1. i \in last + 1 .. at
      BY <1>1, <1>2, <2>2
    <3>2. f[i].indent > d
      BY <3>1 DEF Gap, GoesOn
    <3>3. i \notin Keys(f)
      BY <1>1, <3>1, NoKeyAtTheGap
    <3>4. PICK j \in Heads(f) : i \in Body(f, j)
      BY <3>3 DEF Keys
    <3>5. PICK h \in Keys(f) : i \in Body(f, h)
      BY <1>1, <3>4, OwnedByKey
    <3>6. h \in Heads(f) /\ h \in Int /\ h < i /\ \A l \in h + 1 .. i : l \in Body(f, h)
      BY <1>1, <3>5, KeyLines, BodyFacts
    <3>7. ~(h < last)
      BY <1>1, <1>2, <3>6, KeysAreFree
    <3>8. ~(last < h)
      BY <1>1, <3>1, <3>6, NoKeyAtTheGap
    <3>9. h = last
      BY <1>1, <3>6, <3>7, <3>8
    <3>. QED
      BY <1>1, <3>2, <3>5, <3>9
  <2>. QED
    BY <2>1, <2>2
<1>3. ASSUME NEW l \in Body(f, i), at < l
      PROVE  last <= i /\ l \in Body(f, last) /\ f[l].kind \in {"blank", "text"}
  <2>1. l \in i + 1 .. Len(f) /\ \A k \in i + 1 .. l : k \in Body(f, i) /\ Continues(f[i], f[k])
    BY <1>1, BodyFacts
  <2>2. last <= i
    <3>1. SUFFICES ASSUME i < last PROVE FALSE
      BY <1>1
    <3>2. last \in Body(f, i)
      BY <1>1, <1>3, <2>1, <3>1
    <3>. QED
      BY <1>1, <3>2, KeysAreFree
  <2>3. at + 1 \in Body(f, i) /\ Continues(f[i], f[at + 1]) /\ f[at + 1].indent \in Nat
    BY <1>1, <1>3, <2>1
  <2>4. ~GoesOn(f, d, at + 1)
    BY <1>1, <1>3, <2>1 DEF Gap
  <2>5. f[i].indent >= d /\ f[i].indent \in Nat
    BY <1>1, <1>2, <2>2
  <2>6. f[at + 1].kind = "blank" /\ f[i].style = "block"
    BY <1>1, <2>3, <2>4, <2>5 DEF GoesOn, Continues
  <2>7. f[last].style = "block" /\ Body(f, i) \subseteq Body(f, last)
    <3>1. CASE i = last
      BY <2>6, <3>1
    <3>2. CASE i # last
      BY <1>1, <1>2, <2>2, <3>2, BodyNests
    <3>. QED
      BY <3>1, <3>2
  <2>8. f[l].kind \in {"blank", "text"}
    <3>1. CASE l = at + 1
      BY <2>6, <3>1
    <3>2. CASE l # at + 1
      <4>1. at + 1 < l /\ at + 1 \in Body(f, last) /\ l \in Body(f, last)
        BY <1>1, <1>3, <2>1, <2>3, <2>7, <3>2
      <4>2. Unparted(f)
        BY DEF Gap, Sound
      <4>. QED
        BY <1>1, <2>6, <2>7, <4>1, <4>2 DEF Unparted
    <3>. QED
      BY <3>1, <3>2
  <2>. QED
    BY <2>2, <2>7, <2>8
<1>. QED
  BY <1>2, <1>3

-----------------------------------------------------------------------------
(* A file with a chain of m entries behind the cut. *)

Grown(f, g, p, d, last, at, m) ==
  /\ Gap(f, p, d, last, at)
  /\ IsFile(g) /\ m \in Nat \ {0} /\ Len(g) = Len(f) + m
  /\ \A i \in 1..Len(f) : g[Sh(at, m, i)] = f[i]
  /\ \A n \in 1..m : /\ g[at + n].kind = "entry" /\ g[at + n].indent = d + 2 * (n - 1)
                     /\ n < m => g[at + n].style = "nothing"
  /\ g[at + m].style \in {"plain", "quoted"}

LEMMA GrownLines ==
  ASSUME NEW f, NEW g, NEW p, NEW d, NEW last, NEW at, NEW m, Grown(f, g, p, d, last, at, m)
  PROVE  /\ IsFile(f) /\ IsFile(g) /\ Len(f) \in Nat /\ m \in Nat \ {0} /\ Len(g) = Len(f) + m
         /\ DOMAIN f = 1..Len(f) /\ DOMAIN g = 1..Len(g) /\ at \in 1..Len(f)
         /\ \A i \in 1..Len(f) : Sh(at, m, i) \in 1..Len(g) /\ g[Sh(at, m, i)] = f[i]
         /\ \A n \in 1..m : at + n \in 1..Len(g)
         /\ \A j \in 1..Len(g) : \/ \E i \in 1..Len(f) : j = Sh(at, m, i)
                                 \/ \E n \in 1..m : j = at + n
         /\ \A i \in 1..Len(f), n \in 1..m : Sh(at, m, i) # at + n
         /\ \A i, j \in 1..Len(f) : /\ Sh(at, m, i) = Sh(at, m, j) <=> i = j
                                    /\ Sh(at, m, i) < Sh(at, m, j) <=> i < j
                                    /\ Sh(at, m, i) <= Sh(at, m, j) <=> i <= j
<1>1. /\ Len(f) \in Nat /\ IsFile(f) /\ DOMAIN f = 1..Len(f) /\ at \in 1..Len(f)
  BY GapLines DEF Grown
<1>2. IsFile(g) /\ m \in Nat \ {0} /\ Len(g) = Len(f) + m /\ DOMAIN g = 1..Len(g)
  BY LinesOf DEF Grown
<1>3. \A i \in 1..Len(f) : Sh(at, m, i) \in 1..Len(g) /\ g[Sh(at, m, i)] = f[i]
  BY <1>1, <1>2 DEF Grown, Sh
<1>4. \A j \in 1..Len(g) : \/ \E i \in 1..Len(f) : j = Sh(at, m, i)
                           \/ \E n \in 1..m : j = at + n
  <2>1. SUFFICES ASSUME NEW j \in 1..Len(g)
                 PROVE  \/ \E i \in 1..Len(f) : j = Sh(at, m, i)
                        \/ \E n \in 1..m : j = at + n
    OBVIOUS
  <2>2. CASE j <= at
    <3>1. j \in 1..Len(f) /\ j = Sh(at, m, j)
      BY <1>1, <1>2, <2>2 DEF Sh
    <3>. QED
      BY <3>1
  <2>3. CASE at < j /\ j <= at + m
    <3>1. j - at \in 1..m /\ j = at + (j - at)
      BY <1>1, <1>2, <2>3
    <3>. QED
      BY <3>1
  <2>4. CASE at + m < j
    <3>1. j - m \in 1..Len(f) /\ j = Sh(at, m, j - m)
      BY <1>1, <1>2, <2>4 DEF Sh
    <3>. QED
      BY <3>1
  <2>. QED
    BY <1>1, <1>2, <2>2, <2>3, <2>4
<1>5. \A n \in 1..m : at + n \in 1..Len(g)
  BY <1>1, <1>2
<1>6. \A i \in 1..Len(f), n \in 1..m : Sh(at, m, i) # at + n
  BY <1>1, <1>2 DEF Sh
<1>7. \A i, j \in 1..Len(f) : /\ Sh(at, m, i) = Sh(at, m, j) <=> i = j
                              /\ Sh(at, m, i) < Sh(at, m, j) <=> i < j
                              /\ Sh(at, m, i) <= Sh(at, m, j) <=> i <= j
  BY <1>1, <1>2 DEF Sh
<1>. QED
  BY <1>1, <1>2, <1>3, <1>4, <1>5, <1>6, <1>7

LEMMA GrownGap ==
  ASSUME NEW f, NEW g, NEW p, NEW d, NEW last, NEW at, NEW m, Grown(f, g, p, d, last, at, m)
  PROVE  /\ Gap(f, p, d, last, at) /\ IsFile(f) /\ IsFile(g) /\ UniquePaths(f)
         /\ Len(f) \in Nat /\ m \in Nat \ {0} /\ Len(g) = Len(f) + m
         /\ at \in 1..Len(f) /\ at \in Nat /\ d \in Nat
         /\ last \in Keys(f) /\ last \in 1..Len(f) /\ p \in Keys(f) /\ p \in 1..Len(f)
         /\ p \in Above(f, last) /\ p < last /\ p # last /\ last <= at
         /\ f[p].indent < d /\ f[p].style = "nothing"
<1>1. /\ Gap(f, p, d, last, at) /\ IsFile(g) /\ m \in Nat \ {0} /\ Len(g) = Len(f) + m
  BY DEF Grown
<1>2. /\ IsFile(f) /\ UniquePaths(f) /\ Len(f) \in Nat /\ at \in 1..Len(f) /\ d \in Nat
      /\ last \in Keys(f) /\ last \in 1..Len(f) /\ p \in Keys(f) /\ p \in 1..Len(f)
      /\ p < last /\ last <= at
  BY <1>1, GapLines
<1>3. p \in Above(f, last) /\ f[p].indent < d /\ f[p].style = "nothing"
  BY <1>1 DEF Gap
<1>4. p # last /\ at \in Nat
  BY <1>2
<1>. QED
  BY <1>1, <1>2, <1>3, <1>4

LEMMA GrownIndents ==
  ASSUME NEW f, NEW g, NEW p, NEW d, NEW last, NEW at, NEW m, Grown(f, g, p, d, last, at, m)
  PROVE  /\ \A j \in 1..Len(f) : g[Sh(at, m, j)] = f[j] /\ f[j].indent \in Nat
         /\ \A n \in 1..m : g[at + n].indent \in Nat /\ g[at + n].indent >= d
         /\ \A n, r \in 1..m : n < r => g[at + n].indent < g[at + r].indent
         /\ g[at + 1].indent = d
<1>1. /\ Gap(f, p, d, last, at) /\ m \in Nat \ {0} /\ d \in Nat
  BY GrownGap
<1>2. \A j \in 1..Len(f) : g[Sh(at, m, j)] = f[j] /\ f[j].indent \in Nat
  BY <1>1, GapLines DEF Grown
<1>3. \A n \in 1..m : g[at + n].indent = d + 2 * (n - 1)
  BY DEF Grown
<1>4. 1 \in 1..m
  BY <1>1
<1>. QED
  BY <1>1, <1>2, <1>3, <1>4

LEMMA GrownHeads ==
  ASSUME NEW f, NEW g, NEW p, NEW d, NEW last, NEW at, NEW m, Grown(f, g, p, d, last, at, m)
  PROVE  /\ \A i \in 1..Len(f) : Sh(at, m, i) \in Heads(g) <=> i \in Heads(f)
         /\ \A n \in 1..m : at + n \in Heads(g)
         /\ Heads(f) \subseteq 1..Len(f) /\ Heads(g) \subseteq 1..Len(g)
<1>1. /\ DOMAIN f = 1..Len(f) /\ DOMAIN g = 1..Len(g)
      /\ \A i \in 1..Len(f) : Sh(at, m, i) \in 1..Len(g) /\ g[Sh(at, m, i)] = f[i]
      /\ \A n \in 1..m : at + n \in 1..Len(g)
  BY GrownLines
<1>2. \A n \in 1..m : g[at + n].kind = "entry"
  BY DEF Grown
<1>. QED
  BY <1>1, <1>2 DEF Heads

(* No line is taken for a part of what is added. *)
LEMMA AddedBody ==
  ASSUME NEW f, NEW g, NEW p, NEW d, NEW last, NEW at, NEW m, Grown(f, g, p, d, last, at, m),
         NEW n \in 1..m
  PROVE  Body(g, at + n) = {}
<1>1. /\ Len(f) \in Nat /\ m \in Nat \ {0} /\ Len(g) = Len(f) + m /\ at \in 1..Len(f) /\ d \in Nat
      /\ \A i \in 1..Len(f) : g[Sh(at, m, i)] = f[i] /\ f[i].indent \in Nat
  BY GrownLines, GapLines DEF Grown
<1>2. SUFFICES ASSUME NEW k \in Body(g, at + n) PROVE FALSE
  OBVIOUS
<1>3. at + n + 1 <= Len(g) /\ Continues(g[at + n], g[at + n + 1])
  <2>1. k \in at + n + 1 .. Len(g) /\ \A l \in at + n + 1 .. k : Continues(g[at + n], g[l])
    BY <1>2 DEF Body
  <2>2. at + n + 1 \in at + n + 1 .. k /\ at + n + 1 <= Len(g)
    BY <1>1, <2>1
  <2>. QED
    BY <2>1, <2>2
<1>4. CASE n < m
  BY <1>3, <1>4 DEF Grown, Continues
<1>5. CASE n = m
  <2>1. g[at + m + 1] = f[at + 1] /\ at + 1 \in 1..Len(f)
    <3>1. at + 1 \in 1..Len(f) /\ Sh(at, m, at + 1) = at + m + 1
      BY <1>1, <1>3, <1>5 DEF Sh
    <3>. QED
      BY <1>1, <3>1
  <2>2. f[at + 1].kind = "text" /\ f[at + 1].indent > d + 2 * (m - 1)
    BY <1>3, <1>5, <2>1 DEF Grown, Continues
  <2>3. GoesOn(f, d, at + 1)
    BY <1>1, <2>1, <2>2 DEF GoesOn
  <2>4. at < Len(f)
    BY <1>1, <2>1
  <2>. QED
    BY <2>3, <2>4 DEF Grown, Gap
<1>. QED
  BY <1>1, <1>4, <1>5

(* A scalar keeps its lines, those behind the cut excepted if it began before. *)
LEMMA GrownBody ==
  ASSUME NEW f, NEW g, NEW p, NEW d, NEW last, NEW at, NEW m, Grown(f, g, p, d, last, at, m),
         NEW i \in Heads(f)
  PROVE  Body(g, Sh(at, m, i))
           = IF i <= at THEN Body(f, i) \cap 1..at ELSE {k + m : k \in Body(f, i)}
<1>1. /\ IsFile(f) /\ Len(f) \in Nat /\ m \in Nat \ {0} /\ Len(g) = Len(f) + m /\ at \in 1..Len(f)
      /\ d \in Nat /\ i \in 1..Len(f)
      /\ \A k \in 1..Len(f) : g[Sh(at, m, k)] = f[k] /\ f[k].indent \in Nat
  BY GrownLines, GapLines, GrownHeads DEF Grown
<1>2. CASE i <= at
  <2>0. Sh(at, m, i) = i /\ g[i] = f[i]
    BY <1>1, <1>2 DEF Sh
  <2>1. \A k \in 1..at : g[k] = f[k]
    BY <1>1 DEF Sh
  <2>2. ASSUME NEW k \in Body(f, i), k \in 1..at PROVE k \in Body(g, i)
    <3>1. k \in i + 1 .. Len(f) /\ \A l \in i + 1 .. k : Continues(f[i], f[l])
      BY <2>2 DEF Body
    <3>2. k \in i + 1 .. Len(g) /\ \A l \in i + 1 .. k : Continues(g[i], g[l])
      BY <1>1, <1>2, <2>0, <2>1, <2>2, <3>1
    <3>. QED
      BY <3>2 DEF Body
  <2>3. ASSUME NEW k \in Body(g, i) PROVE k \in Body(f, i) /\ k \in 1..at
    <3>1. k \in i + 1 .. Len(g) /\ \A l \in i + 1 .. k : Continues(f[i], g[l])
      BY <2>0, <2>3 DEF Body
    <3>2. ~(at < k)
      <4>1. SUFFICES ASSUME at < k PROVE FALSE
        OBVIOUS
      <4>2. Continues(f[i], g[at + 1])
        BY <1>1, <1>2, <3>1, <4>1
      <4>3. g[at + 1].kind = "entry" /\ g[at + 1].indent = d
        <5>1. 1 \in 1..m /\ d + 2 * (1 - 1) = d
          BY <1>1
        <5>. QED
          BY <5>1 DEF Grown
      <4>4. f[i].style = "block" /\ d > f[i].indent
        BY <4>2, <4>3 DEF Continues
      <4>5. CASE last <= i
        <5>1. f[i].indent >= d
          BY <1>2, <4>5, CutScalar DEF Grown
        <5>. QED
          BY <1>1, <4>4, <5>1
      <4>6. CASE i < last
        <5>1. last \in Keys(f) /\ last <= at /\ last \in 1..Len(f)
          BY GapLines DEF Grown
        <5>2. \A l \in i + 1 .. last : Continues(f[i], f[l])
          BY <1>1, <2>1, <3>1, <4>1, <4>6, <5>1
        <5>3. last \in i + 1 .. Len(f)
          BY <1>1, <4>6, <5>1
        <5>4. last \in Body(f, i)
          BY <5>2, <5>3 DEF Body
        <5>. QED
          BY <5>1, <5>4, KeysAreFree
      <4>. QED
        <5>1. last \in Int
          BY GapLines DEF Grown
        <5>. QED
          BY <1>1, <4>5, <4>6, <5>1
    <3>3. k \in 1..at /\ k \in i + 1 .. Len(f)
      BY <1>1, <1>2, <3>1, <3>2
    <3>4. \A l \in i + 1 .. k : Continues(f[i], f[l])
      BY <1>1, <2>1, <3>1, <3>3
    <3>. QED
      BY <3>3, <3>4 DEF Body
  <2>. QED
    BY <1>2, <2>0, <2>2, <2>3
<1>3. CASE at < i
  <2>0. Sh(at, m, i) = i + m /\ g[i + m] = f[i]
    BY <1>1, <1>3, SMTT(30) DEF Sh
  <2>1. \A k \in at + 1 .. Len(f) : g[k + m] = f[k]
    BY <1>1 DEF Sh
  <2>2. ASSUME NEW k \in Body(f, i) PROVE k + m \in Body(g, i + m)
    <3>1. k \in i + 1 .. Len(f) /\ \A l \in i + 1 .. k : Continues(f[i], f[l])
      BY <2>2 DEF Body
    <3>2. ASSUME NEW l \in i + m + 1 .. k + m PROVE Continues(g[i + m], g[l])
      <4>1. l - m \in i + 1 .. k /\ l - m \in at + 1 .. Len(f) /\ (l - m) + m = l
        BY <1>1, <1>3, <3>1, <3>2
      <4>. QED
        BY <2>0, <2>1, <3>1, <4>1
    <3>3. k + m \in i + m + 1 .. Len(g)
      BY <1>1, <3>1
    <3>. QED
      BY <3>2, <3>3 DEF Body
  <2>3. ASSUME NEW k \in Body(g, i + m) PROVE k - m \in Body(f, i) /\ k = (k - m) + m
    <3>1. k \in i + m + 1 .. Len(g) /\ \A l \in i + m + 1 .. k : Continues(f[i], g[l])
      BY <2>0, <2>3 DEF Body
    <3>2. ASSUME NEW l \in i + 1 .. k - m PROVE Continues(f[i], f[l])
      <4>1. l + m \in i + m + 1 .. k /\ l \in at + 1 .. Len(f)
        BY <1>1, <1>3, <3>1, <3>2
      <4>. QED
        BY <2>1, <3>1, <4>1
    <3>3. k - m \in i + 1 .. Len(f) /\ k = (k - m) + m
      BY <1>1, <3>1
    <3>. QED
      BY <3>2, <3>3 DEF Body
  <2>4. Body(g, i + m) = {k + m : k \in Body(f, i)}
    BY <2>2, <2>3
  <2>5. ~(i <= at)
    BY <1>1, <1>3
  <2>. QED
    BY <2>0, <2>4, <2>5
<1>. QED
  BY <1>1, <1>2, <1>3

LEMMA GrownScalars ==
  ASSUME NEW f, NEW g, NEW p, NEW d, NEW last, NEW at, NEW m, Grown(f, g, p, d, last, at, m),
         NEW i \in Heads(f)
  PROVE  /\ \A j \in Body(g, Sh(at, m, i)) : \E k \in Body(f, i) : j = Sh(at, m, k)
         /\ \A k \in Body(f, i) :
              \/ Sh(at, m, k) \in Body(g, Sh(at, m, i))
              \/ /\ i <= at /\ at < k /\ k \in Body(f, last) /\ f[k].kind \in {"blank", "text"}
<1>1. /\ IsFile(f) /\ Len(f) \in Nat /\ m \in Nat \ {0} /\ at \in 1..Len(f) /\ i \in 1..Len(f)
  BY GrownLines, GrownHeads
<1>2. Body(g, Sh(at, m, i))
        = IF i <= at THEN Body(f, i) \cap 1..at ELSE {k + m : k \in Body(f, i)}
  BY GrownBody
<1>3. \A k \in Body(f, i) : k \in i + 1 .. Len(f)
  BY <1>1, BodyFacts
<1>4. CASE i <= at
  <2>1. Body(g, Sh(at, m, i)) = Body(f, i) \cap 1..at
    BY <1>2, <1>4
  <2>2. \A k \in Body(f, i) : at < k => k \in Body(f, last) /\ f[k].kind \in {"blank", "text"}
    BY <1>4, CutScalar DEF Grown
  <2>3. \A k \in Body(f, i) : k \in Int /\ (k <= at => k \in 1..at /\ Sh(at, m, k) = k)
    BY <1>1, <1>3 DEF Sh
  <2>. QED
    BY <1>1, <1>4, <2>1, <2>2, <2>3
<1>5. CASE at < i
  <2>1. Body(g, Sh(at, m, i)) = {k + m : k \in Body(f, i)}
    BY <1>1, <1>2, <1>5
  <2>2. \A k \in Body(f, i) : Sh(at, m, k) = k + m
    BY <1>1, <1>3, <1>5 DEF Sh
  <2>. QED
    BY <2>1, <2>2
<1>. QED
  BY <1>1, <1>4, <1>5

(* What reads as a comment or an entry does so as before. *)
LEMMA GrownInScalars ==
  ASSUME NEW f, NEW g, NEW p, NEW d, NEW last, NEW at, NEW m, Grown(f, g, p, d, last, at, m)
  PROVE  /\ \A k \in 1..Len(f) : f[k].kind \in {"entry", "comment"} =>
              (Sh(at, m, k) \in InScalars(g) <=> k \in InScalars(f))
         /\ \A n \in 1..m : at + n \notin InScalars(g)
<1>0. \A j \in 1..Len(g) : \/ \E i \in 1..Len(f) : j = Sh(at, m, i)
                           \/ \E n \in 1..m : j = at + n
  BY GrownLines
<1>1. /\ IsFile(f) /\ Len(f) \in Nat
      /\ \A i \in 1..Len(f), n \in 1..m : Sh(at, m, i) # at + n
      /\ \A i, j \in 1..Len(f) : Sh(at, m, i) = Sh(at, m, j) <=> i = j
  BY GrownLines
<1>2. /\ \A i \in 1..Len(f) : Sh(at, m, i) \in Heads(g) <=> i \in Heads(f)
      /\ Heads(f) \subseteq 1..Len(f) /\ Heads(g) \subseteq 1..Len(g)
  BY GrownHeads
<1>3. ASSUME NEW h \in Heads(g), NEW j \in Body(g, h)
      PROVE  \E i \in Heads(f) : \E k \in Body(f, i) : j = Sh(at, m, k) /\ k \in 1..Len(f)
  <2>1. \A n \in 1..m : h # at + n
    BY <1>3, AddedBody
  <2>2. PICK i \in Heads(f) : h = Sh(at, m, i)
    BY <1>0, <1>2, <2>1
  <2>3. PICK k \in Body(f, i) : j = Sh(at, m, k)
    BY <1>3, <2>2, GrownScalars
  <2>4. k \in 1..Len(f)
    BY <1>1, BodyFacts
  <2>. QED
    BY <2>3, <2>4
<1>4. \A n \in 1..m : at + n \notin InScalars(g)
  BY <1>1, <1>3 DEF InScalars
<1>5. ASSUME NEW k \in 1..Len(f), f[k].kind \in {"entry", "comment"}, Sh(at, m, k) \in InScalars(g)
      PROVE  k \in InScalars(f)
  <2>1. PICK h \in Heads(g) : Sh(at, m, k) \in Body(g, h)
    BY <1>5 DEF InScalars
  <2>2. PICK i \in Heads(f) :
               \E l \in Body(f, i) : Sh(at, m, k) = Sh(at, m, l) /\ l \in 1..Len(f)
    BY <1>3, <2>1
  <2>3. k \in Body(f, i)
    BY <1>1, <2>2
  <2>. QED
    BY <2>3 DEF InScalars
<1>6. ASSUME NEW k \in 1..Len(f), f[k].kind \in {"entry", "comment"}, k \in InScalars(f)
      PROVE  Sh(at, m, k) \in InScalars(g)
  <2>1. PICK i \in Heads(f) : k \in Body(f, i)
    BY <1>6 DEF InScalars
  <2>2. Sh(at, m, k) \in Body(g, Sh(at, m, i))
    BY <1>6, <2>1, GrownScalars
  <2>3. Sh(at, m, i) \in Heads(g)
    BY <1>2
  <2>. QED
    BY <2>2, <2>3 DEF InScalars
<1>. QED
  BY <1>4, <1>5, <1>6

Added(at, m) == {at + n : n \in 1..m}

LEMMA GrownKeys ==
  ASSUME NEW f, NEW g, NEW p, NEW d, NEW last, NEW at, NEW m, Grown(f, g, p, d, last, at, m)
  PROVE  /\ Keys(g) = Shifted(at, m, Keys(f)) \union Added(at, m)
         /\ \A i \in 1..Len(f) : Sh(at, m, i) \in Keys(g) <=> i \in Keys(f)
         /\ \A n \in 1..m : at + n \in Keys(g)
         /\ Keys(f) \subseteq 1..Len(f) /\ Keys(g) \subseteq 1..Len(g)
         /\ \A j \in Keys(g) : \/ \E i \in Keys(f) : j = Sh(at, m, i)
                               \/ \E n \in 1..m : j = at + n
<1>1. \A j \in 1..Len(g) : \/ \E i \in 1..Len(f) : j = Sh(at, m, i)
                           \/ \E n \in 1..m : j = at + n
  BY GrownLines
<1>2. /\ \A i \in 1..Len(f) : Sh(at, m, i) \in Heads(g) <=> i \in Heads(f)
      /\ \A n \in 1..m : at + n \in Heads(g)
      /\ Heads(f) \subseteq 1..Len(f) /\ Heads(g) \subseteq 1..Len(g)
      /\ \A i \in Heads(f) : f[i].kind = "entry"
  BY GrownHeads DEF Heads
<1>3. Keys(f) = Heads(f) \ InScalars(f) /\ Keys(g) = Heads(g) \ InScalars(g)
  BY DEF Keys, InScalars
<1>4. \A i \in 1..Len(f) : Sh(at, m, i) \in Keys(g) <=> i \in Keys(f)
  <2>1. \A i \in Heads(f) : Sh(at, m, i) \in InScalars(g) <=> i \in InScalars(f)
    BY <1>2, GrownInScalars
  <2>. QED
    BY <1>2, <1>3, <2>1
<1>5. \A n \in 1..m : at + n \in Keys(g)
  BY <1>2, <1>3, GrownInScalars
<1>6. Keys(f) \subseteq 1..Len(f) /\ Keys(g) \subseteq 1..Len(g)
  BY <1>2, <1>3
<1>7. \A j \in Keys(g) : \/ \E i \in Keys(f) : j = Sh(at, m, i)
                         \/ \E n \in 1..m : j = at + n
  BY <1>1, <1>4, <1>6
<1>. QED
  BY <1>4, <1>5, <1>6, <1>7 DEF Shifted, Added

LEMMA GrownUnparted ==
  ASSUME NEW f, NEW g, NEW p, NEW d, NEW last, NEW at, NEW m, Grown(f, g, p, d, last, at, m)
  PROVE  Unparted(g)
<1>1. /\ IsFile(f) /\ Len(f) \in Nat
      /\ \A i \in 1..Len(f) : g[Sh(at, m, i)] = f[i]
      /\ \A i, j \in 1..Len(f) : Sh(at, m, i) < Sh(at, m, j) <=> i < j
  BY GrownLines
<1>2. SUFFICES ASSUME NEW h \in Keys(g), NEW j \in Body(g, h), NEW k \in Body(g, h),
                      g[h].style = "block", j < k, g[j].kind = "blank"
               PROVE  g[k].kind \in {"blank", "text"}
  BY DEF Unparted
<1>3. \A n \in 1..m : h # at + n
  BY <1>2, AddedBody
<1>4. PICK i \in Keys(f) : h = Sh(at, m, i)
  BY <1>3, GrownKeys
<1>5. i \in Heads(f) /\ i \in 1..Len(f)
  BY <1>1, KeyLines
<1>6. PICK a \in Body(f, i), b \in Body(f, i) : j = Sh(at, m, a) /\ k = Sh(at, m, b)
  BY <1>4, <1>5, GrownScalars
<1>7. a \in 1..Len(f) /\ b \in 1..Len(f)
  BY <1>1, <1>5, BodyFacts
<1>8. a < b /\ f[a].kind = "blank" /\ f[i].style = "block" /\ g[k] = f[b]
  BY <1>1, <1>2, <1>4, <1>5, <1>6, <1>7
<1>9. Unparted(f)
  BY DEF Grown, Gap, Sound
<1>. QED
  BY <1>8, <1>9 DEF Unparted

LEMMA DocGrows ==
  ASSUME NEW f, NEW i \in Int, NEW j \in Int, i <= j
  PROVE  Doc(f, i) \in Nat /\ Doc(f, j) \in Nat /\ Doc(f, i) <= Doc(f, j)
<1>. DEFINE S == {k \in 1..i : f[k].kind = "separator"}
            T == {k \in 1..j : f[k].kind = "separator"}
<1>1. IsFiniteSet(T) /\ S \subseteq T
  <2>1. IsFiniteSet(1..j) /\ T \subseteq 1..j /\ S \subseteq T
    BY FS_Interval
  <2>. HIDE DEF S, T
  <2>. QED
    BY <2>1, FS_Subset
<1>. HIDE DEF S, T
<1>2. IsFiniteSet(S) /\ Cardinality(S) <= Cardinality(T)
  BY <1>1, FS_Subset
<1>3. Cardinality(S) \in Nat /\ Cardinality(T) \in Nat
  BY <1>1, <1>2, FS_CardinalityType
<1>. QED
  BY <1>2, <1>3 DEF Doc, S, T

LEMMA GrownDoc ==
  ASSUME NEW f, NEW g, NEW p, NEW d, NEW last, NEW at, NEW m, Grown(f, g, p, d, last, at, m)
  PROVE  /\ \A i \in 1..Len(f) : Doc(g, Sh(at, m, i)) = Doc(f, i)
         /\ \A n \in 1..m : Doc(g, at + n) = Doc(f, p)
         /\ Doc(f, last) = Doc(f, p)
<1>0. \A j \in 1..Len(g) : \/ \E i \in 1..Len(f) : j = Sh(at, m, i)
                           \/ \E n \in 1..m : j = at + n
  BY GrownLines
<1>1. /\ IsFile(f) /\ Len(f) \in Nat /\ Len(g) \in Nat /\ at \in 1..Len(f) /\ m \in Nat
      /\ \A i \in 1..Len(f) : Sh(at, m, i) \in 1..Len(g) /\ g[Sh(at, m, i)] = f[i]
      /\ \A i, j \in 1..Len(f) : Sh(at, m, i) <= Sh(at, m, j) <=> i <= j
  BY GrownLines
<1>2. \A n \in 1..m : g[at + n].kind = "entry"
  BY DEF Grown
<1>3. ASSUME NEW i \in 1..Len(f) PROVE Doc(g, Sh(at, m, i)) = Doc(f, i)
  <2>. DEFINE S == {k \in 1..i : f[k].kind = "separator"}
              T == {k \in 1..Sh(at, m, i) : g[k].kind = "separator"}
  <2>1. ASSUME NEW j \in T PROVE \E k \in S : j = Sh(at, m, k)
    <3>1. j \in 1..Len(g) /\ j <= Sh(at, m, i) /\ g[j].kind = "separator"
      BY <1>1
    <3>2. PICK k \in 1..Len(f) : j = Sh(at, m, k)
      BY <1>0, <1>2, <3>1
    <3>3. k \in 1..i /\ f[k].kind = "separator"
      BY <1>1, <3>1, <3>2
    <3>. QED
      BY <3>2, <3>3
  <2>2. ASSUME NEW k \in S PROVE Sh(at, m, k) \in T
    <3>1. k \in 1..Len(f) /\ k <= i /\ f[k].kind = "separator"
      OBVIOUS
    <3>2. Sh(at, m, k) \in 1..Len(g) /\ Sh(at, m, k) <= Sh(at, m, i) /\ Sh(at, m, i) \in 1..Len(g)
      BY <1>1, <3>1
    <3>3. g[Sh(at, m, k)].kind = "separator"
      BY <1>1, <3>1
    <3>. QED
      BY <3>2, <3>3
  <2>3. S \in SUBSET (1..Len(f))
    OBVIOUS
  <2>. HIDE DEF S, T
  <2>4. T = Shifted(at, m, S)
    BY <2>1, <2>2 DEF Shifted
  <2>5. at \in Nat
    BY <1>1
  <2>6. Cardinality(T) = Cardinality(S)
    BY <1>1, <2>3, <2>4, <2>5, ShiftCount
  <2>. QED
    BY <2>6 DEF Doc, S, T
<1>4. /\ last \in Keys(f) /\ p \in Above(f, last) /\ last \in 1..Len(f) /\ last <= at
      /\ \A k \in last + 1 .. at : f[k].kind # "separator"
  BY GapLines DEF Grown, Gap, GoesOn
<1>5. Doc(f, last) = Doc(f, p)
  BY <1>1, <1>4, AboveFacts
<1>6. ASSUME NEW n \in 1..m PROVE Doc(g, at + n) = Doc(f, p)
  <2>1. last \in Int /\ at \in Int /\ at + n \in Int /\ at <= at + n
    BY <1>1, <1>4
  <2>2. Doc(f, at) = Doc(f, last)
    BY <1>4, <2>1, SameDoc
  <2>3. Sh(at, m, at) = at
    BY <2>1 DEF Sh
  <2>4. Doc(g, at) = Doc(f, at)
    BY <1>1, <1>3, <2>3
  <2>5. \A k \in at + 1 .. at + n : g[k].kind # "separator"
    <3>1. SUFFICES ASSUME NEW k \in at + 1 .. at + n PROVE g[k].kind # "separator"
      OBVIOUS
    <3>2. k - at \in 1..m /\ at + (k - at) = k
      BY <1>1, <2>1
    <3>. QED
      BY <1>2, <3>2
  <2>6. Doc(g, at + n) = Doc(g, at)
    BY <2>1, <2>5, SameDoc
  <2>. QED
    BY <1>5, <2>2, <2>4, <2>6
<1>. QED
  BY <1>3, <1>5, <1>6

(* What comes behind the mapping is nested in nothing that the mapping nests. *)
LEMMA OutsideTheMapping ==
  ASSUME NEW f, NEW p, NEW d, NEW last, NEW at, Gap(f, p, d, last, at),
         NEW j \in Keys(f), p \in Above(f, j), NEW i \in Keys(f), last < i
  PROVE  j \notin Above(f, i)
<1>1. IsFile(f) /\ last \in Int /\ i \in Int
  BY GapLines, KeyLines
<1>2. SUFFICES ASSUME j \in Above(f, i) PROVE FALSE
  OBVIOUS
<1>3. p \in Above(f, i)
  BY <1>1, <1>2, AboveFacts
<1>4. i <= last
  BY <1>3 DEF Gap
<1>. QED
  BY <1>1, <1>4

(* Of what the last key of the mapping is nested in, the mapping and what is
   outside of it is indented by less than d. *)
LEMMA BelowTheIndent ==
  ASSUME NEW f, NEW p, NEW d, NEW last, NEW at, Gap(f, p, d, last, at),
         NEW j \in Above(f, last)
  PROVE  /\ f[j].indent < d <=> j \in Above(f, p)
         /\ j \in Above(f, p) \/ p \in Above(f, j)
<1>1. /\ IsFile(f) /\ last \in Keys(f) /\ p \in Keys(f) /\ p \in Above(f, last) /\ p < last
      /\ d \in Nat /\ f[p].indent < d
  BY GapLines DEF Gap
<1>2. /\ j \in Keys(f) /\ j <= last /\ Above(f, j) = Above(f, last) \cap 1..j
      /\ Above(f, p) = Above(f, last) \cap 1..p
  BY <1>1, AboveFacts
<1>3. j \in Int /\ 1 <= j /\ p \in Int /\ 1 <= p /\ f[j].indent \in Nat /\ f[p].indent \in Nat
  BY <1>1, <1>2, KeyLines
<1>4. CASE j <= p
  <2>1. j \in Above(f, p)
    BY <1>2, <1>3, <1>4
  <2>2. j < p => f[j].indent < f[p].indent
    BY <1>1, AboveFacts
  <2>3. f[j].indent < d
    BY <1>1, <1>3, <1>4, <2>2
  <2>. QED
    BY <2>1, <2>3
<1>5. CASE p < j
  <2>1. p \in Above(f, j) /\ p # j
    BY <1>1, <1>2, <1>3, <1>5
  <2>2. f[j].indent >= d
    BY <1>2, <2>1, GapIndents
  <2>3. j \notin Above(f, p)
    BY <1>2, <1>3, <1>5
  <2>. QED
    BY <1>1, <1>3, <2>1, <2>2, <2>3
<1>. QED
  BY <1>3, <1>4, <1>5

(* What an entry is nested in is the same entries as before. *)
LEMMA GrownAbove ==
  ASSUME NEW f, NEW g, NEW p, NEW d, NEW last, NEW at, NEW m, Grown(f, g, p, d, last, at, m),
         NEW i \in Keys(f)
  PROVE  /\ Above(g, Sh(at, m, i)) = Shifted(at, m, Above(f, i))
         /\ \A n \in 1..m : at + n \notin Above(g, Sh(at, m, i))
         /\ \A j \in Keys(f) : Sh(at, m, j) \in Above(g, Sh(at, m, i)) <=> j \in Above(f, i)
<1>1. /\ IsFile(f) /\ IsFile(g) /\ Len(f) \in Nat /\ m \in Nat /\ at \in 1..Len(f) /\ d \in Nat
      /\ last \in Keys(f) /\ p \in Above(f, last) /\ p # last /\ last <= at
      /\ Gap(f, p, d, last, at)
  BY GrownGap
<1>2. /\ \A j, k \in 1..Len(f) : /\ Sh(at, m, j) < Sh(at, m, k) <=> j < k
                                 /\ Sh(at, m, j) <= Sh(at, m, k) <=> j <= k
      /\ \A j \in 1..Len(f) : g[Sh(at, m, j)] = f[j] /\ f[j].indent \in Nat
      /\ \A n \in 1..m : g[at + n].indent \in Nat /\ g[at + n].indent >= d
  BY GrownLines, GrownIndents
<1>3. /\ \A j \in Keys(f) : j \in 1..Len(f) /\ Sh(at, m, j) \in Keys(g)
      /\ \A n \in 1..m : at + n \in Keys(g)
      /\ \A k \in Keys(g) : \/ \E j \in Keys(f) : k = Sh(at, m, j)
                            \/ \E n \in 1..m : k = at + n
  BY GrownKeys
<1>4. /\ \A j \in 1..Len(f) : Doc(g, Sh(at, m, j)) = Doc(f, j)
      /\ \A n \in 1..m : Doc(g, at + n) = Doc(f, p)
      /\ Doc(f, last) = Doc(f, p)
  BY GrownDoc
<1>5. \A j \in Int, n \in 1..m : /\ at + n <= Sh(at, m, j) => at < j
                                 /\ Sh(at, m, j) < at + n => j <= at
                                 /\ at < j => at + n < Sh(at, m, j)
  BY <1>1 DEF Sh
<1>6. Above(g, Sh(at, m, i))
        = {j \in Keys(g) :
             /\ j <= Sh(at, m, i) /\ Doc(g, j) = Doc(g, Sh(at, m, i))
             /\ \A k \in Keys(g) : j < k /\ k <= Sh(at, m, i) => g[k].indent > g[j].indent}
  BY DEF Above, Nesting
<1>7. Above(f, i)
        = {j \in Keys(f) : /\ j <= i /\ Doc(f, j) = Doc(f, i)
                           /\ \A k \in Keys(f) : j < k /\ k <= i => f[k].indent > f[j].indent}
  BY DEF Above, Nesting
<1>8. ASSUME NEW n \in 1..m, at + n \in Above(g, Sh(at, m, i)) PROVE FALSE
  <2>1. /\ at < i /\ Doc(f, i) = Doc(f, last)
        /\ \A k \in Keys(g) : at + n < k /\ k <= Sh(at, m, i) => g[k].indent > g[at + n].indent
    BY <1>3, <1>4, <1>5, <1>6, <1>8
  <2>2. ASSUME NEW k \in Keys(f), last < k, k <= i PROVE f[k].indent > d
    <3>1. at < k
      BY <1>1, <1>3, <2>2, NoKeyAtTheGap
    <3>2. Sh(at, m, k) \in Keys(g) /\ at + n < Sh(at, m, k) /\ Sh(at, m, k) <= Sh(at, m, i)
      BY <1>2, <1>3, <1>5, <2>2, <3>1
    <3>3. f[k].indent > g[at + n].indent /\ f[k].indent \in Nat
      BY <1>2, <1>3, <2>1, <2>2, <3>2
    <3>. QED
      BY <1>1, <1>2, <3>3
  <2>3. PICK c \in Above(f, last) : Child(f, p, c) /\ f[c].indent = d
    BY <1>1, GapIndents
  <2>4. /\ c \in Keys(f) /\ p \in Above(f, c) /\ c <= last /\ Doc(f, c) = Doc(f, last)
        /\ \A k \in Keys(f) : c < k /\ k <= last => f[k].indent > d
    BY <1>1, <2>3, AboveFacts DEF Child, Above, Nesting
  <2>5. c \in Above(f, i)
    BY <1>1, <1>3, <1>7, <2>1, <2>2, <2>3, <2>4
  <2>6. last < i
    BY <1>1, <1>3, <2>1
  <2>. QED
    BY <1>1, <2>4, <2>5, <2>6, OutsideTheMapping
<1>9. ASSUME NEW j \in Keys(f), Sh(at, m, j) \in Above(g, Sh(at, m, i)) PROVE j \in Above(f, i)
  <2>1. /\ Sh(at, m, j) <= Sh(at, m, i) /\ Doc(g, Sh(at, m, j)) = Doc(g, Sh(at, m, i))
        /\ \A k \in Keys(g) : Sh(at, m, j) < k /\ k <= Sh(at, m, i) =>
             g[k].indent > g[Sh(at, m, j)].indent
    BY <1>6, <1>9
  <2>2. j <= i /\ Doc(f, j) = Doc(f, i)
    BY <1>2, <1>3, <1>4, <2>1
  <2>3. ASSUME NEW k \in Keys(f), j < k, k <= i PROVE f[k].indent > f[j].indent
    BY <1>2, <1>3, <2>1, <2>3
  <2>. QED
    BY <1>7, <2>2, <2>3
<1>10. ASSUME NEW j \in Above(f, i) PROVE Sh(at, m, j) \in Above(g, Sh(at, m, i))
  <2>1. /\ j \in Keys(f) /\ j <= i /\ Doc(f, j) = Doc(f, i)
        /\ \A k \in Keys(f) : j < k /\ k <= i => f[k].indent > f[j].indent
    BY <1>7
  <2>2. Sh(at, m, j) \in Keys(g) /\ Sh(at, m, j) <= Sh(at, m, i)
        /\ Doc(g, Sh(at, m, j)) = Doc(g, Sh(at, m, i))
    BY <1>2, <1>3, <1>4, <2>1
  <2>3. ASSUME NEW k \in Keys(g), Sh(at, m, j) < k, k <= Sh(at, m, i)
        PROVE  g[k].indent > g[Sh(at, m, j)].indent
    <3>1. ASSUME NEW l \in Keys(f), k = Sh(at, m, l) PROVE g[k].indent > g[Sh(at, m, j)].indent
      BY <1>2, <1>3, <2>1, <2>3, <3>1
    <3>2. ASSUME NEW n \in 1..m, k = at + n PROVE g[k].indent > g[Sh(at, m, j)].indent
      <4>1. at < i /\ j <= at
        <5>1. i \in Int /\ j \in Int
          BY <1>3, <2>1
        <5>. QED
          BY <1>5, <2>3, <3>2, <5>1
      <4>2. j <= last /\ last < i
        BY <1>1, <1>3, <2>1, <4>1, NoKeyAtTheGap
      <4>3. Doc(f, last) = Doc(f, i)
        <5>1. Doc(f, j) <= Doc(f, last) /\ Doc(f, last) <= Doc(f, i)
              /\ Doc(f, i) \in Nat /\ Doc(f, last) \in Nat
          <6>1. j \in Int /\ last \in Int /\ i \in Int /\ last <= i
            BY <1>1, <1>3, <2>1, <4>2
          <6>. QED
            BY <4>2, <6>1, DocGrows
        <5>. QED
          BY <2>1, <5>1
      <4>4. j \in Above(f, last)
        BY <1>1, <2>1, <4>2, <4>3, AboveBetween, <1>3
      <4>5. p \notin Above(f, j)
        BY <1>1, <2>1, <4>2, OutsideTheMapping
      <4>6. f[j].indent < d
        BY <1>1, <4>4, <4>5, BelowTheIndent
      <4>7. g[Sh(at, m, j)] = f[j] /\ f[j].indent \in Nat
        BY <1>2, <1>3, <2>1
      <4>8. g[k].indent \in Nat /\ g[k].indent >= d
        BY <1>2, <3>2
      <4>. QED
        BY <1>1, <4>6, <4>7, <4>8
    <3>. QED
      BY <1>3, <3>1, <3>2
  <2>. QED
    BY <1>6, <2>2, <2>3
<1>11. \A k \in Above(g, Sh(at, m, i)) : \E j \in Above(f, i) : k = Sh(at, m, j)
  BY <1>3, <1>6, <1>8, <1>9
<1>12. Above(g, Sh(at, m, i)) = Shifted(at, m, Above(f, i))
  BY <1>10, <1>11 DEF Shifted
<1>. QED
  BY <1>8, <1>9, <1>10, <1>12

(* What is added is nested in the mapping and in what is added above it. *)
LEMMA AddedAbove ==
  ASSUME NEW f, NEW g, NEW p, NEW d, NEW last, NEW at, NEW m, Grown(f, g, p, d, last, at, m),
         NEW n \in 1..m
  PROVE  Above(g, at + n) = Above(f, p) \union {at + r : r \in 1..n}
<1>1. /\ IsFile(f) /\ Len(f) \in Nat /\ m \in Nat /\ at \in 1..Len(f) /\ d \in Nat
      /\ last \in Keys(f) /\ p \in Above(f, last) /\ p < last /\ last <= at /\ p \in Keys(f)
      /\ Gap(f, p, d, last, at)
  BY GrownGap
<1>2. /\ \A j \in 1..Len(f) : g[Sh(at, m, j)] = f[j] /\ f[j].indent \in Nat
      /\ \A r \in 1..m : g[at + r].indent \in Nat /\ g[at + r].indent >= d
      /\ \A r, s \in 1..m : r < s => g[at + r].indent < g[at + s].indent
      /\ g[at + 1].indent = d
  BY GrownIndents
<1>3. /\ \A j \in Keys(f) : j \in 1..Len(f) /\ Sh(at, m, j) \in Keys(g)
      /\ \A r \in 1..m : at + r \in Keys(g)
      /\ \A k \in Keys(g) : \/ \E j \in Keys(f) : k = Sh(at, m, j)
                            \/ \E r \in 1..m : k = at + r
  BY GrownKeys
<1>4. /\ \A j \in 1..Len(f) : Doc(g, Sh(at, m, j)) = Doc(f, j)
      /\ \A r \in 1..m : Doc(g, at + r) = Doc(f, p)
      /\ Doc(f, last) = Doc(f, p)
  BY GrownDoc
<1>5. \A j \in Int : /\ Sh(at, m, j) <= at + n <=> j <= at
                     /\ j <= at => Sh(at, m, j) = j
  BY <1>1 DEF Sh
<1>6. Above(g, at + n)
        = {j \in Keys(g) : /\ j <= at + n /\ Doc(g, j) = Doc(g, at + n)
                           /\ \A k \in Keys(g) : j < k /\ k <= at + n => g[k].indent > g[j].indent}
  BY DEF Above, Nesting
<1>7. ASSUME NEW r \in 1..n PROVE at + r \in Above(g, at + n)
  <2>1. at + r \in Keys(g) /\ at + r <= at + n /\ Doc(g, at + r) = Doc(g, at + n) /\ r \in 1..m
    BY <1>1, <1>3, <1>4
  <2>2. ASSUME NEW k \in Keys(g), at + r < k, k <= at + n PROVE g[k].indent > g[at + r].indent
    <3>1. \A j \in Keys(f) : k # Sh(at, m, j)
      BY <1>1, <1>3, <2>2 DEF Sh
    <3>2. PICK s \in 1..m : k = at + s
      BY <1>3, <3>1
    <3>3. r < s
      BY <1>1, <2>1, <2>2, <3>2
    <3>. QED
      BY <1>2, <2>1, <3>2, <3>3
  <2>. QED
    BY <1>6, <2>1, <2>2
<1>8. ASSUME NEW j \in Above(f, p) PROVE j \in Above(g, at + n)
  <2>1. j \in Keys(f) /\ j <= p /\ Doc(f, j) = Doc(f, p) /\ j \in Above(f, last)
    <3>1. j \in Keys(f) /\ j <= p /\ Doc(f, j) = Doc(f, p)
      BY <1>1, AboveFacts
    <3>2. Above(f, p) = Above(f, last) \cap 1..p
      BY <1>1, AboveFacts
    <3>. QED
      BY <3>1, <3>2
  <2>2. f[j].indent < d
    BY <1>1, <2>1, BelowTheIndent
  <2>3. j \in 1..Len(f) /\ j <= at /\ Sh(at, m, j) = j
    BY <1>1, <1>3, <1>5, <2>1
  <2>4. j \in Keys(g) /\ j <= at + n /\ Doc(g, j) = Doc(g, at + n) /\ g[j] = f[j]
    <3>1. j \in Keys(g)
      BY <1>3, <2>1, <2>3
    <3>2. j <= at + n
      BY <1>1, <2>3
    <3>3. Doc(g, j) = Doc(g, at + n)
      BY <1>4, <2>1, <2>3
    <3>. QED
      BY <1>2, <2>3, <3>1, <3>2, <3>3
  <2>5. ASSUME NEW k \in Keys(g), j < k, k <= at + n PROVE g[k].indent > g[j].indent
    <3>1. ASSUME NEW l \in Keys(f), k = Sh(at, m, l) PROVE g[k].indent > g[j].indent
      <4>1. l \in 1..Len(f) /\ l <= at /\ k = l /\ g[k] = f[l]
        BY <1>2, <1>3, <1>5, <2>5, <3>1
      <4>2. l <= last
        BY <1>1, <1>3, <4>1, NoKeyAtTheGap
      <4>3. f[l].indent > f[j].indent
        BY <2>1, <2>5, <4>1, <4>2 DEF Above, Nesting
      <4>. QED
        BY <2>4, <4>1, <4>3
    <3>2. ASSUME NEW r \in 1..m, k = at + r PROVE g[k].indent > g[j].indent
      <4>1. g[j].indent < d /\ g[j].indent \in Nat
        BY <1>2, <2>2, <2>3, <2>4
      <4>2. g[k].indent \in Nat /\ g[k].indent >= d
        BY <1>2, <3>2
      <4>. QED
        BY <1>1, <4>1, <4>2
    <3>. QED
      BY <1>3, <3>1, <3>2
  <2>. QED
    BY <1>6, <2>4, <2>5
<1>9. ASSUME NEW j \in Above(g, at + n) PROVE j \in Above(f, p) \union {at + r : r \in 1..n}
  <2>1. /\ j \in Keys(g) /\ j <= at + n /\ Doc(g, j) = Doc(g, at + n)
        /\ \A k \in Keys(g) : j < k /\ k <= at + n => g[k].indent > g[j].indent
    BY <1>6
  <2>2. ASSUME NEW r \in 1..m, j = at + r PROVE r \in 1..n
    BY <1>1, <2>1, <2>2
  <2>3. ASSUME NEW l \in Keys(f), j = Sh(at, m, l) PROVE j \in Above(f, p)
    <3>1. l \in 1..Len(f) /\ l <= at /\ j = l /\ g[j] = f[l] /\ Doc(f, l) = Doc(f, last)
      BY <1>2, <1>3, <1>4, <1>5, <2>1, <2>3
    <3>2. l <= last
      BY <1>1, <1>3, <3>1, NoKeyAtTheGap
    <3>3. ASSUME NEW k \in Keys(f), l < k, k <= last PROVE f[k].indent > f[l].indent
      <4>1. k \in 1..Len(f) /\ k <= at /\ Sh(at, m, k) = k /\ k <= at + n
        BY <1>1, <1>3, <1>5, <3>3
      <4>2. k \in Keys(g) /\ g[k] = f[k] /\ j < k
        BY <1>2, <1>3, <3>1, <3>3, <4>1
      <4>. QED
        BY <2>1, <3>1, <4>1, <4>2
    <3>4. l \in Above(f, last)
      BY <3>1, <3>2, <3>3 DEF Above, Nesting
    <3>5. f[l].indent < d
      <4>1. at + 1 \in Keys(g) /\ at + 1 <= at + n /\ j < at + 1 /\ g[at + 1].indent = d
        BY <1>1, <1>2, <1>3, <3>1
      <4>. QED
        BY <2>1, <3>1, <4>1
    <3>. QED
      BY <1>1, <3>1, <3>4, <3>5, BelowTheIndent
  <2>. QED
    BY <1>3, <2>1, <2>2, <2>3
<1>. QED
  BY <1>7, <1>8, <1>9

-----------------------------------------------------------------------------
(* The paths in a file to which a path was added. *)

(* The last m keys of the path are new: they are below its mapping p. *)
Insertion(f, g, p, d, last, at, m, path) ==
  /\ Grown(f, g, p, d, last, at, m)
  /\ path \in Seq(Range(path)) /\ Len(path) - m >= 2
  /\ Len(PathOf(f, p)) = Len(path) - m
  /\ PathOf(f, p) = SubSeq(path, 1, Len(path) - m)
  /\ \A n \in 1..m : /\ g[at + n].key = path[Len(path) - m + n]
                     /\ \A i \in Keys(f) : PathOf(f, i) # SubSeq(path, 1, Len(path) - m + n)

LEMMA SameSequence ==
  ASSUME NEW s, s \in Seq(Range(s)), NEW t, t \in Seq(Range(t)), Len(s) = Len(t),
         \A r \in 1..Len(t) : s[r] = t[r]
  PROVE  s = t
<1>1. Len(t) \in 0..Len(t)
  OBVIOUS
<1>2. s = SubSeq(t, 1, Len(t))
  BY <1>1, SeqStart
<1>. QED
  BY <1>2, SubSeqFull

LEMMA PathOfOld ==
  ASSUME NEW f, NEW g, NEW p, NEW d, NEW last, NEW at, NEW m, Grown(f, g, p, d, last, at, m),
         NEW i \in Keys(f)
  PROVE  PathOf(g, Sh(at, m, i)) = PathOf(f, i)
<1>. DEFINE j == Sh(at, m, i)
            A == Above(f, i)
            s == PathOf(g, j)
            t == PathOf(f, i)
<1>1. /\ IsFile(f) /\ IsFile(g) /\ at \in Nat /\ m \in Nat /\ Len(f) \in Nat
      /\ j \in Keys(g) /\ i \in 1..Len(f)
  BY GrownGap, GrownKeys
<1>2. Above(g, j) = Shifted(at, m, A)
  BY GrownAbove
<1>3. A \in SUBSET (1..Len(f))
  BY <1>1, AboveFacts
<1>. HIDE DEF A, j
<1>4. Cardinality(Above(g, j)) = Cardinality(A)
  <2>1. Cardinality(Shifted(at, m, A)) = Cardinality(A)
    BY <1>1, <1>3, ShiftCount
  <2>. QED
    BY <1>2, <2>1
<1>5. /\ s \in Seq(Range(s)) /\ Len(s) = Cardinality(A) + 1 /\ s[1] = Doc(g, j)
      /\ \A n \in 1..Cardinality(A) : s[n + 1] = g[Nth(Above(g, j), n)].key
  BY <1>1, <1>4, PathFacts
<1>6. /\ t \in Seq(Range(t)) /\ Len(t) = Cardinality(A) + 1 /\ t[1] = Doc(f, i)
      /\ Cardinality(A) \in Nat
      /\ \A n \in 1..Cardinality(A) : t[n + 1] = f[Nth(A, n)].key
  BY <1>1, PathFacts DEF A
<1>7. Doc(g, j) = Doc(f, i)
  BY <1>1, GrownDoc DEF j
<1>8. ASSUME NEW n \in 1..Cardinality(A)
      PROVE  g[Nth(Above(g, j), n)].key = f[Nth(A, n)].key
  <2>1. Nth(A, n) \in 1..Len(f)
    BY <1>1, <1>3, NthIs
  <2>2. Nth(Shifted(at, m, A), n) = Sh(at, m, Nth(A, n))
    BY <1>1, <1>3, NthShift
  <2>3. g[Sh(at, m, Nth(A, n))] = f[Nth(A, n)]
    BY <2>1, GrownLines
  <2>. QED
    BY <1>2, <2>2, <2>3
<1>. HIDE DEF s, t
<1>9. ASSUME NEW r \in 1..Len(t) PROVE s[r] = t[r]
  <2>1. CASE r = 1
    BY <1>5, <1>6, <1>7, <2>1
  <2>2. CASE r # 1
    <3>1. r - 1 \in 1..Cardinality(A) /\ (r - 1) + 1 = r
      BY <1>6, <2>2
    <3>2. s[r] = g[Nth(Above(g, j), r - 1)].key /\ t[r] = f[Nth(A, r - 1)].key
      BY <1>5, <1>6, <3>1
    <3>. QED
      BY <1>8, <3>1, <3>2
  <2>. QED
    BY <2>1, <2>2
<1>10. s = t
  BY <1>5, <1>6, <1>9, SameSequence
<1>. QED
  BY <1>10 DEF s, t, j

LEMMA PathOfAdded ==
  ASSUME NEW f, NEW g, NEW p, NEW d, NEW last, NEW at, NEW m, NEW path,
         Insertion(f, g, p, d, last, at, m, path), NEW n \in 1..m
  PROVE  /\ PathOf(g, at + n) = SubSeq(path, 1, Len(path) - m + n)
         /\ Len(PathOf(g, at + n)) = Len(path) - m + n
<1>. DEFINE A == Above(f, p)
            T == Above(g, at + n)
            C == Cardinality(A)
            s == PathOf(g, at + n)
            t == PathOf(f, p)
<1>0. Grown(f, g, p, d, last, at, m)
  BY DEF Insertion
<1>1. /\ IsFile(f) /\ IsFile(g) /\ at \in Nat /\ at \in 1..Len(f) /\ m \in Nat /\ Len(f) \in Nat
      /\ Len(g) = Len(f) + m /\ p \in Keys(f) /\ p \in 1..Len(f) /\ p <= at
      /\ at + n \in Keys(g) /\ Len(g) \in Nat /\ n \in Nat
  BY <1>0, GrownGap, GrownKeys
<1>2. T = A \union ((at + 1)..(at + n))
  <2>1. T = A \union {at + r : r \in 1..n}
    BY <1>0, AddedAbove
  <2>2. {at + r : r \in 1..n} = (at + 1)..(at + n)
    <3>1. \A k \in (at + 1)..(at + n) : k - at \in 1..n /\ at + (k - at) = k
      BY <1>1
    <3>. QED
      BY <1>1, <3>1
  <2>. QED
    BY <2>1, <2>2
<1>3. A \in SUBSET (1..at)
  <2>1. A \in SUBSET (1..Len(f)) /\ \A j \in A : j <= p
    BY <1>1, AboveFacts
  <2>. HIDE DEF A, T
  <2>. QED
    BY <1>1, <2>1
<1>4. /\ t \in Seq(Range(t)) /\ Len(t) = C + 1 /\ t[1] = Doc(f, p) /\ C \in Nat
      /\ \A r \in 1..C : t[r + 1] = f[Nth(A, r)].key
  BY <1>1, PathFacts
<1>5. /\ s \in Seq(Range(s)) /\ Len(s) = Cardinality(T) + 1 /\ s[1] = Doc(g, at + n)
      /\ \A r \in 1..Cardinality(T) : s[r + 1] = g[Nth(T, r)].key
  BY <1>1, PathFacts
<1>. HIDE DEF A, T
<1>7. /\ Cardinality(T) = C + n
      /\ \A r \in 1..C : Nth(T, r) = Nth(A, r) /\ Nth(A, r) \in A
      /\ \A r \in 1..n : Nth(T, C + r) = at + r
  <2>1. LET U == A \union ((at + 1)..(at + n))
        IN  /\ Cardinality(U) = Cardinality(A) + n
            /\ \A r \in 1..Cardinality(A) : Nth(U, r) = Nth(A, r) /\ Nth(A, r) \in A
            /\ \A r \in 1..n : Nth(U, Cardinality(A) + r) = at + r
    BY <1>1, <1>3, ChainNth, ZenonT(40)
  <2>. QED
    BY <1>2, <2>1
<1>8. \A r \in 1..C : Nth(T, r) = Nth(A, r) /\ Nth(A, r) \in 1..at
  BY <1>3, <1>7
<1>9. \A r \in 1..n : Nth(T, C + r) = at + r
  BY <1>7
<1>. HIDE DEF C
<1>10. /\ path \in Seq(Range(path)) /\ Len(path) - m >= 2 /\ Len(t) = Len(path) - m
       /\ t = SubSeq(path, 1, Len(path) - m) /\ Len(path) \in Nat
       /\ \A r \in 1..m : g[at + r].key = path[Len(path) - m + r]
  BY DEF Insertion
<1>11. \A r \in 1..Len(path) - m : t[r] = path[r]
  BY <1>1, <1>10, StartOf
<1>12. Doc(g, at + n) = Doc(f, p)
  BY <1>0, GrownDoc
<1>. HIDE DEF s, t
<1>16. /\ Len(path) \in Nat /\ m \in Nat /\ n \in 1..m /\ C \in Nat
       /\ Len(path) - m >= 2 /\ C + 1 = Len(path) - m
  BY <1>1, <1>4, <1>10
<1>13. ASSUME NEW r \in 1 .. Len(path) - m + n PROVE s[r] = path[r]
  <2>1. CASE r = 1
    BY <1>1, <1>4, <1>5, <1>10, <1>11, <1>12, <2>1, SMTT(30)
  <2>2. CASE r # 1 /\ r <= Len(path) - m
    <3>1. r - 1 \in 1..C /\ r - 1 \in 1..Cardinality(T) /\ (r - 1) + 1 = r /\ r \in 1..Len(path) - m
      BY <1>1, <1>4, <1>7, <1>10, <2>2, SMTT(30)
    <3>2. s[r] = g[Nth(T, r - 1)].key /\ t[r] = f[Nth(A, r - 1)].key
      BY <1>4, <1>5, <3>1
    <3>3. Nth(T, r - 1) = Nth(A, r - 1) /\ Nth(A, r - 1) \in 1..at
      BY <1>8, <3>1
    <3>4. g[Nth(A, r - 1)] = f[Nth(A, r - 1)]
      <4>1. \A k \in 1..at : k \in 1..Len(f) /\ Sh(at, m, k) = k
        BY <1>1 DEF Sh
      <4>. QED
        BY <1>0, <3>3, <4>1, GrownLines, SMTT(30)
    <3>. QED
      BY <1>11, <3>1, <3>2, <3>3, <3>4
  <2>3. CASE r > Len(path) - m
    <3>. DEFINE q == r - (Len(path) - m)
    <3>1. /\ q \in 1..n /\ q \in 1..m /\ r - 1 = C + q /\ Len(path) - m + q = r
          /\ r - 1 \in 1..Cardinality(T) /\ (r - 1) + 1 = r
      <4>1. q \in 1..n /\ r - 1 = C + q /\ r - 1 \in 1 .. C + n
        BY <1>16, <2>3
      <4>. QED
        BY <1>7, <1>16, <4>1
    <3>2. s[r] = g[Nth(T, C + q)].key
      BY <1>5, <3>1
    <3>3. s[r] = g[at + q].key
      BY <1>9, <3>1, <3>2
    <3>. QED
      BY <1>10, <3>1, <3>3
  <2>. QED
    BY <1>1, <1>10, <2>1, <2>2, <2>3
<1>14. Len(s) = Len(path) - m + n /\ Len(path) - m + n \in 0..Len(path)
  <2>1. Len(s) = C + n + 1
    BY <1>5, <1>7
  <2>. QED
    BY <1>16, <2>1
<1>15. s = SubSeq(path, 1, Len(path) - m + n)
  BY <1>5, <1>10, <1>13, <1>14, SeqStart
<1>. QED
  BY <1>14, <1>15 DEF s

LEMMA SameDepth ==
  ASSUME NEW f, IsFile(f), UniquePaths(f), NEW i \in Keys(f), NEW j \in Above(f, i)
  PROVE  /\ Len(PathOf(f, j)) \in Nat /\ Len(PathOf(f, i)) \in Nat
         /\ Len(PathOf(f, j)) <= Len(PathOf(f, i))
         /\ Len(PathOf(f, j)) = Len(PathOf(f, i)) => j = i
<1>. DEFINE n == Cardinality(Above(f, i) \cap 1..j)
<1>1. /\ j \in Keys(f) /\ n \in 1..Cardinality(Above(f, i)) /\ Len(PathOf(f, j)) = n + 1
      /\ PathOf(f, j) = SubSeq(PathOf(f, i), 1, n + 1)
  BY PathOfAbove
<1>2. /\ Cardinality(Above(f, i)) \in Nat /\ Len(PathOf(f, i)) = Cardinality(Above(f, i)) + 1
      /\ PathOf(f, i) \in Seq(Range(PathOf(f, i)))
  BY PathFacts
<1>. HIDE DEF n
<1>3. ASSUME Len(PathOf(f, j)) = Len(PathOf(f, i)) PROVE j = i
  <2>1. n + 1 = Len(PathOf(f, i))
    BY <1>1, <1>3
  <2>2. PathOf(f, j) = PathOf(f, i)
    BY <1>1, <1>2, <2>1, SubSeqFull
  <2>. QED
    BY <1>1, <2>2 DEF UniquePaths
<1>. QED
  BY <1>1, <1>2, <1>3

LEMMA InsertionPaths ==
  ASSUME NEW f, NEW g, NEW p, NEW d, NEW last, NEW at, NEW m, NEW path,
         Insertion(f, g, p, d, last, at, m, path)
  PROVE  /\ Grown(f, g, p, d, last, at, m)
         /\ Len(path) \in Nat /\ m \in Nat \ {0} /\ Len(path) - m >= 2
         /\ Len(PathOf(f, p)) = Len(path) - m
         /\ \A i \in Keys(f) : PathOf(g, Sh(at, m, i)) = PathOf(f, i)
         /\ \A n \in 1..m : /\ PathOf(g, at + n) = SubSeq(path, 1, Len(path) - m + n)
                            /\ Len(PathOf(g, at + n)) = Len(path) - m + n
                            /\ \A i \in Keys(f) : PathOf(f, i) # PathOf(g, at + n)
<1>1. Grown(f, g, p, d, last, at, m)
  BY DEF Insertion
<1>2. Len(path) \in Nat /\ m \in Nat \ {0} /\ Len(path) - m >= 2 /\ Len(PathOf(f, p)) = Len(path) - m
  BY <1>1, GrownGap DEF Insertion
<1>3. \A i \in Keys(f) : PathOf(g, Sh(at, m, i)) = PathOf(f, i)
  BY <1>1, PathOfOld
<1>4. \A n \in 1..m : /\ PathOf(g, at + n) = SubSeq(path, 1, Len(path) - m + n)
                      /\ Len(PathOf(g, at + n)) = Len(path) - m + n
  BY PathOfAdded
<1>5. \A n \in 1..m : \A i \in Keys(f) : PathOf(f, i) # PathOf(g, at + n)
  BY <1>4 DEF Insertion
<1>. QED
  BY <1>1, <1>2, <1>3, <1>4, <1>5

LEMMA GrownUnique ==
  ASSUME NEW f, NEW g, NEW p, NEW d, NEW last, NEW at, NEW m, NEW path,
         Insertion(f, g, p, d, last, at, m, path)
  PROVE  UniquePaths(g)
<1>1. /\ Grown(f, g, p, d, last, at, m) /\ Len(path) \in Nat /\ m \in Nat
      /\ \A i \in Keys(f) : PathOf(g, Sh(at, m, i)) = PathOf(f, i)
      /\ \A n \in 1..m : /\ Len(PathOf(g, at + n)) = Len(path) - m + n
                         /\ \A i \in Keys(f) : PathOf(f, i) # PathOf(g, at + n)
  BY InsertionPaths
<1>2. UniquePaths(f)
  BY <1>1, GrownGap
<1>3. SUFFICES ASSUME NEW i \in Keys(g), NEW j \in Keys(g), PathOf(g, i) = PathOf(g, j)
               PROVE  i = j
  BY DEF UniquePaths
<1>4. /\ (\E k \in Keys(f) : i = Sh(at, m, k)) \/ \E n \in 1..m : i = at + n
      /\ (\E k \in Keys(f) : j = Sh(at, m, k)) \/ \E n \in 1..m : j = at + n
  BY <1>1, GrownKeys
<1>5. ASSUME NEW k \in Keys(f), i = Sh(at, m, k), NEW l \in Keys(f), j = Sh(at, m, l) PROVE i = j
  BY <1>1, <1>2, <1>3, <1>5 DEF UniquePaths
<1>6. ASSUME NEW k \in Keys(f), i = Sh(at, m, k), NEW n \in 1..m, j = at + n PROVE FALSE
  BY <1>1, <1>3, <1>6
<1>7. ASSUME NEW n \in 1..m, i = at + n, NEW l \in Keys(f), j = Sh(at, m, l) PROVE FALSE
  BY <1>1, <1>3, <1>7
<1>8. ASSUME NEW n \in 1..m, i = at + n, NEW r \in 1..m, j = at + r PROVE i = j
  <2>1. Len(path) - m + n = Len(path) - m + r
    BY <1>1, <1>3, <1>8
  <2>2. n = r
    BY <1>1, <2>1
  <2>. QED
    BY <1>8, <2>2
<1>. QED
  BY <1>4, <1>5, <1>6, <1>7, <1>8

LEMMA GrownChild ==
  ASSUME NEW f, NEW g, NEW p, NEW d, NEW last, NEW at, NEW m, NEW path,
         Insertion(f, g, p, d, last, at, m, path)
  PROVE  /\ \A i, c \in Keys(f) : Child(g, Sh(at, m, i), Sh(at, m, c)) <=> Child(f, i, c)
         /\ \A i \in Keys(f), n \in 1..m : Child(g, Sh(at, m, i), at + n) <=> i = p /\ n = 1
         /\ \A n, r \in 1..m : Child(g, at + r, at + n) <=> n = r + 1
         /\ \A c \in Keys(f), n \in 1..m : ~Child(g, at + n, Sh(at, m, c))
<1>1. /\ Grown(f, g, p, d, last, at, m) /\ Len(path) \in Nat /\ m \in Nat \ {0}
      /\ Len(PathOf(f, p)) = Len(path) - m
      /\ \A i \in Keys(f) : PathOf(g, Sh(at, m, i)) = PathOf(f, i)
      /\ \A n \in 1..m : Len(PathOf(g, at + n)) = Len(path) - m + n
  BY InsertionPaths
<1>2. /\ IsFile(f) /\ UniquePaths(f) /\ at \in Nat /\ p \in Keys(f) /\ p \in 1..Len(f) /\ p <= at
  BY <1>1, GrownGap
<1>3. /\ \A i \in Keys(f) : Sh(at, m, i) \in Keys(g) /\ i \in 1..Len(f)
      /\ \A n \in 1..m : at + n \in Keys(g)
  BY <1>1, GrownKeys
<1>4. \A i, c \in Keys(f) : Child(g, Sh(at, m, i), Sh(at, m, c)) <=> Child(f, i, c)
  BY <1>1, <1>3, GrownAbove DEF Child
<1>5. \A c \in Keys(f), n \in 1..m : ~Child(g, at + n, Sh(at, m, c))
  BY <1>1, GrownAbove DEF Child
<1>6. Above(f, p) \subseteq Keys(f) /\ p \in Above(f, p) /\ \A j \in Above(f, p) : j <= p
  BY <1>2, AboveFacts
<1>7. \A n \in 1..m : Above(g, at + n) = Above(f, p) \union {at + r : r \in 1..n}
  BY <1>1, AddedAbove
<1>8. ASSUME NEW n \in 1..m, NEW r \in 1..m
      PROVE  at + r \in Above(g, at + n) <=> r <= n
  <2>1. at + r \notin Above(f, p)
    BY <1>2, <1>6
  <2>2. at + r \in Above(g, at + n) <=> \E q \in 1..n : at + r = at + q
    BY <1>7, <2>1
  <2>3. \A q \in 1..n : at + r = at + q <=> r = q
    BY <1>1, <1>2
  <2>4. r \in 1..n <=> r <= n
    BY <1>1
  <2>. QED
    BY <2>2, <2>3, <2>4
<1>9. ASSUME NEW n \in 1..m, NEW i \in Keys(f)
      PROVE  Sh(at, m, i) \in Above(g, at + n) <=> i \in Above(f, p)
  <2>1. \A r \in 1..n : Sh(at, m, i) # at + r
    BY <1>1, <1>2, <1>3 DEF Sh
  <2>2. Sh(at, m, i) \in Above(g, at + n) <=> Sh(at, m, i) \in Above(f, p)
    BY <1>7, <2>1
  <2>3. Sh(at, m, i) \in Above(f, p) => Sh(at, m, i) = i
    BY <1>1, <1>2, <1>3, <1>6 DEF Sh
  <2>4. i \in Above(f, p) => Sh(at, m, i) = i
    BY <1>1, <1>2, <1>3, <1>6 DEF Sh
  <2>. QED
    BY <2>2, <2>3, <2>4
<1>10. ASSUME NEW i \in Keys(f), NEW n \in 1..m
       PROVE  Child(g, Sh(at, m, i), at + n) <=> i = p /\ n = 1
  <2>1. Child(g, Sh(at, m, i), at + n)
          <=> i \in Above(f, p) /\ Len(path) - m + n = Len(PathOf(f, i)) + 1
    BY <1>1, <1>3, <1>9 DEF Child
  <2>2. ASSUME i \in Above(f, p), Len(path) - m + n = Len(PathOf(f, i)) + 1 PROVE i = p /\ n = 1
    <3>1. /\ Len(PathOf(f, i)) \in Nat /\ Len(PathOf(f, i)) <= Len(PathOf(f, p))
          /\ Len(PathOf(f, i)) = Len(PathOf(f, p)) => i = p
      BY <1>2, <2>2, SameDepth
    <3>2. n = 1 /\ Len(PathOf(f, i)) = Len(PathOf(f, p))
      BY <1>1, <2>2, <3>1
    <3>. QED
      BY <3>1, <3>2
  <2>. QED
    BY <1>1, <1>6, <2>1, <2>2
<1>11. ASSUME NEW n \in 1..m, NEW r \in 1..m PROVE Child(g, at + r, at + n) <=> n = r + 1
  <2>1. Child(g, at + r, at + n) <=> r <= n /\ Len(path) - m + n = (Len(path) - m + r) + 1
    BY <1>1, <1>3, <1>8 DEF Child
  <2>. QED
    BY <1>1, <2>1, SMTT(30)
<1>. QED
  BY <1>4, <1>5, <1>10, <1>11

Leaf(f, i) == ~ \E c : Child(f, i, c)

LEMMA GrownLeaves ==
  ASSUME NEW f, NEW g, NEW p, NEW d, NEW last, NEW at, NEW m, NEW path,
         Insertion(f, g, p, d, last, at, m, path)
  PROVE  /\ \A i \in Keys(f) : Leaf(g, Sh(at, m, i)) <=> Leaf(f, i)
         /\ \A n \in 1..m : n # m => ~Leaf(g, at + n)
<1>1. Grown(f, g, p, d, last, at, m) /\ m \in Nat
  BY InsertionPaths
<1>2. /\ \A i, c \in Keys(f) : Child(g, Sh(at, m, i), Sh(at, m, c)) <=> Child(f, i, c)
      /\ \A i \in Keys(f), n \in 1..m : Child(g, Sh(at, m, i), at + n) <=> i = p /\ n = 1
      /\ \A n, r \in 1..m : Child(g, at + r, at + n) <=> n = r + 1
  BY GrownChild
<1>3. \A c \in Keys(g) : (\E k \in Keys(f) : c = Sh(at, m, k)) \/ \E n \in 1..m : c = at + n
  BY <1>1, GrownKeys
<1>4. ~Leaf(f, p)
  <2>1. Gap(f, p, d, last, at) /\ last \in Keys(f) /\ p \in Above(f, last) /\ p # last
    BY <1>1, GrownGap
  <2>. QED
    BY <2>1, GapIndents DEF Leaf
<1>5. ASSUME NEW i \in Keys(f), ~Leaf(g, Sh(at, m, i)) PROVE ~Leaf(f, i)
  <2>1. PICK c \in Keys(g) : Child(g, Sh(at, m, i), c)
    BY <1>5 DEF Leaf, Child
  <2>2. ASSUME NEW k \in Keys(f), c = Sh(at, m, k) PROVE ~Leaf(f, i)
    BY <1>2, <2>1, <2>2 DEF Leaf
  <2>3. ASSUME NEW n \in 1..m, c = at + n PROVE ~Leaf(f, i)
    BY <1>2, <1>4, <2>1, <2>3
  <2>. QED
    BY <1>3, <2>2, <2>3
<1>6. ASSUME NEW i \in Keys(f), ~Leaf(f, i) PROVE ~Leaf(g, Sh(at, m, i))
  BY <1>2, <1>6 DEF Leaf, Child
<1>7. ASSUME NEW n \in 1..m, n # m PROVE ~Leaf(g, at + n)
  <2>1. n + 1 \in 1..m
    BY <1>1, <1>7
  <2>2. Child(g, at + n, at + (n + 1))
    BY <1>2, <2>1
  <2>. QED
    BY <2>2 DEF Leaf
<1>. QED
  BY <1>5, <1>6, <1>7

LEMMA GrownSound ==
  ASSUME NEW f, NEW g, NEW p, NEW d, NEW last, NEW at, NEW m, NEW path,
         Insertion(f, g, p, d, last, at, m, path)
  PROVE  Sound(g)
<1>1. /\ Grown(f, g, p, d, last, at, m) /\ Len(path) \in Nat /\ m \in Nat \ {0}
      /\ Len(path) - m >= 2
      /\ \A i \in Keys(f) : PathOf(g, Sh(at, m, i)) = PathOf(f, i)
      /\ \A n \in 1..m : Len(PathOf(g, at + n)) = Len(path) - m + n
  BY InsertionPaths
<1>2. /\ \A i, c \in Keys(f) : Child(g, Sh(at, m, i), Sh(at, m, c)) <=> Child(f, i, c)
      /\ \A i \in Keys(f), n \in 1..m : Child(g, Sh(at, m, i), at + n) <=> i = p /\ n = 1
      /\ \A n, r \in 1..m : Child(g, at + r, at + n) <=> n = r + 1
      /\ \A c \in Keys(f), n \in 1..m : ~Child(g, at + n, Sh(at, m, c))
  BY GrownChild
<1>3. /\ \A c \in Keys(g) : (\E k \in Keys(f) : c = Sh(at, m, k)) \/ \E n \in 1..m : c = at + n
      /\ Keys(f) \subseteq 1..Len(f)
  BY <1>1, GrownKeys
<1>4. /\ Gap(f, p, d, last, at) /\ IsFile(g) /\ p \in Keys(f)
  BY <1>1, GrownGap
<1>5. /\ \A i \in Keys(f) : Len(PathOf(f, i)) = 2 => f[i].indent = 0
      /\ \A i \in Keys(f) : \A c : Child(f, i, c) => f[i].style = "nothing"
      /\ \A i \in Keys(f) : \A b, c : Child(f, i, b) /\ Child(f, i, c) => f[b].indent = f[c].indent
      /\ f[p].style = "nothing" /\ \A c : Child(f, p, c) => f[c].indent = d
  BY <1>4 DEF Gap, Sound
<1>6. /\ \A i \in Keys(f) : g[Sh(at, m, i)] = f[i]
      /\ g[at + 1].indent = d
      /\ \A n \in 1..m : n < m => g[at + n].style = "nothing"
  <2>1. \A i \in 1..Len(f) : g[Sh(at, m, i)] = f[i]
    BY <1>1, GrownLines
  <2>2. g[at + 1].indent = d
    BY <1>1, GrownIndents
  <2>3. \A n \in 1..m : n < m => g[at + n].style = "nothing"
    BY <1>1 DEF Grown
  <2>. QED
    BY <1>3, <2>1, <2>2, <2>3
<1>7. ASSUME NEW i \in Keys(g), Len(PathOf(g, i)) = 2 PROVE g[i].indent = 0
  <2>1. ASSUME NEW n \in 1..m PROVE Len(PathOf(g, at + n)) # 2
    <3>1. Len(PathOf(g, at + n)) = Len(path) - m + n
      BY <1>1
    <3>2. Len(path) - m + n # 2
      BY <1>1
    <3>. QED
      BY <3>1, <3>2
  <2>2. PICK k \in Keys(f) : i = Sh(at, m, k)
    BY <1>3, <1>7, <2>1
  <2>. QED
    BY <1>1, <1>5, <1>6, <1>7, <2>2
<1>8. ASSUME NEW i \in Keys(g), NEW c, Child(g, i, c) PROVE g[i].style = "nothing"
  <2>1. c \in Keys(g)
    BY <1>8 DEF Child
  <2>2. ASSUME NEW k \in Keys(f), i = Sh(at, m, k) PROVE g[i].style = "nothing"
    <3>1. ASSUME NEW l \in Keys(f), c = Sh(at, m, l) PROVE g[i].style = "nothing"
      BY <1>2, <1>5, <1>6, <1>8, <2>2, <3>1
    <3>2. ASSUME NEW n \in 1..m, c = at + n PROVE g[i].style = "nothing"
      BY <1>2, <1>5, <1>6, <1>8, <2>2, <3>2
    <3>. QED
      BY <1>3, <2>1, <3>1, <3>2
  <2>3. ASSUME NEW r \in 1..m, i = at + r PROVE g[i].style = "nothing"
    <3>1. PICK n \in 1..m : c = at + n
      BY <1>2, <1>3, <1>8, <2>1, <2>3
    <3>2. n = r + 1
      BY <1>2, <1>8, <2>3, <3>1
    <3>3. r < m
      BY <1>1, <3>2
    <3>. QED
      BY <1>6, <2>3, <3>3
  <2>. QED
    BY <1>3, <2>2, <2>3
<1>9. ASSUME NEW i \in Keys(g), NEW b, NEW c, Child(g, i, b), Child(g, i, c)
      PROVE  g[b].indent = g[c].indent
  <2>1. b \in Keys(g) /\ c \in Keys(g)
    BY <1>9 DEF Child
  <2>2. ASSUME NEW k \in Keys(f), i = Sh(at, m, k) PROVE g[b].indent = g[c].indent
    <3>1. CASE k # p
      <4>1. PICK x \in Keys(f) : b = Sh(at, m, x)
        BY <1>2, <1>3, <1>9, <2>1, <2>2, <3>1
      <4>2. PICK y \in Keys(f) : c = Sh(at, m, y)
        BY <1>2, <1>3, <1>9, <2>1, <2>2, <3>1
      <4>. QED
        BY <1>2, <1>5, <1>6, <1>9, <2>2, <4>1, <4>2, SMTT(30)
    <3>2. CASE k = p
      <4>1. ASSUME NEW z \in Keys(g), Child(g, i, z) PROVE g[z].indent = d
        <5>1. ASSUME NEW x \in Keys(f), z = Sh(at, m, x) PROVE g[z].indent = d
          BY <1>2, <1>5, <1>6, <2>2, <3>2, <4>1, <5>1
        <5>2. ASSUME NEW n \in 1..m, z = at + n PROVE g[z].indent = d
          BY <1>2, <1>6, <2>2, <3>2, <4>1, <5>2
        <5>. QED
          BY <1>3, <5>1, <5>2
      <4>. QED
        BY <1>9, <2>1, <4>1
    <3>. QED
      BY <3>1, <3>2
  <2>3. ASSUME NEW r \in 1..m, i = at + r PROVE g[b].indent = g[c].indent
    <3>1. PICK x \in 1..m : b = at + x
      BY <1>2, <1>3, <1>9, <2>1, <2>3
    <3>2. PICK y \in 1..m : c = at + y
      BY <1>2, <1>3, <1>9, <2>1, <2>3
    <3>3. x = r + 1 /\ y = r + 1
      BY <1>2, <1>9, <2>3, <3>1, <3>2
    <3>. QED
      BY <3>1, <3>2, <3>3
  <2>. QED
    BY <1>3, <2>2, <2>3
<1>10. UniquePaths(g) /\ Unparted(g)
  BY <1>1, GrownUnique, GrownUnparted
<1>. QED
  BY <1>4, <1>7, <1>8, <1>9, <1>10 DEF Sound

-----------------------------------------------------------------------------
(* What the entries and comments of the longer file say. *)

(* If nothing is left over of a scalar that was cut, then it lost blanks only. *)
LEMMA GrownCovered ==
  ASSUME NEW f, NEW g, NEW p, NEW d, NEW last, NEW at, NEW m, Grown(f, g, p, d, last, at, m),
         Covered(g)
  PROVE  /\ Covered(f)
         /\ \A i \in Keys(f) : \A k \in Body(f, i) : i <= at /\ at < k => f[k].kind = "blank"
<1>1. /\ IsFile(f) /\ Len(f) \in Nat /\ DOMAIN f = 1..Len(f) /\ DOMAIN g = 1..Len(g)
      /\ \A i \in 1..Len(f) : Sh(at, m, i) \in 1..Len(g) /\ g[Sh(at, m, i)] = f[i]
      /\ \A i, j \in 1..Len(f) : Sh(at, m, i) = Sh(at, m, j) <=> i = j
  BY GrownLines
<1>2. /\ Keys(f) \subseteq Heads(f) /\ Keys(f) \subseteq 1..Len(f)
      /\ at \in 1..Len(f) /\ last \in Keys(f)
  BY GrownGap, KeyLines
<1>3. ASSUME NEW k \in 1..Len(f), f[k].kind = "text"
      PROVE  \E j \in Keys(f) : k \in Body(f, j) /\ Sh(at, m, k) \in Body(g, Sh(at, m, j))
  <2>1. PICK h \in Keys(g) : Sh(at, m, k) \in Body(g, h)
    BY <1>1, <1>3 DEF Covered
  <2>2. \A n \in 1..m : h # at + n
    BY <2>1, AddedBody
  <2>3. PICK j \in Keys(f) : h = Sh(at, m, j)
    BY <2>2, GrownKeys
  <2>4. PICK l \in Body(f, j) : Sh(at, m, k) = Sh(at, m, l)
    BY <1>2, <2>1, <2>3, GrownScalars
  <2>5. l \in 1..Len(f)
    BY <1>1, <1>2, BodyFacts
  <2>6. k = l
    BY <1>1, <2>4, <2>5
  <2>. QED
    BY <2>1, <2>3, <2>6
<1>4. Covered(f)
  BY <1>1, <1>3 DEF Covered
<1>5. ASSUME NEW i \in Keys(f), NEW k \in Body(f, i), i <= at, at < k, f[k].kind # "blank"
      PROVE  FALSE
  <2>1. k \in Body(f, last) /\ f[k].kind = "text" /\ k \in 1..Len(f)
    <3>1. k \in Body(f, last) /\ f[k].kind \in {"blank", "text"}
      BY <1>2, <1>5, CutScalar DEF Grown
    <3>2. k \in 1..Len(f)
      BY <1>1, <1>2, BodyFacts
    <3>. QED
      BY <1>5, <3>1, <3>2
  <2>2. PICK j \in Keys(f) : k \in Body(f, j) /\ Sh(at, m, k) \in Body(g, Sh(at, m, j))
    BY <1>3, <2>1
  <2>3. /\ j \in Int /\ last \in Int /\ j < k /\ last < k
        /\ \A l \in j + 1 .. k : l \in Body(f, j)
        /\ \A l \in last + 1 .. k : l \in Body(f, last)
    <3>1. /\ k \in j + 1 .. Len(f) /\ \A l \in j + 1 .. k : l \in Body(f, j)
          /\ k \in last + 1 .. Len(f) /\ \A l \in last + 1 .. k : l \in Body(f, last)
      BY <1>1, <1>2, <2>1, <2>2, BodyFacts
    <3>. QED
      BY <1>1, <1>2, <3>1
  <2>4. j = last
    <3>1. ~(j < last)
      <4>1. SUFFICES ASSUME j < last PROVE FALSE
        OBVIOUS
      <4>2. last \in j + 1 .. k
        BY <1>1, <1>2, <2>1, <2>3, <4>1
      <4>. QED
        BY <1>2, <2>3, <4>2, KeysAreFree
    <3>2. ~(last < j)
      <4>1. SUFFICES ASSUME last < j PROVE FALSE
        OBVIOUS
      <4>2. j \in last + 1 .. k
        BY <1>1, <1>2, <2>1, <2>3, <4>1
      <4>. QED
        BY <1>2, <2>3, <4>2, KeysAreFree
    <3>. QED
      BY <2>3, <3>1, <3>2
  <2>5. Body(g, Sh(at, m, j)) = Body(f, j) \cap 1..at
    <3>1. j <= at
      BY <2>4, GrownGap
    <3>. QED
      BY <1>2, <3>1, GrownBody
  <2>6. Sh(at, m, k) = k + m /\ m \in Nat
    BY <1>1, <1>2, <1>5, <2>1, GrownGap DEF Sh
  <2>. QED
    BY <1>2, <1>5, <2>1, <2>2, <2>5, <2>6
<1>. QED
  BY <1>4, <1>5

(* The end of a scalar's text. *)
TextEnd(f, i) ==
  LET filled == {j \in Body(f, i) : f[j].kind # "blank"}
  IN IF filled = {} THEN i ELSE Max(filled)

LEMMA TextEndFacts ==
  ASSUME NEW f, IsFile(f), NEW i \in Heads(f)
  PROVE  /\ Scalar(f, i) = <<f[i].value>> \o SubSeq(f, i + 1, TextEnd(f, i))
         /\ TextEnd(f, i) \in i .. Len(f) /\ i \in 1..Len(f) /\ Len(f) \in Nat
         /\ TextEnd(f, i) # i => TextEnd(f, i) \in Body(f, i) /\ f[TextEnd(f, i)].kind # "blank"
         /\ \A j \in Body(f, i) : f[j].kind # "blank" => j <= TextEnd(f, i)
<1>. DEFINE filled == {j \in Body(f, i) : f[j].kind # "blank"}
<1>1. Len(f) \in Nat /\ i \in 1..Len(f) /\ \A j \in Body(f, i) : j \in i + 1 .. Len(f)
  BY LinesOf, BodyFacts DEF Heads
<1>2. filled \in SUBSET (0..Len(f))
  BY <1>1
<1>3. TextEnd(f, i) = IF filled = {} THEN i ELSE Max(filled)
  BY DEF TextEnd
<1>4. Scalar(f, i) = <<f[i].value>> \o SubSeq(f, i + 1, TextEnd(f, i))
  BY DEF Scalar, TextEnd
<1>5. CASE filled = {}
  BY <1>1, <1>3, <1>4, <1>5
<1>6. CASE filled # {}
  <2>. HIDE DEF filled
  <2>1. Max(filled) \in filled /\ \A j \in filled : j <= Max(filled)
    BY <1>1, <1>2, <1>6, MaxIn
  <2>2. TextEnd(f, i) = Max(filled)
    BY <1>3, <1>6
  <2>. QED
    BY <1>1, <1>4, <2>1, <2>2 DEF filled
<1>. QED
  BY <1>5, <1>6

LEMMA TextEndIs ==
  ASSUME NEW f, IsFile(f), NEW i \in Heads(f), NEW e \in Int,
         e = i \/ (e \in Body(f, i) /\ f[e].kind # "blank"),
         \A j \in Body(f, i) : f[j].kind # "blank" => j <= e
  PROVE  TextEnd(f, i) = e
<1>1. /\ TextEnd(f, i) \in i .. Len(f) /\ i \in 1..Len(f) /\ Len(f) \in Nat
      /\ TextEnd(f, i) # i => TextEnd(f, i) \in Body(f, i) /\ f[TextEnd(f, i)].kind # "blank"
      /\ \A j \in Body(f, i) : f[j].kind # "blank" => j <= TextEnd(f, i)
  BY TextEndFacts
<1>2. \A j \in Body(f, i) : j \in i + 1 .. Len(f)
  BY BodyFacts
<1>3. e >= i
  BY <1>1, <1>2
<1>. QED
  BY <1>1, <1>2, <1>3

(* Texts are equal line by line. *)
LEMMA SameText ==
  ASSUME NEW f, IsFile(f), NEW g, IsFile(g), NEW i \in Heads(f), NEW j \in Heads(g), NEW m \in Nat,
         j = i + m, f[i].value = g[j].value, TextEnd(g, j) = TextEnd(f, i) + m,
         \A k \in i + 1 .. TextEnd(f, i) : g[k + m] = f[k]
  PROVE  Scalar(g, j) = Scalar(f, i)
<1>. DEFINE e == TextEnd(f, i)
            s == SubSeq(f, i + 1, e)
            t == SubSeq(g, j + 1, e + m)
            S == Range(f) \union Range(g)
<1>1. /\ Scalar(f, i) = <<f[i].value>> \o s /\ Scalar(g, j) = <<g[j].value>> \o t
      /\ e \in i .. Len(f) /\ i \in 1..Len(f) /\ Len(f) \in Nat
      /\ e + m \in j .. Len(g) /\ j \in 1..Len(g) /\ Len(g) \in Nat
  BY TextEndFacts
<1>2. f \in Seq(S) /\ g \in Seq(S)
  BY DEF IsFile
<1>3. \A k \in i + 1 .. e : g[k + m] = f[k]
  OBVIOUS
<1>. HIDE DEF S, e
<1>4. s \in Seq(S) /\ Len(s) = e - i /\ \A k \in 1 .. e - i : s[k] = f[i + k]
  <2>1. i + 1 \in Int /\ e \in Int /\ \A k \in i + 1 .. e : f[k] \in S
    BY <1>1, <1>2
  <2>2. /\ s \in Seq(S) /\ Len(s) = IF i + 1 <= e THEN e - (i + 1) + 1 ELSE 0
        /\ \A k \in 1 .. e - (i + 1) + 1 : s[k] = f[i + 1 + k - 1]
    BY <2>1, SubSeqProperties
  <2>. HIDE DEF s
  <2>. QED
    BY <1>1, <2>2
<1>5. t \in Seq(S) /\ Len(t) = e - i /\ \A k \in 1 .. e - i : t[k] = g[i + m + k]
  <2>. DEFINE a == j + 1
              b == e + m
  <2>1. a \in Int /\ b \in Int /\ \A k \in a .. b : g[k] \in S
    BY <1>1, <1>2
  <2>. HIDE DEF a, b
  <2>2. /\ SubSeq(g, a, b) \in Seq(S) /\ Len(SubSeq(g, a, b)) = IF a <= b THEN b - a + 1 ELSE 0
        /\ \A k \in 1 .. b - a + 1 : SubSeq(g, a, b)[k] = g[a + k - 1]
    BY <2>1, SubSeqProperties
  <2>3. t = SubSeq(g, a, b) /\ a = i + m + 1 /\ b = e + m
    BY DEF a, b
  <2>. HIDE DEF t
  <2>4. b - a + 1 = e - i /\ (IF a <= b THEN b - a + 1 ELSE 0) = e - i
    BY <1>1, <2>3
  <2>5. \A k \in 1 .. e - i : a + k - 1 = i + m + k
    BY <1>1, <2>3
  <2>. QED
    BY <2>2, <2>3, <2>4, <2>5
<1>. HIDE DEF s, t
<1>6. ASSUME NEW k \in 1 .. e - i PROVE s[k] = t[k]
  <2>1. i + k \in i + 1 .. e /\ i + m + k = (i + k) + m
    BY <1>1
  <2>. QED
    BY <1>3, <1>4, <1>5, <2>1
<1>7. s = t
  BY <1>4, <1>5, <1>6, SeqEqual
<1>. QED
  BY <1>1, <1>7

LEMMA GrownScalar ==
  ASSUME NEW f, NEW g, NEW p, NEW d, NEW last, NEW at, NEW m, Grown(f, g, p, d, last, at, m),
         Covered(g), NEW i \in Keys(f)
  PROVE  Scalar(g, Sh(at, m, i)) = Scalar(f, i)
<1>. DEFINE e == TextEnd(f, i)
<1>1. /\ IsFile(f) /\ IsFile(g) /\ Len(f) \in Nat /\ m \in Nat /\ at \in 1..Len(f)
      /\ Len(g) = Len(f) + m
  BY GrownGap
<1>2. i \in Heads(f) /\ i \in 1..Len(f) /\ Sh(at, m, i) \in Heads(g)
  BY <1>1, KeyLines, GrownHeads
<1>3. /\ e \in i .. Len(f)
      /\ e # i => e \in Body(f, i) /\ f[e].kind # "blank"
      /\ \A j \in Body(f, i) : f[j].kind # "blank" => j <= e
  BY <1>1, <1>2, TextEndFacts
<1>4. Body(g, Sh(at, m, i))
        = IF i <= at THEN Body(f, i) \cap 1..at ELSE {k + m : k \in Body(f, i)}
  BY <1>2, GrownBody
<1>5. \A k \in Body(f, i) : k \in i + 1 .. Len(f)
  BY <1>1, <1>2, BodyFacts
<1>6. \A k \in 1..Len(f) : g[Sh(at, m, k)] = f[k]
  BY GrownLines
<1>. HIDE DEF e
<1>7. CASE i <= at
  <2>1. Sh(at, m, i) = i /\ \A k \in 1..at : g[k] = f[k]
    BY <1>1, <1>6, <1>7 DEF Sh
  <2>2. e <= at
    <3>1. \A k \in Body(f, i) : at < k => f[k].kind = "blank"
      BY <1>7, GrownCovered
    <3>. QED
      BY <1>1, <1>3, <1>7, <3>1
  <2>3. Body(g, i) = Body(f, i) \cap 1..at
    BY <1>4, <1>7, <2>1
  <2>4. e = i \/ (e \in Body(g, i) /\ g[e].kind # "blank")
    <3>1. e \in 1..at
      BY <1>1, <1>2, <1>3, <2>2
    <3>. QED
      BY <1>3, <2>1, <2>3, <3>1
  <2>5. \A j \in Body(g, i) : g[j].kind # "blank" => j <= e
    BY <1>3, <2>1, <2>3
  <2>6. TextEnd(g, i) = e
    <3>1. e \in Int /\ i \in Heads(g)
      BY <1>1, <1>2, <1>3, <2>1
    <3>. QED
      BY <1>1, <2>4, <2>5, <3>1, TextEndIs
  <2>7. \A k \in i + 1 .. e : g[k + 0] = f[k]
    BY <1>1, <1>2, <1>3, <2>1, <2>2
  <2>8. i = i + 0 /\ TextEnd(g, i) = e + 0 /\ i \in Heads(g) /\ f[i].value = g[i].value /\ 0 \in Nat
    BY <1>1, <1>2, <1>3, <1>7, <2>1, <2>6
  <2>9. Scalar(g, i) = Scalar(f, i)
    BY <1>1, <1>2, <2>7, <2>8, SameText DEF e
  <2>. QED
    BY <2>1, <2>9
<1>8. CASE at < i
  <2>1. Sh(at, m, i) = i + m /\ \A k \in i .. Len(f) : g[k + m] = f[k]
    BY <1>1, <1>2, <1>6, <1>8, SMTT(30) DEF Sh
  <2>2. Body(g, i + m) = {k + m : k \in Body(f, i)}
    BY <1>1, <1>2, <1>4, <1>8, <2>1
  <2>3. e + m = i + m \/ (e + m \in Body(g, i + m) /\ g[e + m].kind # "blank")
    BY <1>3, <2>1, <2>2
  <2>4. ASSUME NEW j \in Body(g, i + m), g[j].kind # "blank" PROVE j <= e + m
    <3>1. PICK k \in Body(f, i) : j = k + m
      BY <2>2
    <3>2. k \in i .. Len(f)
      BY <1>1, <1>2, <1>5
    <3>3. k <= e
      BY <1>3, <2>1, <2>4, <3>1, <3>2
    <3>. QED
      BY <1>1, <1>2, <1>3, <3>1, <3>2, <3>3
  <2>5. TextEnd(g, i + m) = e + m
    <3>1. e + m \in Int /\ i + m \in Heads(g)
      BY <1>1, <1>2, <1>3, <2>1
    <3>. QED
      BY <1>1, <2>3, <2>4, <3>1, TextEndIs
  <2>6. \A k \in i + 1 .. e : g[k + m] = f[k]
    BY <1>1, <1>2, <1>3, <2>1
  <2>7. i + m \in Heads(g) /\ f[i].value = g[i + m].value
    BY <1>1, <1>2, <2>1
  <2>8. Scalar(g, i + m) = Scalar(f, i)
    BY <1>1, <1>2, <2>5, <2>6, <2>7, SameText, SMTT(30) DEF e
  <2>. QED
    BY <2>1, <2>8
<1>. QED
  BY <1>1, <1>2, <1>7, <1>8

RemarkLines(f) == {i \in DOMAIN f \ InScalars(f) : f[i].kind = "comment"}

LEMMA RemarksInOrder ==
  ASSUME NEW f, IsFile(f)
  PROVE  /\ RemarkLines(f) \in SUBSET (1..Len(f)) /\ Len(f) \in Nat
         /\ Remarks(f) = [n \in 1..Cardinality(RemarkLines(f)) |-> f[Nth(RemarkLines(f), n)]]
<1>. DEFINE R == RemarkLines(f)
            ones(n) == {i \in R : Cardinality(R \cap 1..i) = n}
<1>1. R \in SUBSET (1..Len(f)) /\ Len(f) \in Nat
  BY LinesOf DEF RemarkLines
<1>2. Remarks(f) = [n \in 1..Cardinality(R) |-> f[Min(ones(n))]]
  BY DEF Remarks, RemarkLines, InScalars
<1>. HIDE DEF R
<1>3. ASSUME NEW n \in 1..Cardinality(R) PROVE Min(ones(n)) = Nth(R, n)
  <2>1. Nth(R, n) \in ones(n)
    BY <1>1, NthIs
  <2>2. ASSUME NEW i \in ones(n) PROVE i = Nth(R, n)
    <3>1. i \in R /\ Cardinality(R \cap 1..i) = n
      OBVIOUS
    <3>2. Nth(R, Cardinality(R \cap 1..i)) = i
      BY <1>1, <3>1, NthCount
    <3>. QED
      BY <3>1, <3>2
  <2>3. ones(n) \in SUBSET (0..Len(f))
    <3>1. \A i \in ones(n) : i \in R
      OBVIOUS
    <3>2. \A i \in R : i \in 0..Len(f)
      BY <1>1
    <3>. HIDE DEF ones
    <3>. QED
      BY <3>1, <3>2
  <2>. HIDE DEF ones
  <2>4. Min(ones(n)) \in ones(n)
    BY <1>1, <2>1, <2>3, MinIn
  <2>. QED
    BY <2>2, <2>4
<1>4. Remarks(f) = [n \in 1..Cardinality(R) |-> f[Nth(R, n)]]
  BY <1>2, <1>3
<1>. QED
  BY <1>1, <1>4 DEF R

LEMMA GrownRemarks ==
  ASSUME NEW f, NEW g, NEW p, NEW d, NEW last, NEW at, NEW m, Grown(f, g, p, d, last, at, m)
  PROVE  Remarks(g) = Remarks(f)
<1>. DEFINE R == RemarkLines(f)
            T == RemarkLines(g)
<1>0. \A j \in 1..Len(g) : \/ \E i \in 1..Len(f) : j = Sh(at, m, i)
                           \/ \E n \in 1..m : j = at + n
  BY GrownLines
<1>1. /\ IsFile(f) /\ IsFile(g) /\ DOMAIN f = 1..Len(f) /\ DOMAIN g = 1..Len(g)
      /\ \A i \in 1..Len(f) : Sh(at, m, i) \in 1..Len(g) /\ g[Sh(at, m, i)] = f[i]
  BY GrownLines
<1>2. /\ \A k \in 1..Len(f) : f[k].kind = "comment" =>
           (Sh(at, m, k) \in InScalars(g) <=> k \in InScalars(f))
      /\ \A n \in 1..m : g[at + n].kind # "comment"
  BY GrownInScalars DEF Grown
<1>3. \A k \in R : Sh(at, m, k) \in T
  BY <1>1, <1>2 DEF RemarkLines
<1>4. ASSUME NEW j \in T PROVE \E k \in R : j = Sh(at, m, k)
  <2>1. j \in 1..Len(g) /\ j \notin InScalars(g) /\ g[j].kind = "comment"
    BY <1>1 DEF RemarkLines
  <2>2. PICK k \in 1..Len(f) : j = Sh(at, m, k)
    BY <1>0, <1>2, <2>1
  <2>3. k \in R
    BY <1>1, <1>2, <2>1, <2>2 DEF RemarkLines
  <2>. QED
    BY <2>2, <2>3
<1>5. T = Shifted(at, m, R)
  BY <1>3, <1>4 DEF Shifted
<1>6. /\ R \in SUBSET (1..Len(f)) /\ Len(f) \in Nat
      /\ Remarks(f) = [n \in 1..Cardinality(R) |-> f[Nth(R, n)]]
      /\ Remarks(g) = [n \in 1..Cardinality(T) |-> g[Nth(T, n)]]
  BY <1>1, RemarksInOrder
<1>7. at \in Nat /\ m \in Nat
  BY GrownGap
<1>. HIDE DEF R, T
<1>8. Cardinality(T) = Cardinality(R)
  <2>1. Cardinality(Shifted(at, m, R)) = Cardinality(R)
    BY <1>6, <1>7, ShiftCount
  <2>. QED
    BY <1>5, <2>1
<1>9. ASSUME NEW n \in 1..Cardinality(R) PROVE g[Nth(T, n)] = f[Nth(R, n)]
  <2>1. Nth(R, n) \in 1..Len(f)
    BY <1>6, NthIs
  <2>2. Nth(Shifted(at, m, R), n) = Sh(at, m, Nth(R, n))
    BY <1>6, <1>7, NthShift
  <2>3. g[Sh(at, m, Nth(R, n))] = f[Nth(R, n)]
    BY <1>1, <2>1
  <2>. QED
    BY <1>5, <2>2, <2>3
<1>. QED
  BY <1>6, <1>8, <1>9

-----------------------------------------------------------------------------
(* What an edit of a path leaves as it was. *)

Paths(f) == {PathOf(f, i) : i \in Keys(f)}

LineOf(f, path) == Line(Tree(f), path)

LEMMA LineOfPath ==
  ASSUME NEW f, Sound(f), NEW i \in Keys(f)
  PROVE  /\ PathOf(f, i) \in Paths(f) /\ LineOf(f, PathOf(f, i)) = i
         /\ Found(Tree(f), PathOf(f, i)) = {i}
<1>1. Found(Tree(f), PathOf(f, i)) = {i}
  BY FoundLines DEF Sound, UniquePaths
<1>. QED
  BY <1>1 DEF Line, LineOf, Paths

(* Of what f says, g says all but what is said at the paths T: paths are added
   to others, and none that would be an object's key or a container. *)
Kept(f, g, T) ==
  /\ Paths(f) \subseteq Paths(g)
  /\ \A q \in Paths(g) \ Paths(f) :
       Len(q) \notin {2, 4} /\ (q \in T \/ ~Leaf(g, LineOf(g, q)))
  /\ \A q \in Paths(f) \ T : /\ Leaf(g, LineOf(g, q)) <=> Leaf(f, LineOf(f, q))
                             /\ Scalar(g, LineOf(g, q)) = Scalar(f, LineOf(f, q))
  /\ Remarks(g) = Remarks(f)

(* What an edit is to do. *)
SaysAt(g, path, value) == path \in Paths(g) /\ Scalar(g, LineOf(g, path)) = <<value>>

LEMMA InsertionKeeps ==
  ASSUME NEW f, NEW g, NEW p, NEW d, NEW last, NEW at, NEW m, NEW path,
         Insertion(f, g, p, d, last, at, m, path),
         Len(path) = 3 \/ Len(path) - m >= 4, Covered(g)
  PROVE  /\ Sound(g) /\ Covered(f) /\ Kept(f, g, {path})
         /\ SaysAt(g, path, g[at + m].value)
<1>1. /\ Grown(f, g, p, d, last, at, m) /\ Len(path) \in Nat /\ m \in Nat \ {0}
      /\ Len(path) - m >= 2
      /\ \A i \in Keys(f) : PathOf(g, Sh(at, m, i)) = PathOf(f, i)
      /\ \A n \in 1..m : /\ PathOf(g, at + n) = SubSeq(path, 1, Len(path) - m + n)
                         /\ Len(PathOf(g, at + n)) = Len(path) - m + n
  BY InsertionPaths
<1>2. Sound(f) /\ Sound(g) /\ Covered(f)
  BY <1>1, GrownSound, GrownCovered DEF Grown, Gap
<1>3. /\ \A j \in Keys(g) : (\E i \in Keys(f) : j = Sh(at, m, i)) \/ \E n \in 1..m : j = at + n
      /\ \A i \in Keys(f) : Sh(at, m, i) \in Keys(g)
      /\ \A n \in 1..m : at + n \in Keys(g)
  BY <1>1, GrownKeys, SMTT(30)
<1>4. path \in Seq(Range(path)) /\ PathOf(g, at + m) = path
  <2>1. m \in 1..m /\ Len(path) - m + m = Len(path) /\ path \in Seq(Range(path))
    BY <1>1, SMTT(30) DEF Insertion
  <2>2. PathOf(g, at + m) = SubSeq(path, 1, Len(path))
    BY <1>1, <2>1
  <2>. QED
    BY <2>1, <2>2, SubSeqFull
<1>5. ASSUME NEW q \in Paths(f)
      PROVE  \E i \in Keys(f) : /\ PathOf(f, i) = q /\ LineOf(f, q) = i
                                /\ Sh(at, m, i) \in Keys(g) /\ q \in Paths(g)
                                /\ LineOf(g, q) = Sh(at, m, i)
  <2>1. PICK i \in Keys(f) : PathOf(f, i) = q
    BY DEF Paths
  <2>2. LineOf(f, q) = i
    BY <1>2, <2>1, LineOfPath
  <2>3. LineOf(g, PathOf(g, Sh(at, m, i))) = Sh(at, m, i) /\ PathOf(g, Sh(at, m, i)) \in Paths(g)
    BY <1>2, <1>3, LineOfPath
  <2>. QED
    BY <1>1, <1>3, <2>1, <2>2, <2>3
<1>6. ASSUME NEW q \in Paths(g) \ Paths(f)
      PROVE  Len(q) \notin {2, 4} /\ (q \in {path} \/ ~Leaf(g, LineOf(g, q)))
  <2>1. PICK j \in Keys(g) : PathOf(g, j) = q
    BY DEF Paths
  <2>2. \A i \in Keys(f) : j # Sh(at, m, i)
    BY <1>1, <2>1 DEF Paths
  <2>3. PICK n \in 1..m : j = at + n
    BY <1>3, <2>2
  <2>4. Len(q) = Len(path) - m + n
    BY <1>1, <2>1, <2>3
  <2>5. Len(q) \notin {2, 4}
    <3>1. Len(path) - m + n > 2
      BY <1>1
    <3>2. Len(path) - m + n # 4
      <4>1. CASE Len(path) = 3
        BY <1>1, <4>1
      <4>2. CASE Len(path) - m >= 4
        BY <1>1, <4>2
      <4>. QED
        BY <4>1, <4>2
    <3>. QED
      BY <1>1, <2>4, <3>1, <3>2
  <2>6. LineOf(g, q) = j
    BY <1>2, <2>1, LineOfPath
  <2>7. CASE n = m
    BY <1>4, <2>1, <2>3, <2>5, <2>7
  <2>8. CASE n # m
    BY <2>3, <2>5, <2>6, <2>8, GrownLeaves
  <2>. QED
    BY <2>7, <2>8
<1>7. ASSUME NEW q \in Paths(f)
      PROVE  /\ Leaf(g, LineOf(g, q)) <=> Leaf(f, LineOf(f, q))
             /\ Scalar(g, LineOf(g, q)) = Scalar(f, LineOf(f, q))
  <2>1. PICK i \in Keys(f) : /\ LineOf(f, q) = i /\ LineOf(g, q) = Sh(at, m, i)
    BY <1>5
  <2>2. Leaf(g, Sh(at, m, i)) <=> Leaf(f, i)
    BY GrownLeaves
  <2>3. Scalar(g, Sh(at, m, i)) = Scalar(f, i)
    BY <1>1, GrownScalar
  <2>. QED
    BY <2>1, <2>2, <2>3
<1>8. Remarks(g) = Remarks(f)
  BY <1>1, GrownRemarks
<1>9. SaysAt(g, path, g[at + m].value)
  <2>1. m \in 1..m /\ at + m \in Keys(g) /\ IsFile(g)
    BY <1>1, <1>3, GrownGap
  <2>2. at + m \in DOMAIN g /\ Body(g, at + m) = {}
    BY <1>1, <2>1, AddedBody, KeyLines
  <2>3. Scalar(g, at + m) = <<g[at + m].value>>
    BY <2>1, <2>2, ScalarOfOneLine
  <2>4. path \in Paths(g) /\ LineOf(g, path) = at + m
    BY <1>2, <1>4, <2>1, LineOfPath
  <2>. QED
    BY <2>3, <2>4 DEF SaysAt
<1>10. Paths(f) \subseteq Paths(g)
  BY <1>5
<1>11. Kept(f, g, {path})
  BY <1>6, <1>7, <1>8, <1>10 DEF Kept
<1>. QED
  BY <1>2, <1>9, <1>11

-----------------------------------------------------------------------------
(* Lines that are put between others. *)

LEMMA Joined ==
  ASSUME NEW S, NEW s \in Seq(S), NEW t \in Seq(S)
  PROVE  /\ s \o t \in Seq(S) /\ Len(s \o t) = Len(s) + Len(t)
         /\ \A i \in 1..Len(s) : (s \o t)[i] = s[i]
         /\ \A i \in 1..Len(t) : (s \o t)[Len(s) + i] = t[i]
<1>1. Len(s) \in Nat /\ Len(t) \in Nat
  OBVIOUS
<1>2. \A i \in 1 .. Len(s) + Len(t) : (s \o t)[i] = IF i <= Len(s) THEN s[i] ELSE t[i - Len(s)]
  BY ConcatProperties
<1>3. ASSUME NEW i \in 1..Len(s) PROVE (s \o t)[i] = s[i]
  BY <1>1, <1>2
<1>4. ASSUME NEW i \in 1..Len(t) PROVE (s \o t)[Len(s) + i] = t[i]
  <2>1. Len(s) + i \in 1 .. Len(s) + Len(t) /\ ~(Len(s) + i <= Len(s)) /\ Len(s) + i - Len(s) = i
    BY <1>1
  <2>. QED
    BY <1>2, <2>1
<1>. QED
  BY <1>3, <1>4, ConcatProperties

(* g is f with lines added behind the line at. *)
Spliced(f, added, at, g) ==
  /\ Len(g) = Len(f) + Len(added)
  /\ \A i \in 1..Len(f) : g[Sh(at, Len(added), i)] = f[i]
  /\ \A n \in 1..Len(added) : g[at + n] = added[n]

LEMMA CutAndAdd ==
  ASSUME NEW S, NEW f \in Seq(S), NEW added \in Seq(S), NEW at \in 0..Len(f),
         NEW g, g = SubSeq(f, 1, at) \o added \o SubSeq(f, at + 1, Len(f))
  PROVE  Spliced(f, added, at, g)
<1>. DEFINE low  == SubSeq(f, 1, at)
            high == SubSeq(f, at + 1, Len(f))
<1>1. /\ low \in Seq(S) /\ Len(low) = at
      /\ \A i \in 1..at : low[i] = f[i]
  OBVIOUS
<1>2. /\ high \in Seq(S) /\ Len(high) = Len(f) - at
      /\ \A i \in 1 .. Len(f) - at : high[i] = f[i + at]
  BY SMTT(30)
<1>. HIDE DEF low, high
<1>3. /\ low \o added \in Seq(S) /\ Len(low \o added) = at + Len(added)
      /\ \A i \in 1..at : (low \o added)[i] = low[i]
      /\ \A n \in 1..Len(added) : (low \o added)[at + n] = added[n]
  <2>1. /\ low \o added \in Seq(S) /\ Len(low \o added) = Len(low) + Len(added)
        /\ \A i \in 1..Len(low) : (low \o added)[i] = low[i]
        /\ \A n \in 1..Len(added) : (low \o added)[Len(low) + n] = added[n]
    <3>1. low \in Seq(S)
      BY <1>1
    <3>. QED
      BY <3>1, Joined
  <2>. QED
    BY <1>1, <2>1
<1>. DEFINE start == low \o added
<1>4. /\ Len(g) = Len(f) + Len(added)
      /\ \A i \in 1 .. at + Len(added) : g[i] = start[i]
      /\ \A i \in 1 .. Len(f) - at : g[at + Len(added) + i] = high[i]
  <2>1. g = start \o high
    BY DEF low, high
  <2>2. start \in Seq(S) /\ Len(start) = at + Len(added)
    BY <1>3
  <2>. HIDE DEF start
  <2>3. Len(f) \in Nat /\ Len(added) \in Nat /\ at \in Nat
    OBVIOUS
  <2>4. /\ Len(start \o high) = Len(start) + Len(high)
        /\ \A i \in 1..Len(start) : (start \o high)[i] = start[i]
        /\ \A i \in 1..Len(high) : (start \o high)[Len(start) + i] = high[i]
    <3>1. start \in Seq(S) /\ high \in Seq(S)
      BY <1>2, <2>2
    <3>. QED
      BY <3>1, Joined, SMTT(30)
  <2>5. /\ Len(start) + Len(high) = Len(f) + Len(added)
        /\ Len(start) = at + Len(added) /\ Len(high) = Len(f) - at
    BY <1>2, <2>2, <2>3
  <2>6. Len(g) = Len(f) + Len(added)
    BY <2>1, <2>4, <2>5
  <2>7. \A i \in 1 .. at + Len(added) : g[i] = start[i]
    BY <2>1, <2>4, <2>5
  <2>8. \A i \in 1 .. Len(f) - at : g[at + Len(added) + i] = high[i]
    BY <2>1, <2>4, <2>5
  <2>. QED
    BY <2>6, <2>7, <2>8
<1>0. Len(f) \in Nat /\ Len(added) \in Nat /\ at \in Nat
  OBVIOUS
<1>5. ASSUME NEW i \in 1..Len(f) PROVE g[Sh(at, Len(added), i)] = f[i]
  <2>0. i \in Nat /\ (i <= at \/ i > at)
    BY <1>0
  <2>1. CASE i <= at
    <3>1. i \in 1..at /\ i \in 1 .. at + Len(added)
      BY <1>0, <2>1
    <3>. QED
      BY <1>1, <1>3, <1>4, <2>1, <3>1 DEF Sh
  <2>2. CASE i > at
    <3>1. i - at \in 1 .. Len(f) - at /\ at + Len(added) + (i - at) = i + Len(added)
          /\ i - at + at = i /\ ~(i <= at) /\ i \in Int
      BY <1>0, <2>2
    <3>2. g[i + Len(added)] = high[i - at] /\ high[i - at] = f[i - at + at]
      BY <1>2, <1>4, <3>1
    <3>3. Sh(at, Len(added), i) = i + Len(added)
      BY <3>1 DEF Sh
    <3>. QED
      BY <3>1, <3>2, <3>3
  <2>. QED
    BY <2>0, <2>1, <2>2
<1>6. ASSUME NEW n \in 1..Len(added) PROVE g[at + n] = added[n]
  <2>1. at + n \in 1 .. at + Len(added)
    BY <1>0
  <2>. QED
    BY <1>3, <1>4, <2>1
<1>. QED
  BY <1>4, <1>5, <1>6 DEF Spliced

LEMMA EndOf ==
  ASSUME NEW S, NEW p \in Seq(S), NEW n \in 1..Len(p)
  PROVE  /\ SubSeq(p, n, Len(p)) \in Seq(S) /\ Len(SubSeq(p, n, Len(p))) = Len(p) - n + 1
         /\ \A r \in 1 .. Len(p) - n + 1 : SubSeq(p, n, Len(p))[r] = p[n - 1 + r]
OBVIOUS

LEMMA NotFound ==
  ASSUME NEW f, NEW q, Found(Tree(f), q) = {}, NEW i \in Keys(f)
  PROVE  PathOf(f, i) # q
BY FoundLines

(* g is f with the keys of a path inserted that are missing. *)
KeysInserted(f, g, path, value) ==
  LET depth == Max(Existing(Tree(f), path)) IN
  /\ depth \in Existing(Tree(f), path) /\ \A n \in Existing(Tree(f), path) : n <= depth
  /\ \E p, d, last, at : /\ Insertion(f, g, p, d, last, at, Len(path) - depth, path)
                         /\ g[at + (Len(path) - depth)].value = value

(* Keys that are missing are inserted below the last key of their path that is
   there, and none of them is there already. *)
LEMMA MissingInserted ==
  ASSUME NEW res, IsResult(res), NEW f, f = res.lines, Sound(f),
         NEW tree, tree = Tree(f),
         NEW path, path \in Seq(Range(path)), Found(tree, path) = {}, NEW field, NEW value,
         NEW next, next = SetMissing(res, tree, path, field, value), next.ok
  PROVE  KeysInserted(f, next.lines, path, value)
<1>. DEFINE exist == Existing(tree, path)
            depth == Max(exist)
            parent == SubSeq(path, 1, depth)
            missing == SubSeq(path, depth + 1, Len(path))
            style == IF field = "replicas" THEN "plain" ELSE "quoted"
            p == Line(tree, parent)
            d == f[Min({x.line : x \in Children(tree, parent)})].indent
            at == InsertionLine(f, tree, parent, d)
            m == Len(path) - depth
            added == [n \in DOMAIN missing |->
                        LET column == d + 2 * (n - 1) IN
                        IF n < Len(missing) THEN Entry(column, missing[n], "nothing", None)
                        ELSE Entry(column, missing[n], style, value)]
            g == SubSeq(f, 1, at) \o added \o SubSeq(f, at + 1, Len(f))
<1>1. /\ exist # {} /\ BlockMapping(f, tree, parent)
      /\ next = Edited(res, InsertKeys(f, tree, parent, missing, value, style),
                       field, None, value)
  <2>1. ~Error.ok
    BY DEF Error
  <2>2. CASE exist = {} \/ ~BlockMapping(f, tree, parent)
    BY <2>1, <2>2 DEF SetMissing, Existing
  <2>3. CASE ~(exist = {} \/ ~BlockMapping(f, tree, parent))
    BY <2>3 DEF SetMissing, Existing
  <2>. QED
    BY <2>2, <2>3
<1>2. InsertKeys(f, tree, parent, missing, value, style) = g
  BY DEF InsertKeys
<1>3. /\ Len(path) \in Nat /\ depth \in exist /\ \A n \in exist : n <= depth
      /\ depth \in 2 .. Len(path) - 1 /\ Found(tree, parent) # {}
  <2>1. Len(path) \in Nat
    OBVIOUS
  <2>2. exist \in SUBSET (0..Len(path))
    BY <2>1 DEF Existing
  <2>3. depth \in exist /\ \A n \in exist : n <= depth
    BY <1>1, <2>1, <2>2, MaxIn
  <2>. QED
    BY <2>1, <2>3 DEF Existing
<1>. HIDE DEF exist, depth
<1>4. /\ m \in Nat \ {0} /\ depth \in Nat /\ Len(path) - m = depth /\ depth >= 2
      /\ depth + m = Len(path)
  BY <1>3
<1>5. IsFile(f) /\ IsFile(g) /\ f \in Seq(Range(f)) /\ Len(f) \in Nat /\ DOMAIN f = 1..Len(f)
  <2>1. IsFile(f)
    BY DEF Sound
  <2>2. IsFile(InsertKeys(f, tree, parent, missing, value, style))
    BY <1>1, <2>1, InsertedFile DEF exist, depth
  <2>3. IsFile(g)
    BY <1>2, <2>2
  <2>4. f \in Seq(Range(f))
    BY <2>1 DEF IsFile
  <2>. QED
    BY <2>1, <2>3, <2>4, LinesOf
<1>6. /\ next = Edited(res, next.lines, field, None, value) /\ next.lines = g
  <2>. HIDE DEF g, missing, style, parent
  <2>1. next = Edited(res, g, field, None, value)
    BY <1>1, <1>2
  <2>2. next.lines = g
    BY <2>1, EditedResult
  <2>. QED
    BY <2>1, <2>2
<1>7. /\ missing \in Seq(Range(path)) /\ Len(missing) = m /\ DOMAIN missing = 1..m
      /\ \A n \in 1..m : missing[n] = path[depth + n]
  <2>. HIDE DEF m
  <2>1. depth + 1 \in 1 .. Len(path) /\ Len(path) - (depth + 1) + 1 = m
    BY <1>3, <1>4
  <2>2. /\ missing \in Seq(Range(path)) /\ Len(missing) = Len(path) - (depth + 1) + 1
        /\ \A n \in 1 .. Len(path) - (depth + 1) + 1 : missing[n] = path[depth + n]
    BY <1>3, <2>1, EndOf
  <2>3. DOMAIN missing = 1..Len(missing)
    BY <2>2
  <2>. QED
    BY <2>1, <2>2, <2>3
<1>8. p \in Keys(f) /\ PathOf(f, p) = parent
  BY <1>3, ParentLine
<1>9. /\ parent \in Seq(Range(path)) /\ Len(parent) = depth
  BY <1>3, StartOf
<1>10. PICK last : Gap(f, p, d, last, at)
  BY <1>1, <1>8, InsertionGap
<1>11. at \in 1..Len(f) /\ d \in Nat
  BY <1>10, GapLines
<1>. HIDE DEF p, d, at, parent, missing, m
<1>12. /\ DOMAIN added = 1..m /\ Len(added) = m /\ added \in Seq(Range(added))
       /\ \A n \in 1..m : added[n] = IF n < m THEN Entry(d + 2 * (n - 1), missing[n], "nothing", None)
                                      ELSE Entry(d + 2 * (n - 1), missing[n], style, value)
  <2>1. /\ added = [n \in 1..m |-> added[n]] /\ DOMAIN added = 1..m
        /\ \A n \in 1..m : added[n] = IF n < m
                                      THEN Entry(d + 2 * (n - 1), missing[n], "nothing", None)
                                      ELSE Entry(d + 2 * (n - 1), missing[n], style, value)
    BY <1>7
  <2>. HIDE DEF added
  <2>2. \A n \in 1..m : added[n] \in Range(added)
    BY <2>1 DEF Range
  <2>3. m \in Nat
    BY <1>4
  <2>4. added \in Seq(Range(added)) /\ Len(added) = m
    <3>. HIDE DEF m
    <3>. QED
      BY <2>1, <2>2, <2>3
  <2>. QED
    BY <2>1, <2>4
<1>. HIDE DEF added
<1>13. /\ Len(g) = Len(f) + m
       /\ \A i \in 1..Len(f) : g[Sh(at, m, i)] = f[i]
       /\ \A n \in 1..m : g[at + n] = added[n]
  <2>. DEFINE S == Range(f) \union Range(added)
  <2>1. f \in Seq(S) /\ added \in Seq(S) /\ at \in 0..Len(f) /\ at \in Nat
    BY <1>5, <1>11, <1>12
  <2>. HIDE DEF S
  <2>2. g = SubSeq(f, 1, at) \o added \o SubSeq(f, at + 1, Len(f))
    OBVIOUS
  <2>. HIDE DEF g
  <2>3. Spliced(f, added, at, g)
    BY <2>1, <2>2, CutAndAdd
  <2>. QED
    BY <1>12, <2>3 DEF Spliced
<1>. HIDE DEF g
<1>14. /\ \A n \in 1..m : /\ g[at + n].kind = "entry" /\ g[at + n].indent = d + 2 * (n - 1)
                          /\ g[at + n].key = path[depth + n]
                          /\ n < m => g[at + n].style = "nothing"
       /\ g[at + m].style \in {"plain", "quoted"} /\ g[at + m].value = value
  <2>1. ASSUME NEW n \in 1..m
        PROVE  /\ g[at + n].kind = "entry" /\ g[at + n].indent = d + 2 * (n - 1)
               /\ g[at + n].key = path[depth + n]
               /\ n < m => g[at + n].style = "nothing"
    BY <1>7, <1>12, <1>13 DEF Entry
  <2>2. m \in 1..m /\ ~(m < m)
    BY <1>4
  <2>3. g[at + m] = Entry(d + 2 * (m - 1), missing[m], style, value)
    BY <1>12, <1>13, <2>2
  <2>. QED
    BY <2>1, <2>3 DEF Entry
<1>15. Grown(f, g, p, d, last, at, m)
  BY <1>4, <1>5, <1>10, <1>13, <1>14 DEF Grown
<1>16. ASSUME NEW n \in 1..m, NEW i \in Keys(f)
       PROVE  PathOf(f, i) # SubSeq(path, 1, depth + n)
  <2>1. CASE n = m
    <3>1. SubSeq(path, 1, depth + n) = path
      BY <1>4, <2>1, SubSeqFull
    <3>. QED
      BY <3>1, NotFound
  <2>2. CASE n # m
    <3>1. depth + n \in 2 .. Len(path) - 1 /\ ~(depth + n <= depth)
      BY <1>3, <1>4, <2>2
    <3>2. Found(tree, SubSeq(path, 1, depth + n)) = {}
      BY <1>3, <3>1 DEF Existing, exist
    <3>. QED
      BY <3>2, NotFound
  <2>. QED
    BY <2>1, <2>2
<1>17. Insertion(f, g, p, d, last, at, m, path)
  BY <1>4, <1>8, <1>9, <1>14, <1>15, <1>16 DEF Insertion, parent
<1>. QED
  BY <1>3, <1>6, <1>14, <1>17 DEF KeysInserted, exist, depth, m

(* A scalar that is replaced is the only one that changes. *)
LEMMA ReplacementKeeps ==
  ASSUME NEW f, Sound(f), NEW i \in Keys(f), Replaceable(f, i), NEW value,
         NEW g, g = ReplaceScalar(f, i, value)
  PROVE  /\ Sound(g)
         /\ Covered(g) => Covered(f)
         /\ Kept(f, g, {PathOf(f, i)}) /\ SaysAt(g, PathOf(f, i), value)
<1>1. /\ IsFile(f) /\ IsFile(g) /\ SameShape(f, g) /\ i \in DOMAIN f /\ f[i].kind = "entry"
      /\ g[i] = [f[i] EXCEPT !.value = value]
      /\ \A j \in DOMAIN f : j # i => g[j] = f[j]
  <2>1. IsFile(f)
    BY DEF Sound
  <2>2. i \in DOMAIN f /\ f[i].kind = "entry"
    BY <2>1, KeyLines
  <2>. QED
    BY <2>1, <2>2, ReplacedLine
<1>2. /\ Heads(g) = Heads(f) /\ Keys(g) = Keys(f) /\ Tree(g) = Tree(f)
      /\ Keys(f) \subseteq DOMAIN f /\ Keys(f) \subseteq Heads(f) /\ DOMAIN g = DOMAIN f
  BY <1>1, KeysOfShape, TreeOfShape DEF SameShape, Keys
<1>3. \A j \in Heads(f) : Body(g, j) = Body(f, j)
  BY <1>1, BodyOfShape
<1>4. ASSUME NEW j \in Keys(f)
      PROVE  PathOf(g, j) = PathOf(f, j) /\ Above(g, j) = Above(f, j)
  <2>1. [line |-> j, path |-> PathOf(f, j)] \in Tree(g)
    BY <1>2, TreeOfPaths
  <2>2. PathOf(f, j) = PathOf(g, j)
    BY <2>1, LinesOfTheTree
  <2>. QED
    BY <1>1, <1>2, <2>2, NestingOfShape DEF Above
<1>5. /\ \A j \in Keys(f) : g[j].style = f[j].style
      /\ \A j \in DOMAIN f : g[j].indent = f[j].indent /\ g[j].kind = f[j].kind
  <2>1. \A j \in Keys(f) : f[j].kind = "entry" /\ j \in DOMAIN f
    BY <1>1, KeyLines
  <2>. QED
    BY <1>1, <2>1 DEF SameShape
<1>6. \A p, c : Child(g, p, c) <=> Child(f, p, c)
  <2>. SUFFICES ASSUME NEW p, NEW c, c \in Keys(f) PROVE Child(g, p, c) <=> Child(f, p, c)
    BY <1>2 DEF Child
  <2>1. p \in Above(f, c) => p \in Keys(f)
    BY <1>1, AboveFacts
  <2>. QED
    BY <1>2, <1>4, <2>1 DEF Child
<1>7. Sound(g)
  <2>1. \A a, b \in Keys(g) : PathOf(g, a) = PathOf(g, b) => a = b
    BY <1>2, <1>4 DEF Sound, UniquePaths
  <2>2. \A a \in Keys(g) : Len(PathOf(g, a)) = 2 => g[a].indent = 0
    BY <1>2, <1>4, <1>5 DEF Sound
  <2>3. \A p \in Keys(g) : \A c : Child(g, p, c) => g[p].style = "nothing"
    BY <1>2, <1>5, <1>6 DEF Sound
  <2>4. ASSUME NEW p \in Keys(g), NEW b, NEW c, Child(g, p, b), Child(g, p, c)
        PROVE  g[b].indent = g[c].indent
    <3>1. b \in DOMAIN f /\ c \in DOMAIN f /\ Child(f, p, b) /\ Child(f, p, c)
      BY <1>2, <1>6, <2>4 DEF Child
    <3>2. f[b].indent = f[c].indent
      BY <1>2, <3>1 DEF Sound
    <3>. QED
      BY <1>5, <3>1, <3>2
  <2>5. Unparted(g)
    <3>1. \A a \in Keys(f) : \A j \in Body(f, a) : j \in DOMAIN f
      BY <1>1, <1>2, BodyFacts, KeyLines
    <3>2. Unparted(f)
      BY DEF Sound
    <3>. QED
      BY <1>2, <1>3, <1>5, <3>1, <3>2 DEF Unparted
  <2>. QED
    BY <1>1, <2>1, <2>2, <2>3, <2>4, <2>5 DEF Sound, UniquePaths
<1>8. Covered(g) => Covered(f)
  BY <1>2, <1>3, <1>5 DEF Covered
<1>9. ASSUME NEW j \in Keys(f), j # i PROVE Scalar(g, j) = Scalar(f, j)
  <2>1. j \in Heads(f) /\ j \in Heads(g) /\ j \in DOMAIN f /\ j + 0 = j /\ j \in Int
    BY <1>1, <1>2, KeyLines
  <2>2. ASSUME NEW k \in Body(f, j) PROVE k # i /\ k \in DOMAIN f /\ g[k] = f[k]
    <3>1. k \in DOMAIN f
      BY <1>1, <2>1, BodyFacts, KeyLines
    <3>. QED
      BY <1>1, <2>1, <3>1, KeysAreFree
  <2>3. TextEnd(g, j) = TextEnd(f, j)
    <3>1. {k \in Body(g, j) : g[k].kind # "blank"} = {k \in Body(f, j) : f[k].kind # "blank"}
      BY <1>3, <2>1, <2>2
    <3>. QED
      BY <3>1 DEF TextEnd
  <2>4. ASSUME NEW k \in j + 1 .. TextEnd(f, j) PROVE g[k + 0] = f[k]
    <3>1. TextEnd(f, j) \in Body(f, j)
      <4>1. TextEnd(f, j) \in j .. Len(f) /\ (TextEnd(f, j) # j => TextEnd(f, j) \in Body(f, j))
        BY <1>1, <2>1, TextEndFacts
      <4>. QED
        BY <2>1, <4>1
    <3>2. k \in Body(f, j)
      BY <1>1, <2>1, <3>1, BodyFacts
    <3>3. k + 0 = k
      BY <2>1
    <3>. QED
      BY <2>2, <3>2, <3>3
  <2>5. TextEnd(g, j) = TextEnd(f, j) + 0
    <3>1. TextEnd(f, j) \in j .. Len(f) /\ Len(f) \in Nat
      BY <1>1, <2>1, TextEndFacts
    <3>2. TextEnd(f, j) \in Int
      BY <2>1, <3>1
    <3>. QED
      BY <2>3, <3>2
  <2>6. /\ IsFile(f) /\ IsFile(g) /\ j \in Heads(f) /\ j \in Heads(g) /\ 0 \in Nat /\ j = j + 0
        /\ f[j].value = g[j].value
    BY <1>1, <1>9, <2>1
  <2>. QED
    BY <2>4, <2>5, <2>6, SameText
<1>10. Scalar(g, i) = <<value>>
  <2>1. Body(g, i) = {}
    BY <1>2, <1>3 DEF Replaceable
  <2>2. g[i].value = value
    <3>1. f[i] = Entry(f[i].indent, f[i].key, f[i].style, f[i].value)
      BY <1>1 DEF IsFile
    <3>. QED
      BY <1>1, <3>1 DEF Entry
  <2>3. IsFile(g) /\ i \in DOMAIN g
    BY <1>1, <1>2
  <2>4. Scalar(g, i) = <<g[i].value>>
    BY <2>1, <2>3, ScalarOfOneLine
  <2>. QED
    BY <2>2, <2>4
<1>11. Remarks(g) = Remarks(f)
  <2>1. InScalars(g) = InScalars(f)
    BY <1>2, <1>3 DEF InScalars
  <2>2. RemarkLines(g) = RemarkLines(f)
    BY <1>2, <1>5, <2>1 DEF RemarkLines
  <2>3. /\ RemarkLines(f) \in SUBSET (1..Len(f)) /\ Len(f) \in Nat
        /\ Remarks(f) = [n \in 1..Cardinality(RemarkLines(f)) |-> f[Nth(RemarkLines(f), n)]]
        /\ Remarks(g) = [n \in 1..Cardinality(RemarkLines(g)) |-> g[Nth(RemarkLines(g), n)]]
    BY <1>1, RemarksInOrder
  <2>4. ASSUME NEW n \in 1..Cardinality(RemarkLines(f))
        PROVE  g[Nth(RemarkLines(f), n)] = f[Nth(RemarkLines(f), n)]
    <3>1. Nth(RemarkLines(f), n) \in RemarkLines(f)
      BY <2>3, NthIs
    <3>. QED
      BY <1>1, <3>1 DEF RemarkLines
  <2>. QED
    BY <2>2, <2>3, <2>4
<1>12. Paths(g) = Paths(f) /\ \A q : LineOf(g, q) = LineOf(f, q)
  <2>1. Paths(g) = Paths(f)
    BY <1>2, <1>4 DEF Paths
  <2>. QED
    BY <1>2, <2>1 DEF LineOf
<1>13. ASSUME NEW q \in Paths(f)
       PROVE  /\ Leaf(g, LineOf(g, q)) <=> Leaf(f, LineOf(f, q))
              /\ q # PathOf(f, i) => Scalar(g, LineOf(g, q)) = Scalar(f, LineOf(f, q))
  <2>1. PICK j \in Keys(f) : PathOf(f, j) = q /\ LineOf(f, q) = j
    BY LineOfPath DEF Paths
  <2>2. q # PathOf(f, i) => j # i
    BY <2>1
  <2>. QED
    BY <1>6, <1>9, <1>12, <2>1, <2>2 DEF Leaf
<1>14. Kept(f, g, {PathOf(f, i)})
  BY <1>11, <1>12, <1>13 DEF Kept
<1>15. SaysAt(g, PathOf(f, i), value)
  BY <1>10, <1>12, LineOfPath DEF SaysAt
<1>. QED
  BY <1>7, <1>8, <1>14, <1>15

LEMMA KeptSame ==
  ASSUME NEW f, NEW T
  PROVE  Kept(f, f, T)
BY DEF Kept

LEMMA KeptMore ==
  ASSUME NEW f, NEW g, NEW T, NEW U, Kept(f, g, T), T \subseteq U
  PROVE  Kept(f, g, U)
BY DEF Kept

LEMMA KeptOn ==
  ASSUME NEW f, NEW g, NEW h, NEW T, Kept(f, g, T), Kept(g, h, T)
  PROVE  Kept(f, h, T)
<1>1. Paths(f) \subseteq Paths(g) /\ Paths(g) \subseteq Paths(h) /\ Remarks(h) = Remarks(f)
  BY DEF Kept
<1>2. ASSUME NEW q \in Paths(h) \ Paths(f)
      PROVE  Len(q) \notin {2, 4} /\ (q \in T \/ ~Leaf(h, LineOf(h, q)))
  <2>1. CASE q \in Paths(g)
    <3>1. Len(q) \notin {2, 4} /\ (q \in T \/ ~Leaf(g, LineOf(g, q)))
      BY <2>1 DEF Kept
    <3>2. q \notin T => (Leaf(h, LineOf(h, q)) <=> Leaf(g, LineOf(g, q)))
      BY <2>1 DEF Kept
    <3>. QED
      BY <3>1, <3>2
  <2>2. CASE q \notin Paths(g)
    BY <2>2 DEF Kept
  <2>. QED
    BY <2>1, <2>2
<1>3. ASSUME NEW q \in Paths(f) \ T
      PROVE  /\ Leaf(h, LineOf(h, q)) <=> Leaf(f, LineOf(f, q))
             /\ Scalar(h, LineOf(h, q)) = Scalar(f, LineOf(f, q))
  <2>1. /\ Leaf(g, LineOf(g, q)) <=> Leaf(f, LineOf(f, q))
        /\ Scalar(g, LineOf(g, q)) = Scalar(f, LineOf(f, q))
    BY DEF Kept
  <2>2. q \in Paths(g) \ T
    BY <1>1
  <2>3. /\ Leaf(h, LineOf(h, q)) <=> Leaf(g, LineOf(g, q))
        /\ Scalar(h, LineOf(h, q)) = Scalar(g, LineOf(g, q))
    BY <2>2 DEF Kept
  <2>. QED
    BY <2>1, <2>3
<1>. QED
  BY <1>1, <1>2, <1>3 DEF Kept

LEMMA SaysOn ==
  ASSUME NEW f, NEW g, NEW T, Kept(f, g, T), NEW path, path \notin T, NEW value,
         SaysAt(f, path, value)
  PROVE  SaysAt(g, path, value)
BY DEF Kept, SaysAt

(* The readings of a file, by its paths. *)
LEMMA ReadingByPath ==
  ASSUME NEW f, Sound(f)
  PROVE  Reading(f)
           = {<<q, Scalar(f, LineOf(f, q))>> : q \in {p \in Paths(f) : Leaf(f, LineOf(f, p))}}
<1>1. ASSUME NEW i \in Keys(f)
      PROVE  /\ LineOf(f, PathOf(f, i)) = i
             /\ IsLeaf(Tree(f), PathOf(f, i)) <=> Leaf(f, i)
             /\ Node(f, i) \in Tree(f) /\ Node(f, i).line = i /\ Node(f, i).path = PathOf(f, i)
  <2>1. IsFile(f) /\ UniquePaths(f)
    BY DEF Sound
  <2>2. Children(Tree(f), PathOf(f, i)) = {Node(f, c) : c \in {j \in Keys(f) : Child(f, i, j)}}
    BY <2>1, SubtreeLines
  <2>3. IsLeaf(Tree(f), PathOf(f, i)) <=> Leaf(f, i)
    BY <2>2 DEF IsLeaf, Leaf, Child
  <2>. QED
    BY <2>3, LineOfPath, Nodes DEF Node
<1>. DEFINE tree == Tree(f)
            leaves == {p \in Paths(f) : Leaf(f, LineOf(f, p))}
<1>2. Reading(f) = {<<x.path, Scalar(f, x.line)>> : x \in {y \in tree : IsLeaf(tree, y.path)}}
  BY DEF Reading
<1>3. ASSUME NEW x \in tree, IsLeaf(tree, x.path)
      PROVE  x.path \in leaves /\ LineOf(f, x.path) = x.line
  <2>1. PICK i \in Keys(f) : x = Node(f, i)
    BY Nodes
  <2>2. x.line = i /\ x.path = PathOf(f, i)
    BY <1>1, <2>1
  <2>3. Leaf(f, i) /\ LineOf(f, PathOf(f, i)) = i
    BY <1>1, <1>3, <2>2
  <2>. QED
    BY <2>2, <2>3 DEF Paths
<1>4. ASSUME NEW q \in leaves
      PROVE  \E x \in tree : IsLeaf(tree, x.path) /\ x.path = q /\ x.line = LineOf(f, q)
  <2>1. PICK i \in Keys(f) : PathOf(f, i) = q
    BY DEF Paths
  <2>2. Leaf(f, i) /\ LineOf(f, q) = i
    BY <1>1, <2>1
  <2>. QED
    BY <1>1, <2>1, <2>2
<1>. HIDE DEF tree, leaves
<1>5. Reading(f) \subseteq {<<q, Scalar(f, LineOf(f, q))>> : q \in leaves}
  BY <1>2, <1>3
<1>6. {<<q, Scalar(f, LineOf(f, q))>> : q \in leaves} \subseteq Reading(f)
  BY <1>2, <1>4
<1>. QED
  BY <1>5, <1>6 DEF leaves

LEMMA OthersKept ==
  ASSUME NEW f, NEW g, NEW T, Sound(f), Sound(g), Kept(f, g, T)
  PROVE  Others(g, T) = Others(f, T)
<1>. DEFINE Says1(h, q) == q \in Paths(h) /\ Leaf(h, LineOf(h, q)) /\ q \notin T
<1>1. ASSUME NEW h, Sound(h)
      PROVE  \A r : r \in Others(h, T) <=>
                      \E q : Says1(h, q) /\ r = <<q, Scalar(h, LineOf(h, q))>>
  BY <1>1, ReadingByPath DEF Others
<1>2. ASSUME NEW q, q \notin T
      PROVE  /\ Says1(g, q) <=> Says1(f, q)
             /\ Says1(f, q) => Scalar(g, LineOf(g, q)) = Scalar(f, LineOf(f, q))
  BY <1>2 DEF Kept
<1>3. \A r : r \in Others(g, T) <=> r \in Others(f, T)
  BY <1>1, <1>2
<1>. QED
  BY <1>3

(* The objects, by the paths of their keys. *)
LEMMA DocInFile ==
  ASSUME NEW f, IsFile(f), NEW i \in Keys(f)
  PROVE  Doc(f, i) \in 0..Len(f)
<1>. DEFINE S == {j \in 1..i : f[j].kind = "separator"}
<1>1. i \in 1..Len(f) /\ i \in Int /\ 1 <= i /\ i <= Len(f) /\ Len(f) \in Nat
  BY KeyLines
<1>2. IsFiniteSet(1..i) /\ Cardinality(1..i) = i
  BY <1>1, FS_Interval
<1>3. IsFiniteSet(S) /\ Cardinality(S) <= i
  <2>1. S \subseteq 1..i
    OBVIOUS
  <2>. HIDE DEF S
  <2>. QED
    BY <1>2, <2>1, FS_Subset
<1>4. Cardinality(S) \in Nat
  BY <1>3, FS_CardinalityType
<1>5. Doc(f, i) = Cardinality(S)
  BY DEF Doc
<1>. HIDE DEF S
<1>. QED
  BY <1>1, <1>3, <1>4, <1>5

LEMMA ScalarFirst ==
  ASSUME NEW f, IsFile(f), NEW i \in Keys(f)
  PROVE  Scalar(f, i)[1] = f[i].value
<1>. DEFINE v == f[i].value
            s == SubSeq(f, i + 1, TextEnd(f, i))
            S == Range(f) \union {v}
<1>1. i \in Heads(f) /\ i \in Nat /\ f \in Seq(Range(f))
  BY KeyLines DEF IsFile
<1>2. Scalar(f, i) = <<v>> \o s /\ TextEnd(f, i) \in i .. Len(f) /\ Len(f) \in Nat
  BY <1>1, TextEndFacts
<1>3. f \in Seq(S) /\ <<v>> \in Seq(S) /\ Len(<<v>>) = 1 /\ <<v>>[1] = v
  BY <1>1
<1>4. s \in Seq(S)
  <2>1. TextEnd(f, i) \in Int
    BY <1>1, <1>2
  <2>2. \A k \in i + 1 .. TextEnd(f, i) : f[k] \in S
    BY <1>1, <1>2, <1>3
  <2>. HIDE DEF S
  <2>. QED
    BY <1>1, <2>1, <2>2, SubSeqProperties
<1>. HIDE DEF s, S, v
<1>5. (<<v>> \o s)[1] = <<v>>[1]
  <2>1. 1 \in 1..Len(<<v>>)
    BY <1>3
  <2>. QED
    BY <1>3, <1>4, <2>1, Joined
<1>. QED
  BY <1>2, <1>3, <1>5 DEF v

LEMMA ObjectsByPath ==
  ASSUME NEW f, Sound(f), NEW object, NEW doc
  PROVE  doc \in Objects(f, object) <=>
           /\ <<doc, "object">> \in Paths(f)
           /\ Scalar(f, LineOf(f, <<doc, "object">>))[1] = object
<1>. DEFINE path == <<doc, "object">>
<1>0. path[1] = doc
  OBVIOUS
<1>. HIDE DEF path
<1>1. IsFile(f)
  BY DEF Sound
<1>2. ASSUME NEW i \in Keys(f), PathOf(f, i) = path
      PROVE  doc \in 0..Len(f) /\ LineOf(f, path) = i /\ Scalar(f, i)[1] = f[i].value
  <2>1. doc = Doc(f, i)
    BY <1>0, <1>1, <1>2, PathFacts
  <2>. QED
    BY <1>1, <1>2, <2>1, DocInFile, LineOfPath, ScalarFirst
<1>3. doc \in Objects(f, object) <=>
        doc \in 0..Len(f) /\ \E i \in Keys(f) : PathOf(f, i) = path /\ f[i].value = object
  BY FoundLines DEF Objects, path
<1>. QED
  BY <1>2, <1>3 DEF Paths, path

LEMMA ObjectsKept ==
  ASSUME NEW f, NEW g, NEW T, Sound(f), Sound(g), Kept(f, g, T),
         \A q \in T : Len(q) # 2
  PROVE  /\ \A object : Objects(g, object) = Objects(f, object)
         /\ LocateDeployment(g) = LocateDeployment(f)
         /\ Autoscaled(g) <=> Autoscaled(f)
<1>1. ASSUME NEW object, NEW doc PROVE doc \in Objects(g, object) <=> doc \in Objects(f, object)
  <2>. DEFINE path == <<doc, "object">>
  <2>1. Len(path) = 2
    OBVIOUS
  <2>. HIDE DEF path
  <2>2. path \in Paths(g) <=> path \in Paths(f)
    BY <2>1 DEF Kept
  <2>3. path \in Paths(f) => Scalar(g, LineOf(g, path)) = Scalar(f, LineOf(f, path))
    BY <2>1 DEF Kept
  <2>. QED
    BY <2>2, <2>3, ObjectsByPath DEF path
<1>2. ASSUME NEW object PROVE Objects(g, object) = Objects(f, object)
  <2>1. Objects(g, object) \subseteq Objects(f, object)
    BY <1>1
  <2>2. Objects(f, object) \subseteq Objects(g, object)
    BY <1>1
  <2>. QED
    BY <2>1, <2>2
<1>3. Objects(g, "deployment") = Objects(f, "deployment")
  BY <1>2
<1>4. LocateDeployment(g) = LocateDeployment(f)
  <2>. DEFINE only(docs) == IF Cardinality(docs) = 1 THEN CHOOSE d \in docs : TRUE ELSE None
  <2>1. /\ LocateDeployment(f) = only(Objects(f, "deployment"))
        /\ LocateDeployment(g) = only(Objects(g, "deployment"))
    BY DEF LocateDeployment
  <2>. HIDE DEF only
  <2>. QED
    BY <1>3, <2>1
<1>5. Autoscaled(g) <=> Autoscaled(f)
  BY <1>2 DEF Autoscaled
<1>. QED
  BY <1>2, <1>4, <1>5

(* The containers, by their paths. *)
ContainerPaths(f, doc) ==
  {q \in Paths(f) : Len(q) = 4 /\ IsPrefix(<<doc, "spec", "containers">>, q)}

LEMMA ContainersByPath ==
  ASSUME NEW f, Sound(f), NEW doc
  PROVE  /\ Containers(Tree(f), doc) = {} <=> ContainerPaths(f, doc) = {}
         /\ Cardinality(Containers(Tree(f), doc)) = 1 <=> \E q : ContainerPaths(f, doc) = {q}
         /\ \A x \in Containers(Tree(f), doc) : x.path \in ContainerPaths(f, doc)
<1>. DEFINE C == Containers(Tree(f), doc)
            P == ContainerPaths(f, doc)
            K == {i \in Keys(f) : PathOf(f, i) \in P}
<1>1. IsFile(f) /\ UniquePaths(f)
  BY DEF Sound
<1>2. C = {Node(f, i) : i \in K}
  <2>1. Len(<<doc, "spec", "containers">>) + 1 = 4
    OBVIOUS
  <2>2. C = {x \in Tree(f) : IsPrefix(<<doc, "spec", "containers">>, x.path) /\ Len(x.path) = 4}
    BY <2>1 DEF Containers, Children, Subtree
  <2>3. \A i \in Keys(f) : Node(f, i).path = PathOf(f, i) /\ PathOf(f, i) \in Paths(f)
    BY DEF Node, Paths
  <2>. QED
    BY <2>2, <2>3, Nodes DEF ContainerPaths
<1>3. P = {PathOf(f, i) : i \in K}
  BY DEF ContainerPaths, Paths
<1>4. K \subseteq Keys(f) /\ \A i, j \in K : PathOf(f, i) = PathOf(f, j) => i = j
  BY <1>1 DEF UniquePaths
<1>5. IsFiniteSet(C)
  <2>1. IsFiniteSet(K)
    <3>1. K \subseteq 1..Len(f) /\ Len(f) \in Nat
      BY <1>1, <1>4, KeyLines
    <3>2. IsFiniteSet(1..Len(f))
      BY <3>1, FS_Interval
    <3>. QED
      BY <3>1, <3>2, FS_Subset
  <2>. DEFINE line == [x \in C |-> x.line]
  <2>2. \A x \in C : x.line \in K /\ x = Node(f, x.line)
    BY <1>2 DEF Node
  <2>. HIDE DEF K, C
  <2>3. line \in Injection(C, K)
    BY <2>2 DEF Injection, IsInjective
  <2>. QED
    BY <2>1, <2>3, FS_Injection DEF ExistsInjection
<1>. HIDE DEF C, P, K
<1>6. C = {} <=> P = {}
  BY <1>2, <1>3
<1>7. Cardinality(C) = 1 <=> \E x : C = {x}
  BY <1>5, FS_Singleton
<1>8. ASSUME NEW x, C = {x} PROVE \E q : P = {q}
  <2>1. PICK i \in K : x = Node(f, i)
    BY <1>2, <1>8
  <2>2. \A j \in K : Node(f, j).line = j
    BY DEF Node
  <2>3. \A j \in K : j = i
    BY <1>2, <1>8, <2>1, <2>2
  <2>. QED
    BY <1>3, <2>1, <2>3
<1>9. ASSUME NEW q, P = {q} PROVE \E x : C = {x}
  <2>1. PICK i \in K : q = PathOf(f, i)
    BY <1>3, <1>9
  <2>2. \A j \in K : j = i
    BY <1>3, <1>4, <1>9, <2>1
  <2>3. K = {i}
    BY <2>1, <2>2
  <2>4. C = {Node(f, i)}
    BY <1>2, <2>3
  <2>. QED
    BY <2>4
<1>10. \A x \in C : x.path \in P
  BY <1>2, <1>3 DEF Node
<1>. QED
  BY <1>6, <1>7, <1>8, <1>9, <1>10 DEF C, P

LEMMA ContainersKept ==
  ASSUME NEW f, NEW g, NEW T, Sound(f), Sound(g), Kept(f, g, T), NEW doc
  PROVE  ContainerPaths(g, doc) = ContainerPaths(f, doc)
BY DEF Kept, ContainerPaths

LEMMA OnlyContainer ==
  ASSUME NEW f, Sound(f), NEW doc, NEW q, ContainerPaths(f, doc) = {q}, NEW F, F # "replicas"
  PROVE  FieldPath(Tree(f), doc, F) = q \o <<"resources", "requests", F>>
<1>. DEFINE C == Containers(Tree(f), doc)
            c == CHOOSE x \in C : TRUE
<1>1. c \in C
  BY ContainersByPath
<1>2. c.path = q
  BY <1>1, ContainersByPath
<1>. QED
  BY <1>2 DEF FieldPath

(* What decides how a field is patched stays as it is. *)
LEMMA FieldsKept ==
  ASSUME NEW f, NEW g, NEW T, Sound(f), Sound(g), Kept(f, g, T), \A q \in T : Len(q) # 2,
         NEW doc, NEW F
  PROVE  /\ Skips(g, doc, F) <=> Skips(f, doc, F)
         /\ Containers(Tree(g), doc) = {} <=> Containers(Tree(f), doc) = {}
         /\ ~Skips(f, doc, F) => FieldPath(Tree(g), doc, F) = FieldPath(Tree(f), doc, F)
<1>1. ContainerPaths(g, doc) = ContainerPaths(f, doc)
  BY ContainersKept
<1>2. Skips(g, doc, F) <=> Skips(f, doc, F)
  BY <1>1, ContainersByPath, ObjectsKept DEF Skips
<1>3. Containers(Tree(g), doc) = {} <=> Containers(Tree(f), doc) = {}
  BY <1>1, ContainersByPath
<1>4. ASSUME ~Skips(f, doc, F) PROVE FieldPath(Tree(g), doc, F) = FieldPath(Tree(f), doc, F)
  <2>1. CASE F = "replicas"
    BY <2>1 DEF FieldPath
  <2>2. CASE F # "replicas"
    <3>1. PICK q : ContainerPaths(f, doc) = {q}
      BY <1>4, <2>2, ContainersByPath DEF Skips
    <3>2. ContainerPaths(g, doc) = {q}
      BY <1>1, <3>1
    <3>3. FieldPath(Tree(f), doc, F) = q \o <<"resources", "requests", F>>
      BY <2>2, <3>1, OnlyContainer
    <3>4. FieldPath(Tree(g), doc, F) = q \o <<"resources", "requests", F>>
      BY <2>2, <3>2, OnlyContainer, SMTT(30)
    <3>. QED
      BY <3>3, <3>4
  <2>. QED
    BY <2>1, <2>2
<1>. QED
  BY <1>2, <1>3, <1>4

-----------------------------------------------------------------------------
(* What patching one field leaves as it was. *)

(* The paths that a field of a change set may touch. *)
TouchedPath(f, doc, F, value) ==
  IF value = None \/ Skips(f, doc, F) THEN {} ELSE {FieldPath(Tree(f), doc, F)}

LEMMA FieldPathIsDeep ==
  ASSUME NEW f, Sound(f), NEW doc, NEW F \in Fields,
         F # "replicas" => Containers(Tree(f), doc) # {}
  PROVE  LET path == FieldPath(Tree(f), doc, F)
         IN  /\ path \in Seq(Range(path))
             /\ IF F = "replicas" THEN Len(path) = 3
                ELSE Len(path) = 7 /\ path[7] = F /\ 4 \in Existing(Tree(f), path)
<1>. DEFINE tree == Tree(f)
            path == FieldPath(tree, doc, F)
<1>1. IsFile(f)
  BY DEF Sound
<1>2. /\ path \in Seq(Range(path))
      /\ IF F = "replicas" THEN path = <<doc, "spec", "replicas">>
         ELSE Len(path) = 7 /\ path[7] = F
  BY <1>1, FieldPaths
<1>3. F = "replicas" => Len(path) = 3
  <2>1. Len(<<doc, "spec", "replicas">>) = 3
    OBVIOUS
  <2>. QED
    BY <1>2, <2>1
<1>4. ASSUME F # "replicas" PROVE 4 \in Existing(tree, path)
  <2>. DEFINE c == CHOOSE x \in Containers(tree, doc) : TRUE
              rest == <<"resources", "requests", F>>
  <2>1. c \in Containers(tree, doc)
    BY <1>4
  <2>2. path = c.path \o rest
    BY <1>4 DEF FieldPath
  <2>3. c \in tree /\ c.line \in Found(tree, c.path)
    BY <2>1 DEF Containers, Children, Subtree, Found
  <2>4. c.path \in Seq(Range(c.path)) /\ Len(c.path) = 4
    BY <1>1, <2>1, ContainerPath
  <2>. HIDE DEF c
  <2>6. Len(path) = 7 /\ 4 \in 0..Len(path) /\ 4 \in 2 .. Len(path) - 1
    <3>. HIDE DEF path
    <3>1. Len(path) = 7
      BY <1>2, <1>4
    <3>2. 4 \in 0..7 /\ 4 \in 2 .. 7 - 1
      OBVIOUS
    <3>. QED
      BY <3>1, <3>2
  <2>5. SubSeq(path, 1, 4) = c.path
    <3>. DEFINE S == Range(c.path) \union {"resources", "requests", F}
    <3>1. c.path \in Seq(S) /\ rest \in Seq(S)
      BY <2>4
    <3>. HIDE DEF S, rest
    <3>2. \A r \in 1..4 : (c.path \o rest)[r] = c.path[r]
      <4>1. \A r \in 1..Len(c.path) : (c.path \o rest)[r] = c.path[r]
        BY <3>1, Joined
      <4>. QED
        BY <2>4, <4>1
    <3>3. 4 \in 0..Len(path)
      BY <2>6
    <3>. HIDE DEF path
    <3>4. \A r \in 1..4 : c.path[r] = path[r]
      BY <2>2, <3>2
    <3>5. path \in Seq(Range(path))
      BY <1>2
    <3>6. c.path = SubSeq(path, 1, 4)
      BY <2>4, <3>3, <3>4, <3>5, SeqStart
    <3>. QED
      BY <3>6
  <2>. HIDE DEF path
  <2>. QED
    BY <2>3, <2>5, <2>6 DEF Existing
<1>. QED
  BY <1>2, <1>3, <1>4

(* A field that is there. *)
LEMMA ScalarSet ==
  ASSUME NEW res, IsResult(res), NEW f, f = res.lines, Sound(f), NEW i \in Keys(f),
         NEW field, NEW value, NEW next, next = SetScalar(res, i, field, value), next.ok
  PROVE  LET g == next.lines
             path == PathOf(f, i)
         IN  /\ Sound(g)
             /\ Covered(g) => Covered(f) /\ Kept(f, g, {path}) /\ SaysAt(g, path, value)
<1>1. CASE Says(f, i, value)
  <2>1. next = res
    BY <1>1 DEF SetScalar
  <2>2. SaysAt(f, PathOf(f, i), value)
    BY <1>1, LineOfPath DEF SaysAt, Says
  <2>. QED
    BY <2>1, <2>2, KeptSame
<1>2. CASE ~Says(f, i, value) /\ ~Replaceable(f, i)
  <2>1. next = Error
    BY <1>2 DEF SetScalar
  <2>. QED
    BY <2>1 DEF Error
<1>3. CASE ~Says(f, i, value) /\ Replaceable(f, i)
  <2>1. next = Edited(res, ReplaceScalar(f, i, value), field, f[i].value, value)
    BY <1>3 DEF SetScalar
  <2>2. next.lines = ReplaceScalar(f, i, value)
    BY <2>1, EditedResult
  <2>. QED
    BY <1>3, <2>2, ReplacementKeeps
<1>. QED
  BY <1>1, <1>2, <1>3

(* A field that is not there. *)
LEMMA KeysSet ==
  ASSUME NEW res, IsResult(res), NEW f, f = res.lines, Sound(f),
         NEW path, path \in Seq(Range(path)), Found(Tree(f), path) = {},
         Len(path) = 3 \/ 4 \in Existing(Tree(f), path),
         NEW field, NEW value,
         NEW next, next = SetMissing(res, Tree(f), path, field, value), next.ok
  PROVE  LET g == next.lines
         IN  /\ Sound(g)
             /\ Covered(g) => Covered(f) /\ Kept(f, g, {path}) /\ SaysAt(g, path, value)
<1>. DEFINE g == next.lines
            depth == Max(Existing(Tree(f), path))
<1>1. /\ depth \in Existing(Tree(f), path) /\ \A n \in Existing(Tree(f), path) : n <= depth
      /\ \E p, d, last, at : /\ Insertion(f, g, p, d, last, at, Len(path) - depth, path)
                             /\ g[at + (Len(path) - depth)].value = value
  <2>1. KeysInserted(f, next.lines, path, value)
    BY MissingInserted
  <2>. QED
    BY <2>1 DEF KeysInserted
<1>. HIDE DEF depth, g
<1>2. PICK p, d, last, at : /\ Insertion(f, g, p, d, last, at, Len(path) - depth, path)
                            /\ g[at + (Len(path) - depth)].value = value
  BY <1>1
<1>3. Sound(g)
  BY <1>2, GrownSound
<1>4. Len(path) = 3 \/ Len(path) - (Len(path) - depth) >= 4
  <2>1. Len(path) \in Nat /\ depth \in Int
    BY <1>1 DEF Existing
  <2>2. 4 \in Existing(Tree(f), path) => 4 <= depth
    BY <1>1
  <2>. QED
    BY <2>1, <2>2
<1>5. ASSUME Covered(g)
      PROVE  Covered(f) /\ Kept(f, g, {path}) /\ SaysAt(g, path, value)
  BY <1>2, <1>4, <1>5, InsertionKeeps
<1>. QED
  BY <1>3, <1>5 DEF g

LEMMA FieldPatched ==
  ASSUME NEW res, IsResult(res), NEW f, f = res.lines, Sound(f), NEW doc, NEW F \in Fields,
         NEW value, NEW next, next = PatchField(res, doc, F, value), next.ok
  PROVE  LET g == next.lines
             path == FieldPath(Tree(f), doc, F)
         IN  /\ Sound(g)
             /\ Covered(g) =>
                  /\ Covered(f) /\ Kept(f, g, TouchedPath(f, doc, F, value))
                  /\ value = None \/ Skips(f, doc, F) \/ SaysAt(g, path, value)
             /\ value # None /\ F # "replicas" => Containers(Tree(f), doc) # {}
<1>. DEFINE path == FieldPath(Tree(f), doc, F)
<1>1. CASE ~res.ok \/ value = None
  <2>1. next = res
    BY <1>1 DEF PatchField
  <2>2. value = None
    BY <1>1, <2>1
  <2>. QED
    BY <2>1, <2>2, KeptSame
<1>2. CASE res.ok /\ value # None /\ F # "replicas" /\ Containers(Tree(f), doc) = {}
  <2>1. next = Error
    BY <1>2 DEF PatchField
  <2>. QED
    BY <2>1 DEF Error
<1>3. CASE res.ok /\ value # None /\ ~(F # "replicas" /\ Containers(Tree(f), doc) = {})
  <2>0. next = IF Skips(f, doc, F) THEN [res EXCEPT !.skipped = @ \union {F}]
               ELSE SetField(res, doc, F, value)
    BY <1>3 DEF PatchField
  <2>1. CASE Skips(f, doc, F)
    <3>1. next.lines = f
      BY <2>0, <2>1 DEF IsResult
    <3>. QED
      BY <1>3, <2>1, <3>1, KeptSame
  <2>2. CASE ~Skips(f, doc, F)
    <3>1. /\ path \in Seq(Range(path))
          /\ Len(path) = 3 \/ 4 \in Existing(Tree(f), path)
      BY <1>3, FieldPathIsDeep
    <3>2. TouchedPath(f, doc, F, value) = {path}
      BY <1>3, <2>2 DEF TouchedPath
    <3>3. next = SetField(res, doc, F, value)
      BY <2>0, <2>2
    <3>. HIDE DEF path
    <3>4. CASE Found(Tree(f), path) # {}
      <4>. DEFINE i == Line(Tree(f), path)
      <4>1. next = SetScalar(res, i, F, value)
        BY <3>3, <3>4 DEF SetField, path
      <4>2. i \in Keys(f) /\ PathOf(f, i) = path
        BY <3>4, ParentLine
      <4>. HIDE DEF i
      <4>3. /\ Sound(next.lines)
            /\ Covered(next.lines) =>
                 Covered(f) /\ Kept(f, next.lines, {path}) /\ SaysAt(next.lines, path, value)
        BY <4>1, <4>2, ScalarSet
      <4>. QED
        BY <1>3, <3>2, <4>3 DEF path
    <3>5. CASE Found(Tree(f), path) = {}
      <4>1. next = SetMissing(res, Tree(f), path, F, value)
        BY <3>3, <3>5 DEF SetField, path
      <4>2. /\ Sound(next.lines)
            /\ Covered(next.lines) =>
                 Covered(f) /\ Kept(f, next.lines, {path}) /\ SaysAt(next.lines, path, value)
        BY <3>1, <3>5, <4>1, KeysSet
      <4>. QED
        BY <1>3, <3>2, <4>2 DEF path
    <3>. QED
      BY <3>4, <3>5
  <2>. QED
    BY <2>1, <2>2
<1>. QED
  BY <1>1, <1>2, <1>3

-----------------------------------------------------------------------------
(* What patching all fields leaves as it was. *)

LEMMA TouchedPathIsDeep ==
  ASSUME NEW f, Sound(f), NEW doc, NEW F \in Fields, NEW value,
         value # None /\ F # "replicas" => Containers(Tree(f), doc) # {},
         NEW q \in TouchedPath(f, doc, F, value)
  PROVE  /\ q = FieldPath(Tree(f), doc, F) /\ value # None /\ ~Skips(f, doc, F)
         /\ Len(q) # 2 /\ IF F = "replicas" THEN Len(q) = 3 ELSE Len(q) = 7 /\ q[7] = F
<1>1. q = FieldPath(Tree(f), doc, F) /\ value # None /\ ~Skips(f, doc, F)
  BY DEF TouchedPath
<1>2. IF F = "replicas" THEN Len(q) = 3 ELSE Len(q) = 7 /\ q[7] = F
  BY <1>1, FieldPathIsDeep
<1>. QED
  BY <1>1, <1>2

(* The fields E of a change set have been patched. *)
FieldsDone(f, doc, cs, E, res) ==
  /\ IsResult(res) /\ Sound(f) /\ Sound(res.lines)
  /\ Covered(res.lines) =>
       /\ Covered(f)
       /\ Kept(f, res.lines, UNION {TouchedPath(f, doc, F, cs[F]) : F \in E})
       /\ \A F \in E :
            /\ cs[F] # None /\ F # "replicas" => Containers(Tree(f), doc) # {}
            /\ \/ cs[F] = None \/ Skips(f, doc, F)
               \/ SaysAt(res.lines, FieldPath(Tree(f), doc, F), cs[F])

LEMMA OneMoreDone ==
  ASSUME NEW f, NEW doc, NEW cs, NEW E \in SUBSET Fields, NEW res, FieldsDone(f, doc, cs, E, res),
         NEW F \in Fields \ E, NEW next, next = PatchField(res, doc, F, cs[F]), next.ok
  PROVE  FieldsDone(f, doc, cs, E \union {F}, next)
<1>. DEFINE g == res.lines
            h == next.lines
            touched(G) == TouchedPath(f, doc, G, cs[G])
            path(G) == FieldPath(Tree(f), doc, G)
            T == UNION {touched(G) : G \in E}
            U == UNION {touched(G) : G \in E \union {F}}
<1>1. IsResult(res) /\ Sound(f) /\ Sound(g) /\ IsResult(next)
  BY PatchFieldCases DEF FieldsDone
<1>2. /\ Sound(h)
      /\ Covered(h) =>
           /\ Covered(g) /\ Kept(g, h, TouchedPath(g, doc, F, cs[F]))
           /\ cs[F] = None \/ Skips(g, doc, F) \/ SaysAt(h, FieldPath(Tree(g), doc, F), cs[F])
      /\ cs[F] # None /\ F # "replicas" => Containers(Tree(g), doc) # {}
  BY <1>1, FieldPatched
<1>3. ASSUME Covered(h)
      PROVE  /\ Covered(f) /\ Kept(f, h, U)
             /\ \A G \in E \union {F} :
                  /\ cs[G] # None /\ G # "replicas" => Containers(Tree(f), doc) # {}
                  /\ cs[G] = None \/ Skips(f, doc, G) \/ SaysAt(h, path(G), cs[G])
  <2>1. /\ Covered(f) /\ Kept(f, g, T)
        /\ \A G \in E : /\ cs[G] # None /\ G # "replicas" => Containers(Tree(f), doc) # {}
                        /\ cs[G] = None \/ Skips(f, doc, G) \/ SaysAt(g, path(G), cs[G])
    BY <1>2, <1>3 DEF FieldsDone
  <2>. HIDE DEF touched, path
  <2>2. ASSUME NEW G \in E, NEW q \in touched(G)
        PROVE  /\ q = path(G) /\ cs[G] # None /\ ~Skips(f, doc, G)
               /\ Len(q) # 2 /\ IF G = "replicas" THEN Len(q) = 3 ELSE Len(q) = 7 /\ q[7] = G
    BY <1>1, <2>1, TouchedPathIsDeep DEF touched, path
  <2>3. \A q \in T : Len(q) # 2
    BY <2>2
  <2>. HIDE DEF T
  <2>4. /\ Skips(g, doc, F) <=> Skips(f, doc, F)
        /\ Containers(Tree(g), doc) = {} <=> Containers(Tree(f), doc) = {}
        /\ ~Skips(f, doc, F) => FieldPath(Tree(g), doc, F) = path(F)
    BY <1>1, <2>1, <2>3, FieldsKept DEF path
  <2>5. TouchedPath(g, doc, F, cs[F]) = touched(F)
    BY <2>4 DEF TouchedPath, touched, path
  <2>6. cs[F] # None /\ F # "replicas" => Containers(Tree(f), doc) # {}
    BY <1>2, <2>4
  <2>7. ASSUME NEW q \in touched(F)
        PROVE  /\ q = path(F)
               /\ IF F = "replicas" THEN Len(q) = 3 ELSE Len(q) = 7 /\ q[7] = F
    BY <1>1, <2>6, TouchedPathIsDeep DEF touched, path
  <2>8. Kept(g, h, touched(F))
    BY <1>2, <1>3, <2>5
  <2>9. Kept(f, h, U)
    <3>1. T \subseteq U /\ touched(F) \subseteq U
      BY DEF T
    <3>. HIDE DEF U
    <3>2. Kept(f, g, U) /\ Kept(g, h, U)
      BY <2>1, <2>8, <3>1, KeptMore
    <3>. QED
      BY <3>2, KeptOn
  <2>10. cs[F] = None \/ Skips(f, doc, F) \/ SaysAt(h, path(F), cs[F])
    BY <1>2, <1>3, <2>4
  <2>11. ASSUME NEW G \in E
         PROVE  cs[G] = None \/ Skips(f, doc, G) \/ SaysAt(h, path(G), cs[G])
    <3>. SUFFICES ASSUME cs[G] # None, ~Skips(f, doc, G) PROVE SaysAt(h, path(G), cs[G])
      OBVIOUS
    <3>1. SaysAt(g, path(G), cs[G])
      BY <2>1
    <3>2. path(G) \in touched(G)
      BY DEF touched, TouchedPath, path
    <3>3. G # F /\ G \in Fields
      OBVIOUS
    <3>4. IF G = "replicas" THEN Len(path(G)) = 3 ELSE Len(path(G)) = 7 /\ path(G)[7] = G
      BY <2>2, <3>2
    <3>5. path(G) \notin touched(F)
      BY <2>7, <3>3, <3>4
    <3>. QED
      BY <2>8, <3>1, <3>5, SaysOn
  <2>12. \A G \in E : cs[G] # None /\ G # "replicas" => Containers(Tree(f), doc) # {}
    BY <2>1
  <2>. QED
    BY <2>1, <2>6, <2>9, <2>10, <2>11, <2>12
<1>. QED
  BY <1>1, <1>2, <1>3 DEF FieldsDone

LEMMA NoneDone ==
  ASSUME NEW f, Sound(f), NEW doc, NEW cs
  PROVE  FieldsDone(f, doc, cs, {}, Untouched(f))
<1>1. IsResult(Untouched(f)) /\ Untouched(f).lines = f
  <2>1. IsFile(f)
    BY DEF Sound
  <2>. QED
    BY <2>1, UntouchedIsPatched DEF Patched, Untouched
<1>2. Kept(f, f, UNION {TouchedPath(f, doc, F, cs[F]) : F \in {}})
  BY KeptSame
<1>. QED
  BY <1>1, <1>2 DEF FieldsDone

(* A file that was changed, and what it was changed to. *)
Legible(f) == IsFile(f) /\ WellFormed(f) /\ Unparted(f)

PatchSays(f, cs, g) ==
  LET doc == LocateDeployment(f) IN
  /\ doc # None
  /\ Sound(f) /\ Sound(g) /\ Legible(g)
  /\ Kept(f, g, MayTouch(f, doc, cs))
  /\ \A q \in MayTouch(f, doc, cs) : Len(q) # 2
  /\ \A F \in Fields :
       /\ cs[F] # None /\ F # "replicas" => Containers(Tree(f), doc) # {}
       /\ cs[F] = None \/ Skips(f, doc, F) \/ SaysAt(g, FieldPath(Tree(f), doc, F), cs[F])

LEMMA PatchIsSaid ==
  ASSUME NEW f, Legible(f), NEW cs, NEW patch, patch = PatchWorkload(f, cs),
         patch.ok, patch.edits # <<>>
  PROVE  PatchSays(f, cs, patch.lines)
<1>. DEFINE doc == LocateDeployment(f)
            s0 == Stage(f, doc, cs, 0)
            s1 == Stage(f, doc, cs, 1)
            s2 == Stage(f, doc, cs, 2)
            s3 == Stage(f, doc, cs, 3)
<1>1. /\ s0 = Untouched(f)
      /\ s1 = PatchField(s0, doc, "cpu", cs["cpu"])
      /\ s2 = PatchField(s1, doc, "memory", cs["memory"])
      /\ s3 = PatchField(s2, doc, "replicas", cs["replicas"])
      /\ patch = IF doc = None \/ (s3.edits # <<>> /\ ~VerifyPatch(s3, doc)) THEN Error ELSE s3
  BY Stages
<1>. HIDE DEF s0, s1, s2, s3
<1>2. doc # None /\ patch = s3 /\ s3.ok /\ VerifyPatch(s3, doc)
  <2>1. ~Error.ok
    BY DEF Error
  <2>. QED
    BY <1>1, <2>1
<1>. HIDE DEF doc
<1>3. Sound(f)
  BY WellFormedIsSound DEF Legible
<1>4. s1.ok /\ s2.ok
  <2>1. doc = LocateDeployment(f) /\ IsFile(f)
    BY DEF doc, Legible
  <2>. QED
    BY <1>2, <2>1, StagesAreFiles DEF s1, s2, s3
<1>5. FieldsDone(f, doc, cs, {}, s0)
  BY <1>1, <1>3, NoneDone
<1>6. FieldsDone(f, doc, cs, {} \union {"cpu"}, s1)
  <2>1. "cpu" \in Fields \ {} /\ {} \in SUBSET Fields
    BY DEF Fields
  <2>. QED
    BY <1>1, <1>4, <1>5, <2>1, OneMoreDone
<1>7. FieldsDone(f, doc, cs, {"cpu"} \union {"memory"}, s2)
  <2>1. "memory" \in Fields \ {"cpu"} /\ {"cpu"} \in SUBSET Fields /\ {"cpu"} = {} \union {"cpu"}
    BY DEF Fields
  <2>. QED
    BY <1>1, <1>4, <1>6, <2>1, OneMoreDone
<1>8. FieldsDone(f, doc, cs, {"cpu", "memory"} \union {"replicas"}, s3)
  <2>1. /\ "replicas" \in Fields \ {"cpu", "memory"} /\ {"cpu", "memory"} \in SUBSET Fields
        /\ {"cpu", "memory"} = {"cpu"} \union {"memory"}
    BY DEF Fields
  <2>. QED
    BY <1>1, <1>2, <1>7, <2>1, OneMoreDone
<1>. DEFINE g == s3.lines
<1>9. FieldsDone(f, doc, cs, Fields, s3)
  <2>1. Fields = {"cpu", "memory"} \union {"replicas"}
    BY DEF Fields
  <2>. QED
    BY <1>8, <2>1
<1>10. Sound(g) /\ Legible(g)
  <2>1. Sound(g)
    BY <1>9 DEF FieldsDone
  <2>2. WellFormed(g)
    BY <1>2 DEF VerifyPatch
  <2>. QED
    BY <2>1, <2>2 DEF Legible, Sound
<1>11. Covered(g)
  BY <1>10, WellFormedIsSound DEF Legible
<1>. DEFINE touched(F) == TouchedPath(f, doc, F, cs[F])
            T == UNION {touched(F) : F \in Fields}
<1>12. /\ Kept(f, g, T)
       /\ \A F \in Fields :
            /\ cs[F] # None /\ F # "replicas" => Containers(Tree(f), doc) # {}
            /\ cs[F] = None \/ Skips(f, doc, F) \/ SaysAt(g, FieldPath(Tree(f), doc, F), cs[F])
  BY <1>9, <1>11 DEF FieldsDone
<1>13. T = MayTouch(f, doc, cs)
  BY DEF MayTouch, TouchedPath
<1>14. \A q \in T : Len(q) # 2
  BY <1>3, <1>12, TouchedPathIsDeep
<1>. HIDE DEF T
<1>. QED
  BY <1>2, <1>3, <1>10, <1>12, <1>13, <1>14 DEF PatchSays, doc

-----------------------------------------------------------------------------
(* Patching again. *)

(* Patching a field has left the lines g as they are, as they say its value. *)
SaidAlready(res, g, doc, F, value, next) ==
  /\ IsResult(next) /\ next.ok /\ next.lines = g /\ next.edits = res.edits
  /\ res.skipped \subseteq next.skipped
  /\ value = None \/ F \in next.skipped \/ Value(g, doc, F) = <<value>>

LEMMA FieldSaidAlready ==
  ASSUME NEW res, IsResult(res), res.ok, NEW g, g = res.lines, Sound(g), NEW doc,
         NEW F \in Fields, NEW value,
         value # None /\ F # "replicas" => Containers(Tree(g), doc) # {},
         value = None \/ Skips(g, doc, F) \/ SaysAt(g, FieldPath(Tree(g), doc, F), value),
         NEW next, next = PatchField(res, doc, F, value)
  PROVE  SaidAlready(res, g, doc, F, value, next)
<1>. DEFINE path == FieldPath(Tree(g), doc, F)
<1>1. CASE value = None
  <2>1. next = res
    BY <1>1 DEF PatchField
  <2>. QED
    BY <1>1, <2>1 DEF SaidAlready
<1>2. CASE value # None
  <2>1. next = IF Skips(g, doc, F) THEN [res EXCEPT !.skipped = @ \union {F}]
               ELSE SetField(res, doc, F, value)
    BY <1>2 DEF PatchField
  <2>2. CASE Skips(g, doc, F)
    <3>1. next = [res EXCEPT !.skipped = @ \union {F}]
      BY <2>1, <2>2
    <3>2. next = [ok |-> res.ok, lines |-> res.lines, edits |-> res.edits,
                  skipped |-> res.skipped \union {F}]
      BY <3>1 DEF IsResult
    <3>. QED
      BY <3>2 DEF IsResult, SaidAlready
  <2>3. CASE ~Skips(g, doc, F)
    <3>1. SaysAt(g, path, value)
      BY <1>2, <2>3
    <3>. HIDE DEF path
    <3>2. PICK i \in Keys(g) : PathOf(g, i) = path
      BY <3>1 DEF SaysAt, Paths
    <3>3. Found(Tree(g), path) # {}
      BY <3>2, LineOfPath
    <3>4. Scalar(g, Line(Tree(g), path)) = <<value>>
      BY <3>1 DEF SaysAt, LineOf
    <3>5. next = SetScalar(res, Line(Tree(g), path), F, value)
      BY <2>1, <2>3, <3>3 DEF SetField, path
    <3>6. next = res
      BY <3>4, <3>5 DEF SetScalar, Says
    <3>7. Value(g, doc, F) = <<value>>
      BY <3>3, <3>4 DEF Value, path
    <3>. QED
      BY <3>6, <3>7 DEF SaidAlready
  <2>. QED
    BY <2>2, <2>3
<1>. QED
  BY <1>1, <1>2

LEMMA SaidOnce ==
  ASSUME NEW f, NEW cs, NEW g, PatchSays(f, cs, g)
  PROVE  LET patch == PatchWorkload(g, cs)
         IN  /\ patch.ok /\ patch.edits = <<>>
             /\ \A F \in Fields : \/ cs[F] = None \/ F \in patch.skipped
                                  \/ Value(g, LocateDeployment(g), F) = <<cs[F]>>
<1>. DEFINE doc == LocateDeployment(f)
            T == MayTouch(f, doc, cs)
            s0 == Stage(g, doc, cs, 0)
            s1 == Stage(g, doc, cs, 1)
            s2 == Stage(g, doc, cs, 2)
            s3 == Stage(g, doc, cs, 3)
<1>1. /\ doc # None /\ Sound(f) /\ Sound(g) /\ Kept(f, g, T) /\ \A q \in T : Len(q) # 2
      /\ \A F \in Fields :
           /\ cs[F] # None /\ F # "replicas" => Containers(Tree(f), doc) # {}
           /\ cs[F] = None \/ Skips(f, doc, F) \/ SaysAt(g, FieldPath(Tree(f), doc, F), cs[F])
  BY DEF PatchSays
<1>2. LocateDeployment(g) = doc
  BY <1>1, ObjectsKept
<1>. HIDE DEF doc, T
<1>3. ASSUME NEW F \in Fields
      PROVE  /\ cs[F] # None /\ F # "replicas" => Containers(Tree(g), doc) # {}
             /\ cs[F] = None \/ Skips(g, doc, F) \/ SaysAt(g, FieldPath(Tree(g), doc, F), cs[F])
  <2>1. /\ Skips(g, doc, F) <=> Skips(f, doc, F)
        /\ Containers(Tree(g), doc) = {} <=> Containers(Tree(f), doc) = {}
        /\ ~Skips(f, doc, F) => FieldPath(Tree(g), doc, F) = FieldPath(Tree(f), doc, F)
    BY <1>1, FieldsKept
  <2>. QED
    BY <1>1, <2>1
<1>4. /\ s0 = Untouched(g)
      /\ s1 = PatchField(s0, doc, "cpu", cs["cpu"])
      /\ s2 = PatchField(s1, doc, "memory", cs["memory"])
      /\ s3 = PatchField(s2, doc, "replicas", cs["replicas"])
      /\ PatchWorkload(g, cs)
           = IF doc = None \/ (s3.edits # <<>> /\ ~VerifyPatch(s3, doc)) THEN Error ELSE s3
  BY <1>2, Stages
<1>. HIDE DEF s0, s1, s2, s3
<1>5. IsResult(s0) /\ s0.ok /\ s0.lines = g /\ s0.edits = <<>>
  <2>1. IsFile(g)
    BY <1>1 DEF Sound
  <2>. QED
    BY <1>4, <2>1, UntouchedIsPatched DEF Patched, Untouched
<1>6. "cpu" \in Fields /\ "memory" \in Fields /\ "replicas" \in Fields
  BY DEF Fields
<1>. DEFINE said(F, res) ==
              cs[F] = None \/ F \in res.skipped \/ Value(g, doc, F) = <<cs[F]>>
            unedited(res) == IsResult(res) /\ res.ok /\ res.lines = g /\ res.edits = <<>>
<1>7. ASSUME NEW F \in Fields, NEW res, unedited(res),
             NEW next, next = PatchField(res, doc, F, cs[F])
      PROVE  unedited(next) /\ res.skipped \subseteq next.skipped /\ said(F, next)
  <2>1. /\ cs[F] # None /\ F # "replicas" => Containers(Tree(g), doc) # {}
        /\ cs[F] = None \/ Skips(g, doc, F) \/ SaysAt(g, FieldPath(Tree(g), doc, F), cs[F])
    BY <1>3
  <2>2. IsResult(res) /\ res.ok /\ g = res.lines /\ Sound(g) /\ res.edits = <<>>
    BY <1>1, <1>7
  <2>. DEFINE value == cs[F]
  <2>3. /\ value # None /\ F # "replicas" => Containers(Tree(g), doc) # {}
        /\ value = None \/ Skips(g, doc, F) \/ SaysAt(g, FieldPath(Tree(g), doc, F), value)
        /\ next = PatchField(res, doc, F, value)
    BY <1>7, <2>1
  <2>. HIDE DEF value
  <2>4. SaidAlready(res, g, doc, F, value, next)
    BY <2>2, <2>3, FieldSaidAlready
  <2>. QED
    BY <2>2, <2>4 DEF value, SaidAlready
<1>8. /\ unedited(s3) /\ s1.skipped \subseteq s2.skipped /\ s2.skipped \subseteq s3.skipped
      /\ said("cpu", s1) /\ said("memory", s2) /\ said("replicas", s3)
  <2>1. unedited(s0)
    BY <1>5
  <2>. HIDE DEF unedited, said
  <2>2. unedited(s1) /\ said("cpu", s1)
    BY <1>4, <1>6, <1>7, <2>1
  <2>3. unedited(s2) /\ said("memory", s2) /\ s1.skipped \subseteq s2.skipped
    <3>1. "memory" \in Fields /\ s2 = PatchField(s1, doc, "memory", cs["memory"])
      BY <1>4, <1>6
    <3>. QED
      BY <1>7, <2>2, <3>1
  <2>4. unedited(s3) /\ said("replicas", s3) /\ s2.skipped \subseteq s3.skipped
    <3>1. "replicas" \in Fields /\ s3 = PatchField(s2, doc, "replicas", cs["replicas"])
      BY <1>4, <1>6
    <3>. QED
      BY <1>7, <2>3, <3>1
  <2>. QED
    BY <2>2, <2>3, <2>4
<1>9. s3.ok /\ s3.edits = <<>>
  BY <1>8
<1>10. PatchWorkload(g, cs) = s3
  BY <1>1, <1>4, <1>9
<1>11. \A F \in Fields : said(F, s3)
  BY <1>8 DEF Fields
<1>. QED
  BY <1>2, <1>9, <1>10, <1>11

-----------------------------------------------------------------------------
(* The file is always legible, and after a change what its patch wrote. *)
ReadingInv ==
  /\ Legible(file)
  /\ Changed => PatchSays(original, change, file)

LEMMA ReadingInvariant ==
  ASSUME \A f \in Manifests : WellFormed(f) /\ Unparted(f)
  PROVE  Spec => []ReadingInv
<1>1. Init => ReadingInv
  BY ManifestsAreFiles DEF Init, ReadingInv, Legible, Changed
<1>2. ReadingInv /\ [Next]_vars => ReadingInv'
  <2>. SUFFICES ASSUME ReadingInv, [Next]_vars PROVE ReadingInv'
    OBVIOUS
  <2>1. ASSUME NEW cs, NEW patch, patch = PatchWorkload(file, cs), Merge(cs, patch)
        PROVE  ReadingInv'
    <3>1. /\ patch.ok /\ patch.edits # <<>>
          /\ file' = patch.lines /\ original' = file /\ change' = cs
      BY <2>1 DEF Merge
    <3>2. PatchSays(file, cs, patch.lines)
      BY <2>1, <3>1, PatchIsSaid DEF ReadingInv
    <3>3. Legible(file') /\ PatchSays(original', change', file')
      BY <3>1, <3>2 DEF PatchSays
    <3>. QED
      BY <3>3 DEF ReadingInv
  <2>2. ASSUME NEW cs \in ChangeSets, Propose(cs) PROVE ReadingInv'
    BY <2>1, <2>2 DEF Propose
  <2>3. CASE Rollback
    BY <2>1, <2>3 DEF Rollback
  <2>4. CASE UNCHANGED vars
    BY <2>4 DEF vars, ReadingInv, Changed
  <2>. QED
    BY <2>2, <2>3, <2>4 DEF Next
<1>. QED
  BY <1>1, <1>2, PTL DEF Spec

(* For all files that a decoder reads and whose block scalars have no blank
   before what looks like a comment or an entry, and for all change sets: after
   any number of patches and rollbacks the last one has left every value as it
   was that it may not touch, and every comment. *)
THEOREM NothingElseIsChanged ==
  ASSUME \A f \in Manifests : WellFormed(f) /\ Unparted(f)
  PROVE  Spec => []NothingElseChanges
<1>1. ReadingInv => NothingElseChanges
  BY OthersKept DEF ReadingInv, NothingElseChanges, PatchSays, Kept
<1>. QED
  BY <1>1, ReadingInvariant, PTL

(* For the same files and all change sets: a change that was merged last is not
   found to be a change again, by any of its fields. *)
THEOREM PatchingIsIdempotent ==
  ASSUME \A f \in Manifests : WellFormed(f) /\ Unparted(f)
  PROVE  Spec => []PatchTwiceIsOnce
<1>1. ReadingInv => PatchTwiceIsOnce
  BY SaidOnce DEF ReadingInv, PatchTwiceIsOnce
<1>. QED
  BY <1>1, ReadingInvariant, PTL

=============================================================================
