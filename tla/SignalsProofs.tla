--------------------------- MODULE SignalsProofs ---------------------------
(***************************************************************************)
(* Proofs about Signals.tla, for every window, policy, limit and history.  *)
(* A measurement is a function of the minutes it covers: which minutes     *)
(* those are is an invariant of the agent, and what measuring finds in     *)
(* them compares sums over them, minute by minute.                         *)
(*                                                                         *)
(* The sums come first.  The folds that define them are recursive          *)
(* functions over the subsets of a finite set: that such a function exists *)
(* and what holds of it is shown by induction over the subsets, with sets  *)
(* and functions in place of the operators that induction theorems         *)
(* usually take.                                                           *)
(***************************************************************************)
EXTENDS Signals, FiniteSetTheorems, TLAPS

(* Induction over the subsets of a finite set. *)
LEMMA SubsetInduction ==
  ASSUME NEW S, IsFiniteSet(S), NEW Good, {} \in Good,
         \A U \in SUBSET S : U # {} /\ (\A x \in U : U \ {x} \in Good) => U \in Good
  PROVE  SUBSET S \subseteq Good
<1>. DEFINE Bad == (SUBSET S) \ Good
<1>1. SUFFICES ASSUME Bad # {} PROVE FALSE
  BY DEF Bad
<1>2. IsWellFoundedOn(StrictSubsetOrdering(S), SUBSET S)
  BY FS_StrictSubsetOrderingWellFounded, FS_FiniteSubsetsOfFinite, Zenon
<1>3. Bad \subseteq SUBSET S
  BY DEF Bad
<1>. HIDE DEF Bad
<1>4. PICK U \in Bad : \A T \in Bad : <<T, U>> \notin StrictSubsetOrdering(S)
  BY <1>1, <1>2, <1>3, WFMin, Zenon
<1>5. ASSUME NEW x \in U PROVE U \ {x} \in Good
  <2>1. U \ {x} \in SUBSET S /\ U \in SUBSET S /\ U \ {x} \subseteq U /\ U \ {x} # U
    BY <1>3, <1>4
  <2>2. <<U \ {x}, U>> \in StrictSubsetOrdering(S)
    BY <2>1 DEF StrictSubsetOrdering
  <2>. QED
    BY <1>4, <2>1, <2>2 DEF Bad
<1>6. U \in SUBSET S /\ U # {}
  BY <1>4 DEF Bad
<1>7. U \in Good
  BY <1>5, <1>6
<1>. QED
  BY <1>4, <1>7 DEF Bad

(* Elements are taken from a set in this order. *)
Chosen(U) == CHOOSE x \in U : TRUE

(* g goes through the subsets of S, taking out an element at a time. *)
Folds(g, S, base, step) ==
  \A U \in SUBSET S :
    g[U] = IF U = {} THEN base ELSE step[<<Chosen(U), g[U \ {Chosen(U)}]>>]

(* A recursion over the subsets of a finite set that takes out an element at a
   time defines a function.  step is a function so that the lemma can be applied
   to any operation. *)
LEMMA SubsetRecursion ==
  ASSUME NEW S, IsFiniteSet(S), NEW V, NEW base \in V, NEW step \in [S \X V -> V]
  PROVE  \E g \in [SUBSET S -> V] : Folds(g, S, base, step)
<1>. DEFINE Pairs == (SUBSET S) \X V
            Closed(R) == /\ <<{}, base>> \in R
                         /\ \A U \in SUBSET S, v \in V :
                              U # {} /\ <<U \ {Chosen(U)}, v>> \in R
                                => <<U, step[<<Chosen(U), v>>]>> \in R
            G == {p \in Pairs : \A R \in SUBSET Pairs : Closed(R) => p \in R}
            Good == {U \in SUBSET S : \E v \in V : \A w \in V : <<U, w>> \in G <=> w = v}
<1>1. \A U \in SUBSET S : U # {} => Chosen(U) \in U /\ Chosen(U) \in S /\ U \ {Chosen(U)} \in SUBSET S
  BY DEF Chosen
<1>2. \A U \in SUBSET S, v \in V : U # {} => step[<<Chosen(U), v>>] \in V
  BY <1>1
<1>3. Closed(G)
  <2>1. <<{}, base>> \in G
    <3>1. <<{}, base>> \in Pairs
      OBVIOUS
    <3>2. ASSUME NEW R \in SUBSET Pairs, Closed(R) PROVE <<{}, base>> \in R
      BY <3>2
    <3>. QED
      BY <3>1, <3>2
  <2>2. ASSUME NEW U \in SUBSET S, NEW v \in V, U # {}, <<U \ {Chosen(U)}, v>> \in G
        PROVE  <<U, step[<<Chosen(U), v>>]>> \in G
    <3>1. <<U, step[<<Chosen(U), v>>]>> \in Pairs
      BY <1>2, <2>2
    <3>2. ASSUME NEW R \in SUBSET Pairs, Closed(R) PROVE <<U, step[<<Chosen(U), v>>]>> \in R
      <4>1. <<U \ {Chosen(U)}, v>> \in R
        BY <2>2, <3>2
      <4>. QED
        BY <2>2, <3>2, <4>1
    <3>. QED
      BY <3>1, <3>2
  <2>. QED
    BY <2>1, <2>2
<1>4. {} \in Good
  <2>1. ASSUME NEW w \in V, <<{}, w>> \in G, w # base PROVE FALSE
    <3>. DEFINE R == G \ {<<{}, w>>}
    <3>1. Closed(R)
      BY <1>3, <2>1
    <3>2. R \in SUBSET Pairs
      OBVIOUS
    <3>3. <<{}, w>> \in R
      BY <2>1, <3>1, <3>2
    <3>. QED
      BY <3>3
  <2>. QED
    BY <1>3, <2>1
<1>5. ASSUME NEW U \in SUBSET S, U # {}, \A x \in U : U \ {x} \in Good PROVE U \in Good
  <2>. DEFINE x == Chosen(U)
  <2>0. x \in U /\ x \in S /\ U \ {x} \in SUBSET S
    BY <1>1, <1>5
  <2>1. PICK v \in V : \A w \in V : <<U \ {x}, w>> \in G <=> w = v
    BY <1>5, <2>0
  <2>. DEFINE u == step[<<x, v>>]
  <2>2. u \in V /\ <<U, u>> \in G
    BY <1>2, <1>3, <1>5, <2>1
  <2>3. ASSUME NEW w \in V, <<U, w>> \in G, w # u PROVE FALSE
    <3>. DEFINE R == G \ {<<U, w>>}
    <3>1. <<{}, base>> \in R
      BY <1>3, <1>5
    <3>2. ASSUME NEW U2 \in SUBSET S, NEW v2 \in V, U2 # {}, <<U2 \ {Chosen(U2)}, v2>> \in R
          PROVE  <<U2, step[<<Chosen(U2), v2>>]>> \in R
      <4>1. <<U2, step[<<Chosen(U2), v2>>]>> \in G
        BY <1>3, <3>2
      <4>2. U2 = U => v2 = v
        BY <2>1, <3>2
      <4>. QED
        BY <2>3, <4>1, <4>2
    <3>3. Closed(R)
      BY <3>1, <3>2
    <3>4. R \in SUBSET Pairs
      OBVIOUS
    <3>5. <<U, w>> \in R
      BY <2>3, <3>3, <3>4
    <3>. QED
      BY <3>5
  <2>. QED
    BY <2>2, <2>3
<1>. HIDE DEF Good
<1>6. SUBSET S \subseteq Good
  BY <1>4, <1>5, SubsetInduction
<1>. DEFINE g == [U \in SUBSET S |-> CHOOSE v \in V : <<U, v>> \in G]
<1>7. ASSUME NEW U \in SUBSET S
      PROVE  g[U] \in V /\ \A w \in V : <<U, w>> \in G <=> w = g[U]
  <2>. HIDE DEF G
  <2>1. PICK v \in V : \A w \in V : <<U, w>> \in G <=> w = v
    BY <1>6 DEF Good
  <2>2. g[U] = v
    BY <2>1
  <2>. QED
    BY <2>1, <2>2
<1>8. g \in [SUBSET S -> V]
  BY <1>7
<1>. HIDE DEF g, G
<1>9. ASSUME NEW U \in SUBSET S
      PROVE  g[U] = IF U = {} THEN base ELSE step[<<Chosen(U), g[U \ {Chosen(U)}]>>]
  <2>1. CASE U = {}
    BY <1>3, <1>7, <2>1
  <2>2. CASE U # {}
    BY <1>1, <1>2, <1>3, <1>7, <2>2
  <2>. QED
    BY <2>1, <2>2
<1>. QED
  BY <1>8, <1>9 DEF Folds

(* What a sum over S goes through. *)
PartialSums(f, S, F) ==
  /\ f \in [SUBSET S -> Nat]
  /\ SumFunction(F) = f[S]
  /\ f[{}] = 0
  /\ \A U \in SUBSET S : U # {} => f[U] = F[Chosen(U)] + f[U \ {Chosen(U)}]

LEMMA SumUnfolds ==
  ASSUME NEW S, IsFiniteSet(S), NEW F \in [S -> Nat]
  PROVE  \E f : PartialSums(f, S, F)
<1>. DEFINE Step(h) == [U \in SUBSET S |->
                          IF U = {} THEN 0 ELSE F[Chosen(U)] + h[U \ {Chosen(U)}]]
            g == CHOOSE h : h = Step(h)
<1>0. DOMAIN F = S
  OBVIOUS
<1>1. SumFunction(F) = g[S]
  BY <1>0 DEF SumFunction, SumFunctionOnSet, FoldFunctionOnSet, MapThenFoldSet, Chosen
<1>2. PICK k \in [SUBSET S -> Nat] : k = Step(k)
  <2>. DEFINE step == [p \in S \X Nat |-> F[p[1]] + p[2]]
  <2>1. step \in [S \X Nat -> Nat] /\ IsFiniteSet(S) /\ 0 \in Nat
    OBVIOUS
  <2>. HIDE DEF step
  <2>2. PICK k \in [SUBSET S -> Nat] : Folds(k, S, 0, step)
    BY <2>1, SubsetRecursion, Zenon
  <2>3. \A U \in SUBSET S : U # {} => Chosen(U) \in S
    BY DEF Chosen
  <2>4. k = Step(k)
    BY <2>2, <2>3 DEF step, Folds
  <2>. QED
    BY <2>4
<1>3. g = Step(g)
  BY <1>2
<1>. HIDE DEF g
<1>4. SUBSET S \subseteq {U \in SUBSET S : g[U] \in Nat}
  <2>1. {} \in {U \in SUBSET S : g[U] \in Nat}
    BY <1>3
  <2>2. ASSUME NEW U \in SUBSET S, U # {},
               \A x \in U : U \ {x} \in {W \in SUBSET S : g[W] \in Nat}
        PROVE  U \in {W \in SUBSET S : g[W] \in Nat}
    <3>1. Chosen(U) \in U /\ F[Chosen(U)] \in Nat
      BY <2>2 DEF Chosen
    <3>2. g[U \ {Chosen(U)}] \in Nat
      BY <2>2, <3>1
    <3>3. g[U] = F[Chosen(U)] + g[U \ {Chosen(U)}]
      BY <1>3, <2>2
    <3>. QED
      BY <3>1, <3>2, <3>3
  <2>. DEFINE Good == {U \in SUBSET S : g[U] \in Nat}
  <2>3. IsFiniteSet(S) /\ {} \in Good
        /\ \A U \in SUBSET S : U # {} /\ (\A x \in U : U \ {x} \in Good) => U \in Good
    BY <2>1, <2>2
  <2>. HIDE DEF Good
  <2>4. SUBSET S \subseteq Good
    BY <2>3, SubsetInduction, Zenon
  <2>. QED
    BY <2>4 DEF Good
<1>5. g \in [SUBSET S -> Nat]
  BY <1>3, <1>4
<1>6. PartialSums(g, S, F)
  BY <1>1, <1>3, <1>5 DEF PartialSums
<1>. QED
  BY <1>6

LEMMA SumType ==
  ASSUME NEW S, IsFiniteSet(S), NEW F \in [S -> Nat]
  PROVE  SumFunction(F) \in Nat
<1>1. PICK f : PartialSums(f, S, F)
  BY SumUnfolds
<1>. QED
  BY <1>1 DEF PartialSums

(* Of two series over the same minutes, one is bounded by the other, minute by
   minute. *)
AtMost(S, F, a, c, G, b) == \A x \in S : a * F[x] + c <= b * G[x]

LessThan(S, F, a, c, G, b) == \A x \in S : a * F[x] + c < b * G[x]

(* Then so are their sums. *)
LEMMA SumsCompare ==
  ASSUME NEW S, IsFiniteSet(S), NEW F \in [S -> Nat], NEW G \in [S -> Nat],
         NEW a \in Int, NEW b \in Int, NEW c \in Int
  PROVE  /\ AtMost(S, F, a, c, G, b)
              => a * SumFunction(F) + c * Cardinality(S) <= b * SumFunction(G)
         /\ S # {} /\ LessThan(S, F, a, c, G, b)
              => a * SumFunction(F) + c * Cardinality(S) < b * SumFunction(G)
<1>. SUFFICES ASSUME \A x \in S : a * F[x] + c <= b * G[x]
              PROVE  /\ a * SumFunction(F) + c * Cardinality(S) <= b * SumFunction(G)
                     /\ (S # {} /\ \A x \in S : a * F[x] + c < b * G[x])
                          => a * SumFunction(F) + c * Cardinality(S) < b * SumFunction(G)
  <2>1. \A x \in S : a * F[x] \in Int /\ b * G[x] \in Int
    OBVIOUS
  <2>. QED
    BY <2>1 DEF AtMost, LessThan
<1>1. PICK f : PartialSums(f, S, F)
  BY SumUnfolds
<1>2. PICK g : PartialSums(g, S, G)
  BY SumUnfolds
<1>. USE DEF PartialSums
<1>. DEFINE Strict == \A x \in S : a * F[x] + c < b * G[x]
            Holds(U) == /\ a * f[U] + c * Cardinality(U) <= b * g[U]
                        /\ U # {} /\ Strict => a * f[U] + c * Cardinality(U) < b * g[U]
            Good == {U \in SUBSET S : Holds(U)}
<1>3. {} \in Good
  BY <1>1, <1>2, FS_EmptySet
<1>4. ASSUME NEW U \in SUBSET S, U # {}, \A x \in U : U \ {x} \in Good PROVE U \in Good
  <2>. DEFINE x == Chosen(U)
              T == U \ {x}
  <2>1. x \in U /\ x \in S /\ T \in SUBSET S
    BY <1>4 DEF Chosen
  <2>2. f[U] = F[x] + f[T] /\ g[U] = G[x] + g[T]
    BY <1>1, <1>2, <1>4
  <2>3. IsFiniteSet(U) /\ Cardinality(U) \in Nat
    BY FS_Subset, FS_CardinalityType
  <2>4. Cardinality(T) = Cardinality(U) - 1
    BY <2>1, <2>3, FS_RemoveElement
  <2>. DEFINE n == Cardinality(U)
              m == Cardinality(T)
  <2>5. n \in Nat /\ m \in Int /\ m = n - 1
    BY <2>3, <2>4
  <2>6. /\ a * f[T] + c * m <= b * g[T]
        /\ a * F[x] + c <= b * G[x]
        /\ Strict => a * F[x] + c < b * G[x]
    BY <1>4, <2>1
  <2>7. f[T] \in Nat /\ g[T] \in Nat /\ F[x] \in Nat /\ G[x] \in Nat
    BY <1>1, <1>2, <2>1
  <2>. HIDE DEF n, m, x, T
  <2>8. /\ a * (F[x] + f[T]) = a * F[x] + a * f[T]
        /\ b * (G[x] + g[T]) = b * G[x] + b * g[T]
        /\ c * n = c * m + c
    BY <2>5, <2>7
  <2>9. /\ a * F[x] \in Int /\ a * f[T] \in Int /\ b * G[x] \in Int /\ b * g[T] \in Int
        /\ c * m \in Int
    BY <2>5, <2>7
  <2>10. a * f[U] + c * n <= b * g[U] /\ (Strict => a * f[U] + c * n < b * g[U])
    BY <2>2, <2>6, <2>8, <2>9
  <2>. QED
    BY <2>10 DEF n
<1>. HIDE DEF Good
<1>5. SUBSET S \subseteq Good
  BY <1>3, <1>4, SubsetInduction
<1>. QED
  BY <1>1, <1>2, <1>5 DEF Good

(* The same for a sum of quotients. *)
PartialTotals(g, S, F) ==
  /\ g \in [SUBSET S -> Ratio]
  /\ Total(F) = g[S]
  /\ g[{}] = Number(0)
  /\ \A U \in SUBSET S : U # {} => g[U] = Plus(F[Chosen(U)], g[U \ {Chosen(U)}])

LEMMA QuotientsUnfold ==
  ASSUME NEW S, IsFiniteSet(S), NEW F \in [S -> Ratio]
  PROVE  \E g : PartialTotals(g, S, F)
<1>. DEFINE Step(h) == [U \in SUBSET S |->
                          IF U = {} THEN Number(0)
                          ELSE Plus(F[Chosen(U)], h[U \ {Chosen(U)}])]
            g == CHOOSE h : h = Step(h)
<1>0. /\ Number(0) \in Ratio
      /\ \A r \in Ratio, s \in Ratio : Plus(r, s) \in Ratio
      /\ \A U \in SUBSET S : U # {} =>
           Chosen(U) \in S /\ Chosen(U) \in U /\ F[Chosen(U)] \in Ratio /\ U \ {Chosen(U)} \in SUBSET S
  BY DEF Number, Plus, Ratio, Chosen
<1>1. Total(F) = g[S]
  <2>1. DOMAIN F = S
    OBVIOUS
  <2>. QED
    BY <2>1 DEF Total, FoldFunction, FoldFunctionOnSet, MapThenFoldSet, Chosen
<1>2. PICK k \in [SUBSET S -> Ratio] : k = Step(k)
  <2>. DEFINE step == [p \in S \X Ratio |-> Plus(F[p[1]], p[2])]
  <2>1. step \in [S \X Ratio -> Ratio] /\ Number(0) \in Ratio
    BY <1>0
  <2>2. \A U \in SUBSET S, v \in Ratio :
          U # {} => step[<<Chosen(U), v>>] = Plus(F[Chosen(U)], v)
    BY <1>0
  <2>. HIDE DEF step
  <2>3. PICK k \in [SUBSET S -> Ratio] : Folds(k, S, Number(0), step)
    BY <2>1, SubsetRecursion, Zenon
  <2>4. k = Step(k)
    BY <1>0, <2>2, <2>3 DEF Folds
  <2>. QED
    BY <2>4
<1>3. g = Step(g)
  BY <1>2
<1>. HIDE DEF g
<1>4. SUBSET S \subseteq {U \in SUBSET S : g[U] \in Ratio}
  <2>. DEFINE Good == {U \in SUBSET S : g[U] \in Ratio}
  <2>1. {} \in Good
    BY <1>0, <1>3
  <2>2. ASSUME NEW U \in SUBSET S, U # {}, \A x \in U : U \ {x} \in Good
        PROVE  U \in Good
    <3>1. g[U] = Plus(F[Chosen(U)], g[U \ {Chosen(U)}])
      BY <1>3, <2>2
    <3>2. g[U \ {Chosen(U)}] \in Ratio
      BY <1>0, <2>2
    <3>. QED
      BY <1>0, <2>2, <3>1, <3>2
  <2>. HIDE DEF Good
  <2>3. SUBSET S \subseteq Good
    BY <2>1, <2>2, SubsetInduction
  <2>. QED
    BY <2>3 DEF Good
<1>5. g \in [SUBSET S -> Ratio]
  BY <1>3, <1>4
<1>6. PartialTotals(g, S, F)
  BY <1>1, <1>3, <1>5 DEF PartialTotals
<1>. QED
  BY <1>6

LEMMA AverageType ==
  ASSUME NEW S, IsFiniteSet(S), NEW F \in [S -> Ratio]
  PROVE  Average(F) \in Ratio
<1>1. PICK g : PartialTotals(g, S, F)
  BY QuotientsUnfold
<1>. USE DEF PartialTotals
<1>2. Cardinality(S) \in Nat /\ DOMAIN F = S /\ g[S] \in Ratio /\ Number(0) \in Ratio
  BY <1>1, FS_CardinalityType DEF Number, Ratio
<1>3. [g[S] EXCEPT !.den = @ * Cardinality(S)]
        = [num |-> g[S].num, den |-> g[S].den * Cardinality(S)]
  BY <1>2 DEF Ratio
<1>. QED
  BY <1>1, <1>2, <1>3 DEF Average, Ratio

(* An average of counts. *)
LEMMA AverageOfCounts ==
  ASSUME NEW S, IsFiniteSet(S), S # {}, NEW F \in [S -> Nat]
  PROVE  Average([x \in S |-> Number(F[x])])
           = [num |-> SumFunction(F), den |-> Cardinality(S)]
<1>. DEFINE N == [x \in S |-> Number(F[x])]
<1>0. /\ N \in [S -> Ratio] /\ DOMAIN N = S /\ DOMAIN F = S
      /\ \A x \in S : N[x] = Number(F[x])
  BY DEF Number, Ratio
<1>. HIDE DEF N
<1>1. PICK f : PartialSums(f, S, F)
  BY SumUnfolds
<1>2. PICK g : PartialTotals(g, S, N)
  BY <1>0, QuotientsUnfold
<1>. USE DEF PartialSums, PartialTotals
<1>. DEFINE Good == {U \in SUBSET S : g[U] = Number(f[U])}
<1>3. {} \in Good
  BY <1>1, <1>2
<1>4. ASSUME NEW U \in SUBSET S, U # {}, \A x \in U : U \ {x} \in Good PROVE U \in Good
  <2>. DEFINE x == Chosen(U)
              T == U \ {x}
  <2>1. x \in U /\ x \in S /\ T \in SUBSET S
    BY <1>4 DEF Chosen
  <2>2. f[U] = F[x] + f[T] /\ g[U] = Plus(Number(F[x]), Number(f[T]))
    BY <1>0, <1>1, <1>2, <1>4, <2>1
  <2>3. f[T] \in Nat /\ F[x] \in Nat
    BY <1>1, <2>1
  <2>. HIDE DEF x, T
  <2>4. Plus(Number(F[x]), Number(f[T])) = Number(F[x] + f[T])
    BY <2>3 DEF Plus, Number
  <2>. QED
    BY <2>2, <2>4
<1>. HIDE DEF Good
<1>5. SUBSET S \subseteq Good
  BY <1>3, <1>4, SubsetInduction
<1>6. Total(N) = Number(SumFunction(F))
  BY <1>1, <1>2, <1>5 DEF Good
<1>7. Cardinality(S) \in Nat
  BY FS_CardinalityType
<1>8. Average(N) = [Number(SumFunction(F)) EXCEPT !.den = @ * Cardinality(S)]
  BY <1>0, <1>6 DEF Average
<1>9. Average(N) = [num |-> SumFunction(F), den |-> Cardinality(S)]
  BY <1>7, <1>8 DEF Number
<1>. QED
  BY <1>9 DEF N

LEMMA ProductsOrdered ==
  ASSUME NEW a \in Int, NEW b \in Int, NEW c \in Nat
  PROVE  /\ a <= b => a * c <= b * c
         /\ a < b /\ c # 0 => a * c < b * c
<1>1. PICK d \in Int : b = a + d
  <2>1. b = a + (b - a) /\ b - a \in Int
    OBVIOUS
  <2>. QED
    BY <2>1
<1>2. b * c = a * c + d * c
  BY <1>1
<1>3. d >= 0 => d * c >= 0
  OBVIOUS
<1>4. d > 0 /\ c > 0 => d * c > 0
  OBVIOUS
<1>5. a * c \in Int /\ b * c \in Int /\ d * c \in Int
  OBVIOUS
<1>. QED
  BY <1>1, <1>2, <1>3, <1>4, <1>5

(* A quotient joins n others of which none is below m: their sum is not below
   (n+1) * m.  Nor is it, if all are. *)
LEMMA PlusCompares ==
  ASSUME NEW r \in Ratio, NEW s \in Ratio, NEW m \in Ratio, NEW n \in Nat
  PROVE  LET p == Plus(r, s) IN
         /\ ~Less(r, m) /\ s.num * m.den >= m.num * s.den * n
              => p.num * m.den >= m.num * p.den * (n + 1)
         /\ Less(r, m) /\ s.den > 0 /\ s.num * m.den <= m.num * s.den * n
              => p.den > 0 /\ p.num * m.den < m.num * p.den * (n + 1)
<1>. DEFINE rn == r.num  rd == r.den  sn == s.num  sd == s.den  mn == m.num  md == m.den
<1>0. /\ rn \in Nat /\ rd \in Nat /\ sn \in Nat /\ sd \in Nat /\ mn \in Nat /\ md \in Nat
      /\ Plus(r, s).num = rn * sd + sn * rd
      /\ Plus(r, s).den = rd * sd
      /\ Less(r, m) <=> rn * md < mn * rd
  BY DEF Ratio, Plus, Less
<1>. HIDE DEF rn, rd, sn, sd, mn, md
<1>1. /\ (rn * sd + sn * rd) * md = (rn * md) * sd + (sn * md) * rd
      /\ mn * (rd * sd) * (n + 1) = (mn * rd) * sd + (mn * sd * n) * rd
  BY <1>0
<1>2. /\ rn * md \in Nat /\ mn * rd \in Nat /\ sn * md \in Nat /\ mn * sd * n \in Nat
      /\ (rn * md) * sd \in Nat /\ (mn * rd) * sd \in Nat
      /\ (sn * md) * rd \in Nat /\ (mn * sd * n) * rd \in Nat
  BY <1>0
<1>3. /\ ~(rn * md < mn * rd) => (rn * md) * sd >= (mn * rd) * sd
      /\ sn * md >= mn * sd * n => (sn * md) * rd >= (mn * sd * n) * rd
  BY <1>0, <1>2, ProductsOrdered
<1>4. /\ rn * md < mn * rd /\ sd > 0 => (rn * md) * sd < (mn * rd) * sd
      /\ sn * md <= mn * sd * n => (sn * md) * rd <= (mn * sd * n) * rd
  BY <1>0, <1>2, ProductsOrdered
<1>5. rn * md < mn * rd /\ sd > 0 => rd * sd > 0
  <2>1. rd = 0 => mn * rd = 0
    BY <1>0
  <2>2. rd # 0 /\ sd > 0 => rd * sd > 0
    BY <1>0
  <2>. QED
    BY <1>0, <1>2, <2>1, <2>2
<1>. QED
  BY <1>0, <1>1, <1>2, <1>3, <1>4, <1>5 DEF rn, rd, sn, sd, mn, md

(* An average lies between bounds its quotients lie between. *)
LEMMA AverageCompares ==
  ASSUME NEW S, IsFiniteSet(S), S # {}, NEW F \in [S -> Ratio], NEW m \in Ratio
  PROVE  /\ (\A x \in S : ~Less(F[x], m)) => ~Less(Average(F), m)
         /\ (\A x \in S : Less(F[x], m)) => Known(Average(F)) /\ Less(Average(F), m)
<1>. DEFINE Above == \A x \in S : ~Less(F[x], m)
            Below == \A x \in S : Less(F[x], m)
<1>1. PICK g : PartialTotals(g, S, F)
  BY QuotientsUnfold
<1>. USE DEF PartialTotals
<1>. DEFINE Holds(U) ==
              /\ Above => g[U].num * m.den >= m.num * g[U].den * Cardinality(U)
              /\ Below => /\ g[U].den > 0
                          /\ g[U].num * m.den <= m.num * g[U].den * Cardinality(U)
                          /\ U # {} => g[U].num * m.den < m.num * g[U].den * Cardinality(U)
            Good == {U \in SUBSET S : Holds(U)}
<1>2. {} \in Good
  <2>1. g[{}].num = 0 /\ g[{}].den = 1 /\ Cardinality({}) = 0 /\ m.num \in Nat /\ m.den \in Nat
    BY <1>1, FS_EmptySet DEF Number, Ratio
  <2>. QED
    BY <2>1
<1>3. ASSUME NEW U \in SUBSET S, U # {}, \A x \in U : U \ {x} \in Good PROVE U \in Good
  <2>. DEFINE x == Chosen(U)
              T == U \ {x}
              n == Cardinality(T)
  <2>1. x \in U /\ x \in S /\ T \in SUBSET S
    BY <1>3 DEF Chosen
  <2>2. g[U] = Plus(F[x], g[T])
    BY <1>1, <1>3
  <2>3. IsFiniteSet(U) /\ Cardinality(U) \in Nat /\ IsFiniteSet(T) /\ n \in Nat
    BY <2>1, FS_Subset, FS_CardinalityType
  <2>4. n = Cardinality(U) - 1
    BY <2>1, <2>3, FS_RemoveElement
  <2>5. /\ Above => g[T].num * m.den >= m.num * g[T].den * n
        /\ Below => g[T].den > 0 /\ g[T].num * m.den <= m.num * g[T].den * n
    BY <1>3, <2>1
  <2>6. F[x] \in Ratio /\ g[T] \in Ratio
    BY <1>1, <2>1
  <2>7. Cardinality(U) = n + 1
    BY <2>3, <2>4
  <2>8. (Above => ~Less(F[x], m)) /\ (Below => Less(F[x], m))
    BY <2>1
  <2>. HIDE DEF x, T, n, Above, Below
  <2>9. /\ Above => g[U].num * m.den >= m.num * g[U].den * (n + 1)
        /\ Below => g[U].den > 0 /\ g[U].num * m.den < m.num * g[U].den * (n + 1)
    BY <2>2, <2>3, <2>5, <2>6, <2>8, PlusCompares
  <2>10. /\ g[U].num * m.den \in Int /\ m.num * g[U].den * (n + 1) \in Int
    <3>1. g[U] \in Ratio /\ n \in Nat
      BY <1>1, <2>3
    <3>. QED
      BY <3>1 DEF Ratio
  <2>11. Holds(U)
    BY <2>7, <2>9, <2>10
  <2>. QED
    BY <2>11
<1>. HIDE DEF Good
<1>4. SUBSET S \subseteq Good
  BY <1>2, <1>3, SubsetInduction
<1>5. Holds(S)
  BY <1>4 DEF Good
<1>6. Cardinality(S) \in Nat /\ Cardinality(S) # 0 /\ DOMAIN F = S /\ g[S] \in Ratio
  BY <1>1, FS_CardinalityType, FS_EmptySet
<1>7. Average(F) = [num |-> g[S].num, den |-> g[S].den * Cardinality(S)]
  BY <1>1, <1>6 DEF Average, Ratio
<1>. HIDE DEF Above, Below
<1>8. m.num * (g[S].den * Cardinality(S)) = m.num * g[S].den * Cardinality(S)
  BY <1>6 DEF Ratio
<1>9. g[S].den > 0 => g[S].den * Cardinality(S) # 0
  BY <1>6 DEF Ratio
<1>10. g[S].num * m.den \in Int /\ m.num * g[S].den * Cardinality(S) \in Int
  BY <1>6 DEF Ratio
<1>11. /\ Above => ~Less(Average(F), m)
       /\ Below => Known(Average(F)) /\ Less(Average(F), m)
  BY <1>5, <1>7, <1>8, <1>9, <1>10 DEF Less, Known
<1>. QED
  BY <1>11 DEF Above, Below

(* Two series over windows that need not be the same: if every minute of one
   compares with every minute of the other, so do the sums. *)
LEMMA CountsOfPairs ==
  ASSUME NEW T, IsFiniteSet(T), NEW B, IsFiniteSet(B), T # {}, B # {},
         NEW F \in [T -> Nat], NEW G \in [B -> Nat], NEW c \in Nat, NEW d \in Nat
  PROVE  /\ (\A t \in T, b \in B : F[t] <= G[b])
              => SumFunction(F) * Cardinality(B) <= SumFunction(G) * Cardinality(T)
         /\ (\A t \in T, b \in B : d * G[b] + c < d * F[t])
              => d * Cardinality(T) * SumFunction(G) + c * Cardinality(T) * Cardinality(B)
                   < d * Cardinality(B) * SumFunction(F)
<1>. DEFINE SF == SumFunction(F)
            SG == SumFunction(G)
            n == Cardinality(T)
            m == Cardinality(B)
<1>0. SF \in Nat /\ SG \in Nat /\ n \in Nat /\ m \in Nat
  BY SumType, FS_CardinalityType
<1>1. ASSUME \A t \in T, b \in B : F[t] <= G[b] PROVE SF * m <= SG * n
  <2>1. ASSUME NEW b \in B PROVE 0 * G[b] + SF <= n * G[b]
    <3>. DEFINE k == -G[b]
    <3>1. k \in Int /\ AtMost(T, F, 1, k, F, 0)
      BY <1>1 DEF AtMost
    <3>. HIDE DEF k
    <3>2. 1 * SF + k * n <= 0 * SF
      BY <3>1, SumsCompare
    <3>. HIDE DEF SF, n
    <3>3. G[b] \in Nat /\ k * n = -(n * G[b])
      BY <1>0 DEF k
    <3>. QED
      BY <1>0, <3>2, <3>3
  <2>. HIDE DEF SF, n
  <2>2. AtMost(B, G, 0, SF, G, n)
    BY <2>1 DEF AtMost
  <2>3. 0 * SG + SF * m <= n * SG
    BY <1>0, <2>2, SumsCompare
  <2>. HIDE DEF SG, m
  <2>. QED
    BY <1>0, <2>3
<1>2. ASSUME \A t \in T, b \in B : d * G[b] + c < d * F[t]
      PROVE  d * n * SG + c * n * m < d * m * SF
  <2>. DEFINE k == c * n - d * SF
  <2>1. ASSUME NEW b \in B PROVE (d * n) * G[b] + k < 0 * G[b]
    <3>. DEFINE h == d * G[b] + c
    <3>1. h \in Int /\ LessThan(T, F, 0, h, F, d)
      BY <1>2 DEF LessThan
    <3>. HIDE DEF h
    <3>2. 0 * SF + h * n < d * SF
      BY <3>1, SumsCompare
    <3>. HIDE DEF SF, n
    <3>3. G[b] \in Nat /\ h * n = (d * n) * G[b] + c * n
      BY <1>0 DEF h
    <3>. QED
      BY <1>0, <3>2, <3>3
  <2>2. k \in Int /\ d * n \in Int
    BY <1>0
  <2>. DEFINE e == d * n
  <2>. HIDE DEF k
  <2>3. LessThan(B, G, e, k, G, 0)
    BY <2>1 DEF LessThan
  <2>. HIDE DEF e
  <2>4. e * SG + k * m < 0 * SG
    BY <2>2, <2>3, SumsCompare DEF e
  <2>. HIDE DEF SF, SG, n, m
  <2>5. k * m = c * n * m - d * m * SF
    BY <1>0 DEF k
  <2>. QED
    BY <1>0, <2>4, <2>5 DEF e
<1>. QED
  BY <1>1, <1>2

LEMMA RatiosOfPairs ==
  ASSUME NEW T, IsFiniteSet(T), NEW B, IsFiniteSet(B), T # {}, B # {},
         NEW F \in [T -> Nat], NEW FD \in [T -> Nat],
         NEW G \in [B -> Nat], NEW GD \in [B -> Nat], NEW c \in Nat, NEW d \in Nat
  PROVE  /\ (\A t \in T, b \in B : F[t] * GD[b] <= G[b] * FD[t])
              => SumFunction(F) * SumFunction(GD) <= SumFunction(G) * SumFunction(FD)
         /\ (\A t \in T, b \in B : (F[t] * GD[b] - G[b] * FD[t]) * d > c * FD[t] * GD[b])
              => (SumFunction(F) * SumFunction(GD) - SumFunction(G) * SumFunction(FD)) * d
                    > c * SumFunction(FD) * SumFunction(GD)
<1>. DEFINE SF == SumFunction(F)
            SFD == SumFunction(FD)
            SG == SumFunction(G)
            SGD == SumFunction(GD)
<1>0. SF \in Nat /\ SFD \in Nat /\ SG \in Nat /\ SGD \in Nat
  BY SumType
<1>1. ASSUME \A t \in T, b \in B : F[t] * GD[b] <= G[b] * FD[t]
      PROVE  SF * SGD <= SG * SFD
  <2>1. ASSUME NEW b \in B PROVE SF * GD[b] + 0 <= SFD * G[b]
    <3>1. /\ GD[b] \in Int /\ G[b] \in Int
          /\ AtMost(T, F, GD[b], 0, FD, G[b])
      BY <1>1 DEF AtMost
    <3>2. GD[b] * SF + 0 * Cardinality(T) <= G[b] * SFD
      BY <3>1, SumsCompare
    <3>3. Cardinality(T) \in Nat
      BY FS_CardinalityType
    <3>. HIDE DEF SF, SFD
    <3>. QED
      BY <1>0, <3>1, <3>2, <3>3
  <2>. HIDE DEF SF, SFD
  <2>2. AtMost(B, GD, SF, 0, G, SFD)
    BY <2>1 DEF AtMost
  <2>3. SF * SGD + 0 * Cardinality(B) <= SFD * SG
    BY <1>0, <2>2, SumsCompare
  <2>4. Cardinality(B) \in Nat
    BY FS_CardinalityType
  <2>. HIDE DEF SG, SGD
  <2>. QED
    BY <1>0, <2>3, <2>4
<1>2. ASSUME \A t \in T, b \in B : (F[t] * GD[b] - G[b] * FD[t]) * d > c * FD[t] * GD[b]
      PROVE  (SF * SGD - SG * SFD) * d > c * SFD * SGD
  <2>. DEFINE k == d * SFD
              l == d * SF - c * SFD
  <2>1. ASSUME NEW b \in B PROVE k * G[b] + 0 < l * GD[b]
    <3>. DEFINE h == c * GD[b] + G[b] * d
                j == d * GD[b]
    <3>0. G[b] \in Nat /\ GD[b] \in Nat
      OBVIOUS
    <3>1. ASSUME NEW t \in T PROVE h * FD[t] + 0 < j * F[t]
      <4>1. /\ F[t] \in Nat /\ FD[t] \in Nat
            /\ (F[t] * GD[b] - G[b] * FD[t]) * d > c * FD[t] * GD[b]
        BY <1>2
      <4>2. /\ (F[t] * GD[b] - G[b] * FD[t]) * d = j * F[t] - (G[b] * d) * FD[t]
            /\ h * FD[t] = c * FD[t] * GD[b] + (G[b] * d) * FD[t]
        BY <3>0, <4>1
      <4>3. /\ j * F[t] \in Int /\ (G[b] * d) * FD[t] \in Int /\ c * FD[t] * GD[b] \in Int
        BY <3>0, <4>1
      <4>. QED
        BY <4>1, <4>2, <4>3
    <3>2. h \in Int /\ j \in Int /\ LessThan(T, FD, h, 0, F, j)
      BY <3>0, <3>1 DEF LessThan
    <3>. HIDE DEF h, j
    <3>3. h * SFD + 0 * Cardinality(T) < j * SF
      BY <3>2, SumsCompare
    <3>4. Cardinality(T) \in Nat
      BY FS_CardinalityType
    <3>. HIDE DEF SF, SFD
    <3>5. /\ h * SFD = (c * SFD) * GD[b] + k * G[b]
          /\ j * SF = (d * SF) * GD[b]
          /\ l * GD[b] = (d * SF) * GD[b] - (c * SFD) * GD[b]
      BY <1>0, <3>0 DEF h, j
    <3>6. /\ k * G[b] \in Int /\ (d * SF) * GD[b] \in Int /\ (c * SFD) * GD[b] \in Int
      BY <1>0, <3>0
    <3>. QED
      BY <3>3, <3>4, <3>5, <3>6
  <2>2. k \in Int /\ l \in Int
    BY <1>0
  <2>. HIDE DEF k, l
  <2>3. LessThan(B, G, k, 0, GD, l)
    BY <2>1 DEF LessThan
  <2>4. k * SG + 0 * Cardinality(B) < l * SGD
    BY <2>2, <2>3, SumsCompare
  <2>5. Cardinality(B) \in Nat
    BY FS_CardinalityType
  <2>. HIDE DEF SF, SFD, SG, SGD
  <2>6. /\ k * SG = d * SFD * SG
        /\ l * SGD = d * SF * SGD - c * SFD * SGD
        /\ (SF * SGD - SG * SFD) * d = d * SF * SGD - d * SFD * SG
    BY <1>0 DEF k, l
  <2>7. /\ d * SFD * SG \in Int /\ d * SF * SGD \in Int /\ c * SFD * SGD \in Int
    BY <1>0
  <2>. QED
    BY <2>4, <2>5, <2>6, <2>7
<1>. QED
  BY <1>1, <1>2

-----------------------------------------------------------------------------
(* What a measurement adds up. *)
LEMMA SeriesType ==
  ASSUME NEW D, IsFiniteSet(D), NEW data \in [D -> Scrape]
  PROVE  /\ [t \in D |-> data[t].restarts] \in [D -> Nat]
         /\ IsFiniteSet(Sampled(data, "cpu")) /\ IsFiniteSet(Sampled(data, "replicas"))
         /\ Sampled(data, "cpu") \subseteq D /\ Sampled(data, "replicas") \subseteq D
         /\ \A t \in D : data[t].cpu # NoData <=> t \in Sampled(data, "cpu")
         /\ \A t \in D : data[t].replicas # NoData <=> t \in Sampled(data, "replicas")
         /\ [t \in Sampled(data, "cpu") |-> data[t].cpu.num]
              \in [Sampled(data, "cpu") -> Nat]
         /\ [t \in Sampled(data, "cpu") |-> data[t].cpu.den]
              \in [Sampled(data, "cpu") -> Nat]
         /\ [t \in Sampled(data, "replicas") |-> data[t].replicas.den]
              \in [Sampled(data, "replicas") -> Nat]
         /\ [t \in Sampled(data, "replicas") |-> data[t].replicas]
              \in [Sampled(data, "replicas") -> Ratio]
         /\ [t \in Sampled(data, "replicas") |-> Number(data[t].replicas.den)]
              \in [Sampled(data, "replicas") -> Ratio]
<1>. DEFINE C == Sampled(data, "cpu")
            R == Sampled(data, "replicas")
<1>1. C \subseteq D /\ R \subseteq D
  BY DEF Sampled
<1>2. IsFiniteSet(C) /\ IsFiniteSet(R)
  BY <1>1, FS_Subset
<1>3. \A t \in D : /\ data[t].restarts \in Nat
                   /\ data[t].cpu \in Ratio \union {NoData}
                   /\ data[t].replicas \in Ratio \union {NoData}
                   /\ data[t].cpu # NoData <=> t \in C
                   /\ data[t].replicas # NoData <=> t \in R
  BY DEF Sampled, Scrape
<1>4. \A t \in C : data[t].cpu.num \in Nat /\ data[t].cpu.den \in Nat
  BY <1>1, <1>3 DEF Ratio
<1>5. \A t \in R : /\ data[t].replicas \in Ratio /\ data[t].replicas.den \in Nat
                   /\ Number(data[t].replicas.den) \in Ratio
  BY <1>1, <1>3 DEF Ratio, Number
<1>. HIDE DEF C, R
<1>6. /\ [t \in D |-> data[t].restarts] \in [D -> Nat]
      /\ [t \in C |-> data[t].cpu.num] \in [C -> Nat]
      /\ [t \in C |-> data[t].cpu.den] \in [C -> Nat]
      /\ [t \in R |-> data[t].replicas.den] \in [R -> Nat]
      /\ [t \in R |-> data[t].replicas] \in [R -> Ratio]
      /\ [t \in R |-> Number(data[t].replicas.den)] \in [R -> Ratio]
  BY <1>3, <1>4, <1>5
<1>. QED
  BY <1>1, <1>2, <1>3, <1>6 DEF C, R

(* The containers a measurement counts. *)
OomKilled(data) == UNION {data[t].oom : t \in DOMAIN data}

LEMMA OomKillsType ==
  ASSUME NEW D, NEW data \in [D -> Scrape]
  PROVE  /\ OomKilled(data) \subseteq Containers
         /\ IsFiniteSet(OomKilled(data))
         /\ Cardinality(OomKilled(data)) \in Nat
<1>1. OomKilled(data) \subseteq Containers
  BY DEF Scrape, OomKilled
<1>. QED
  BY <1>1, SignalsAssumption, FS_Subset, FS_CardinalityType

LEMMA MeasureType ==
  ASSUME NEW D, IsFiniteSet(D), NEW data \in [D -> Scrape]
  PROVE  Measure(data) \in HealthSignals
<1>. DEFINE C == Sampled(data, "cpu")
            R == Sampled(data, "replicas")
<1>0. DOMAIN data = D
  OBVIOUS
<1>1. SumFunction([t \in DOMAIN data |-> data[t].restarts]) \in Nat
  BY <1>0, SeriesType, SumType
<1>2. ThrottleRatio(data) \in Ratio
  <2>1. CASE C = {}
    BY <2>1 DEF ThrottleRatio, Number, Ratio
  <2>2. CASE C # {}
    <3>1. /\ SumFunction([t \in C |-> data[t].cpu.num]) \in Nat
          /\ SumFunction([t \in C |-> data[t].cpu.den]) \in Nat
      BY SeriesType, SumType
    <3>. QED
      BY <2>2, <3>1 DEF ThrottleRatio, Ratio
  <2>. QED
    BY <2>1, <2>2
<1>3. /\ Average([t \in R |-> Number(data[t].replicas.den)]) \in Ratio
      /\ Average([t \in R |-> data[t].replicas]) \in Ratio
  BY SeriesType, AverageType
<1>. QED
  BY <1>1, <1>2, <1>3, OomKillsType DEF Measure, HealthSignals, OomKilled

(* The series a measurement without gaps adds up. *)
Restarts(data) == [t \in DOMAIN data |-> data[t].restarts]
Throttled(data) == [t \in DOMAIN data |-> data[t].cpu.num]
Periods(data) == [t \in DOMAIN data |-> data[t].cpu.den]
Desired(data) == [t \in DOMAIN data |-> data[t].replicas.den]
Available(data) == [t \in DOMAIN data |-> data[t].replicas]

LEMMA CountsMeasured ==
  ASSUME NEW D, NEW data \in [D -> Scrape]
  PROVE  /\ Restarts(data) \in [D -> Nat]
         /\ Measure(data).restarts = SumFunction(Restarts(data))
         /\ Measure(data).oomKills = Cardinality(OomKilled(data))
BY DEF Measure, Restarts, Scrape, OomKilled

LEMMA CpuMeasured ==
  ASSUME NEW D, IsFiniteSet(D), D # {}, NEW data \in [D -> Scrape],
         \A t \in D : data[t].cpu # NoData
  PROVE  /\ Throttled(data) \in [D -> Nat] /\ Periods(data) \in [D -> Nat]
         /\ Measure(data).throttleRatio
              = [num |-> SumFunction(Throttled(data)), den |-> SumFunction(Periods(data))]
<1>1. DOMAIN data = D /\ Sampled(data, "cpu") = D
  BY DEF Sampled
<1>2. Throttled(data) \in [D -> Nat] /\ Periods(data) \in [D -> Nat]
  BY <1>1, SeriesType DEF Throttled, Periods
<1>3. Measure(data).throttleRatio = ThrottleRatio(data)
  BY DEF Measure
<1>. QED
  BY <1>1, <1>2, <1>3 DEF ThrottleRatio, Throttled, Periods

LEMMA ReplicasMeasured ==
  ASSUME NEW D, IsFiniteSet(D), D # {}, NEW data \in [D -> Scrape],
         \A t \in D : data[t].replicas # NoData
  PROVE  /\ Desired(data) \in [D -> Nat] /\ Available(data) \in [D -> Ratio]
         /\ Measure(data).avgReplicas
              = [num |-> SumFunction(Desired(data)), den |-> Cardinality(D)]
         /\ Measure(data).availability = Average(Available(data))
<1>1. DOMAIN data = D /\ Sampled(data, "replicas") = D
  BY DEF Sampled
<1>2. Desired(data) \in [D -> Nat] /\ Available(data) \in [D -> Ratio]
  BY <1>1, SeriesType DEF Desired, Available
<1>3. /\ Measure(data).avgReplicas = Average([t \in D |-> Number(data[t].replicas.den)])
      /\ Measure(data).availability = Average([t \in D |-> data[t].replicas])
  BY <1>1 DEF Measure
<1>4. [t \in D |-> Number(data[t].replicas.den)] = [t \in D |-> Number(Desired(data)[t])]
  BY <1>1 DEF Desired
<1>5. Average([t \in D |-> Number(Desired(data)[t])])
        = [num |-> SumFunction(Desired(data)), den |-> Cardinality(D)]
  BY <1>2, AverageOfCounts
<1>. QED
  BY <1>1, <1>2, <1>3, <1>4, <1>5 DEF Available

(* A workload that goes on as before shows no finding: if no minute of one window
   is worse than a minute of another that is at least as long, nothing is found;
   averages take windows of the same length. *)
LEMMA NotWorseNotFound ==
  ASSUME NEW T, IsFiniteSet(T), NEW B, IsFiniteSet(B), T # {}, B # {},
         NEW data \in [T -> Scrape], NEW base \in [B -> Scrape], NEW final \in BOOLEAN,
         Cardinality(T) <= Cardinality(B), final => Cardinality(T) = Cardinality(B),
         \A t \in T : data[t].cpu # NoData /\ data[t].replicas # NoData,
         \A b \in B : base[b].cpu # NoData /\ base[b].replicas # NoData,
         \A t \in T, b \in B : ~Worse(data[t], base[b])
  PROVE  Findings(Measure(base), Measure(data), final) = {}
<1>. DEFINE o == Measure(data)
            e == Measure(base)
            n == Cardinality(T)
            m == Cardinality(B)
<1>0. /\ n \in Nat /\ m \in Nat /\ m > 0 /\ DOMAIN data = T /\ DOMAIN base = B
      /\ MaxNewRestarts \in Nat
      /\ MaxThrottleIncrease \in Ratio /\ MaxReplicaIncrease \in Ratio /\ MinAvailability \in Ratio
  BY FS_CardinalityType, FS_EmptySet, SignalsAssumption
<1>1. /\ Restarts(data) \in [T -> Nat] /\ Restarts(base) \in [B -> Nat]
      /\ Throttled(data) \in [T -> Nat] /\ Throttled(base) \in [B -> Nat]
      /\ Periods(data) \in [T -> Nat] /\ Periods(base) \in [B -> Nat]
      /\ Desired(data) \in [T -> Nat] /\ Desired(base) \in [B -> Nat]
      /\ Available(data) \in [T -> Ratio]
  BY CountsMeasured, CpuMeasured, ReplicasMeasured
<1>2. ~(o.restarts > e.restarts + MaxNewRestarts)
  <2>1. \A t \in T, b \in B : Restarts(data)[t] <= Restarts(base)[b]
    BY <1>0, <1>1 DEF Restarts, Worse, Scrape
  <2>. DEFINE x == SumFunction(Restarts(data))
              y == SumFunction(Restarts(base))
  <2>2. x * m <= y * n /\ x \in Nat /\ y \in Nat
    BY <1>0, <1>1, <2>1, CountsOfPairs, SumType
  <2>3. o.restarts = x /\ e.restarts = y
    BY CountsMeasured
  <2>. HIDE DEF x, y, n, m
  <2>4. y * n <= y * m
    BY <1>0, <2>2, ProductsOrdered DEF n, m
  <2>5. x <= y
    <3>1. y < x => y * m < x * m
      BY <1>0, <2>2, ProductsOrdered
    <3>2. x * m \in Nat /\ y * m \in Nat /\ y * n \in Nat
      BY <1>0, <2>2
    <3>. QED
      BY <2>2, <2>4, <3>1, <3>2
  <2>. HIDE DEF o, e
  <2>. QED
    BY <1>0, <2>2, <2>3, <2>5
<1>3. ~(o.oomKills > e.oomKills)
  <2>1. OomKilled(data) \subseteq OomKilled(base)
    <3>1. \A t \in T, b \in B : data[t].oom \subseteq base[b].oom
      BY DEF Worse
    <3>. QED
      BY <1>0, <3>1 DEF OomKilled
  <2>2. /\ IsFiniteSet(OomKilled(base))
        /\ Cardinality(OomKilled(data)) \in Nat
        /\ Cardinality(OomKilled(base)) \in Nat
    BY OomKillsType
  <2>3. Cardinality(OomKilled(data)) <= Cardinality(OomKilled(base))
    BY <2>1, <2>2, FS_Subset
  <2>4. /\ o.oomKills = Cardinality(OomKilled(data))
        /\ e.oomKills = Cardinality(OomKilled(base))
    BY CountsMeasured
  <2>. HIDE DEF o, e
  <2>. QED
    BY <2>2, <2>3, <2>4
<1>4. ASSUME final PROVE ~Exceeds(o.throttleRatio, e.throttleRatio, MaxThrottleIncrease)
  <2>. DEFINE x == SumFunction(Throttled(data))
              xd == SumFunction(Periods(data))
              y == SumFunction(Throttled(base))
              yd == SumFunction(Periods(base))
  <2>1. \A t \in T, b \in B :
          Throttled(data)[t] * Periods(base)[b] <= Throttled(base)[b] * Periods(data)[t]
    <3>. SUFFICES ASSUME NEW t \in T, NEW b \in B
                  PROVE  data[t].cpu.num * base[b].cpu.den <= base[b].cpu.num * data[t].cpu.den
      BY <1>0 DEF Throttled, Periods
    <3>1. data[t].cpu \in Ratio /\ base[b].cpu \in Ratio
      BY DEF Scrape
    <3>2. ~Less(base[b].cpu, data[t].cpu)
      BY DEF Worse
    <3>. QED
      BY <3>1, <3>2 DEF Less, Ratio
  <2>2. x * yd <= y * xd /\ x \in Nat /\ xd \in Nat /\ y \in Nat /\ yd \in Nat
    BY <1>1, <2>1, RatiosOfPairs, SumType
  <2>3. o.throttleRatio = [num |-> x, den |-> xd] /\ e.throttleRatio = [num |-> y, den |-> yd]
    <3>1. o.throttleRatio = [num |-> x, den |-> xd]
      BY CpuMeasured
    <3>2. e.throttleRatio = [num |-> y, den |-> yd]
      BY CpuMeasured
    <3>. QED
      BY <3>1, <3>2
  <2>. HIDE DEF x, xd, y, yd, o, e
  <2>. DEFINE d == MaxThrottleIncrease.den
              c == MaxThrottleIncrease.num
  <2>4. c \in Nat /\ d \in Nat
    BY <1>0 DEF Ratio
  <2>. HIDE DEF c, d
  <2>5. (x * yd - y * xd) * d <= 0
    <3>1. x * yd - y * xd \in Int /\ x * yd - y * xd <= 0
      BY <2>2
    <3>. QED
      BY <2>4, <3>1
  <2>6. c * xd * yd >= 0 /\ c * xd * yd \in Int /\ (x * yd - y * xd) * d \in Int
    BY <2>2, <2>4
  <2>. QED
    BY <2>3, <2>5, <2>6 DEF Exceeds, c, d
<1>5. ASSUME final PROVE ~Exceeds(o.avgReplicas, e.avgReplicas, MaxReplicaIncrease)
  <2>. DEFINE x == SumFunction(Desired(data))
              y == SumFunction(Desired(base))
  <2>1. \A t \in T, b \in B : Desired(data)[t] <= Desired(base)[b]
    <3>. SUFFICES ASSUME NEW t \in T, NEW b \in B
                  PROVE  data[t].replicas.den <= base[b].replicas.den
      BY <1>0 DEF Desired
    <3>1. data[t].replicas \in Ratio /\ base[b].replicas \in Ratio
      BY DEF Scrape
    <3>. QED
      BY <3>1 DEF Worse, Ratio
  <2>2. x * m <= y * n /\ x \in Nat /\ y \in Nat /\ n = m
    BY <1>1, <1>5, <2>1, CountsOfPairs, SumType
  <2>3. o.avgReplicas = [num |-> x, den |-> n] /\ e.avgReplicas = [num |-> y, den |-> m]
    <3>1. o.avgReplicas = [num |-> x, den |-> n]
      BY ReplicasMeasured
    <3>2. e.avgReplicas = [num |-> y, den |-> m]
      BY ReplicasMeasured
    <3>. QED
      BY <3>1, <3>2
  <2>. HIDE DEF x, y, n, m, o, e
  <2>. DEFINE d == MaxReplicaIncrease.den
              c == MaxReplicaIncrease.num
  <2>4. c \in Nat /\ d \in Nat
    BY <1>0 DEF Ratio
  <2>. HIDE DEF c, d
  <2>5. (x * m - y * n) * d <= 0
    <3>1. x * m - y * n \in Int /\ x * m - y * n <= 0
      BY <1>0, <2>2
    <3>. QED
      BY <2>4, <3>1
  <2>6. c * n * m >= 0 /\ c * n * m \in Int /\ (x * m - y * n) * d \in Int
    BY <1>0, <2>2, <2>4
  <2>. QED
    BY <2>3, <2>5, <2>6 DEF Exceeds, c, d
<1>6. ~Less(o.availability, MinAvailability)
  <2>1. \A t \in T : ~Less(Available(data)[t], MinAvailability)
    BY <1>0 DEF Worse, Available
  <2>2. o.availability = Average(Available(data))
    BY ReplicasMeasured
  <2>. HIDE DEF o
  <2>. QED
    BY <1>0, <1>1, <2>1, <2>2, AverageCompares
<1>. HIDE DEF o, e
<1>7. HardFindings(e, o) = {}
  BY <1>2, <1>3 DEF HardFindings
<1>8. final => AveragedFindings(e, o) = {}
  BY <1>4, <1>5, <1>6 DEF AveragedFindings
<1>. QED
  BY <1>7, <1>8 DEF Findings, o, e

(* A workload every minute of which is worse, in one and the same way and by more
   than the policy allows, than every minute before is found out, whatever else
   the window holds, as long as its quotients are known. *)
LEMMA WorseFound ==
  ASSUME NEW T, IsFiniteSet(T), NEW B, IsFiniteSet(B), T # {}, B # {},
         NEW data \in [T -> Scrape], NEW base \in [B -> Scrape],
         Cardinality(T) = Cardinality(B),
         Encodable(Measure(data)), Encodable(Measure(base)),
         NEW signal \in Harms,
         \A t \in T, b \in B : Beyond(data[t], base[b], signal)
  PROVE  \/ HardFindings(Measure(base), Measure(data)) # {}
         \/ AveragedFindings(Measure(base), Measure(data)) # {}
<1>. DEFINE o == Measure(data)
            e == Measure(base)
            n == Cardinality(T)
<1>0. /\ n \in Nat /\ n > 0 /\ Cardinality(B) = n /\ DOMAIN data = T /\ DOMAIN base = B
      /\ MaxNewRestarts \in Nat
      /\ MaxThrottleIncrease \in Ratio /\ MaxReplicaIncrease \in Ratio /\ MinAvailability \in Ratio
  BY FS_CardinalityType, FS_EmptySet, SignalsAssumption
<1>1. CASE signal = "restarts"
  <2>. DEFINE x == SumFunction(Restarts(data))
              y == SumFunction(Restarts(base))
              c == MaxNewRestarts
  <2>1. /\ Restarts(data) \in [T -> Nat] /\ o.restarts = x
        /\ Restarts(base) \in [B -> Nat] /\ e.restarts = y
    BY CountsMeasured
  <2>2. \A t \in T, b \in B : 1 * Restarts(base)[b] + c < 1 * Restarts(data)[t]
    <3>. SUFFICES ASSUME NEW t \in T, NEW b \in B
                  PROVE  1 * base[b].restarts + c < 1 * data[t].restarts
      BY <1>0 DEF Restarts
    <3>1. data[t].restarts \in Nat /\ base[b].restarts \in Nat
      BY DEF Scrape
    <3>. QED
      BY <1>0, <1>1, <3>1 DEF Beyond
  <2>3. 1 * n * y + c * n * n < 1 * n * x /\ x \in Nat /\ y \in Nat
    BY <1>0, <2>1, <2>2, CountsOfPairs, SumType
  <2>. HIDE DEF x, y, n, c
  <2>4. x > y + c
    <3>1. x <= y + c => x * n <= (y + c) * n
      BY <1>0, <2>3, ProductsOrdered DEF c
    <3>2. c * n <= c * n * n
      <4>1. 1 * (c * n) <= n * (c * n)
        BY <1>0, ProductsOrdered DEF c
      <4>. QED
        BY <1>0, <4>1 DEF c
    <3>3. /\ (y + c) * n = y * n + c * n /\ 1 * n * y = y * n /\ 1 * n * x = x * n
          /\ y * n \in Nat /\ c * n \in Nat /\ c * n * n \in Nat /\ x * n \in Nat
      BY <1>0, <2>3 DEF c
    <3>. QED
      BY <1>0, <2>3, <3>1, <3>2, <3>3 DEF c
  <2>. HIDE DEF o, e
  <2>5. "restarts" \in HardFindings(e, o)
    BY <2>1, <2>4 DEF HardFindings, c
  <2>. QED
    BY <2>5 DEF o, e
<1>2. CASE signal = "oom"
  <2>1. \A t \in T, b \in B : data[t].oom # {} /\ base[b].oom = {}
    BY <1>2 DEF Beyond
  <2>2. OomKilled(data) # {} /\ OomKilled(base) = {}
    BY <1>0, <2>1 DEF OomKilled
  <2>3. Cardinality(OomKilled(data)) > Cardinality(OomKilled(base))
    BY <2>2, OomKillsType, FS_EmptySet
  <2>4. /\ o.oomKills = Cardinality(OomKilled(data))
        /\ e.oomKills = Cardinality(OomKilled(base))
    BY CountsMeasured
  <2>. HIDE DEF o, e
  <2>5. "oom" \in HardFindings(e, o)
    BY <2>3, <2>4 DEF HardFindings
  <2>. QED
    BY <2>5 DEF o, e
<1>3. CASE signal = "throttle"
  <2>. DEFINE x == SumFunction(Throttled(data))
              xd == SumFunction(Periods(data))
              y == SumFunction(Throttled(base))
              yd == SumFunction(Periods(base))
              d == MaxThrottleIncrease.den
              c == MaxThrottleIncrease.num
  <2>0. /\ \A t \in T : data[t].cpu # NoData
        /\ \A b \in B : base[b].cpu # NoData
    BY <1>3 DEF Beyond
  <2>1. /\ Throttled(data) \in [T -> Nat] /\ Periods(data) \in [T -> Nat]
        /\ o.throttleRatio = [num |-> x, den |-> xd]
    BY <2>0, CpuMeasured
  <2>2. /\ Throttled(base) \in [B -> Nat] /\ Periods(base) \in [B -> Nat]
        /\ e.throttleRatio = [num |-> y, den |-> yd]
    BY <2>0, CpuMeasured
  <2>3. c \in Nat /\ d \in Nat
    BY <1>0 DEF Ratio
  <2>4. \A t \in T, b \in B :
          (Throttled(data)[t] * Periods(base)[b] - Throttled(base)[b] * Periods(data)[t]) * d
             > c * Periods(data)[t] * Periods(base)[b]
    BY <1>0, <1>3 DEF Beyond, Exceeds, Throttled, Periods
  <2>. HIDE DEF c, d
  <2>5. (x * yd - y * xd) * d > c * xd * yd
    BY <2>1, <2>2, <2>3, <2>4, RatiosOfPairs
  <2>6. Known(o.throttleRatio) /\ Known(e.throttleRatio)
    BY DEF Encodable
  <2>. HIDE DEF x, xd, y, yd, o, e
  <2>7. Exceeds(o.throttleRatio, e.throttleRatio, MaxThrottleIncrease)
    BY <2>1, <2>2, <2>5 DEF Exceeds, c, d
  <2>8. "throttle" \in AveragedFindings(e, o)
    BY <2>6, <2>7 DEF AveragedFindings
  <2>. QED
    BY <2>8 DEF o, e
<1>4. CASE signal = "replicas"
  <2>. DEFINE x == SumFunction(Desired(data))
              y == SumFunction(Desired(base))
              d == MaxReplicaIncrease.den
              c == MaxReplicaIncrease.num
  <2>0. /\ \A t \in T : data[t].replicas # NoData
        /\ \A b \in B : base[b].replicas # NoData
    BY <1>4 DEF Beyond
  <2>1. Desired(data) \in [T -> Nat] /\ o.avgReplicas = [num |-> x, den |-> n]
    BY <2>0, ReplicasMeasured
  <2>2. Desired(base) \in [B -> Nat] /\ e.avgReplicas = [num |-> y, den |-> n]
    <3>1. Desired(base) \in [B -> Nat] /\ e.avgReplicas = [num |-> y, den |-> Cardinality(B)]
      BY <2>0, ReplicasMeasured
    <3>. QED
      BY <1>0, <3>1
  <2>3. c \in Nat /\ d \in Nat
    BY <1>0 DEF Ratio
  <2>4. \A t \in T, b \in B : d * Desired(base)[b] + c < d * Desired(data)[t]
    <3>. SUFFICES ASSUME NEW t \in T, NEW b \in B
                  PROVE  d * base[b].replicas.den + c < d * data[t].replicas.den
      BY <1>0 DEF Desired
    <3>1. data[t].replicas \in Ratio /\ base[b].replicas \in Ratio
      BY <2>0 DEF Scrape
    <3>2. /\ data[t].replicas.den * d > base[b].replicas.den * d + c
          /\ data[t].replicas.den \in Nat /\ base[b].replicas.den \in Nat
      BY <1>4, <3>1 DEF Beyond, Ratio
    <3>. HIDE DEF c, d
    <3>. QED
      BY <2>3, <3>2
  <2>. HIDE DEF c, d
  <2>5. d * n * y + c * n * n < d * n * x /\ x \in Nat /\ y \in Nat
    BY <1>0, <2>1, <2>2, <2>3, <2>4, CountsOfPairs, SumType
  <2>6. Known(o.avgReplicas) /\ Known(e.avgReplicas)
    BY DEF Encodable
  <2>. HIDE DEF x, y, n, o, e
  <2>7. (x * n - y * n) * d > c * n * n
    <3>1. /\ (x * n - y * n) * d = d * n * x - d * n * y
          /\ d * n * x \in Int /\ d * n * y \in Int /\ c * n * n \in Int
      BY <1>0, <2>3, <2>5
    <3>. QED
      BY <2>5, <3>1
  <2>8. Exceeds(o.avgReplicas, e.avgReplicas, MaxReplicaIncrease)
    BY <2>1, <2>2, <2>7 DEF Exceeds, c, d
  <2>9. "replicas" \in AveragedFindings(e, o)
    BY <2>6, <2>8 DEF AveragedFindings
  <2>. QED
    BY <2>9 DEF o, e
<1>5. CASE signal = "availability"
  <2>1. \A t \in T : data[t].replicas # NoData /\ Less(data[t].replicas, MinAvailability)
    BY <1>5 DEF Beyond
  <2>2. Available(data) \in [T -> Ratio] /\ o.availability = Average(Available(data))
    BY <2>1, ReplicasMeasured
  <2>3. \A t \in T : Less(Available(data)[t], MinAvailability)
    BY <1>0, <2>1 DEF Available
  <2>. HIDE DEF o, e
  <2>4. Known(o.availability) /\ Less(o.availability, MinAvailability)
    BY <1>0, <2>2, <2>3, AverageCompares
  <2>5. "availability" \in AveragedFindings(e, o)
    BY <2>4 DEF AveragedFindings
  <2>. QED
    BY <2>5 DEF o, e
<1>. QED
  BY <1>1, <1>2, <1>3, <1>4, <1>5 DEF Harms

-----------------------------------------------------------------------------

(* The parts of the types that do not rest on sums. *)
HistoryOK ==
  /\ clock \in Nat
  /\ clock >= MergedAt
  /\ scrapes \in Seq(Scrapes)
  /\ Len(scrapes) = clock

RowOK ==
  /\ row.status \in Status
  /\ row.deployedAt \in Nat
  /\ row = [status |-> row.status, deployedAt |-> row.deployedAt,
            measuredAt |-> row.measuredAt, baseline |-> row.baseline,
            observed |-> row.observed]

(* A verified change was watched for its whole window. *)
WindowPassed == row.status = "Verified" => row.deployedAt + Window <= clock

(* A row that is being judged is compared with the window before the merge:
   however long the rollout takes, no minute after the merge gets into the
   baseline (advance, case VerificationWaiting). *)
BaselineIsBeforeTheMerge ==
  row.status \in {"Verifying", "Verified", "Degraded"} =>
    row.baseline = Measure(BaselineRange)

SignalsInv ==
  /\ HistoryOK
  /\ RowOK
  /\ WindowPassed
  /\ BaselineIsBeforeTheMerge
  /\ AveragesTakeAWindow

-----------------------------------------------------------------------------
(* What is stored about minutes that have passed does not change. *)
LEMMA MinuteKeepsTheHistory ==
  ASSUME HistoryOK, Minute
  PROVE  /\ HistoryOK'
         /\ \A t \in 1..clock : scrapes'[t] = scrapes[t]
<1>1. PICK s \in Scrapes : scrapes' = Append(scrapes, s)
  BY DEF Minute
<1>2. MergedAt \in Nat
  BY SignalsAssumption DEF MergedAt
<1>. QED
  BY <1>1, <1>2 DEF Minute, HistoryOK, MergedAt

LEMMA SamplesStay ==
  ASSUME HistoryOK, \A t \in 1..clock : scrapes'[t] = scrapes[t],
         NEW start \in Int, NEW end \in Int,
         start >= 0, end >= 1, end <= clock
  PROVE  Samples(start, end)' = Samples(start, end)
<1>1. Minutes(start, end) \subseteq 1..clock
  BY DEF Minutes, HistoryOK
<1>. QED
  BY <1>1 DEF Samples, Minutes

LEMMA InitEstablishes == Init => SignalsInv
<1>. SUFFICES ASSUME Init PROVE SignalsInv
  OBVIOUS
<1>1. MergedAt \in Nat
  BY SignalsAssumption DEF MergedAt
<1>2. HistoryOK
  BY <1>1 DEF Init, HistoryOK
<1>3. row.status = "WaitingForRollout" /\ row.deployedAt = 0 /\ RowOK
  BY DEF Init, RowOK, Status
<1>. QED
  BY <1>2, <1>3
     DEF SignalsInv, WindowPassed, BaselineIsBeforeTheMerge, AveragesTakeAWindow

(* A step that leaves the row alone and only adds to the history. *)
LEMMA HistoryGrows ==
  ASSUME SignalsInv, HistoryOK', clock <= clock', UNCHANGED row,
         \A t \in 1..clock : scrapes'[t] = scrapes[t]
  PROVE  SignalsInv'
<1>. USE DEF SignalsInv
<1>0. Window \in Nat \ {0} /\ clock \in Nat /\ clock' \in Nat /\ row.deployedAt \in Nat
      /\ clock >= Window
  BY SignalsAssumption DEF HistoryOK, RowOK, MergedAt
<1>1. RowOK'
  BY DEF RowOK, Status
<1>2. WindowPassed'
  BY <1>0 DEF WindowPassed
<1>3. BaselineRange' = BaselineRange
  BY <1>0, SamplesStay DEF BaselineRange, MergedAt
<1>4. BaselineIsBeforeTheMerge'
  BY <1>3 DEF BaselineIsBeforeTheMerge
<1>5. AveragesTakeAWindow'
  <2>. SUFFICES ASSUME \/ row.status = "Verified"
                       \/ /\ row.status = "Degraded"
                          /\ HardFindings(row.baseline, row.observed) = {}
                PROVE  \E end \in row.deployedAt + Window .. clock' :
                         row.observed = Measure(Samples(end - Window, end)')
    BY DEF AveragesTakeAWindow
  <2>1. PICK end \in row.deployedAt + Window .. clock :
          row.observed = Measure(Samples(end - Window, end))
    BY DEF AveragesTakeAWindow
  <2>2. Samples(end - Window, end)' = Samples(end - Window, end)
    BY <1>0, <2>1, SamplesStay
  <2>. QED
    BY <1>0, <2>1, <2>2
<1>. QED
  BY <1>1, <1>2, <1>4, <1>5
LEMMA MinutePreserves == SignalsInv /\ Minute => SignalsInv'
<1>. SUFFICES ASSUME SignalsInv, Minute PROVE SignalsInv'
  OBVIOUS
<1>1. HistoryOK /\ UNCHANGED row /\ clock <= clock'
  BY DEF SignalsInv, HistoryOK, Minute
<1>. QED
  BY <1>1, MinuteKeepsTheHistory, HistoryGrows

LEMMA DeployPreserves == SignalsInv /\ (Deploy \/ UNCHANGED vars) => SignalsInv'
<1>. SUFFICES ASSUME SignalsInv, Deploy \/ UNCHANGED vars PROVE SignalsInv'
  OBVIOUS
<1>1. UNCHANGED <<clock, scrapes, row>>
  BY DEF Deploy, vars
<1>2. HistoryOK' /\ clock <= clock' /\ \A t \in 1..clock : scrapes'[t] = scrapes[t]
  BY <1>1 DEF SignalsInv, HistoryOK, MergedAt
<1>. QED
  BY <1>1, <1>2, HistoryGrows

(* A save leaves what the measurements are read from alone. *)
LEMMA SaveKeepsSamples ==
  ASSUME HistoryOK, NEW rec, SaveVerification(rec)
  PROVE  /\ row' = rec
         /\ UNCHANGED <<clock, scrapes>>
         /\ HistoryOK'
         /\ BaselineRange' = BaselineRange
         /\ \A start, end : Samples(start, end)' = Samples(start, end)
BY DEF SaveVerification, HistoryOK, BaselineRange, Samples, MergedAt

LEMMA AdvanceWaitingPreserves == SignalsInv /\ AdvanceWaiting => SignalsInv'
<1>. SUFFICES ASSUME SignalsInv, AdvanceWaiting PROVE SignalsInv'
  OBVIOUS
<1>. USE DEF SignalsInv
<1>1. CASE SaveVerification(
             [row EXCEPT !.status = "Verifying", !.deployedAt = clock,
                         !.baseline = Measure(BaselineRange)])
  <2>1. /\ HistoryOK' /\ BaselineRange' = BaselineRange
        /\ row' = [row EXCEPT !.status = "Verifying", !.deployedAt = clock,
                              !.baseline = Measure(BaselineRange)]
    BY <1>1, SaveKeepsSamples
  <2>2. /\ row'.status = "Verifying" /\ row'.deployedAt = clock
        /\ row'.baseline = Measure(BaselineRange)
        /\ RowOK'
    BY <2>1 DEF RowOK, HistoryOK, Status
  <2>. QED
    BY <2>1, <2>2 DEF WindowPassed, BaselineIsBeforeTheMerge, AveragesTakeAWindow
<1>2. CASE SaveVerification([row EXCEPT !.status = "NotDeployed"])
  <2>1. HistoryOK' /\ row' = [row EXCEPT !.status = "NotDeployed"]
    BY <1>2, SaveKeepsSamples
  <2>2. row'.status = "NotDeployed" /\ RowOK'
    BY <2>1 DEF RowOK, HistoryOK, Status
  <2>. QED
    BY <2>1, <2>2 DEF WindowPassed, BaselineIsBeforeTheMerge, AveragesTakeAWindow
<1>. QED
  BY <1>1, <1>2 DEF AdvanceWaiting

(* What both kinds of measurement do to the row. *)
LEMMA JudgedKeepsInv ==
  ASSUME SignalsInv, NEW final \in BOOLEAN, NEW end \in Int, NEW start,
         row.status \in {"Verifying", "Verified"},
         row.status = "Verified" => final,
         final => /\ row.deployedAt + Window <= end
                  /\ end <= clock
                  /\ start = end - Window,
         SaveVerification(Judged(Measure(Samples(start, end)), final))
  PROVE  SignalsInv'
<1>. USE DEF SignalsInv
<1>. DEFINE observed == Measure(Samples(start, end))
            found == Findings(row.baseline, observed, final)
<1>0. Window \in Nat /\ clock \in Nat /\ row.deployedAt \in Nat
  BY SignalsAssumption DEF HistoryOK, RowOK
<1>1. /\ row' = Judged(observed, final)
      /\ UNCHANGED <<clock, scrapes>>
      /\ HistoryOK'
      /\ BaselineRange' = BaselineRange
      /\ \A s, e : Samples(s, e)' = Samples(s, e)
  BY SaveKeepsSamples
<1>2. /\ row'.observed = observed /\ row'.baseline = row.baseline
      /\ row'.deployedAt = row.deployedAt
      /\ row'.status = IF found # {} THEN "Degraded"
                       ELSE IF final THEN "Verified" ELSE row.status
      /\ RowOK'
  BY <1>1 DEF Judged, RowOK, Status
<1>. HIDE DEF observed
<1>3. WindowPassed'
  BY <1>0, <1>1, <1>2 DEF WindowPassed
<1>4. BaselineIsBeforeTheMerge'
  BY <1>1, <1>2 DEF BaselineIsBeforeTheMerge
<1>5. AveragesTakeAWindow'
  <2>1. CASE final
    <3>1. end \in row.deployedAt + Window .. clock
      BY <1>0, <2>1
    <3>2. observed = Measure(Samples(end - Window, end)')
      BY <1>1, <2>1 DEF observed
    <3>. QED
      BY <1>1, <1>2, <3>1, <3>2 DEF AveragesTakeAWindow
  <2>2. CASE ~final
    <3>1. row.status = "Verifying" /\ found = HardFindings(row.baseline, observed)
      BY <2>2 DEF Findings
    <3>2. HardFindings(row.baseline, row.observed)' = HardFindings(row.baseline, observed)
      BY <1>2 DEF HardFindings
    <3>. QED
      BY <1>2, <2>2, <3>1, <3>2 DEF AveragesTakeAWindow
  <2>. QED
    BY <2>1, <2>2
<1>. QED
  BY <1>1, <1>2, <1>3, <1>4, <1>5

LEMMA AdvanceVerifyingPreserves == SignalsInv /\ AdvanceVerifying => SignalsInv'
<1>. SUFFICES ASSUME SignalsInv, AdvanceVerifying PROVE SignalsInv'
  OBVIOUS
<1>. DEFINE end == IF Final THEN WindowEnd ELSE clock
<1>1. /\ Window \in Nat /\ clock \in Nat /\ row.deployedAt \in Nat
      /\ row.status = "Verifying"
  BY SignalsAssumption DEF SignalsInv, HistoryOK, RowOK, AdvanceVerifying
<1>2. end \in Int /\ Final \in BOOLEAN
  BY <1>1 DEF Final, WindowEnd
<1>3. Final => /\ row.deployedAt + Window <= end
               /\ end <= clock
               /\ row.deployedAt = end - Window
  BY <1>1 DEF Final, WindowEnd
<1>4. SaveVerification(Judged(Measure(Samples(row.deployedAt, end)), Final))
  BY DEF AdvanceVerifying, ObservedRange
<1>. QED
  BY <1>1, <1>2, <1>3, <1>4, JudgedKeepsInv

LEMMA AdvanceVerifiedPreserves == SignalsInv /\ AdvanceVerified => SignalsInv'
<1>. SUFFICES ASSUME SignalsInv, AdvanceVerified PROVE SignalsInv'
  OBVIOUS
<1>1. /\ Window \in Nat /\ clock \in Nat /\ row.status = "Verified"
      /\ row.deployedAt + Window <= clock
  BY SignalsAssumption DEF SignalsInv, HistoryOK, WindowPassed, AdvanceVerified
<1>2. SaveVerification(Judged(Measure(Samples(clock - Window, clock)), TRUE))
  BY DEF AdvanceVerified, RecheckRange
<1>. DEFINE start == clock - Window
            final == TRUE
<1>3. SaveVerification(Judged(Measure(Samples(start, clock)), final))
  BY <1>2
<1>4. final \in BOOLEAN /\ clock \in Int
  BY <1>1
<1>5. /\ row.status \in {"Verifying", "Verified"}
      /\ row.status = "Verified" => final
  BY <1>1
<1>6. final => /\ row.deployedAt + Window <= clock
               /\ clock <= clock
               /\ start = clock - Window
  BY <1>1
<1>. HIDE DEF start, final
<1>. QED
  BY <1>3, <1>4, <1>5, <1>6, JudgedKeepsInv

LEMMA SignalsInvariant == Spec => []SignalsInv
<1>1. SignalsInv /\ [Next]_vars => SignalsInv'
  BY MinutePreserves, DeployPreserves, AdvanceWaitingPreserves,
     AdvanceVerifyingPreserves, AdvanceVerifiedPreserves DEF Next, Advance
<1>. QED
  BY InitEstablishes, <1>1, PTL DEF Spec

(* Every verdict that rests on averages was reached on a whole window after the
   rollout, for all windows and policies and however late cycles come. *)
THEOREM AveragesAreWholeWindows == Spec => []AveragesTakeAWindow
<1>1. SignalsInv => AveragesTakeAWindow
  BY DEF SignalsInv
<1>. QED
  BY <1>1, SignalsInvariant, PTL

(* Whatever happens after the merge, a change is judged against the window
   before it. *)
THEOREM BaselinesPrecedeTheMerge == Spec => []BaselineIsBeforeTheMerge
<1>1. SignalsInv => BaselineIsBeforeTheMerge
  BY DEF SignalsInv
<1>. QED
  BY <1>1, SignalsInvariant, PTL

-----------------------------------------------------------------------------
(* The measurement that made a row "Verified" for the first time: the one of the
   window after the rollout, in which nothing was found.  Re-checks replace what
   the row says was observed, so WorseIsNotVerified has to remember it. *)
VerifiedOnItsWindow ==
  row.status = "Verified" =>
    /\ Encodable(row.baseline)
    /\ Encodable(Measure(Samples(row.deployedAt, WindowEnd)))
    /\ Findings(row.baseline, Measure(Samples(row.deployedAt, WindowEnd)), TRUE) = {}

VerdictsInv ==
  /\ row.deployedAt <= clock
  /\ TypeOK
  /\ OnlyWorseIsDegraded
  /\ VerifiedOnItsWindow

(* A range within the history. *)
LEMMA SamplesType ==
  ASSUME HistoryOK, NEW start \in Int, NEW end \in Int,
         start >= 0, end >= 1, start <= end, end <= clock
  PROVE  /\ Minutes(start, end) \subseteq 1..clock
         /\ Minutes(start, end) \subseteq start..end
         /\ IsFiniteSet(Minutes(start, end)) /\ Minutes(start, end) # {}
         /\ Cardinality(Minutes(start, end)) = IF end = start THEN 1 ELSE end - start
         /\ Samples(start, end) \in [Minutes(start, end) -> Scrape]
         /\ \A t \in Minutes(start, end) : Samples(start, end)[t] = scrapes[t]
<1>1. Minutes(start, end) = (IF end = start THEN end ELSE start + 1) .. end
  BY DEF Minutes
<1>2. /\ Minutes(start, end) \subseteq 1..clock
      /\ Minutes(start, end) \subseteq start..end
      /\ Minutes(start, end) # {}
  BY <1>1 DEF HistoryOK
<1>3. /\ IsFiniteSet(Minutes(start, end))
      /\ Cardinality(Minutes(start, end)) = IF end = start THEN 1 ELSE end - start
  BY <1>1, FS_Interval
<1>4. \A t \in 1..clock : scrapes[t] \in Scrape
  BY SignalsAssumption DEF HistoryOK
<1>. QED
  BY <1>2, <1>3, <1>4 DEF Samples

LEMMA RangeMeasured ==
  ASSUME HistoryOK, NEW start \in Int, NEW end \in Int,
         start >= 0, end >= 1, start <= end, end <= clock
  PROVE  Measure(Samples(start, end)) \in HealthSignals
BY SamplesType, MeasureType

LEMMA BaselineType ==
  ASSUME HistoryOK
  PROVE  /\ Minutes(MergedAt - Window, MergedAt) = Before
         /\ BaselineRange \in [Before -> Scrape]
         /\ \A b \in Before : BaselineRange[b] = scrapes[b]
         /\ IsFiniteSet(Before) /\ Before # {} /\ Cardinality(Before) = Window
         /\ Measure(BaselineRange) \in HealthSignals
<1>1. Window \in Nat /\ Window > 0 /\ MergedAt = Window /\ MergedAt <= clock /\ clock \in Nat
  BY SignalsAssumption DEF MergedAt, HistoryOK
<1>2. MergedAt - Window = 0 /\ Minutes(0, MergedAt) = Before
  BY <1>1 DEF Minutes, Before
<1>3. BaselineRange = Samples(0, MergedAt)
  BY <1>2 DEF BaselineRange
<1>4. /\ IsFiniteSet(Before) /\ Before # {} /\ Cardinality(Before) = Window
      /\ BaselineRange \in [Before -> Scrape]
      /\ \A b \in Before : BaselineRange[b] = scrapes[b]
  BY <1>1, <1>2, <1>3, SamplesType
<1>. QED
  BY <1>2, <1>4, MeasureType

LEMMA InitJudged == Init => VerdictsInv
<1>. SUFFICES ASSUME Init PROVE VerdictsInv
  OBVIOUS
<1>1. SignalsInv
  BY InitEstablishes
<1>2. /\ row.status = "WaitingForRollout" /\ row.deployedAt = 0
      /\ NoSignals \in HealthSignals /\ inPlace \in BOOLEAN
  BY DEF Init, NoSignals, HealthSignals, Number, Ratio
<1>3. row \in Verification
  BY <1>2 DEF Init, Verification, Status
<1>. QED
  BY <1>1, <1>2, <1>3
     DEF SignalsInv, HistoryOK, VerdictsInv, TypeOK, OnlyWorseIsDegraded, VerifiedOnItsWindow

(* Time passes, or nothing of what the verdicts rest on changes. *)
LEMMA HistoryGrowsJudged ==
  ASSUME SignalsInv, VerdictsInv, HistoryOK', clock <= clock', UNCHANGED row,
         inPlace' \in BOOLEAN, \A t \in 1..clock : scrapes'[t] = scrapes[t]
  PROVE  VerdictsInv'
<1>. USE DEF SignalsInv, VerdictsInv
<1>0. /\ Window \in Nat \ {0} /\ clock \in Nat /\ clock' \in Nat /\ row.deployedAt \in Nat
      /\ clock >= Window /\ MergedAt = Window
  BY SignalsAssumption DEF HistoryOK, RowOK, MergedAt
<1>1. TypeOK'
  BY DEF TypeOK, HistoryOK, Verification, Status, HealthSignals, Ratio
<1>2. OnlyWorseIsDegraded'
  <2>. SUFFICES ASSUME row.status = "Degraded"
                PROVE  \/ \E t \in Before \union After' : Gap(t)'
                       \/ \E t \in After', b \in Before :
                            Worse(scrapes'[t], scrapes'[b])
    BY DEF OnlyWorseIsDegraded, Before, MergedAt, Worse
  <2>1. /\ Before \subseteq 1..clock /\ After \subseteq 1..clock
        /\ After \subseteq After'
    BY <1>0 DEF Before, After
  <2>2. CASE \E t \in Before \union After : Gap(t)
    BY <2>1, <2>2 DEF Gap
  <2>3. CASE \E t \in After, b \in Before : Worse(scrapes[t], scrapes[b])
    <3>1. PICK t \in After, b \in Before : Worse(scrapes[t], scrapes[b])
      BY <2>3
    <3>2. scrapes'[t] = scrapes[t] /\ scrapes'[b] = scrapes[b] /\ t \in After'
      BY <2>1, <3>1
    <3>. QED
      BY <3>1, <3>2
  <2>. QED
    BY <2>2, <2>3 DEF OnlyWorseIsDegraded
<1>3. VerifiedOnItsWindow'
  <2>. SUFFICES ASSUME row.status = "Verified" PROVE VerifiedOnItsWindow'
    BY DEF VerifiedOnItsWindow
  <2>1. WindowEnd \in Int /\ row.deployedAt \in Int /\ WindowEnd <= clock /\ WindowEnd >= 1
        /\ row.deployedAt >= 0
    BY <1>0 DEF WindowEnd, WindowPassed
  <2>2. Samples(row.deployedAt, WindowEnd)' = Samples(row.deployedAt, WindowEnd)
    BY <2>1, SamplesStay DEF WindowEnd
  <2>3. /\ Encodable(row.baseline)
        /\ Encodable(Measure(Samples(row.deployedAt, WindowEnd)))
        /\ Findings(row.baseline, Measure(Samples(row.deployedAt, WindowEnd)), TRUE) = {}
    BY DEF VerifiedOnItsWindow
  <2>. QED
    BY <2>2, <2>3 DEF VerifiedOnItsWindow
<1>4. (row.deployedAt <= clock)'
  BY <1>0
<1>. QED
  BY <1>1, <1>2, <1>3, <1>4

LEMMA AdvanceWaitingJudged ==
  SignalsInv /\ VerdictsInv /\ AdvanceWaiting => VerdictsInv'
<1>. SUFFICES ASSUME SignalsInv, VerdictsInv, AdvanceWaiting PROVE VerdictsInv'
  OBVIOUS
<1>. USE DEF SignalsInv, VerdictsInv
<1>0. /\ HistoryOK /\ clock \in Nat /\ inPlace \in BOOLEAN /\ row \in Verification
      /\ Measure(BaselineRange) \in HealthSignals
  BY BaselineType DEF HistoryOK, TypeOK
<1>1. CASE SaveVerification(
             [row EXCEPT !.status = "Verifying", !.deployedAt = clock,
                         !.baseline = Measure(BaselineRange)])
  <2>1. /\ HistoryOK' /\ UNCHANGED <<clock, inPlace>>
        /\ row' = [row EXCEPT !.status = "Verifying", !.deployedAt = clock,
                              !.baseline = Measure(BaselineRange)]
    BY <1>1, SaveKeepsSamples DEF SaveVerification
  <2>2. row' \in Verification /\ row'.status = "Verifying" /\ row'.deployedAt = clock
    BY <1>0, <2>1 DEF Verification, Status
  <2>. QED
    BY <1>0, <2>1, <2>2 DEF TypeOK, HistoryOK, OnlyWorseIsDegraded, VerifiedOnItsWindow
<1>2. CASE SaveVerification([row EXCEPT !.status = "NotDeployed"])
  <2>1. /\ HistoryOK' /\ UNCHANGED <<clock, inPlace>>
        /\ row' = [row EXCEPT !.status = "NotDeployed"]
    BY <1>2, SaveKeepsSamples DEF SaveVerification
  <2>2. /\ row' \in Verification /\ row'.status = "NotDeployed"
        /\ row'.deployedAt = row.deployedAt
    BY <1>0, <2>1 DEF Verification, Status
  <2>. QED
    BY <1>0, <2>1, <2>2 DEF TypeOK, HistoryOK, OnlyWorseIsDegraded, VerifiedOnItsWindow
<1>. QED
  BY <1>1, <1>2 DEF AdvanceWaiting

(* A measurement of minutes after the rollout, no more of them than the baseline
   has: what it finds has a cause in them. *)
LEMMA FindingsHaveACause ==
  ASSUME HistoryOK, NEW start \in Int, NEW end \in Int, NEW final \in BOOLEAN,
         row.deployedAt \in Nat, row.deployedAt <= start, start <= end, end <= clock,
         end >= 1, end - start <= Window, final => end - start = Window,
         Findings(Measure(BaselineRange), Measure(Samples(start, end)), final) # {}
  PROVE  \/ \E t \in Before \union After : Gap(t)
         \/ \E t \in After, b \in Before : Worse(scrapes[t], scrapes[b])
<1>. DEFINE T == Minutes(start, end)
            data == Samples(start, end)
<1>0. Window \in Nat /\ Window > 0 /\ clock \in Nat /\ start >= 0
  BY SignalsAssumption DEF HistoryOK
<1>1. SUFFICES ASSUME \A t \in Before \union After : ~Gap(t),
                      \A t \in After, b \in Before : ~Worse(scrapes[t], scrapes[b])
               PROVE  FALSE
  OBVIOUS
<1>2. /\ T \subseteq 1..clock /\ T \subseteq start..end /\ IsFiniteSet(T) /\ T # {}
      /\ Cardinality(T) = IF end = start THEN 1 ELSE end - start
      /\ data \in [T -> Scrape] /\ \A t \in T : data[t] = scrapes[t]
  BY <1>0, SamplesType
<1>3. T \subseteq After
  BY <1>2 DEF After
<1>4. Cardinality(T) <= Window /\ (final => Cardinality(T) = Window)
  BY <1>0, <1>2
<1>5. /\ IsFiniteSet(Before) /\ Before # {} /\ Cardinality(Before) = Window
      /\ BaselineRange \in [Before -> Scrape]
      /\ \A b \in Before : BaselineRange[b] = scrapes[b]
  BY BaselineType
<1>. HIDE DEF T, data
<1>6. /\ \A t \in T : data[t].cpu # NoData /\ data[t].replicas # NoData
      /\ \A b \in Before : BaselineRange[b].cpu # NoData /\ BaselineRange[b].replicas # NoData
  BY <1>1, <1>2, <1>3, <1>5 DEF Gap
<1>7. \A t \in T, b \in Before : ~Worse(data[t], BaselineRange[b])
  BY <1>1, <1>2, <1>3, <1>5
<1>8. Findings(Measure(BaselineRange), Measure(data), final) = {}
  BY <1>2, <1>4, <1>5, <1>6, <1>7, NotWorseNotFound
<1>. QED
  BY <1>8 DEF data

LEMMA JudgedKeepsVerdicts ==
  ASSUME SignalsInv, VerdictsInv, NEW final \in BOOLEAN, NEW start \in Int, NEW end \in Int,
         row.deployedAt <= start, start <= end, end <= clock, end >= 1,
         end - start <= Window, final => end - start = Window,
         \/ row.status = "Verifying" /\ start = row.deployedAt
         \/ row.status = "Verified" /\ final,
         SaveVerification(Judged(Measure(Samples(start, end)), final))
  PROVE  VerdictsInv'
<1>. USE DEF SignalsInv, VerdictsInv
<1>. DEFINE observed == Measure(Samples(start, end))
            found == Findings(row.baseline, observed, final)
<1>0. /\ Window \in Nat /\ clock \in Nat /\ row.deployedAt \in Nat /\ row \in Verification
      /\ inPlace \in BOOLEAN
  BY SignalsAssumption DEF HistoryOK, RowOK, TypeOK
<1>1. /\ row' = Judged(observed, final)
      /\ UNCHANGED <<clock, scrapes, inPlace>>
      /\ HistoryOK'
      /\ \A s, e : Samples(s, e)' = Samples(s, e)
      /\ Encodable(row'.baseline) /\ Encodable(row'.observed)
  BY SaveKeepsSamples DEF SaveVerification
<1>2. observed \in HealthSignals
  BY <1>0, RangeMeasured
<1>3. row.baseline = Measure(BaselineRange)
  BY DEF BaselineIsBeforeTheMerge
<1>4. /\ row'.observed = observed /\ row'.baseline = row.baseline
      /\ row'.deployedAt = row.deployedAt
      /\ row'.status = IF found # {} THEN "Degraded"
                       ELSE IF final THEN "Verified" ELSE row.status
      /\ row' \in Verification
  <2>. HIDE DEF observed
  <2>. QED
    BY <1>0, <1>1, <1>2 DEF Judged, Verification, Status, HistoryOK
<1>5. TypeOK'
  BY <1>0, <1>1, <1>4 DEF TypeOK, HistoryOK
<1>6. OnlyWorseIsDegraded'
  <2>. SUFFICES ASSUME row'.status = "Degraded" PROVE OnlyWorseIsDegraded'
    BY DEF OnlyWorseIsDegraded
  <2>1. found # {}
    BY <1>4
  <2>2. \/ \E t \in Before \union After : Gap(t)
        \/ \E t \in After, b \in Before : Worse(scrapes[t], scrapes[b])
    BY <1>0, <1>3, <2>1, FindingsHaveACause
  <2>. QED
    BY <1>1, <1>4, <2>2 DEF OnlyWorseIsDegraded, Before, After, Gap, MergedAt
<1>7. VerifiedOnItsWindow'
  <2>. SUFFICES ASSUME row'.status = "Verified" PROVE VerifiedOnItsWindow'
    BY DEF VerifiedOnItsWindow
  <2>1. final /\ found = {}
    BY <1>4
  <2>2. /\ WindowEnd' = WindowEnd
        /\ Samples(row.deployedAt, WindowEnd)' = Samples(row.deployedAt, WindowEnd)
    BY <1>1, <1>4 DEF WindowEnd, Samples
  <2>3. CASE row.status = "Verifying" /\ start = row.deployedAt
    <3>1. end = WindowEnd
      BY <1>0, <2>1, <2>3 DEF WindowEnd
    <3>2. observed = Measure(Samples(row.deployedAt, WindowEnd))
      BY <2>3, <3>1
    <3>. HIDE DEF observed
    <3>3. Encodable(observed) /\ Encodable(row.baseline)
      BY <1>1, <1>4
    <3>. QED
      BY <1>1, <1>4, <2>1, <2>2, <3>2, <3>3 DEF VerifiedOnItsWindow
  <2>4. CASE row.status = "Verified"
    BY <1>1, <1>4, <2>2, <2>4 DEF VerifiedOnItsWindow
  <2>. QED
    BY <2>3, <2>4
<1>8. (row.deployedAt <= clock)'
  BY <1>1, <1>4
<1>. QED
  BY <1>5, <1>6, <1>7, <1>8

LEMMA AdvanceVerifyingJudged ==
  SignalsInv /\ VerdictsInv /\ AdvanceVerifying => VerdictsInv'
<1>. SUFFICES ASSUME SignalsInv, VerdictsInv, AdvanceVerifying PROVE VerdictsInv'
  OBVIOUS
<1>. DEFINE start == row.deployedAt
            end == IF Final THEN WindowEnd ELSE clock
            final == Final
<1>1. /\ Window \in Nat /\ Window > 0 /\ clock \in Nat /\ row.deployedAt \in Nat
      /\ row.status = "Verifying" /\ row.deployedAt <= clock /\ clock >= Window
  BY SignalsAssumption
     DEF SignalsInv, VerdictsInv, HistoryOK, RowOK, AdvanceVerifying, MergedAt
<1>2. final \in BOOLEAN /\ start \in Int /\ end \in Int
  BY <1>1 DEF Final, WindowEnd
<1>3. /\ row.deployedAt <= start /\ start <= end /\ end <= clock /\ end >= 1
      /\ end - start <= Window /\ (final => end - start = Window)
  BY <1>1 DEF Final, WindowEnd
<1>4. SaveVerification(Judged(Measure(Samples(start, end)), final))
  BY DEF AdvanceVerifying, ObservedRange
<1>5. row.status = "Verifying" /\ start = row.deployedAt
  BY <1>1
<1>. HIDE DEF start, end, final
<1>. QED
  BY <1>2, <1>3, <1>4, <1>5, JudgedKeepsVerdicts

LEMMA AdvanceVerifiedJudged ==
  SignalsInv /\ VerdictsInv /\ AdvanceVerified => VerdictsInv'
<1>. SUFFICES ASSUME SignalsInv, VerdictsInv, AdvanceVerified PROVE VerdictsInv'
  OBVIOUS
<1>. DEFINE start == clock - Window
            final == TRUE
<1>1. /\ Window \in Nat /\ Window > 0 /\ clock \in Nat /\ row.deployedAt \in Nat
      /\ row.status = "Verified" /\ row.deployedAt + Window <= clock
  BY SignalsAssumption
     DEF SignalsInv, HistoryOK, RowOK, WindowPassed, AdvanceVerified
<1>2. final \in BOOLEAN /\ start \in Int /\ clock \in Int
  BY <1>1
<1>3. /\ row.deployedAt <= start /\ start <= clock /\ clock <= clock /\ clock >= 1
      /\ clock - start <= Window /\ (final => clock - start = Window)
  BY <1>1
<1>4. SaveVerification(Judged(Measure(Samples(start, clock)), final))
  BY DEF AdvanceVerified, RecheckRange
<1>5. row.status = "Verified" /\ final
  BY <1>1
<1>. HIDE DEF start, final
<1>. QED
  BY <1>2, <1>3, <1>4, <1>5, JudgedKeepsVerdicts

LEMMA VerdictsInvariant == Spec => []VerdictsInv
<1>1. SignalsInv /\ SignalsInv' /\ VerdictsInv /\ [Next]_vars => VerdictsInv'
  <2>. SUFFICES ASSUME SignalsInv, SignalsInv', VerdictsInv, [Next]_vars PROVE VerdictsInv'
    OBVIOUS
  <2>0. HistoryOK /\ HistoryOK' /\ inPlace \in BOOLEAN /\ clock \in Nat
    BY DEF SignalsInv, VerdictsInv, TypeOK, HistoryOK
  <2>1. CASE Minute
    <3>1. clock <= clock' /\ UNCHANGED row /\ inPlace' \in BOOLEAN
      BY <2>0, <2>1 DEF Minute
    <3>. QED
      BY <2>0, <2>1, <3>1, MinuteKeepsTheHistory, HistoryGrowsJudged
  <2>2. CASE Deploy \/ UNCHANGED vars
    <3>1. UNCHANGED <<clock, scrapes, row>> /\ inPlace' \in BOOLEAN
      BY <2>0, <2>2 DEF Deploy, vars
    <3>2. clock <= clock' /\ \A t \in 1..clock : scrapes'[t] = scrapes[t]
      BY <2>0, <3>1
    <3>. QED
      BY <2>0, <3>1, <3>2, HistoryGrowsJudged
  <2>. QED
    BY <2>1, <2>2, AdvanceWaitingJudged, AdvanceVerifyingJudged, AdvanceVerifiedJudged
       DEF Next, Advance
<1>. QED
  BY InitJudged, SignalsInvariant, <1>1, PTL DEF Spec

(* Whatever the windows, the policy and the history Prometheus stores, signals
   are numbers (or quotients of numbers) and rows are whole: the sums and
   averages of every window are well defined, empty series included. *)
THEOREM MeasuredTypes == Spec => []TypeOK
<1>1. VerdictsInv => TypeOK
  BY DEF VerdictsInv
<1>. QED
  BY <1>1, VerdictsInvariant, PTL

(* For every window, policy and history: a degraded verdict, and so a rollback,
   has a cause in a minute after the rollout that was worse than one before the
   merge, or in a minute that was not scraped. *)
THEOREM DegradedHasACause == Spec => []OnlyWorseIsDegraded
<1>1. VerdictsInv => OnlyWorseIsDegraded
  BY DEF VerdictsInv
<1>. QED
  BY <1>1, VerdictsInvariant, PTL

(* For every window, policy and history: no change is "Verified" if it made
   every minute of its window worse, in one way and beyond what the policy
   allows, than every minute before it. *)
THEOREM WorseIsFoundOut == Spec => []WorseIsNotVerified
<1>1. SignalsInv /\ VerdictsInv => WorseIsNotVerified
  <2>. SUFFICES ASSUME SignalsInv, VerdictsInv, row.status = "Verified",
                       NEW signal \in Harms
                PROVE  \E t \in Minutes(row.deployedAt, row.deployedAt + Window), b \in Before :
                         ~Beyond(scrapes[t], scrapes[b], signal)
    BY DEF WorseIsNotVerified
  <2>. DEFINE T == Minutes(row.deployedAt, WindowEnd)
              data == Samples(row.deployedAt, WindowEnd)
  <2>1. SUFFICES ASSUME \A t \in T, b \in Before : Beyond(scrapes[t], scrapes[b], signal)
                 PROVE  FALSE
    BY DEF WindowEnd
  <2>2. /\ HistoryOK /\ Window \in Nat /\ Window > 0 /\ row.deployedAt \in Nat /\ clock \in Nat
        /\ row.deployedAt + Window <= clock
    BY SignalsAssumption DEF SignalsInv, HistoryOK, RowOK, WindowPassed
  <2>3. /\ row.deployedAt \in Int /\ WindowEnd \in Int /\ row.deployedAt >= 0
        /\ WindowEnd >= 1 /\ row.deployedAt <= WindowEnd /\ WindowEnd <= clock
        /\ WindowEnd # row.deployedAt /\ WindowEnd - row.deployedAt = Window
    BY <2>2 DEF WindowEnd
  <2>4. /\ IsFiniteSet(T) /\ T # {} /\ Cardinality(T) = Window
        /\ data \in [T -> Scrape] /\ \A t \in T : data[t] = scrapes[t]
    BY <2>2, <2>3, SamplesType
  <2>5. /\ IsFiniteSet(Before) /\ Before # {} /\ Cardinality(Before) = Window
        /\ BaselineRange \in [Before -> Scrape]
        /\ \A b \in Before : BaselineRange[b] = scrapes[b]
    BY <2>2, BaselineType
  <2>6. /\ Encodable(Measure(BaselineRange)) /\ Encodable(Measure(data))
        /\ Findings(Measure(BaselineRange), Measure(data), TRUE) = {}
    BY DEF SignalsInv, VerdictsInv, VerifiedOnItsWindow, BaselineIsBeforeTheMerge
  <2>. HIDE DEF T, data
  <2>7. \A t \in T, b \in Before : Beyond(data[t], BaselineRange[b], signal)
    BY <2>1, <2>4, <2>5
  <2>. DEFINE base == BaselineRange
  <2>. /\ base \in [Before -> Scrape] /\ Cardinality(T) = Cardinality(Before)
       /\ Encodable(Measure(base)) /\ Encodable(Measure(data))
       /\ \A t \in T, b \in Before : Beyond(data[t], base[b], signal)
    BY <2>4, <2>5, <2>6, <2>7
  <2>8. HardFindings(Measure(base), Measure(data)) = {} /\ AveragedFindings(Measure(base), Measure(data)) = {}
    BY <2>6 DEF Findings
  <2>9. \/ HardFindings(Measure(base), Measure(data)) # {}
        \/ AveragedFindings(Measure(base), Measure(data)) # {}
    <3>. HIDE DEF base
    <3>. QED
      BY <2>4, <2>5, WorseFound
  <2>. QED
    BY <2>8, <2>9
<1>. QED
  BY <1>1, SignalsInvariant, VerdictsInvariant, PTL
=============================================================================
