--------------------------- MODULE ManifestProofs ---------------------------
(***************************************************************************)
(* What a rollback restores, for every file and every change set: if a PR  *)
(* records previous values, then it replaced scalars and added no line, a  *)
(* replaced scalar leaves the shape of its file as it was, and the shape   *)
(* decides where the values are found again.                               *)
(***************************************************************************)
EXTENDS Manifest, FiniteSetTheorems, SequenceTheorems, TLAPS

-----------------------------------------------------------------------------
(* Sets of numbers and sequences. *)

LEMMA LeastOf ==
  ASSUME NEW N \in Nat, NEW J \in SUBSET (0..N), J # {}
  PROVE  \E j \in J : \A k \in J : j <= k
<1>. DEFINE Order == StrictSubsetOrdering(1..N)
            Initial == {1..j : j \in J}
<1>1. IsWellFoundedOn(Order, SUBSET (1..N))
  <2>1. IsFiniteSet(1..N)
    BY FS_Interval
  <2>. QED
    BY <2>1, FS_StrictSubsetOrderingWellFounded, FS_FiniteSubsetsOfFinite, Zenon
<1>2. Initial \subseteq SUBSET (1..N) /\ Initial # {}
  <2>1. \A j \in J : 1..j \in SUBSET (1..N)
    OBVIOUS
  <2>2. PICK j \in J : TRUE
    OBVIOUS
  <2>3. 1..j \in Initial
    BY <2>2
  <2>. QED
    BY <2>1, <2>3
<1>. HIDE DEF Initial
<1>3. PICK U \in Initial : \A V \in Initial : <<V, U>> \notin Order
  <2>. HIDE DEF Order
  <2>. QED
    BY <1>1, <1>2, WFMin, Zenon
<1>4. PICK j \in J : U = 1..j
  BY <1>3 DEF Initial
<1>5. ASSUME NEW k \in J, k < j PROVE FALSE
  <2>1. 1..k \in Initial /\ 1..k \in SUBSET (1..N) /\ U \in SUBSET (1..N)
    BY <1>2, <1>3 DEF Initial
  <2>2. j \in U /\ j \notin 1..k /\ 1..k \subseteq U
    BY <1>4, <1>5
  <2>3. <<1..k, U>> \in Order
    BY <2>1, <2>2 DEF StrictSubsetOrdering
  <2>. QED
    BY <1>3, <2>1, <2>3
<1>. QED
  BY <1>5

LEMMA MaxIn ==
  ASSUME NEW N \in Nat, NEW S \in SUBSET (0..N), S # {}
  PROVE  Max(S) \in S /\ \A y \in S : y <= Max(S)
<1>. DEFINE J == {j \in 0..N : \A k \in S : k <= j}
<1>1. PICK j \in J : \A k \in J : j <= k
  <2>1. N \in J
    OBVIOUS
  <2>. HIDE DEF J
  <2>2. J \in SUBSET (0..N)
    BY DEF J
  <2>. QED
    BY <2>1, <2>2, LeastOf
<1>2. j \in S
  <2>1. SUFFICES ASSUME j \notin S PROVE FALSE
    OBVIOUS
  <2>2. \A k \in S : k \in Nat /\ k <= j /\ k # j
    BY <2>1
  <2>3. j \in Nat /\ j # 0
    <3>1. PICK k \in S : TRUE
      OBVIOUS
    <3>. QED
      BY <2>2, <3>1
  <2>4. j - 1 \in 0..N /\ \A k \in S : k <= j - 1
    BY <2>2, <2>3
  <2>5. j - 1 \in J
    BY <2>4
  <2>. QED
    BY <1>1, <2>3, <2>5
<1>3. \E x \in S : \A y \in S : x >= y
  BY <1>2
<1>4. Max(S) \in S /\ \A y \in S : Max(S) >= y
  BY <1>3 DEF Max
<1>. QED
  BY <1>4

LEMMA MinIn ==
  ASSUME NEW N \in Nat, NEW S \in SUBSET (0..N), S # {}
  PROVE  Min(S) \in S /\ \A y \in S : Min(S) <= y
BY LeastOf DEF Min

(* The n-th of a set of numbers. *)
LEMMA NthOf ==
  ASSUME NEW N \in Nat, NEW S \in SUBSET (1..N), NEW n \in 1..Cardinality(S)
  PROVE  \E j \in S : Cardinality(S \cap 1..j) = n
<1>. DEFINE J == {j \in 0..N : n <= Cardinality(S \cap 1..j)}
<1>1. \A j \in 0..N : IsFiniteSet(S \cap 1..j) /\ Cardinality(S \cap 1..j) \in Nat
  <2>1. SUFFICES ASSUME NEW j \in 0..N
                 PROVE  IsFiniteSet(S \cap 1..j) /\ Cardinality(S \cap 1..j) \in Nat
    OBVIOUS
  <2>2. IsFiniteSet(1..j) /\ S \cap 1..j \subseteq 1..j
    BY FS_Interval
  <2>. QED
    BY <2>2, FS_Subset, FS_CardinalityType
<1>2. PICK j \in J : \A k \in J : j <= k
  <2>1. S \cap 1..N = S
    OBVIOUS
  <2>2. N \in J
    BY <1>1, <2>1
  <2>. HIDE DEF J
  <2>3. J \in SUBSET (0..N)
    BY DEF J
  <2>. QED
    BY <2>2, <2>3, LeastOf
<1>3. j # 0
  <2>1. S \cap 1..0 = {}
    OBVIOUS
  <2>. QED
    BY <2>1, FS_EmptySet
<1>4. j - 1 \in 0..N /\ j - 1 \notin J
  BY <1>2, <1>3
<1>5. Cardinality(S \cap 1..(j - 1)) < n
  BY <1>1, <1>4
<1>6. j \in S
  <2>1. SUFFICES ASSUME j \notin S PROVE FALSE
    OBVIOUS
  <2>2. S \cap 1..j = S \cap 1..(j - 1)
    BY <2>1
  <2>. QED
    BY <1>1, <1>5, <2>2
<1>7. S \cap 1..j = (S \cap 1..(j - 1)) \union {j}
  BY <1>6
<1>8. Cardinality(S \cap 1..j) = Cardinality(S \cap 1..(j - 1)) + 1
  BY <1>1, <1>4, <1>7, FS_AddElement
<1>. QED
  <2>1. n <= Cardinality(S \cap 1..j) /\ n \in Int
    OBVIOUS
  <2>2. Cardinality(S \cap 1..(j - 1)) \in Nat
    BY <1>1, <1>4
  <2>3. Cardinality(S \cap 1..j) = n
    BY <1>5, <1>8, <2>1, <2>2
  <2>. QED
    BY <1>6, <2>3

LEMMA SequenceOfItsRange ==
  ASSUME NEW S, NEW s \in Seq(S)
  PROVE  s \in Seq(Range(s))
BY DEF Range

LEMMA RangeOfAppend ==
  ASSUME NEW S, NEW s \in Seq(S), NEW e
  PROVE  Range(Append(s, e)) = Range(s) \union {e}
<1>1. Len(s) \in Nat /\ DOMAIN s = 1..Len(s) /\ DOMAIN Append(s, e) = 1..(Len(s) + 1)
      /\ \A i \in 1..Len(s) : Append(s, e)[i] = s[i]
      /\ Append(s, e)[Len(s) + 1] = e
  OBVIOUS
<1>. QED
  BY <1>1 DEF Range

-----------------------------------------------------------------------------
(* Files whose lines differ in the values of entries only. *)
SameShape(f, g) ==
  /\ IsFile(f) /\ IsFile(g)
  /\ DOMAIN g = DOMAIN f /\ Len(g) = Len(f)
  /\ \A i \in DOMAIN f :
       /\ g[i].kind = f[i].kind /\ g[i].indent = f[i].indent
       /\ g[i].kind = "entry" => g[i].key = f[i].key /\ g[i].style = f[i].style

LEMMA LinesOf ==
  ASSUME NEW f, IsFile(f)
  PROVE  Len(f) \in Nat /\ DOMAIN f = 1..Len(f)
BY DEF IsFile

LEMMA BodyOfShape ==
  ASSUME NEW f, NEW g, SameShape(f, g), NEW i \in Heads(f)
  PROVE  Body(g, i) = Body(f, i)
<1>1. Len(f) \in Nat /\ DOMAIN f = 1..Len(f) /\ Len(g) = Len(f) /\ i \in 1..Len(f)
  BY LinesOf DEF SameShape, Heads
<1>2. ASSUME NEW k \in i + 1 .. Len(f) PROVE Continues(g[i], g[k]) = Continues(f[i], f[k])
  <2>1. k \in DOMAIN f /\ i \in DOMAIN f /\ f[i].kind = "entry"
    BY <1>1, <1>2 DEF Heads
  <2>. QED
    BY <2>1 DEF SameShape, Continues
<1>3. ASSUME NEW j \in i + 1 .. Len(f)
      PROVE  (\A k \in i + 1 .. j : Continues(g[i], g[k]))
               <=> (\A k \in i + 1 .. j : Continues(f[i], f[k]))
  <2>1. \A k \in i + 1 .. j : k \in i + 1 .. Len(f)
    BY <1>1, <1>3
  <2>. QED
    BY <1>2, <2>1
<1>. QED
  BY <1>1, <1>3 DEF Body

LEMMA KeysOfShape ==
  ASSUME NEW f, NEW g, SameShape(f, g)
  PROVE  Heads(g) = Heads(f) /\ Keys(g) = Keys(f) /\ Keys(f) \subseteq DOMAIN f
<1>1. Heads(g) = Heads(f)
  BY DEF SameShape, Heads
<1>2. UNION {Body(g, i) : i \in Heads(g)} = UNION {Body(f, i) : i \in Heads(f)}
  BY <1>1, BodyOfShape
<1>. QED
  BY <1>1, <1>2 DEF Keys, Heads

LEMMA NestingOfShape ==
  ASSUME NEW f, NEW g, SameShape(f, g), NEW i \in Keys(f)
  PROVE  /\ Doc(g, i) = Doc(f, i)
         /\ Nesting(g, Keys(g), i) = Nesting(f, Keys(f), i)
<1>1. /\ Len(f) \in Nat /\ DOMAIN f = 1..Len(f) /\ Keys(f) \subseteq 1..Len(f)
      /\ Keys(g) = Keys(f)
  BY LinesOf, KeysOfShape DEF SameShape
<1>2. ASSUME NEW n \in 1..Len(f) PROVE Doc(g, n) = Doc(f, n)
  <2>1. \A j \in 1..n : g[j].kind = f[j].kind
    BY <1>1, <1>2 DEF SameShape
  <2>. QED
    BY <2>1 DEF Doc
<1>3. \A j, k \in Keys(f) : g[k].indent > g[j].indent <=> f[k].indent > f[j].indent
  BY <1>1 DEF SameShape
<1>. QED
  BY <1>1, <1>2, <1>3 DEF Nesting

(* The path of a line's node, as Tree defines it. *)
KeysOn(f, above) ==
  [n \in 1 .. Cardinality(above) |->
     f[CHOOSE j \in above : Cardinality(above \cap 1..j) = n].key]

PathOf(f, i) == <<Doc(f, i)>> \o KeysOn(f, Nesting(f, Keys(f), i))

LEMMA TreeOfPaths ==
  ASSUME NEW f
  PROVE  Tree(f) = {[line |-> i, path |-> PathOf(f, i)] : i \in Keys(f)}
BY DEF Tree, PathOf, KeysOn

LEMMA TreeOfShape ==
  ASSUME NEW f, NEW g, SameShape(f, g)
  PROVE  Tree(g) = Tree(f)
<1>1. /\ Len(f) \in Nat /\ DOMAIN f = 1..Len(f) /\ Keys(f) \subseteq 1..Len(f)
      /\ Keys(g) = Keys(f)
  BY LinesOf, KeysOfShape DEF SameShape
<1>2. ASSUME NEW i \in Keys(f) PROVE PathOf(g, i) = PathOf(f, i)
  <2>. DEFINE above == Nesting(f, Keys(f), i)
              nth(n) == CHOOSE j \in above : Cardinality(above \cap 1..j) = n
  <2>1. Doc(g, i) = Doc(f, i) /\ Nesting(g, Keys(g), i) = above
    BY NestingOfShape
  <2>2. above \in SUBSET (1..Len(f)) /\ above \subseteq Keys(f)
    BY <1>1 DEF Nesting
  <2>. HIDE DEF above
  <2>3. ASSUME NEW n \in 1..Cardinality(above) PROVE g[nth(n)].key = f[nth(n)].key
    <3>1. \E j \in above : Cardinality(above \cap 1..j) = n
      BY <1>1, <2>2, NthOf
    <3>2. nth(n) \in Keys(f)
      BY <2>2, <3>1
    <3>. HIDE DEF nth
    <3>. QED
      BY <3>2, KeysOfShape DEF SameShape, Keys, Heads
  <2>4. KeysOn(g, above) = KeysOn(f, above)
    BY <2>3 DEF KeysOn
  <2>. QED
    BY <2>1, <2>4 DEF PathOf, above
<1>. QED
  BY <1>1, <1>2, TreeOfPaths

LEMMA LinesOfTheTree ==
  ASSUME NEW f, NEW x \in Tree(f)
  PROVE  x = [line |-> x.line, path |-> PathOf(f, x.line)] /\ x.line \in Keys(f)
BY TreeOfPaths

LEMMA OnePathEach ==
  ASSUME NEW f, NEW p, NEW q, NEW i \in Found(Tree(f), p), i \in Found(Tree(f), q)
  PROVE  p = q
<1>1. PICK x \in Tree(f) : x.path = p /\ x.line = i
  BY DEF Found
<1>2. PICK y \in Tree(f) : y.path = q /\ y.line = i
  BY DEF Found
<1>3. x.path = PathOf(f, i) /\ y.path = PathOf(f, i)
  BY <1>1, <1>2, LinesOfTheTree
<1>. QED
  BY <1>1, <1>2, <1>3

LEMMA FoundInTheFile ==
  ASSUME NEW f, IsFile(f), NEW p, NEW i \in Found(Tree(f), p)
  PROVE  i \in Keys(f) /\ i \in Heads(f) /\ i \in DOMAIN f /\ f[i].kind = "entry"
<1>1. PICK x \in Tree(f) : x.line = i
  BY DEF Found
<1>2. i \in Keys(f)
  BY <1>1, LinesOfTheTree
<1>. QED
  BY <1>2 DEF Keys, Heads

(* What WellFormed asks of a node. *)
GoodNode(f, tree, x) ==
  /\ Found(tree, x.path) = {x.line}
  /\ Len(x.path) = 2 => f[x.line].indent = 0
  /\ ~IsLeaf(tree, x.path) => f[x.line].style = "nothing"
  /\ \A y, z \in Children(tree, x.path) : f[y.line].indent = f[z.line].indent

LEMMA WellFormedByShape ==
  ASSUME NEW f, NEW g, SameShape(f, g)
  PROVE  WellFormed(g) = WellFormed(f)
<1>1. Tree(g) = Tree(f)
  BY TreeOfShape
<1>2. ASSUME NEW x \in Tree(f)
      PROVE  /\ Body(g, x.line) = Body(f, x.line)
             /\ g[x.line].indent = f[x.line].indent
             /\ g[x.line].style = f[x.line].style
  <2>1. x.line \in Heads(f) /\ x.line \in DOMAIN f /\ f[x.line].kind = "entry"
    BY LinesOfTheTree DEF Keys, Heads
  <2>. QED
    BY <2>1, BodyOfShape DEF SameShape
<1>3. ASSUME NEW x \in Tree(f), NEW y \in Children(Tree(f), x.path)
      PROVE  g[y.line].indent = f[y.line].indent
  <2>1. y \in Tree(f)
    BY DEF Children, Subtree
  <2>. QED
    BY <1>2, <2>1
<1>4. (\A i \in DOMAIN g : g[i].kind = "text" => \E x \in Tree(g) : i \in Body(g, x.line))
       <=> (\A i \in DOMAIN f : f[i].kind = "text" => \E x \in Tree(f) : i \in Body(f, x.line))
  BY <1>1, <1>2 DEF SameShape
<1>5. ASSUME NEW x \in Tree(f)
      PROVE  GoodNode(g, Tree(f), x) <=> GoodNode(f, Tree(f), x)
  <2>1. (\A y, z \in Children(Tree(f), x.path) : g[y.line].indent = g[z.line].indent)
          <=> (\A y, z \in Children(Tree(f), x.path) : f[y.line].indent = f[z.line].indent)
    BY <1>3
  <2>. QED
    BY <1>2, <2>1 DEF GoodNode
<1>6. (\A x \in Tree(g) : GoodNode(g, Tree(g), x))
        <=> (\A x \in Tree(f) : GoodNode(f, Tree(f), x))
  BY <1>1, <1>5
<1>. QED
  BY <1>4, <1>6, Zenon DEF WellFormed, GoodNode

-----------------------------------------------------------------------------
(* The fields of a workload. *)

(* The line a field is on. *)
At(f, doc, field) == Line(Tree(f), FieldPath(Tree(f), doc, field))

(* Whether patching a field is replacing a scalar. *)
Settable(f, doc, field) ==
  /\ ~Skips(f, doc, field)
  /\ field # "replicas" => Containers(Tree(f), doc) # {}
  /\ Found(Tree(f), FieldPath(Tree(f), doc, field)) # {}
  /\ Replaceable(f, At(f, doc, field))

LEMMA ContainerPath ==
  ASSUME NEW f, IsFile(f), NEW doc, NEW x \in Containers(Tree(f), doc)
  PROVE  x.path \in Seq(Range(x.path)) /\ Len(x.path) = 4
<1>1. x \in Tree(f) /\ Len(x.path) = 4
  BY DEF Containers, Children, Subtree
<1>. DEFINE i == x.line
            above == Nesting(f, Keys(f), i)
<1>2. i \in Keys(f) /\ x.path = PathOf(f, i)
  BY <1>1, LinesOfTheTree
<1>3. Cardinality(above) \in Nat
  <2>1. above \subseteq 1..Len(f) /\ Len(f) \in Nat
    BY LinesOf DEF Nesting, Keys, Heads
  <2>. QED
    <3>1. IsFiniteSet(1..Len(f))
      BY <2>1, FS_Interval
    <3>. QED
      BY <2>1, <3>1, FS_Subset, FS_CardinalityType
<1>4. KeysOn(f, above) \in Seq(Range(KeysOn(f, above)))
  <2>. DEFINE k == KeysOn(f, above)
              C == Cardinality(above)
  <2>1. DOMAIN k = 1..C /\ k = [n \in 1..C |-> k[n]]
    BY DEF KeysOn
  <2>. HIDE DEF k, C
  <2>2. \A n \in 1..C : k[n] \in Range(k)
    BY <2>1 DEF Range
  <2>3. k \in [1..C -> Range(k)] /\ C \in Nat
    BY <1>3, <2>1, <2>2 DEF C
  <2>. QED
    BY <2>3 DEF k
<1>5. <<Doc(f, i)>> \o KeysOn(f, above) \in Seq({Doc(f, i)} \union Range(KeysOn(f, above)))
  <2>. DEFINE k == KeysOn(f, above)
              S == {Doc(f, i)} \union Range(k)
  <2>. HIDE DEF k, i
  <2>1. <<Doc(f, i)>> \in Seq(S) /\ k \in Seq(S)
    BY <1>4 DEF k
  <2>. QED
    BY <2>1 DEF k
<1>. QED
  BY <1>1, <1>2, <1>5, SequenceOfItsRange DEF PathOf

LEMMA FieldPaths ==
  ASSUME NEW f, IsFile(f), NEW doc,
         NEW field \in Fields, field # "replicas" => Containers(Tree(f), doc) # {}
  PROVE  LET path == FieldPath(Tree(f), doc, field)
         IN  /\ path \in Seq(Range(path))
             /\ IF field = "replicas" THEN path = <<doc, "spec", "replicas">>
                ELSE Len(path) = 7 /\ path[7] = field
<1>1. CASE field = "replicas"
  <2>1. <<doc, "spec", "replicas">> \in Seq({doc, "spec", "replicas"})
    OBVIOUS
  <2>. QED
    BY <1>1, <2>1, SequenceOfItsRange DEF FieldPath
<1>2. CASE field # "replicas"
  <2>. DEFINE c == (CHOOSE x \in Containers(Tree(f), doc) : TRUE).path
              tail == <<"resources", "requests", field>>
  <2>1. c \in Seq(Range(c)) /\ Len(c) = 4
    BY <1>2, ContainerPath
  <2>2. FieldPath(Tree(f), doc, field) = c \o tail
    BY <1>2 DEF FieldPath
  <2>. HIDE DEF c
  <2>3. tail \in Seq({"resources", "requests", field}) /\ Len(tail) = 3 /\ tail[3] = field
    OBVIOUS
  <2>. HIDE DEF tail
  <2>4. /\ c \o tail \in Seq(Range(c) \union {"resources", "requests", field})
        /\ Len(c \o tail) = 7 /\ (c \o tail)[7] = tail[3]
    <3>. DEFINE S == Range(c) \union {"resources", "requests", field}
    <3>1. c \in Seq(S) /\ tail \in Seq(S)
      BY <2>1, <2>3
    <3>. HIDE DEF S
    <3>2. /\ c \o tail \in Seq(S) /\ Len(c \o tail) = Len(c) + Len(tail)
          /\ \A i \in 1 .. Len(c) + Len(tail) :
               (c \o tail)[i] = IF i <= Len(c) THEN c[i] ELSE tail[i - Len(c)]
      BY <3>1, ConcatProperties, Zenon
    <3>3. 7 \in 1 .. Len(c) + Len(tail) /\ 7 - Len(c) = 3 /\ ~(7 <= Len(c))
      BY <2>1, <2>3
    <3>4. (c \o tail)[7] = tail[3]
      BY <3>2, <3>3
    <3>. QED
      BY <2>1, <2>3, <3>2, <3>4 DEF S
  <2>. QED
    BY <1>2, <2>2, <2>3, <2>4, SequenceOfItsRange
<1>. QED
  BY <1>1, <1>2

LEMMA FieldLine ==
  ASSUME NEW f, IsFile(f), NEW doc, NEW field \in Fields, Settable(f, doc, field)
  PROVE  LET i == At(f, doc, field)
         IN  /\ i \in Found(Tree(f), FieldPath(Tree(f), doc, field))
             /\ i \in Keys(f) /\ i \in Heads(f) /\ i \in DOMAIN f /\ f[i].kind = "entry"
<1>1. At(f, doc, field) \in Found(Tree(f), FieldPath(Tree(f), doc, field))
  BY DEF Settable, At, Line
<1>. QED
  BY <1>1, FoundInTheFile

LEMMA FieldsApart ==
  ASSUME NEW f, IsFile(f), NEW doc, NEW F \in Fields, Settable(f, doc, F)
  PROVE  /\ \A G \in Fields : Settable(f, doc, G) /\ G # F => At(f, doc, G) # At(f, doc, F)
         /\ \A d, object : At(f, doc, F) \notin Found(Tree(f), <<d, object>>)
<1>. DEFINE path(G) == FieldPath(Tree(f), doc, G)
<1>1. /\ Len(<<doc, "spec", "replicas">>) = 3
      /\ \A d, object : Len(<<d, object>>) = 2
  OBVIOUS
<1>2. \A G \in Fields : Settable(f, doc, G) =>
        /\ IF G = "replicas" THEN Len(path(G)) = 3 ELSE Len(path(G)) = 7 /\ path(G)[7] = G
        /\ At(f, doc, G) \in Found(Tree(f), path(G))
  BY <1>1, FieldPaths, FieldLine DEF Settable
<1>. HIDE DEF path
<1>3. ASSUME NEW G \in Fields, Settable(f, doc, G), G # F
      PROVE  At(f, doc, G) # At(f, doc, F)
  <2>1. path(G) # path(F)
    BY <1>2, <1>3
  <2>. QED
    BY <1>2, <1>3, <2>1, OnePathEach
<1>4. ASSUME NEW d, NEW object PROVE At(f, doc, F) \notin Found(Tree(f), <<d, object>>)
  <2>1. path(F) # <<d, object>>
    BY <1>1, <1>2
  <2>. QED
    BY <1>2, <2>1, OnePathEach
<1>. QED
  BY <1>3, <1>4

-----------------------------------------------------------------------------
(* Files that differ in the values of settable fields of a workload only. *)
Alike(f, g, doc) ==
  /\ SameShape(f, g)
  /\ \A i \in DOMAIN f :
       g[i] # f[i] => \E F \in Fields : Settable(f, doc, F) /\ i = At(f, doc, F)

LEMMA ObjectsOfAlike ==
  ASSUME NEW f, NEW g, NEW doc, Alike(f, g, doc), NEW object
  PROVE  Objects(g, object) = Objects(f, object)
<1>1. Tree(g) = Tree(f) /\ Len(g) = Len(f) /\ IsFile(f)
  BY TreeOfShape DEF Alike, SameShape
<1>2. ASSUME NEW d \in 0..Len(f), NEW i \in Found(Tree(f), <<d, "object">>)
      PROVE  g[i].value = f[i].value
  <2>1. i \in DOMAIN f
    BY <1>1, <1>2, FoundInTheFile
  <2>2. \A F \in Fields : Settable(f, doc, F) => i # At(f, doc, F)
    BY <1>1, <1>2, FieldsApart
  <2>. QED
    BY <2>1, <2>2 DEF Alike
<1>3. ASSUME NEW d \in 0..Len(f)
      PROVE  (\E i \in Found(Tree(f), <<d, "object">>) : g[i].value = object)
               <=> (\E i \in Found(Tree(f), <<d, "object">>) : f[i].value = object)
  BY <1>2
<1>. QED
  BY <1>1, <1>3 DEF Objects

LEMMA AlikeFields ==
  ASSUME NEW f, NEW g, NEW doc, Alike(f, g, doc), NEW F \in Fields
  PROVE  /\ Tree(g) = Tree(f)
         /\ LocateDeployment(g) = LocateDeployment(f)
         /\ Skips(g, doc, F) <=> Skips(f, doc, F)
         /\ At(g, doc, F) = At(f, doc, F)
         /\ Settable(g, doc, F) <=> Settable(f, doc, F)
<1>1. Tree(g) = Tree(f) /\ IsFile(f)
  BY TreeOfShape DEF Alike, SameShape
<1>2. Objects(g, "deployment") = Objects(f, "deployment")
      /\ Objects(g, "autoscaler") = Objects(f, "autoscaler")
  BY ObjectsOfAlike
<1>3. LocateDeployment(g) = LocateDeployment(f)
  <2>. DEFINE only(docs) == IF Cardinality(docs) = 1 THEN CHOOSE d \in docs : TRUE ELSE None
  <2>1. /\ LocateDeployment(f) = only(Objects(f, "deployment"))
        /\ LocateDeployment(g) = only(Objects(g, "deployment"))
    BY DEF LocateDeployment
  <2>. HIDE DEF only
  <2>. QED
    BY <1>2, <2>1
<1>4. Skips(g, doc, F) <=> Skips(f, doc, F)
  BY <1>1, <1>2 DEF Skips, Autoscaled
<1>5. At(g, doc, F) = At(f, doc, F)
  BY <1>1 DEF At
<1>6. ASSUME Found(Tree(f), FieldPath(Tree(f), doc, F)) # {}
      PROVE  Replaceable(g, At(f, doc, F)) <=> Replaceable(f, At(f, doc, F))
  <2>. DEFINE i == At(f, doc, F)
  <2>1. i \in Found(Tree(f), FieldPath(Tree(f), doc, F))
    BY <1>6 DEF At, Line
  <2>. HIDE DEF i
  <2>2. i \in Heads(f) /\ i \in DOMAIN f /\ f[i].kind = "entry"
    BY <1>1, <2>1, FoundInTheFile
  <2>3. Body(g, i) = Body(f, i) /\ g[i].style = f[i].style
    BY <2>2, BodyOfShape DEF Alike, SameShape
  <2>. QED
    BY <2>3 DEF Replaceable, i
<1>. QED
  BY <1>1, <1>3, <1>4, <1>5, <1>6 DEF Settable

LEMMA ScalarOfOneLine ==
  ASSUME NEW f, IsFile(f), NEW i \in DOMAIN f, Body(f, i) = {}
  PROVE  Scalar(f, i) = <<f[i].value>>
<1>1. SubSeq(f, i + 1, i) = <<>>
  BY LinesOf, SubSeqEmpty DEF IsFile
<1>2. <<f[i].value>> \o <<>> = <<f[i].value>>
  OBVIOUS
<1>. QED
  BY <1>1, <1>2 DEF Scalar

-----------------------------------------------------------------------------
(* Replacing. *)

(* g is f with the values of some fields replaced. *)
Rewritten(f, g, doc, E, values) ==
  /\ Alike(f, g, doc)
  /\ \A F \in E : /\ F \in Fields /\ Settable(f, doc, F)
                  /\ g[At(f, doc, F)] = [f[At(f, doc, F)] EXCEPT !.value = values[F]]
  /\ \A i \in DOMAIN f : (\A F \in E : i # At(f, doc, F)) => g[i] = f[i]

LEMMA ReplacedLine ==
  ASSUME NEW f, IsFile(f), NEW i \in DOMAIN f, f[i].kind = "entry", NEW value
  PROVE  LET g == ReplaceScalar(f, i, value)
         IN  /\ IsFile(g) /\ SameShape(f, g)
             /\ g[i] = [f[i] EXCEPT !.value = value]
             /\ \A j \in DOMAIN f : j # i => g[j] = f[j]
<1>. DEFINE g == ReplaceScalar(f, i, value)
            new == [f[i] EXCEPT !.value = value]
            S == Range(f) \union {new}
<1>1. f \in Seq(Range(f)) /\ f[i] = Entry(f[i].indent, f[i].key, f[i].style, f[i].value)
  BY DEF IsFile
<1>2. /\ new = Entry(f[i].indent, f[i].key, f[i].style, value)
      /\ new.kind = "entry" /\ new.indent = f[i].indent
      /\ new.key = f[i].key /\ new.style = f[i].style /\ new.value = value
  BY <1>1 DEF Entry
<1>3. g = [f EXCEPT ![i] = new]
  BY DEF ReplaceScalar
<1>. HIDE DEF new, g
<1>4. g \in Seq(S) /\ DOMAIN g = DOMAIN f /\ Len(g) = Len(f)
      /\ g[i] = new /\ \A j \in DOMAIN f : j # i => g[j] = f[j]
  <2>1. f \in Seq(S) /\ new \in S
    BY <1>1
  <2>. HIDE DEF S
  <2>. QED
    BY <1>3, <2>1
<1>5. IsFile(g)
  <2>1. g \in Seq(Range(g))
    BY <1>4, SequenceOfItsRange
  <2>2. ASSUME NEW j \in DOMAIN g, g[j].kind = "entry"
        PROVE  g[j] = Entry(g[j].indent, g[j].key, g[j].style, g[j].value)
    <3>1. CASE j = i
      BY <1>2, <1>4, <3>1
    <3>2. CASE j # i
      BY <1>4, <2>2, <3>2 DEF IsFile
    <3>. QED
      BY <3>1, <3>2
  <2>3. \A j \in DOMAIN g : g[j].indent \in Nat
    BY <1>2, <1>4 DEF IsFile
  <2>. QED
    BY <2>1, <2>2, <2>3 DEF IsFile
<1>6. SameShape(f, g)
  BY <1>2, <1>4, <1>5 DEF SameShape
<1>. QED
  BY <1>4, <1>5, <1>6 DEF g, new

LEMMA ShapesCompose ==
  ASSUME NEW f, NEW g, NEW h, SameShape(f, g), SameShape(g, h)
  PROVE  SameShape(f, h)
BY DEF SameShape

LEMMA RewriteOneMore ==
  ASSUME NEW f, NEW g, NEW doc, NEW E, NEW values, Rewritten(f, g, doc, E, values),
         NEW F \in Fields, F \notin E, Settable(f, doc, F)
  PROVE  Rewritten(f, ReplaceScalar(g, At(f, doc, F), values[F]), doc, E \union {F}, values)
<1>. DEFINE i == At(f, doc, F)
            h == ReplaceScalar(g, i, values[F])
<1>1. Alike(f, g, doc) /\ IsFile(f) /\ IsFile(g) /\ SameShape(f, g)
  BY DEF Rewritten, Alike, SameShape
<1>2. i \in DOMAIN f /\ f[i].kind = "entry"
  BY <1>1, FieldLine
<1>3. \A G \in E : G \in Fields /\ Settable(f, doc, G) /\ At(f, doc, G) # i
                   /\ At(f, doc, G) \in DOMAIN f
  <2>1. \A G \in E : G \in Fields /\ Settable(f, doc, G) /\ G # F
    BY DEF Rewritten
  <2>. QED
    BY <1>1, <2>1, FieldsApart, FieldLine
<1>4. g[i] = f[i]
  BY <1>2, <1>3 DEF Rewritten
<1>5. i \in DOMAIN g /\ g[i].kind = "entry" /\ DOMAIN g = DOMAIN f
  BY <1>1, <1>2, <1>4 DEF SameShape
<1>6. /\ SameShape(g, h) /\ h[i] = [g[i] EXCEPT !.value = values[F]]
      /\ \A j \in DOMAIN g : j # i => h[j] = g[j]
  BY <1>1, <1>5, ReplacedLine
<1>7. SameShape(f, h)
  BY <1>1, <1>6, ShapesCompose
<1>. HIDE DEF h
<1>8. \A j \in DOMAIN f : j # i => h[j] = g[j]
  BY <1>5, <1>6
<1>9. Alike(f, h, doc)
  <2>1. ASSUME NEW j \in DOMAIN f, h[j] # f[j]
        PROVE  \E G \in Fields : Settable(f, doc, G) /\ j = At(f, doc, G)
    BY <1>1, <1>8, <2>1 DEF Alike
  <2>. QED
    BY <1>7, <2>1 DEF Alike
<1>10. ASSUME NEW G \in E \union {F}
       PROVE  /\ G \in Fields /\ Settable(f, doc, G)
              /\ h[At(f, doc, G)] = [f[At(f, doc, G)] EXCEPT !.value = values[G]]
  <2>1. CASE G = F
    BY <1>4, <1>6, <2>1
  <2>2. CASE G \in E
    BY <1>3, <1>8, <2>2 DEF Rewritten
  <2>. QED
    BY <2>1, <2>2
<1>11. ASSUME NEW j \in DOMAIN f, \A G \in E \union {F} : j # At(f, doc, G)
       PROVE  h[j] = f[j]
  BY <1>8, <1>11 DEF Rewritten
<1>. QED
  BY <1>9, <1>10, <1>11 DEF Rewritten, h

-----------------------------------------------------------------------------
(* Patching one field. *)
IsResult(res) ==
  /\ res = [ok |-> res.ok, lines |-> res.lines, edits |-> res.edits, skipped |-> res.skipped]
  /\ res.edits \in Seq(Range(res.edits))

LEMMA EditedResult ==
  ASSUME NEW res, IsResult(res), NEW lines, NEW field, NEW old, NEW new
  PROVE  LET next == Edited(res, lines, field, old, new)
         IN  /\ IsResult(next) /\ next.ok = res.ok /\ next.lines = lines
             /\ Range(next.edits)
                  = Range(res.edits) \union {[field |-> field, old |-> old, new |-> new]}
<1>. DEFINE e == [field |-> field, old |-> old, new |-> new]
            edits == Append(res.edits, e)
<1>1. Edited(res, lines, field, old, new)
        = [ok |-> res.ok, lines |-> lines, edits |-> edits, skipped |-> res.skipped]
  <2>. DEFINE mid == [res EXCEPT !.lines = lines]
  <2>1. mid = [ok |-> res.ok, lines |-> lines, edits |-> res.edits, skipped |-> res.skipped]
    BY DEF IsResult
  <2>2. Edited(res, lines, field, old, new) = [mid EXCEPT !.edits = Append(@, e)]
    BY DEF Edited
  <2>. HIDE DEF mid, e
  <2>. QED
    BY <2>1, <2>2
<1>2. Range(edits) = Range(res.edits) \union {e}
  BY RangeOfAppend DEF IsResult
<1>3. edits \in Seq(Range(edits))
  <2>. DEFINE S == Range(res.edits) \union {e}
  <2>1. res.edits \in Seq(S) /\ e \in S
    BY DEF IsResult
  <2>. HIDE DEF S, e
  <2>2. edits \in Seq(S)
    BY <2>1
  <2>. QED
    BY <2>2, SequenceOfItsRange
<1>. HIDE DEF edits
<1>. QED
  BY <1>1, <1>2, <1>3 DEF IsResult

Unedited(res, next) ==
  next.ok = res.ok /\ next.lines = res.lines /\ next.edits = res.edits

Replaced(res, next, doc, field, value) ==
  LET f == res.lines
      i == At(f, doc, field)
  IN /\ Settable(f, doc, field) /\ ~Says(f, i, value)
     /\ next = Edited(res, ReplaceScalar(f, i, value), field, f[i].value, value)

(* The part of a field's path that exists. *)
Existing(tree, path) == {n \in 2 .. Len(path) - 1 : Found(tree, SubSeq(path, 1, n)) # {}}

Inserted(res, next, doc, field, value) ==
  LET f == res.lines
      tree == Tree(f)
      path == FieldPath(tree, doc, field)
      depth == Max(Existing(tree, path))
  IN /\ field # "replicas" => Containers(tree, doc) # {}
     /\ Existing(tree, path) # {}
     /\ BlockMapping(f, tree, SubSeq(path, 1, depth))
     /\ \E style :
          next = Edited(res, InsertKeys(f, tree, SubSeq(path, 1, depth),
                                        SubSeq(path, depth + 1, Len(path)), value, style),
                        field, None, value)

LEMMA SetFieldCases ==
  ASSUME NEW res, NEW doc, NEW field, NEW value, ~Skips(res.lines, doc, field),
         field # "replicas" => Containers(Tree(res.lines), doc) # {}
  PROVE  LET next == SetField(res, doc, field, value)
         IN  \/ next = Error
             \/ next = res
             \/ Replaced(res, next, doc, field, value)
             \/ Inserted(res, next, doc, field, value)
<1>. DEFINE f == res.lines
            tree == Tree(f)
            path == FieldPath(tree, doc, field)
            i == Line(tree, path)
            next == SetField(res, doc, field, value)
            depth == Max(Existing(tree, path))
            style == IF field = "replicas" THEN "plain" ELSE "quoted"
<1>1. CASE Found(tree, path) # {}
  <2>1. CASE Says(f, i, value)
    <3>1. next = res
      BY <1>1, <2>1 DEF SetField, SetScalar
    <3>. QED
      BY <3>1
  <2>2. CASE ~Says(f, i, value) /\ ~Replaceable(f, i)
    <3>1. next = Error
      BY <1>1, <2>2 DEF SetField, SetScalar
    <3>. QED
      BY <3>1
  <2>3. CASE ~Says(f, i, value) /\ Replaceable(f, i)
    <3>1. next = Edited(res, ReplaceScalar(f, i, value), field, f[i].value, value)
      BY <1>1, <2>3 DEF SetField, SetScalar
    <3>2. i = At(f, doc, field)
      BY DEF At
    <3>3. Settable(f, doc, field)
      BY <1>1, <2>3, <3>2 DEF Settable
    <3>. QED
      BY <2>3, <3>1, <3>2, <3>3 DEF Replaced
  <2>. QED
    BY <2>1, <2>2, <2>3
<1>2. CASE Found(tree, path) = {}
           /\ (Existing(tree, path) = {} \/ ~BlockMapping(f, tree, SubSeq(path, 1, depth)))
  <2>1. next = Error
    BY <1>2 DEF SetField, SetMissing, Existing
  <2>. QED
    BY <2>1
<1>3. CASE /\ Found(tree, path) = {} /\ Existing(tree, path) # {}
           /\ BlockMapping(f, tree, SubSeq(path, 1, depth))
  <2>1. next = Edited(res, InsertKeys(f, tree, SubSeq(path, 1, depth),
                                      SubSeq(path, depth + 1, Len(path)), value, style),
                      field, None, value)
    BY <1>3 DEF SetField, SetMissing, Existing
  <2>. QED
    BY <1>3, <2>1 DEF Inserted
<1>. QED
  BY <1>1, <1>2, <1>3

LEMMA PatchFieldCases ==
  ASSUME NEW res, IsResult(res), NEW doc, NEW field, NEW value
  PROVE  LET next == PatchField(res, doc, field, value)
         IN  /\ IsResult(next)
             /\ \/ next = Error
                \/ Unedited(res, next)
                \/ res.ok /\ value # None /\ Replaced(res, next, doc, field, value)
                \/ res.ok /\ value # None /\ Inserted(res, next, doc, field, value)
<1>. DEFINE next == PatchField(res, doc, field, value)
            none == field # "replicas" /\ Containers(Tree(res.lines), doc) = {}
<1>0. IsResult(Error)
  BY DEF IsResult, Error, Range
<1>1. CASE ~res.ok \/ value = None
  <2>1. next = res
    BY <1>1 DEF PatchField
  <2>. QED
    BY <2>1 DEF Unedited
<1>2. CASE res.ok /\ value # None /\ none
  <2>1. next = Error
    BY <1>2 DEF PatchField
  <2>. QED
    BY <1>0, <2>1
<1>3. CASE res.ok /\ value # None /\ ~none /\ Skips(res.lines, doc, field)
  <2>1. next = [res EXCEPT !.skipped = @ \union {field}]
    BY <1>3 DEF PatchField
  <2>2. next = [ok |-> res.ok, lines |-> res.lines, edits |-> res.edits,
                skipped |-> res.skipped \union {field}]
    BY <2>1 DEF IsResult
  <2>. QED
    BY <2>2 DEF Unedited, IsResult
<1>4. CASE res.ok /\ value # None /\ ~none /\ ~Skips(res.lines, doc, field)
  <2>1. next = SetField(res, doc, field, value)
    BY <1>4 DEF PatchField
  <2>2. \/ next = Error
        \/ next = res
        \/ Replaced(res, next, doc, field, value)
        \/ Inserted(res, next, doc, field, value)
    BY <1>4, <2>1, SetFieldCases
  <2>. HIDE DEF next
  <2>3. Replaced(res, next, doc, field, value) => IsResult(next)
    BY EditedResult DEF Replaced
  <2>4. Inserted(res, next, doc, field, value) => IsResult(next)
    BY EditedResult DEF Inserted
  <2>. QED
    BY <1>0, <1>4, <2>2, <2>3, <2>4 DEF Unedited, next
<1>. QED
  BY <1>1, <1>2, <1>3, <1>4

-----------------------------------------------------------------------------
(* What is patched stays a file. *)
LEMMA InsertionInTheFile ==
  ASSUME NEW f, IsFile(f), NEW parent, BlockMapping(f, Tree(f), parent), NEW indent
  PROVE  InsertionLine(f, Tree(f), parent, indent) \in 1..Len(f)
<1>. DEFINE lines == {x.line : x \in Subtree(Tree(f), parent)}
            last == Max(lines)
            goesOn(j) == f[j].kind \notin {"blank", "separator"} /\ f[j].indent > indent
            reach == {j \in last .. Len(f) : \A k \in last + 1 .. j : goesOn(k)}
<1>1. Len(f) \in Nat /\ DOMAIN f = 1..Len(f)
  BY LinesOf
<1>2. lines # {}
  <2>1. Children(Tree(f), parent) # {}
    BY DEF BlockMapping, IsLeaf
  <2>2. PICK x \in Subtree(Tree(f), parent) : TRUE
    BY <2>1 DEF Children
  <2>. QED
    BY <2>2
<1>3. lines \subseteq 1..Len(f)
  BY <1>1, LinesOfTheTree DEF Subtree, Keys, Heads
<1>. HIDE DEF lines
<1>4. last \in 1..Len(f)
  <2>1. lines \in SUBSET (0..Len(f))
    BY <1>1, <1>3
  <2>2. Max(lines) \in lines
    BY <1>1, <1>2, <2>1, MaxIn
  <2>. QED
    BY <1>3, <2>2
<1>. HIDE DEF last
<1>5. reach \in SUBSET (0..Len(f)) /\ reach # {} /\ reach \subseteq 1..Len(f)
  <2>1. last \in reach
    BY <1>1, <1>4
  <2>2. reach \subseteq 1..Len(f)
    BY <1>1, <1>4
  <2>. QED
    BY <1>1, <2>1, <2>2
<1>6. Max(reach) \in 1..Len(f)
  <2>. HIDE DEF reach
  <2>. QED
    BY <1>1, <1>5, MaxIn
<1>. QED
  BY <1>6 DEF InsertionLine, last, lines

LEMMA MoreLines ==
  ASSUME NEW f, IsFile(f), NEW at \in 0..Len(f), NEW added, added \in Seq(Range(added)),
         \A n \in DOMAIN added : \E a \in Nat : \E b, c, d : added[n] = Entry(a, b, c, d)
  PROVE  IsFile(SubSeq(f, 1, at) \o added \o SubSeq(f, at + 1, Len(f)))
<1>. DEFINE above == SubSeq(f, 1, at)
            below == SubSeq(f, at + 1, Len(f))
            OK(l) == /\ l.indent \in Nat
                     /\ l.kind = "entry" => l = Entry(l.indent, l.key, l.style, l.value)
            S == {l \in Range(f) \union Range(added) : OK(l)}
<1>1. Len(f) \in Nat /\ DOMAIN f = 1..Len(f)
  BY LinesOf
<1>2. \A l \in Range(f) : OK(l)
  BY DEF IsFile, Range
<1>3. \A l \in Range(added) : OK(l)
  BY DEF Range, Entry
<1>. HIDE DEF OK
<1>4. f \in Seq(S) /\ added \in Seq(S)
  <2>1. Range(f) \subseteq S /\ Range(added) \subseteq S
    BY <1>2, <1>3
  <2>2. f \in Seq(Range(f))
    BY DEF IsFile
  <2>. HIDE DEF S
  <2>. QED
    BY <2>1, <2>2
<1>5. above \in Seq(S) /\ below \in Seq(S)
  <2>. HIDE DEF S
  <2>. QED
    BY <1>1, <1>4
<1>. HIDE DEF above, below
<1>6. above \o added \o below \in Seq(S)
  <2>. HIDE DEF S
  <2>. QED
    BY <1>4, <1>5
<1>. DEFINE g == above \o added \o below
<1>7. g \in Seq(Range(g)) /\ \A i \in DOMAIN g : g[i] \in S
  <2>. HIDE DEF S
  <2>1. g \in Seq(S)
    BY <1>6
  <2>. HIDE DEF g
  <2>. QED
    BY <2>1, SequenceOfItsRange
<1>. HIDE DEF g
<1>8. IsFile(g)
  BY <1>7 DEF IsFile, OK
<1>. QED
  BY <1>8 DEF g, above, below

LEMMA ChildrenIndent ==
  ASSUME NEW f, IsFile(f), NEW tree, tree = Tree(f), NEW path, Children(tree, path) # {}
  PROVE  f[Min({x.line : x \in Children(tree, path)})].indent \in Nat
<1>. DEFINE lines == {x.line : x \in Children(tree, path)}
<1>1. Len(f) \in Nat /\ DOMAIN f = 1..Len(f)
  BY LinesOf
<1>2. lines # {} /\ lines \subseteq 1..Len(f)
  BY <1>1, LinesOfTheTree DEF Children, Subtree, Keys, Heads
<1>. HIDE DEF lines
<1>3. Min(lines) \in lines
  <2>1. lines \in SUBSET (0..Len(f))
    BY <1>1, <1>2
  <2>. QED
    BY <1>1, <1>2, <2>1, MinIn
<1>4. Min(lines) \in DOMAIN f
  BY <1>1, <1>2, <1>3
<1>. QED
  BY <1>4 DEF IsFile, lines

LEMMA InsertedFile ==
  ASSUME NEW f, IsFile(f), NEW path, path \in Seq(Range(path)),
         NEW tree, tree = Tree(f), Existing(tree, path) # {}, NEW value, NEW style,
         BlockMapping(f, tree, SubSeq(path, 1, Max(Existing(tree, path))))
  PROVE  LET depth == Max(Existing(tree, path))
         IN  IsFile(InsertKeys(f, tree, SubSeq(path, 1, depth),
                               SubSeq(path, depth + 1, Len(path)), value, style))
<1>. DEFINE depth == Max(Existing(tree, path))
            parent == SubSeq(path, 1, depth)
            keys == SubSeq(path, depth + 1, Len(path))
            indent == f[Min({x.line : x \in Children(tree, parent)})].indent
            at == InsertionLine(f, tree, parent, indent)
            added == [n \in DOMAIN keys |->
                        LET column == indent + 2 * (n - 1) IN
                        IF n < Len(keys) THEN Entry(column, keys[n], "nothing", None)
                        ELSE Entry(column, keys[n], style, value)]
<1>0. Children(tree, parent) # {}
  BY DEF BlockMapping, IsLeaf
<1>1. depth \in Nat /\ Len(path) \in Nat
  <2>1. Len(path) \in Nat
    OBVIOUS
  <2>2. Existing(tree, path) \in SUBSET (0..Len(path))
    BY <2>1 DEF Existing
  <2>3. Max(Existing(tree, path)) \in Existing(tree, path)
    BY <2>1, <2>2, MaxIn
  <2>. QED
    BY <2>1, <2>2, <2>3
<1>2. at \in 0..Len(f)
  <2>1. at \in 1..Len(f)
    BY InsertionInTheFile
  <2>. QED
    BY <2>1, LinesOf
<1>3. keys \in Seq(Range(path))
  <2>. HIDE DEF depth
  <2>. QED
    BY <1>1
<1>4. added \in Seq(Range(added))
  <2>1. DOMAIN added = 1..Len(keys) /\ Len(keys) \in Nat /\ added = [n \in 1..Len(keys) |-> added[n]]
    <3>. HIDE DEF keys
    <3>. QED
      BY <1>3
  <2>. HIDE DEF added, keys
  <2>2. \A n \in 1..Len(keys) : added[n] \in Range(added)
    BY <2>1 DEF Range
  <2>. QED
    BY <2>1, <2>2
<1>5. \A n \in DOMAIN added : \E a \in Nat : \E b, c, d : added[n] = Entry(a, b, c, d)
  <2>1. ASSUME NEW n \in DOMAIN keys
        PROVE  \/ added[n] = Entry(indent + 2 * (n - 1), keys[n], "nothing", None)
               \/ added[n] = Entry(indent + 2 * (n - 1), keys[n], style, value)
    <3>. HIDE DEF keys, indent
    <3>. QED
      OBVIOUS
  <2>2. DOMAIN added = DOMAIN keys
    OBVIOUS
  <2>3. indent \in Nat
    BY <1>0, ChildrenIndent
  <2>. HIDE DEF keys, indent
  <2>4. \A n \in DOMAIN keys : indent + 2 * (n - 1) \in Nat
    BY <1>3, <2>3
  <2>. HIDE DEF added
  <2>. QED
    BY <2>1, <2>2, <2>4
<1>. HIDE DEF added, at
<1>6. IsFile(SubSeq(f, 1, at) \o added \o SubSeq(f, at + 1, Len(f)))
  BY <1>2, <1>4, <1>5, MoreLines
<1>. QED
  BY <1>6 DEF InsertKeys, added, at

LEMMA PatchFieldFile ==
  ASSUME NEW res, IsResult(res), IsFile(res.lines), NEW doc, NEW field \in Fields, NEW value,
         PatchField(res, doc, field, value).ok
  PROVE  LET next == PatchField(res, doc, field, value)
         IN IsFile(next.lines) /\ res.ok /\ Range(res.edits) \subseteq Range(next.edits)
<1>. DEFINE next == PatchField(res, doc, field, value)
            f == res.lines
            path == FieldPath(Tree(f), doc, field)
<1>1. \/ next = Error
      \/ Unedited(res, next)
      \/ res.ok /\ value # None /\ Replaced(res, next, doc, field, value)
      \/ res.ok /\ value # None /\ Inserted(res, next, doc, field, value)
  BY PatchFieldCases
<1>. HIDE DEF next
<1>2. CASE next = Error
  BY <1>2 DEF Error, next
<1>3. CASE Unedited(res, next)
  BY <1>3 DEF Unedited, next
<1>4. CASE res.ok /\ Replaced(res, next, doc, field, value)
  <2>. DEFINE i == At(f, doc, field)
  <2>1. Settable(f, doc, field)
        /\ next = Edited(res, ReplaceScalar(f, i, value), field, f[i].value, value)
    BY <1>4 DEF Replaced
  <2>2. i \in DOMAIN f /\ f[i].kind = "entry"
    BY <2>1, FieldLine
  <2>3. IsFile(ReplaceScalar(f, i, value))
    BY <2>2, ReplacedLine
  <2>4. next.lines = ReplaceScalar(f, i, value) /\ Range(res.edits) \subseteq Range(next.edits)
    BY <2>1, EditedResult
  <2>. QED
    BY <1>4, <2>3, <2>4 DEF next
<1>5. CASE res.ok /\ Inserted(res, next, doc, field, value)
  <2>. DEFINE depth == Max(Existing(Tree(f), path))
              lines(style) == InsertKeys(f, Tree(f), SubSeq(path, 1, depth),
                                         SubSeq(path, depth + 1, Len(path)), value, style)
  <2>1. /\ field # "replicas" => Containers(Tree(f), doc) # {}
        /\ Existing(Tree(f), path) # {}
        /\ BlockMapping(f, Tree(f), SubSeq(path, 1, depth))
    BY <1>5 DEF Inserted
  <2>2. PICK style : next = Edited(res, lines(style), field, None, value)
    BY <1>5 DEF Inserted
  <2>3. path \in Seq(Range(path))
    BY <2>1, FieldPaths
  <2>4. IsFile(lines(style))
    <3>. HIDE DEF path
    <3>. QED
      BY <2>1, <2>3, InsertedFile
  <2>. HIDE DEF lines
  <2>5. next.lines = lines(style) /\ Range(res.edits) \subseteq Range(next.edits)
    BY <2>2, EditedResult
  <2>. QED
    BY <1>5, <2>4, <2>5 DEF next
<1>. QED
  BY <1>1, <1>2, <1>3, <1>4, <1>5

-----------------------------------------------------------------------------
(* Patching by replacing. *)
Touched(res) == {e.field : e \in Range(res.edits)}

(* What patching f has done so far, if it added no key. *)
Patched(f, doc, cs, res) ==
  /\ IsResult(res) /\ res.ok
  /\ Rewritten(f, res.lines, doc, Touched(res), cs)
  /\ \A e \in Range(res.edits) :
       e.new = cs[e.field] /\ e.old = f[At(f, doc, e.field)].value /\ e.old # e.new

LEMMA OneMorePatched ==
  ASSUME NEW f, NEW doc, NEW cs, NEW res, Patched(f, doc, cs, res),
         NEW F \in Fields, F \notin Touched(res), Settable(f, doc, F),
         f[At(f, doc, F)].value # cs[F]
  PROVE  LET g == res.lines
             i == At(f, doc, F)
             next == Edited(res, ReplaceScalar(g, i, cs[F]), F, g[i].value, cs[F])
         IN Patched(f, doc, cs, next) /\ Touched(next) = Touched(res) \union {F}
<1>. DEFINE g == res.lines
            i == At(f, doc, F)
            h == ReplaceScalar(g, i, cs[F])
            edit == [field |-> F, old |-> g[i].value, new |-> cs[F]]
            next == Edited(res, h, F, g[i].value, cs[F])
<1>1. IsResult(res) /\ res.ok /\ Rewritten(f, g, doc, Touched(res), cs)
  BY DEF Patched
<1>2. /\ IsResult(next) /\ next.ok /\ next.lines = h
      /\ Range(next.edits) = Range(res.edits) \union {edit}
  BY <1>1, EditedResult
<1>3. IsFile(f) /\ \A G \in Touched(res) : G \in Fields /\ Settable(f, doc, G) /\ G # F
  BY <1>1 DEF Rewritten, Alike, SameShape
<1>4. g[i] = f[i]
  <2>1. i \in DOMAIN f
    BY <1>3, FieldLine
  <2>2. \A G \in Touched(res) : i # At(f, doc, G)
    BY <1>3, FieldsApart
  <2>. QED
    BY <1>1, <2>1, <2>2 DEF Rewritten
<1>5. Rewritten(f, h, doc, Touched(res) \union {F}, cs)
  BY <1>1, RewriteOneMore
<1>. HIDE DEF next, h
<1>6. Touched(next) = Touched(res) \union {F}
  <2>1. edit.field = F
    OBVIOUS
  <2>. HIDE DEF edit
  <2>. QED
    BY <1>2, <2>1 DEF Touched
<1>7. \A e \in Range(next.edits) :
        e.new = cs[e.field] /\ e.old = f[At(f, doc, e.field)].value /\ e.old # e.new
  BY <1>2, <1>4 DEF Patched
<1>. QED
  BY <1>2, <1>5, <1>6, <1>7 DEF Patched, next, h

(* What is known of the file before an edit, from the file before the first. *)
LEMMA BeforeTheEdit ==
  ASSUME NEW f, NEW doc, NEW cs, NEW res, Patched(f, doc, cs, res),
         NEW F \in Fields, F \notin Touched(res)
  PROVE  /\ Settable(res.lines, doc, F) <=> Settable(f, doc, F)
         /\ At(res.lines, doc, F) = At(f, doc, F)
         /\ Tree(res.lines) = Tree(f)
         /\ Settable(f, doc, F) =>
              (Says(res.lines, At(f, doc, F), cs[F]) <=> f[At(f, doc, F)].value = cs[F])
<1>. DEFINE g == res.lines
            i == At(f, doc, F)
<1>1. Rewritten(f, g, doc, Touched(res), cs) /\ Alike(f, g, doc) /\ IsFile(f) /\ IsFile(g)
  BY DEF Patched, Rewritten, Alike, SameShape
<1>2. /\ Settable(g, doc, F) <=> Settable(f, doc, F)
      /\ At(g, doc, F) = i /\ Tree(g) = Tree(f)
  BY <1>1, AlikeFields
<1>3. ASSUME Settable(f, doc, F)
      PROVE  Says(g, i, cs[F]) <=> f[i].value = cs[F]
  <2>1. i \in DOMAIN f /\ i \in DOMAIN g
    BY <1>1, <1>3, FieldLine DEF Alike, SameShape
  <2>2. \A G \in Touched(res) : G \in Fields /\ Settable(f, doc, G) /\ G # F
    BY <1>1 DEF Rewritten
  <2>3. \A G \in Touched(res) : i # At(f, doc, G)
    BY <1>1, <1>3, <2>2, FieldsApart
  <2>4. g[i] = f[i]
    BY <1>1, <2>1, <2>3 DEF Rewritten
  <2>5. Body(g, i) = {}
    BY <1>2, <1>3 DEF Settable, Replaceable
  <2>6. Scalar(g, i) = <<f[i].value>>
    BY <1>1, <2>1, <2>4, <2>5, ScalarOfOneLine
  <2>. QED
    BY <2>6 DEF Says
<1>. QED
  BY <1>2, <1>3

LEMMA ForwardStep ==
  ASSUME NEW f, NEW doc, NEW cs, NEW res, Patched(f, doc, cs, res),
         NEW F \in Fields, F \notin Touched(res),
         NEW next, next = PatchField(res, doc, F, cs[F]), next.ok,
         \A e \in Range(next.edits) : e.old # None
  PROVE  /\ Patched(f, doc, cs, next)
         /\ \/ Touched(next) = Touched(res)
            \/ Touched(next) = Touched(res) \union {F} /\ cs[F] # None
<1>1. IsResult(res) /\ res.ok
  BY DEF Patched
<1>2. /\ IsResult(next)
      /\ \/ next = Error
         \/ Unedited(res, next)
         \/ cs[F] # None /\ Replaced(res, next, doc, F, cs[F])
         \/ Inserted(res, next, doc, F, cs[F])
  BY <1>1, PatchFieldCases
<1>3. CASE next = Error
  BY <1>3 DEF Error
<1>4. CASE Unedited(res, next)
  BY <1>2, <1>4 DEF Unedited, Patched, Touched
<1>5. CASE cs[F] # None /\ Replaced(res, next, doc, F, cs[F])
  <2>. DEFINE g == res.lines
              i == At(f, doc, F)
  <2>1. /\ Settable(g, doc, F) /\ ~Says(g, At(g, doc, F), cs[F])
        /\ next = Edited(res, ReplaceScalar(g, At(g, doc, F), cs[F]), F,
                         g[At(g, doc, F)].value, cs[F])
    BY <1>5 DEF Replaced
  <2>2. At(g, doc, F) = i /\ Settable(f, doc, F) /\ f[i].value # cs[F]
    BY <2>1, BeforeTheEdit
  <2>3. next = Edited(res, ReplaceScalar(g, i, cs[F]), F, g[i].value, cs[F])
    BY <2>1, <2>2
  <2>. QED
    BY <1>5, <2>2, <2>3, OneMorePatched
<1>6. CASE Inserted(res, next, doc, F, cs[F])
  <2>1. PICK lines : next = Edited(res, lines, F, None, cs[F])
    BY <1>6 DEF Inserted
  <2>. DEFINE edit == [field |-> F, old |-> None, new |-> cs[F]]
  <2>2. edit \in Range(next.edits)
    BY <1>1, <2>1, EditedResult
  <2>3. edit.old = None
    OBVIOUS
  <2>. QED
    BY <2>2, <2>3
<1>. QED
  BY <1>2, <1>3, <1>4, <1>5, <1>6

(* Fields that a change set replaces. *)
Replaces(f, doc, cs, E) ==
  \A F \in E : /\ F \in Fields /\ Settable(f, doc, F)
               /\ cs[F] # None /\ f[At(f, doc, F)].value # cs[F]

LEMMA BackwardStep ==
  ASSUME NEW f, NEW doc, NEW cs, NEW E, Replaces(f, doc, cs, E),
         NEW res, Patched(f, doc, cs, res),
         NEW F \in Fields, F \notin Touched(res), F \notin E => cs[F] = None,
         NEW next, next = PatchField(res, doc, F, cs[F])
  PROVE  Patched(f, doc, cs, next) /\ Touched(next) = Touched(res) \union (E \cap {F})
<1>1. CASE F \notin E
  <2>1. next = res
    BY <1>1 DEF PatchField
  <2>. QED
    BY <1>1, <2>1
<1>2. CASE F \in E
  <2>. DEFINE g == res.lines
              i == At(f, doc, F)
  <2>1. res.ok /\ cs[F] # None /\ Settable(f, doc, F) /\ f[i].value # cs[F]
    BY <1>2 DEF Patched, Replaces
  <2>2. Settable(g, doc, F) /\ At(g, doc, F) = i /\ ~Says(g, i, cs[F])
    BY <2>1, BeforeTheEdit
  <2>3. next = SetField(res, doc, F, cs[F])
    BY <2>1, <2>2 DEF PatchField, Settable
  <2>4. next = Edited(res, ReplaceScalar(g, i, cs[F]), F, g[i].value, cs[F])
    <3>1. /\ Found(Tree(g), FieldPath(Tree(g), doc, F)) # {}
          /\ Line(Tree(g), FieldPath(Tree(g), doc, F)) = i /\ Replaceable(g, i)
      BY <2>2 DEF Settable, At
    <3>. QED
      BY <2>2, <2>3, <3>1 DEF SetField, SetScalar
  <2>5. E \cap {F} = {F}
    BY <1>2
  <2>. QED
    BY <2>1, <2>4, <2>5, OneMorePatched
<1>. QED
  BY <1>1, <1>2

(* The results of the three calls. *)
Stage(f, doc, cs, n) ==
  LET patch(res, field) == PatchField(res, doc, field, cs[field]) IN
  CASE n = 0 -> Untouched(f)
    [] n = 1 -> patch(Untouched(f), "cpu")
    [] n = 2 -> patch(patch(Untouched(f), "cpu"), "memory")
    [] n = 3 -> patch(patch(patch(Untouched(f), "cpu"), "memory"), "replicas")

LEMMA Stages ==
  ASSUME NEW f, NEW cs, NEW doc, doc = LocateDeployment(f)
  PROVE  /\ Stage(f, doc, cs, 0) = Untouched(f)
         /\ Stage(f, doc, cs, 1) = PatchField(Stage(f, doc, cs, 0), doc, "cpu", cs["cpu"])
         /\ Stage(f, doc, cs, 2) = PatchField(Stage(f, doc, cs, 1), doc, "memory", cs["memory"])
         /\ Stage(f, doc, cs, 3)
              = PatchField(Stage(f, doc, cs, 2), doc, "replicas", cs["replicas"])
         /\ LET res == Stage(f, doc, cs, 3)
            IN PatchWorkload(f, cs)
                 = IF doc = None \/ (res.edits # <<>> /\ ~VerifyPatch(res, doc))
                   THEN Error ELSE res
BY DEF Stage, PatchWorkload, Verified

LEMMA UntouchedIsPatched ==
  ASSUME NEW f, IsFile(f), NEW doc, NEW cs
  PROVE  Patched(f, doc, cs, Untouched(f)) /\ Touched(Untouched(f)) = {}
<1>1. Range(Untouched(f).edits) = {} /\ IsResult(Untouched(f))
  BY DEF Untouched, Range, IsResult
<1>2. Touched(Untouched(f)) = {}
  BY <1>1 DEF Touched
<1>3. SameShape(f, f)
  BY DEF SameShape
<1>4. Rewritten(f, f, doc, {}, cs)
  BY <1>3 DEF Rewritten, Alike
<1>. QED
  BY <1>1, <1>2, <1>4 DEF Patched, Untouched

LEMMA StagesAreFiles ==
  ASSUME NEW f, IsFile(f), NEW cs, NEW doc, doc = LocateDeployment(f), Stage(f, doc, cs, 3).ok
  PROVE  /\ Stage(f, doc, cs, 1).ok /\ Stage(f, doc, cs, 2).ok
         /\ Range(Stage(f, doc, cs, 1).edits) \subseteq Range(Stage(f, doc, cs, 2).edits)
         /\ Range(Stage(f, doc, cs, 2).edits) \subseteq Range(Stage(f, doc, cs, 3).edits)
         /\ IsFile(Stage(f, doc, cs, 3).lines) /\ IsResult(Stage(f, doc, cs, 3))
<1>. DEFINE s0 == Stage(f, doc, cs, 0)
            s1 == Stage(f, doc, cs, 1)
            s2 == Stage(f, doc, cs, 2)
            s3 == Stage(f, doc, cs, 3)
<1>1. /\ s0 = Untouched(f)
      /\ s1 = PatchField(s0, doc, "cpu", cs["cpu"])
      /\ s2 = PatchField(s1, doc, "memory", cs["memory"])
      /\ s3 = PatchField(s2, doc, "replicas", cs["replicas"])
  BY Stages
<1>2. IsResult(s0) /\ IsFile(s0.lines)
  BY <1>1, UntouchedIsPatched DEF Patched, Untouched
<1>. HIDE DEF s0, s1, s2, s3
<1>3. "cpu" \in Fields /\ "memory" \in Fields /\ "replicas" \in Fields
  BY DEF Fields
<1>4. s3.ok /\ s2.ok /\ s1.ok
  BY <1>1 DEF PatchField, s3
<1>5. IsResult(s1) /\ IsFile(s1.lines)
  BY <1>1, <1>2, <1>3, <1>4, PatchFieldCases, PatchFieldFile
<1>6. IsResult(s2) /\ IsFile(s2.lines) /\ Range(s1.edits) \subseteq Range(s2.edits)
  BY <1>1, <1>3, <1>4, <1>5, PatchFieldCases, PatchFieldFile
<1>7. IsResult(s3) /\ IsFile(s3.lines) /\ Range(s2.edits) \subseteq Range(s3.edits)
  BY <1>1, <1>3, <1>4, <1>6, PatchFieldCases, PatchFieldFile
<1>. QED
  BY <1>4, <1>6, <1>7 DEF s1, s2, s3

(* A patch that added no key replaced the values of some fields, that is all. *)
LEMMA ReplacingPatch ==
  ASSUME NEW f, IsFile(f), NEW cs, NEW doc, doc = LocateDeployment(f), NEW res,
         res = Stage(f, doc, cs, 3), res.ok, \A e \in Range(res.edits) : e.old # None
  PROVE  Patched(f, doc, cs, res)
<1>. DEFINE s0 == Stage(f, doc, cs, 0)
            s1 == Stage(f, doc, cs, 1)
            s2 == Stage(f, doc, cs, 2)
<1>1. /\ s0 = Untouched(f)
      /\ s1 = PatchField(s0, doc, "cpu", cs["cpu"])
      /\ s2 = PatchField(s1, doc, "memory", cs["memory"])
      /\ res = PatchField(s2, doc, "replicas", cs["replicas"])
  BY Stages
<1>2. /\ s1.ok /\ s2.ok /\ Range(s1.edits) \subseteq Range(s2.edits)
      /\ Range(s2.edits) \subseteq Range(res.edits)
  BY StagesAreFiles
<1>. HIDE DEF s0, s1, s2
<1>3. /\ "cpu" \in Fields /\ "memory" \in Fields /\ "replicas" \in Fields
      /\ "memory" # "cpu" /\ "replicas" # "cpu" /\ "replicas" # "memory"
  BY DEF Fields
<1>4. Patched(f, doc, cs, s0) /\ Touched(s0) = {}
  BY <1>1, UntouchedIsPatched
<1>5. /\ \A e \in Range(s1.edits) : e.old # None
      /\ \A e \in Range(s2.edits) : e.old # None
  BY <1>2
<1>6. Patched(f, doc, cs, s1) /\ Touched(s1) \subseteq {"cpu"}
  <2>1. Patched(f, doc, cs, s0) /\ "cpu" \notin Touched(s0)
    BY <1>4
  <2>2. /\ Patched(f, doc, cs, s1)
        /\ Touched(s1) = Touched(s0) \/ Touched(s1) = Touched(s0) \union {"cpu"}
    BY <1>1, <1>2, <1>3, <1>5, <2>1, ForwardStep
  <2>. QED
    BY <1>4, <2>2
<1>7. Patched(f, doc, cs, s2) /\ Touched(s2) \subseteq {"cpu", "memory"}
  <2>1. "memory" \notin Touched(s1)
    BY <1>3, <1>6
  <2>2. /\ Patched(f, doc, cs, s2)
        /\ Touched(s2) = Touched(s1) \/ Touched(s2) = Touched(s1) \union {"memory"}
    BY <1>1, <1>2, <1>3, <1>5, <1>6, <2>1, ForwardStep
  <2>. QED
    BY <1>6, <2>2
<1>8. "replicas" \notin Touched(s2)
  BY <1>3, <1>7
<1>. QED
  BY <1>1, <1>3, <1>7, <1>8, ForwardStep

LEMMA VerifiedByShape ==
  ASSUME NEW f, NEW doc, NEW cs, NEW res, Patched(f, doc, cs, res), WellFormed(f)
  PROVE  VerifyPatch(res, doc)
<1>. DEFINE g == res.lines
<1>1. Rewritten(f, g, doc, Touched(res), cs) /\ Alike(f, g, doc) /\ SameShape(f, g)
      /\ IsFile(f) /\ IsFile(g)
  BY DEF Patched, Rewritten, Alike, SameShape
<1>2. WellFormed(g)
  BY <1>1, WellFormedByShape
<1>3. ASSUME NEW e \in Range(res.edits) PROVE Value(g, doc, e.field) = <<e.new>>
  <2>. DEFINE F == e.field
              i == At(f, doc, F)
  <2>1. F \in Touched(res) /\ e.new = cs[F]
    BY DEF Patched, Touched
  <2>. HIDE DEF F
  <2>2. F \in Fields /\ Settable(f, doc, F) /\ g[i] = [f[i] EXCEPT !.value = cs[F]]
    BY <1>1, <2>1 DEF Rewritten
  <2>3. Settable(g, doc, F) /\ At(g, doc, F) = i
    BY <1>1, <2>2, AlikeFields
  <2>4. i \in DOMAIN f /\ f[i] = Entry(f[i].indent, f[i].key, f[i].style, f[i].value)
    BY <1>1, <2>2, FieldLine DEF IsFile
  <2>5. g[i].value = cs[F] /\ i \in DOMAIN g
    BY <1>1, <2>2, <2>4 DEF Entry, SameShape
  <2>6. Scalar(g, i) = <<cs[F]>>
    BY <1>1, <2>3, <2>5, ScalarOfOneLine DEF Settable, Replaceable
  <2>7. Value(g, doc, F) = Scalar(g, i)
    BY <2>3 DEF Value, Settable, At
  <2>. QED
    BY <2>1, <2>6, <2>7 DEF F
<1>. QED
  BY <1>2, <1>3 DEF VerifyPatch

LEMMA Restored ==
  ASSUME NEW f, NEW g, NEW h, NEW doc, NEW E, NEW new, NEW old,
         Rewritten(f, g, doc, E, new), Rewritten(g, h, doc, E, old),
         \A F \in E : old[F] = f[At(f, doc, F)].value
  PROVE  h = f
<1>1. /\ Alike(f, g, doc) /\ IsFile(f) /\ IsFile(h)
      /\ DOMAIN g = DOMAIN f /\ DOMAIN h = DOMAIN f
  BY DEF Rewritten, Alike, SameShape
<1>2. \A F \in E : F \in Fields /\ Settable(f, doc, F) /\ At(g, doc, F) = At(f, doc, F)
  <2>1. \A F \in E : F \in Fields /\ Settable(f, doc, F)
    BY DEF Rewritten
  <2>. QED
    BY <1>1, <2>1, AlikeFields
<1>3. ASSUME NEW i \in DOMAIN f PROVE h[i] = f[i]
  <2>1. CASE \A F \in E : i # At(f, doc, F)
    BY <1>1, <1>2, <2>1 DEF Rewritten
  <2>2. ASSUME NEW F \in E, i = At(f, doc, F) PROVE h[i] = f[i]
    <3>1. /\ g[i] = [f[i] EXCEPT !.value = new[F]]
          /\ h[i] = [g[i] EXCEPT !.value = f[i].value]
      BY <1>2, <2>2 DEF Rewritten
    <3>2. PICK a, b, c, d : f[i] = Entry(a, b, c, d)
      BY <1>1, <1>2, <2>2, FieldLine DEF IsFile
    <3>3. f[i].value = d /\ g[i] = Entry(a, b, c, new[F])
      BY <3>1, <3>2 DEF Entry
    <3>4. PICK n : g[i] = Entry(a, b, c, n)
      BY <3>3
    <3>5. h[i] = [g[i] EXCEPT !.value = d]
      BY <3>1, <3>3
    <3>6. h[i] = Entry(a, b, c, d)
      <4>1. [Entry(a, b, c, n) EXCEPT !.value = d] = Entry(a, b, c, d)
        BY DEF Entry
      <4>. QED
        BY <3>4, <3>5, <4>1
    <3>. QED
      BY <3>2, <3>6
  <2>. QED
    BY <2>1, <2>2
<1>4. f = [i \in DOMAIN f |-> f[i]] /\ h = [i \in DOMAIN h |-> h[i]]
  BY <1>1 DEF IsFile
<1>. QED
  BY <1>1, <1>3, <1>4

(* The values a rollback patches in, field by field. *)
LEMMA PreviousByField ==
  ASSUME NEW f, NEW doc, NEW cs, NEW res, Patched(f, doc, cs, res),
         NEW old, old = PreviousValues(res.edits), old # None
  PROVE  /\ res.edits # <<>> /\ \A e \in Range(res.edits) : e.old # None
         /\ \A F \in Touched(res) : old[F] = f[At(f, doc, F)].value /\ old[F] # None
                                    /\ old[F] # cs[F]
         /\ \A F \in Fields \ Touched(res) : old[F] = None
<1>1. res.edits # <<>> /\ \A e \in Range(res.edits) : e.old # None
  BY DEF PreviousValues
<1>2. old = [field \in Fields |->
               IF \E e \in Range(res.edits) : e.field = field
               THEN (CHOOSE e \in Range(res.edits) : e.field = field).old ELSE None]
  BY <1>1 DEF PreviousValues
<1>3. ASSUME NEW F \in Touched(res)
      PROVE  old[F] = f[At(f, doc, F)].value /\ old[F] # None /\ old[F] # cs[F]
  <2>. DEFINE e == CHOOSE e \in Range(res.edits) : e.field = F
  <2>1. \E d \in Range(res.edits) : d.field = F
    BY DEF Touched
  <2>2. e \in Range(res.edits) /\ e.field = F
    BY <2>1
  <2>3. F \in Fields
    BY DEF Patched, Rewritten
  <2>4. old[F] = e.old
    BY <1>2, <2>1, <2>3
  <2>. HIDE DEF e
  <2>. QED
    BY <1>1, <2>2, <2>4 DEF Patched
<1>4. ASSUME NEW F \in Fields \ Touched(res) PROVE old[F] = None
  <2>1. ~\E e \in Range(res.edits) : e.field = F
    BY DEF Touched
  <2>. QED
    BY <1>2, <2>1
<1>. QED
  BY <1>1, <1>3, <1>4

LEMMA RollbackRestores ==
  ASSUME NEW f, IsFile(f), NEW cs, NEW p, p = PatchWorkload(f, cs), p.ok,
         NEW old, old = PreviousValues(p.edits), old # None
  PROVE  LET q == PatchWorkload(p.lines, old) IN q.ok /\ q.lines = f
<1>. DEFINE doc == LocateDeployment(f)
            g == p.lines
            E == Touched(p)
            t0 == Stage(g, doc, old, 0)
            t1 == Stage(g, doc, old, 1)
            t2 == Stage(g, doc, old, 2)
            t3 == Stage(g, doc, old, 3)
<1>1. /\ p = Stage(f, doc, cs, 3) /\ doc # None
      /\ p.edits # <<>> /\ \A e \in Range(p.edits) : e.old # None
      /\ VerifyPatch(p, doc)
  <2>1. p.edits # <<>> /\ \A e \in Range(p.edits) : e.old # None
    BY DEF PreviousValues
  <2>2. p # Error
    BY DEF Error
  <2>. QED
    BY <2>1, <2>2, Stages
<1>2. Patched(f, doc, cs, p)
  BY <1>1, ReplacingPatch
<1>3. /\ Rewritten(f, g, doc, E, cs) /\ Alike(f, g, doc)
      /\ SameShape(f, g) /\ IsFile(g) /\ WellFormed(g)
  BY <1>1, <1>2 DEF Patched, Rewritten, Alike, SameShape, VerifyPatch
<1>4. /\ "cpu" \in Fields /\ "memory" \in Fields /\ "replicas" \in Fields
      /\ Fields = {"cpu", "memory", "replicas"}
      /\ "memory" # "cpu" /\ "replicas" # "cpu" /\ "replicas" # "memory"
  BY DEF Fields
<1>5. LocateDeployment(g) = doc
  BY <1>3, <1>4, AlikeFields
<1>. HIDE DEF doc
<1>6. /\ \A F \in E : old[F] = f[At(f, doc, F)].value /\ old[F] # None /\ old[F] # cs[F]
      /\ \A F \in Fields \ E : old[F] = None
  BY <1>2, PreviousByField
<1>7. \A F \in E : F \in Fields /\ Settable(g, doc, F) /\ g[At(g, doc, F)].value = cs[F]
  <2>1. ASSUME NEW F \in E
        PROVE  F \in Fields /\ Settable(g, doc, F) /\ g[At(g, doc, F)].value = cs[F]
    <3>1. /\ F \in Fields /\ Settable(f, doc, F)
          /\ g[At(f, doc, F)] = [f[At(f, doc, F)] EXCEPT !.value = cs[F]]
      BY <1>3 DEF Rewritten
    <3>2. Settable(g, doc, F) /\ At(g, doc, F) = At(f, doc, F)
      BY <1>3, <3>1, AlikeFields
    <3>3. PICK a, b, c, d : f[At(f, doc, F)] = Entry(a, b, c, d)
      BY <3>1, FieldLine DEF IsFile
    <3>4. [Entry(a, b, c, d) EXCEPT !.value = cs[F]].value = cs[F]
      BY DEF Entry
    <3>. QED
      BY <3>1, <3>2, <3>3, <3>4
  <2>. QED
    BY <2>1
<1>. HIDE DEF E, g
<1>8. /\ t0 = Untouched(g)
      /\ t1 = PatchField(t0, doc, "cpu", old["cpu"])
      /\ t2 = PatchField(t1, doc, "memory", old["memory"])
      /\ t3 = PatchField(t2, doc, "replicas", old["replicas"])
      /\ PatchWorkload(g, old)
           = IF doc = None \/ (t3.edits # <<>> /\ ~VerifyPatch(t3, doc)) THEN Error ELSE t3
  BY <1>5, Stages
<1>. HIDE DEF t0, t1, t2, t3
<1>9. Replaces(g, doc, old, E)
  BY <1>6, <1>7 DEF Replaces
<1>10. Patched(g, doc, old, t0) /\ Touched(t0) = {}
  BY <1>3, <1>8, UntouchedIsPatched
<1>11. ASSUME NEW res, Patched(g, doc, old, res), NEW F \in Fields, F \notin Touched(res),
              NEW next, next = PatchField(res, doc, F, old[F])
       PROVE  Patched(g, doc, old, next) /\ Touched(next) = Touched(res) \union (E \cap {F})
  <2>1. F \notin E => old[F] = None
    BY <1>6
  <2>. QED
    BY <1>9, <1>11, <2>1, BackwardStep
<1>12. Patched(g, doc, old, t1) /\ Touched(t1) = E \cap {"cpu"}
  <2>1. Patched(g, doc, old, t1) /\ Touched(t1) = Touched(t0) \union (E \cap {"cpu"})
    BY <1>4, <1>8, <1>10, <1>11
  <2>. QED
    BY <1>10, <2>1
<1>13. Patched(g, doc, old, t2) /\ Touched(t2) = E \cap {"cpu", "memory"}
  <2>1. Patched(g, doc, old, t2) /\ Touched(t2) = Touched(t1) \union (E \cap {"memory"})
    BY <1>4, <1>8, <1>11, <1>12
  <2>. QED
    BY <1>12, <2>1
<1>14. Patched(g, doc, old, t3) /\ Touched(t3) = E
  <2>1. Patched(g, doc, old, t3) /\ Touched(t3) = Touched(t2) \union (E \cap {"replicas"})
    BY <1>4, <1>8, <1>11, <1>13
  <2>. QED
    BY <1>4, <1>7, <1>13, <2>1
<1>15. VerifyPatch(t3, doc)
  BY <1>3, <1>14, VerifiedByShape
<1>16. PatchWorkload(g, old) = t3 /\ t3.ok
  BY <1>1, <1>8, <1>14, <1>15 DEF Patched, doc
<1>17. t3.lines = f
  <2>1. Rewritten(g, t3.lines, doc, E, old)
    BY <1>14 DEF Patched
  <2>. QED
    BY <1>3, <1>6, <2>1, Restored
<1>. QED
  BY <1>16, <1>17 DEF g

-----------------------------------------------------------------------------
(* The files of the base branch. *)

(* If a PR recorded previous values, the file is what the last change set made
   of the original, and they are the values it replaced. *)
ManifestInv ==
  /\ IsFile(file)
  /\ previous # None =>
       /\ IsFile(original)
       /\ LET patch == PatchWorkload(original, change)
          IN patch.ok /\ file = patch.lines /\ previous = PreviousValues(patch.edits)

LEMMA PatchWorkloadFile ==
  ASSUME NEW f, IsFile(f), NEW cs, PatchWorkload(f, cs).ok
  PROVE  IsFile(PatchWorkload(f, cs).lines)
<1>. DEFINE doc == LocateDeployment(f)
            res == Stage(f, doc, cs, 3)
<1>1. PatchWorkload(f, cs)
        = IF doc = None \/ (res.edits # <<>> /\ ~VerifyPatch(res, doc)) THEN Error ELSE res
  BY Stages
<1>2. ~Error.ok
  BY DEF Error
<1>3. PatchWorkload(f, cs) = res /\ res.ok
  BY <1>1, <1>2
<1>. QED
  BY <1>3, StagesAreFiles

LEMMA ManifestInvariant == Spec => []ManifestInv
<1>1. Init => ManifestInv
  BY ManifestsAreFiles DEF Init, ManifestInv
<1>2. ManifestInv /\ [Next]_vars => ManifestInv'
  <2>. SUFFICES ASSUME ManifestInv, [Next]_vars PROVE ManifestInv'
    OBVIOUS
  <2>1. ASSUME NEW cs \in ChangeSets, Propose(cs) PROVE ManifestInv'
    <3>. DEFINE patch == PatchWorkload(file, cs)
    <3>1. /\ patch.ok /\ file' = patch.lines /\ original' = file /\ change' = cs
          /\ previous' = PreviousValues(patch.edits)
      BY <2>1 DEF Propose, Merge
    <3>2. IsFile(file) /\ IsFile(patch.lines)
      BY <3>1, PatchWorkloadFile DEF ManifestInv
    <3>. HIDE DEF patch
    <3>3. IsFile(file')
      BY <3>1, <3>2
    <3>4. PatchWorkload(original', change') = patch
      BY <3>1 DEF patch
    <3>. QED
      BY <3>1, <3>2, <3>3, <3>4 DEF ManifestInv
  <2>2. CASE Rollback
    <3>. DEFINE patch == PatchWorkload(file, previous)
    <3>1. patch.ok /\ file' = patch.lines /\ previous' = None
      BY <2>2 DEF Rollback, Merge
    <3>2. IsFile(patch.lines)
      BY <3>1, PatchWorkloadFile DEF ManifestInv
    <3>. QED
      BY <3>1, <3>2 DEF ManifestInv
  <2>3. CASE UNCHANGED vars
    BY <2>3 DEF vars, ManifestInv
  <2>. QED
    BY <2>1, <2>2, <2>3 DEF Next
<1>. QED
  BY <1>1, <1>2, PTL DEF Spec

(* For every file and every change set: where a merged PR recorded the values it
   replaced, patching them in gives back the file from before it, line by line. *)
THEOREM RollbacksAreExact == Spec => []RollbackRestoresTheFile
<1>1. ManifestInv => RollbackRestoresTheFile
  BY RollbackRestores DEF ManifestInv, RollbackRestoresTheFile
<1>. QED
  BY <1>1, ManifestInvariant, PTL
=============================================================================
