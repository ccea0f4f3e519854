-------------------------- MODULE GraphPageProofs ---------------------------
(***************************************************************************)
(* Proofs about what the graph page lays out and what it keeps.  For any   *)
(* graphs and places:                                                      *)
(*   LayoutPresets        where the presets put the nodes of a graph,      *)
(*   CanvasLayout         where the nodes lie, and what is kept of it.     *)
(* For any conversations, messages and readers:                            *)
(*   ConversationRecords  the artifacts that are kept of conversations.    *)
(***************************************************************************)
EXTENDS LayoutPresets, CanvasLayout, ConversationRecords, FiniteSetTheorems, SequenceTheorems,
        WellFoundedInduction, TLAPS

-----------------------------------------------------------------------------
(* Natural numbers: least elements, induction, and recursion to a bound.   *)
LEMMA LeastNatural ==
  ASSUME NEW T \in SUBSET Nat, T # {}
  PROVE  \E n \in T : \A m \in T : n <= m
<1> DEFINE R == OpToRel(<, Nat)
<1>1. IsWellFoundedOn(R, Nat)
  BY NatLessThanWellFounded
<1>2. \A m, n \in Nat : m < n => <<m, n>> \in R
  BY DEF OpToRel
<1> HIDE DEF R
<1>3. PICK x \in T : \A y \in T : ~ (<<y, x>> \in R)
  BY <1>1, WFMin
<1>4. \A y \in T : ~ (y < x)
  BY <1>2, <1>3
<1>5. \A y \in T : x <= y
  BY <1>4
<1> QED BY <1>5

\* A set that holds 0 and with each number the next holds every number.
LEMMA UpTo ==
  ASSUME NEW T, 0 \in T, \A n \in Nat : n \in T => n + 1 \in T
  PROVE  Nat \subseteq T
<1> SUFFICES ASSUME NEW x \in Nat, x \notin T PROVE FALSE
  OBVIOUS
<1>1. PICK n \in Nat \ T : \A m \in Nat \ T : n <= m
  BY LeastNatural
<1>2. n # 0 /\ n - 1 \in Nat
  BY <1>1
<1> QED BY <1>1, <1>2

\* A set of integers with a bound has a greatest element, and a least one.
LEMMA GreatestIs ==
  ASSUME NEW S \in SUBSET Int, S # {}, NEW b \in Int, \A s \in S : s <= b
  PROVE  GreatestOf(S) \in S /\ \A s \in S : s <= GreatestOf(S)
<1> DEFINE T == {n \in Nat : b - n \in S}
<1>1. T # {}
  <2>1. PICK s \in S : TRUE
    OBVIOUS
  <2>2. s \in Int /\ b - s \in Nat /\ b - (b - s) = s
    BY <2>1
  <2> QED BY <2>1, <2>2
<1>2. PICK n \in T : \A m \in T : n <= m
  BY <1>1, LeastNatural
<1>3. \A s \in S : s <= b - n
  <2> TAKE s \in S
  <2>1. s \in Int /\ b - s \in Nat /\ b - (b - s) = s
    OBVIOUS
  <2>2. n <= b - s
    BY <1>2, <2>1
  <2> QED BY <2>1, <2>2, n \in Nat
<1>4. b - n \in S
  BY <1>2
<1> HIDE DEF T
<1> QED BY <1>3, <1>4 DEF GreatestOf

LEMMA LeastIs ==
  ASSUME NEW S \in SUBSET Int, S # {}, NEW b \in Int, \A s \in S : b <= s
  PROVE  LeastOf(S) \in S /\ \A s \in S : LeastOf(S) <= s
<1> DEFINE T == {n \in Nat : b + n \in S}
<1>1. T # {}
  <2>1. PICK s \in S : TRUE
    OBVIOUS
  <2>2. s \in Int /\ s - b \in Nat /\ b + (s - b) = s
    BY <2>1
  <2> QED BY <2>1, <2>2
<1>2. PICK n \in T : \A m \in T : n <= m
  BY <1>1, LeastNatural
<1>3. \A s \in S : b + n <= s
  <2> TAKE s \in S
  <2>1. s \in Int /\ s - b \in Nat /\ b + (s - b) = s
    OBVIOUS
  <2>2. n <= s - b
    BY <1>2, <2>1
  <2> QED BY <2>1, <2>2, n \in Nat
<1>4. b + n \in S
  BY <1>2
<1> HIDE DEF T
<1> QED BY <1>3, <1>4 DEF LeastOf

\* A function on 1 .. n has bounds.
LEMMA Bounded ==
  ASSUME NEW n \in Nat, NEW f \in [1 .. n -> Int]
  PROVE  \E b \in Nat : \A i \in 1 .. n : -b <= f[i] /\ f[i] <= b
<1> DEFINE T == {k \in Nat : k <= n => \E b \in Nat : \A i \in 1 .. k : -b <= f[i] /\ f[i] <= b}
<1>1. 0 \in T
  OBVIOUS
<1>2. ASSUME NEW k \in Nat, k \in T PROVE k + 1 \in T
  <2> SUFFICES ASSUME k + 1 <= n
               PROVE  \E b \in Nat : \A i \in 1 .. k + 1 : -b <= f[i] /\ f[i] <= b
    OBVIOUS
  <2>1. PICK b \in Nat : \A i \in 1 .. k : -b <= f[i] /\ f[i] <= b
    BY <1>2
  <2> DEFINE x == f[k + 1]
             c == IF x < 0 THEN b - x ELSE b + x
  <2>2. x \in Int
    OBVIOUS
  <2>3. c \in Nat /\ b <= c /\ -c <= x /\ x <= c
    BY <2>2
  <2>4. ASSUME NEW i \in 1 .. k + 1 PROVE -c <= f[i] /\ f[i] <= c
    <3>1. CASE i = k + 1
      BY <2>3, <3>1
    <3>2. CASE i # k + 1
      <4>1. i \in 1 .. k /\ f[i] \in Int
        BY <3>2
      <4>2. -b <= f[i] /\ f[i] <= b
        BY <2>1, <4>1
      <4> HIDE DEF c
      <4> QED BY <2>3, <4>1, <4>2
    <3> QED BY <3>1, <3>2
  <2> HIDE DEF c
  <2> QED BY <2>3, <2>4
<1> HIDE DEF T
<1>3. n \in T
  BY <1>1, <1>2, UpTo
<1> QED BY <1>3 DEF T

\* A function is defined by its first value and a step.
Steps(f, n, S, first, step) ==
    f \in [0 .. n -> S] /\ f[0] = first /\ \A i \in 1 .. n : f[i] = step[i][f[i - 1]]
\* A recursive function over 0 .. n exists, each value from the one before.
LEMMA Recursion ==
  ASSUME NEW n \in Nat, NEW S, NEW first \in S, NEW step \in [1 .. n -> [S -> S]]
  PROVE  \E f : Steps(f, n, S, first, step)
<1> DEFINE T == {k \in Nat : k <= n => \E f \in [0 .. k -> S] :
                    f[0] = first /\ \A i \in 1 .. k : f[i] = step[i][f[i - 1]]}
<1>1. 0 \in T
  <2> DEFINE g == [i \in 0 .. 0 |-> first]
  <2>1. g \in [0 .. 0 -> S] /\ g[0] = first /\ \A i \in 1 .. 0 : g[i] = step[i][g[i - 1]]
    OBVIOUS
  <2> HIDE DEF g
  <2> QED BY <2>1
<1>2. ASSUME NEW k \in Nat, k \in T PROVE k + 1 \in T
  <2> SUFFICES ASSUME k + 1 <= n
               PROVE  \E f \in [0 .. k + 1 -> S] :
                        f[0] = first /\ \A i \in 1 .. k + 1 : f[i] = step[i][f[i - 1]]
    OBVIOUS
  <2>1. PICK f \in [0 .. k -> S] : f[0] = first /\ \A i \in 1 .. k : f[i] = step[i][f[i - 1]]
    BY <1>2
  <2> DEFINE g == [i \in 0 .. k + 1 |-> IF i = k + 1 THEN step[k + 1][f[k]] ELSE f[i]]
  <2>2. f[k] \in S /\ step[k + 1][f[k]] \in S
    OBVIOUS
  <2>3. g \in [0 .. k + 1 -> S]
    BY <2>2
  <2>4. g[0] = first
    BY <2>1
  <2>5. ASSUME NEW i \in 1 .. k + 1 PROVE g[i] = step[i][g[i - 1]]
    <3>1. g[i - 1] = f[i - 1]
      OBVIOUS
    <3>2. CASE i = k + 1
      BY <3>1, <3>2
    <3>3. CASE i # k + 1
      BY <2>1, <3>1, <3>3
    <3> QED BY <3>2, <3>3
  <2> HIDE DEF g
  <2> QED BY <2>3, <2>4, <2>5
<1> HIDE DEF T
<1>3. n \in T
  BY <1>1, <1>2, UpTo
<1> QED BY <1>3 DEF T, Steps

\* Where it starts, it stays.
LEMMA Stays ==
  ASSUME NEW n \in Nat, NEW S, NEW f, f[0] \in S, \A i \in 1 .. n : f[i - 1] \in S => f[i] \in S
  PROVE  \A i \in 0 .. n : f[i] \in S
<1> DEFINE T == {i \in Nat : i <= n => f[i] \in S}
<1>1. 0 \in T
  OBVIOUS
<1>2. ASSUME NEW i \in Nat, i \in T PROVE i + 1 \in T
  <2> SUFFICES ASSUME i + 1 <= n PROVE f[i + 1] \in S
    OBVIOUS
  <2>1. i + 1 \in 1 .. n /\ (i + 1) - 1 = i /\ f[i] \in S
    BY <1>2
  <2>2. f[(i + 1) - 1] \in S => f[i + 1] \in S
    BY <2>1
  <2> QED BY <2>1, <2>2
<1> HIDE DEF T
<1>3. Nat \subseteq T
  BY <1>1, <1>2, UpTo
<1> QED BY <1>3 DEF T

-----------------------------------------------------------------------------
(* The edges of a layout.                                                  *)
Distinct(s) == \A i, j \in DOMAIN s : i # j => s[i] # s[j]
\* The elements picked, all of them, and none twice.
LEMMA AmongIs ==
  ASSUME NEW X, NEW seq \in Seq(X), NEW set
  PROVE  /\ Among(seq, set) \in Seq(X \cap set)
         /\ Range(Among(seq, set)) = Range(seq) \cap set
         /\ Distinct(seq) => Distinct(Among(seq, set))
<1> DEFINE n == Len(seq)
           IsAmong(f) == f = [i \in 0 .. n |->
              IF i = 0 THEN <<>>
              ELSE IF seq[i] \in set THEN Append(f[i - 1], seq[i]) ELSE f[i - 1]]
           g == CHOOSE f : IsAmong(f)
<1>1. Among(seq, set) = g[n]
  BY DEF Among
<1>2. n \in Nat /\ \A i \in 1 .. n : seq[i] \in X
  OBVIOUS
<1>3. \E f : IsAmong(f)
  <2> DEFINE step == [i \in 1 .. n |-> [s \in Seq(X) |->
                         IF seq[i] \in set THEN Append(s, seq[i]) ELSE s]]
  <2>1. step \in [1 .. n -> [Seq(X) -> Seq(X)]]
    BY <1>2
  <2>2. <<>> \in Seq(X)
    OBVIOUS
  <2> HIDE DEF step, n
  <2> PICK f : Steps(f, n, Seq(X), <<>>, step)
    BY <1>2, <2>1, <2>2, Recursion
  <2>3. f \in [0 .. n -> Seq(X)] /\ f[0] = <<>> /\ \A i \in 1 .. n : f[i] = step[i][f[i - 1]]
    BY DEF Steps
  <2>4. ASSUME NEW i \in 1 .. n
        PROVE  f[i] = IF seq[i] \in set THEN Append(f[i - 1], seq[i]) ELSE f[i - 1]
    <3>1. f[i - 1] \in Seq(X)
      BY <1>2, <2>3
    <3> QED BY <2>3, <3>1 DEF step
  <2>5. f = [i \in 0 .. n |-> IF i = 0 THEN <<>>
              ELSE IF seq[i] \in set THEN Append(f[i - 1], seq[i]) ELSE f[i - 1]]
    <3> DEFINE E(i) == IF i = 0 THEN <<>>
              ELSE IF seq[i] \in set THEN Append(f[i - 1], seq[i]) ELSE f[i - 1]
    <3>1. \A i \in 0 .. n : i = 0 \/ i \in 1 .. n
      BY <1>2
    <3>2. \A i \in 0 .. n : f[i] = E(i)
      BY <1>2, <2>3, <2>4, <3>1
    <3> HIDE DEF E
    <3>3. f = [i \in 0 .. n |-> E(i)]
      BY <2>3, <3>2
    <3> QED BY <3>3 DEF E
  <2> QED BY <2>5
<1>4. IsAmong(g)
  BY <1>3
<1>5. g[0] = <<>> /\ \A i \in 1 .. n :
         g[i] = IF seq[i] \in set THEN Append(g[i - 1], seq[i]) ELSE g[i - 1]
  <2> HIDE DEF n
  <2>1. 0 \in 0 .. n /\ \A i \in 1 .. n : i \in 0 .. n /\ i # 0
    BY <1>2
  <2> HIDE DEF g
  <2> QED BY <1>4, <2>1
<1> HIDE DEF g, n
<1> DEFINE Typed(i) == g[i] \in Seq(X \cap set)
           Has(i) == \A k \in 1 .. i : seq[k] \in set => \E j \in 1 .. Len(g[i]) : g[i][j] = seq[k]
           From(i) == \A j \in 1 .. Len(g[i]) : \E k \in 1 .. i : g[i][j] = seq[k]
           Once(i) == (\A k, j \in 1 .. n : k # j => seq[k] # seq[j]) =>
                         \A k, j \in 1 .. Len(g[i]) : k # j => g[i][k] # g[i][j]
           T == {i \in Nat : i <= n => Typed(i) /\ Has(i) /\ From(i) /\ Once(i)}
<1>6. 0 \in T
  <2>1. Typed(0) /\ Len(g[0]) = 0
    BY <1>5
  <2> QED BY <2>1
<1>7. ASSUME NEW i \in Nat, i \in T PROVE i + 1 \in T
  <2> SUFFICES ASSUME i + 1 <= n PROVE Typed(i + 1) /\ Has(i + 1) /\ From(i + 1) /\ Once(i + 1)
    OBVIOUS
  <2>1. Typed(i) /\ Has(i) /\ From(i) /\ Once(i)
    BY <1>2, <1>7
  <2>2. i + 1 \in 1 .. n /\ (i + 1) - 1 = i /\ seq[i + 1] \in X
    BY <1>2
  <2>3. CASE seq[i + 1] \notin set
    <3>1. g[i + 1] = g[i]
      BY <1>5, <2>2, <2>3
    <3>2. \A k \in 1 .. i + 1 : k \in 1 .. i \/ k = i + 1
      OBVIOUS
    <3> QED BY <2>1, <2>2, <2>3, <3>1, <3>2
  <2>4. CASE seq[i + 1] \in set
    <3>1. g[i + 1] = Append(g[i], seq[i + 1])
      BY <1>5, <2>2, <2>4
    <3>2. Typed(i + 1)
      BY <2>1, <2>2, <2>4, <3>1
    <3>3. /\ Len(g[i]) \in Nat /\ Len(g[i + 1]) = Len(g[i]) + 1
          /\ g[i + 1][Len(g[i]) + 1] = seq[i + 1]
          /\ \A j \in 1 .. Len(g[i]) : g[i + 1][j] = g[i][j]
      BY <2>1, <3>1
    <3>4. Has(i + 1)
      <4> SUFFICES ASSUME NEW k \in 1 .. i + 1, seq[k] \in set
                   PROVE  \E j \in 1 .. Len(g[i + 1]) : g[i + 1][j] = seq[k]
        OBVIOUS
      <4>1. CASE k = i + 1
        BY <3>3, <4>1
      <4>2. CASE k # i + 1
        <5>1. PICK j \in 1 .. Len(g[i]) : g[i][j] = seq[k]
          BY <2>1, <4>2
        <5>2. j \in 1 .. Len(g[i + 1]) /\ g[i + 1][j] = seq[k]
          BY <3>3, <5>1
        <5> QED BY <5>2
      <4> QED BY <4>1, <4>2
    <3>5. From(i + 1)
      <4> SUFFICES ASSUME NEW j \in 1 .. Len(g[i + 1])
                   PROVE  \E k \in 1 .. i + 1 : g[i + 1][j] = seq[k]
        OBVIOUS
      <4>1. CASE j = Len(g[i]) + 1
        BY <3>3, <4>1
      <4>2. CASE j # Len(g[i]) + 1
        <5>1. j \in 1 .. Len(g[i]) /\ g[i + 1][j] = g[i][j]
          BY <3>3, <4>2
        <5> QED BY <2>1, <5>1
      <4> QED BY <4>1, <4>2
    <3>6. Once(i + 1)
      <4> SUFFICES ASSUME \A k, j \in 1 .. n : k # j => seq[k] # seq[j]
                   PROVE  \A k, j \in 1 .. Len(g[i + 1]) : k < j => g[i + 1][k] # g[i + 1][j]
        <5>1. \A k, j \in 1 .. Len(g[i + 1]) : k # j => k < j \/ j < k
          BY <3>3
        <5> QED BY <5>1
      <4> SUFFICES ASSUME NEW k \in 1 .. Len(g[i + 1]), NEW j \in 1 .. Len(g[i + 1]), k < j
                   PROVE  g[i + 1][k] # g[i + 1][j]
        OBVIOUS
      <4>1. k \in 1 .. Len(g[i]) /\ g[i + 1][k] = g[i][k]
        BY <3>3
      <4>2. CASE j = Len(g[i]) + 1
        <5>1. PICK l \in 1 .. i : g[i][k] = seq[l]
          BY <2>1, <4>1
        <5>2. l # i + 1 /\ l \in 1 .. n
          BY <1>2, <2>2
        <5> QED BY <2>2, <3>3, <4>1, <4>2, <5>1, <5>2
      <4>3. CASE j # Len(g[i]) + 1
        <5>1. j \in 1 .. Len(g[i]) /\ g[i + 1][j] = g[i][j]
          BY <3>3, <4>3
        <5>2. k # j
          OBVIOUS
        <5> QED BY <2>1, <4>1, <5>1, <5>2
      <4> QED BY <4>2, <4>3
    <3> QED BY <3>2, <3>4, <3>5, <3>6
  <2> QED BY <2>3, <2>4
<1> HIDE DEF T
<1>8. n \in T
  BY <1>2, <1>6, <1>7, UpTo
<1>9. Typed(n) /\ Has(n) /\ From(n) /\ Once(n)
  <2>1. n \in Nat /\ n <= n
    BY <1>2
  <2> HIDE DEF Typed, Has, From, Once
  <2> QED BY <1>8, <2>1 DEF T
<1>10. /\ DOMAIN seq = 1 .. n /\ g[n] \in Seq(X) /\ DOMAIN g[n] = 1 .. Len(g[n])
       /\ Range(g[n]) \subseteq set
  <2>1. DOMAIN seq = 1 .. n
    BY DEF n
  <2>2. g[n] \in Seq(X \cap set)
    BY <1>9
  <2> QED BY <2>1, <2>2 DEF Range
<1>11. Range(g[n]) = Range(seq) \cap set
  <2>1. \A j \in DOMAIN g[n] : \E k \in DOMAIN seq : g[n][j] = seq[k]
    BY <1>9, <1>10
  <2>2. \A k \in DOMAIN seq : seq[k] \in set => \E j \in DOMAIN g[n] : g[n][j] = seq[k]
    BY <1>9, <1>10
  <2> HIDE DEF Typed, Has, From, Once
  <2>3. Range(g[n]) \subseteq Range(seq)
    BY <2>1 DEF Range
  <2>4. Range(seq) \cap set \subseteq Range(g[n])
    BY <2>2 DEF Range
  <2> QED BY <1>10, <2>3, <2>4
<1>12. Distinct(seq) => Distinct(g[n])
  BY <1>9, <1>10 DEF Distinct
<1> QED BY <1>1, <1>9, <1>11, <1>12

Stems(x, E, way) == \E e \in Range(edgesById) \cap E : x = way[e]
\* The edges of a layout are what the edges of the graph become.
LEMMA InOrderIs ==
  ASSUME NEW E, NEW way, NEW P, \A e \in E : way[e] \in P
  PROVE  /\ InOrder(E, way) \in Seq(P)
         /\ \A e \in Range(edgesById) \cap E : way[e] \in Range(InOrder(E, way))
         /\ \A x \in Range(InOrder(E, way)) : Stems(x, E, way)
<1> DEFINE X == Range(edgesById)
<1>1. edgesById \in Seq(X)
  <2> DEFINE m == 2 * MaxNodes * MaxNodes
  <2>1. m \in Nat
    <3>1. MaxNodes \in Nat
      BY PresetsAssumption DEF MaxNodes
    <3> QED BY <3>1
  <2>2. edgesById = [i \in 1 .. m |-> edgesById[i]]
    BY DEF edgesById
  <2> HIDE DEF m
  <2>3. edgesById \in [1 .. m -> X]
    BY <2>2 DEF Range
  <2> QED BY <2>1, <2>3
<1> DEFINE drawn == Among(edgesById, E)
           s == InOrder(E, way)
<1> HIDE DEF X
<1>3. drawn \in Seq(X \cap E) /\ Range(drawn) = Range(edgesById) \cap E
  BY <1>1, AmongIs
<1>4. DOMAIN drawn = 1 .. Len(drawn) /\ Len(drawn) \in Nat /\ \A i \in DOMAIN drawn : drawn[i] \in E
  <2> HIDE DEF drawn
  <2> QED BY <1>3
<1>5. s = [i \in DOMAIN drawn |-> way[drawn[i]]]
  BY DEF InOrder
<1> HIDE DEF drawn, s
<1>6. s \in Seq(P)
  <2>1. \A i \in 1 .. Len(drawn) : way[drawn[i]] \in P
    BY <1>4
  <2> QED BY <1>4, <1>5, <2>1
<1>7. \A e \in Range(drawn) : way[e] \in Range(s)
  BY <1>5 DEF Range
<1>8. \A x \in Range(s) : \E e \in Range(drawn) : x = way[e]
  BY <1>5 DEF Range
<1> QED BY <1>3, <1>6, <1>7, <1>8 DEF s, Stems

\* A graph of nodes 1 .. n, and the pairs of them.
Pairs(n) == (1 .. n) \X (1 .. n)
Drawable(g) ==
    /\ g.nodes \in 0 .. MaxNodes
    /\ g.edges \subseteq (1 .. g.nodes) \X {"depends_on", "refines"} \X (1 .. g.nodes)

\* The edges of a layout join nodes of the graph; those of the hierarchy are
\* among those that run forward.
LEMMA LayoutEdgesJoinNodes ==
  ASSUME NEW g, Drawable(g)
  PROVE  /\ refinementHierarchyEdges(g) \in Seq(Pairs(g.nodes))
         /\ linearForwardEdges(g) \in Seq(Pairs(g.nodes))
         /\ canonicalLayoutEdges(g) \in Seq(Pairs(g.nodes))
         /\ Range(refinementHierarchyEdges(g)) \subseteq Range(linearForwardEdges(g))
<1> DEFINE V == 1 .. g.nodes
           K == {"depends_on", "refines"}
           R == {e \in g.edges : e[2] = "refines"}
<1>1. g.nodes \in Nat /\ V \subseteq 1 .. MaxNodes
  BY PresetsAssumption DEF Drawable, MaxNodes
<1>2. \A e \in g.edges : e \in V \X K \X V /\ e[1] \in V /\ e[3] \in V
  BY DEF Drawable
<1>3. \A e \in g.edges : e \in GraphEdges
  BY <1>1, <1>2 DEF GraphEdges
<1>4. \A e \in g.edges : /\ Raw[e] = <<e[1], e[3]>> /\ Reversed[e] = <<e[3], e[1]>>
                         /\ Forward[e] = IF e[2] = "refines" THEN Reversed[e] ELSE Raw[e]
  BY <1>3 DEF Raw, Reversed, Forward
<1>5. \A e \in g.edges : Raw[e] \in V \X V /\ Reversed[e] \in V \X V /\ Forward[e] \in V \X V
  BY <1>2, <1>4
<1>7. refinementHierarchyEdges(g) \in Seq(V \X V)
  <2>1. \A e \in R : Reversed[e] \in V \X V
    BY <1>5
  <2> HIDE DEF R, V
  <2> QED BY <2>1, InOrderIs DEF refinementHierarchyEdges, R
<1>8. linearForwardEdges(g) \in Seq(V \X V)
  <2> HIDE DEF V
  <2> QED BY <1>5, InOrderIs DEF linearForwardEdges
<1>9. canonicalLayoutEdges(g) \in Seq(V \X V)
  <2> HIDE DEF V
  <2> QED BY <1>5, InOrderIs DEF canonicalLayoutEdges
<1>10. ASSUME NEW x \in Range(refinementHierarchyEdges(g)) PROVE x \in Range(linearForwardEdges(g))
  <2>1. \A e \in R : Reversed[e] \in V \X V
    BY <1>5
  <2> HIDE DEF R, V
  <2>2. x \in Range(InOrder(R, Reversed))
    BY <1>10 DEF refinementHierarchyEdges, R
  <2>3. PICK e \in Range(edgesById) \cap R : x = Reversed[e]
    <3>1. Stems(x, R, Reversed)
      BY <2>1, <2>2, InOrderIs
    <3> QED BY <3>1 DEF Stems
  <2>4. e \in g.edges /\ Forward[e] = Reversed[e]
    BY <1>4, <2>3 DEF R
  <2>5. Forward[e] \in Range(InOrder(g.edges, Forward))
    BY <1>5, <2>3, <2>4, InOrderIs
  <2> QED BY <2>3, <2>4, <2>5 DEF linearForwardEdges
<1> QED BY <1>7, <1>8, <1>9, <1>10 DEF Pairs

-----------------------------------------------------------------------------
(* Edges without a cycle.                                                  *)
Closed(R, A) == \A a \in A : a[1] \in R => a[2] \in R
\* Some number rises along every edge.
Ranked(V, A) == \E m \in Nat : \E r \in [V -> 0 .. m] : \A a \in A : r[a[1]] < r[a[2]]

\* What is reached when all edges have been counted is closed.
LEMMA ReachedIsClosed ==
  ASSUME NEW V, NEW A \in SUBSET (V \X V), IsFiniteSet(A), NEW e \in V \X V,
         ~ wouldCreateCycle(A, e)
  PROVE  \E R \in SUBSET V : e[2] \in R /\ e[1] \notin R /\ Closed(R, A)
<1> DEFINE n == Cardinality(A)
           Then(S) == S \cup {a[2] : a \in {x \in A : x[1] \in S}}
           IsReached(f) == f = [i \in 0 .. n |->
              IF i = 0 THEN {e[2]} ELSE f[i - 1] \cup {a[2] : a \in {x \in A : x[1] \in f[i - 1]}}]
           g == CHOOSE f : IsReached(f)
<1>1. e[1] \notin g[n]
  BY DEF wouldCreateCycle
<1>2. n \in Nat
  BY FS_CardinalityType
<1>3. \A S \in SUBSET V : Then(S) \in SUBSET V /\ S \subseteq Then(S)
                          /\ \A a \in A : a[1] \in S => a[2] \in Then(S)
  OBVIOUS
<1> HIDE DEF n
<1>4. \E f : IsReached(f)
  <2> DEFINE step == [i \in 1 .. n |-> [S \in SUBSET V |-> Then(S)]]
  <2>1. step \in [1 .. n -> [SUBSET V -> SUBSET V]] /\ {e[2]} \in SUBSET V
    BY <1>3
  <2> HIDE DEF step
  <2> PICK f : Steps(f, n, SUBSET V, {e[2]}, step)
    BY <1>2, <2>1, Recursion
  <2>2. f \in [0 .. n -> SUBSET V] /\ f[0] = {e[2]} /\ \A i \in 1 .. n : f[i] = step[i][f[i - 1]]
    BY DEF Steps
  <2>3. ASSUME NEW i \in 1 .. n PROVE f[i] = Then(f[i - 1])
    <3>1. f[i - 1] \in SUBSET V
      BY <1>2, <2>2
    <3> HIDE DEF Then
    <3> QED BY <2>2, <3>1 DEF step
  <2> DEFINE E(i) == IF i = 0 THEN {e[2]} ELSE Then(f[i - 1])
  <2>4. \A i \in 0 .. n : i = 0 \/ i \in 1 .. n
    BY <1>2
  <2> HIDE DEF Then
  <2>5. \A i \in 0 .. n : f[i] = E(i)
    BY <2>2, <2>3, <2>4
  <2> HIDE DEF E
  <2>6. f = [i \in 0 .. n |-> E(i)]
    BY <2>2, <2>5
  <2> QED BY <2>6 DEF E, Then
<1>5. IsReached(g)
  BY <1>4
<1>6. g[0] = {e[2]} /\ \A i \in 1 .. n : g[i] = Then(g[i - 1])
  <2>1. 0 \in 0 .. n /\ \A i \in 1 .. n : i \in 0 .. n /\ i # 0
    BY <1>2
  <2> HIDE DEF g
  <2> QED BY <1>5, <2>1
<1> HIDE DEF g, Then
<1> DEFINE From(i) == {a \in A : a[1] \in g[i]}
           T == {i \in Nat : i <= n => /\ g[i] \in SUBSET V /\ e[2] \in g[i]
                                       /\ Closed(g[i], A) \/ Cardinality(From(i)) >= i + 1}
<1>7. \A i : IsFiniteSet(From(i)) /\ Cardinality(From(i)) \in Nat
  BY FS_Subset, FS_CardinalityType
<1>8. 0 \in T
  <2>1. g[0] \in SUBSET V /\ e[2] \in g[0]
    BY <1>6
  <2>2. CASE From(0) = {}
    <3>1. Closed(g[0], A)
      BY <2>2 DEF Closed
    <3> QED BY <2>1, <3>1
  <2>3. CASE From(0) # {}
    <3>1. Cardinality(From(0)) # 0
      BY <1>7, <2>3, FS_EmptySet
    <3> HIDE DEF From
    <3>2. Cardinality(From(0)) >= 0 + 1
      BY <1>7, <3>1
    <3> QED BY <2>1, <3>2
  <2> QED BY <2>2, <2>3
<1>9. ASSUME NEW i \in Nat, i \in T PROVE i + 1 \in T
  <2> SUFFICES ASSUME i + 1 <= n
               PROVE  /\ g[i + 1] \in SUBSET V /\ e[2] \in g[i + 1]
                      /\ Closed(g[i + 1], A) \/ Cardinality(From(i + 1)) >= (i + 1) + 1
    OBVIOUS
  <2>1. /\ g[i] \in SUBSET V /\ e[2] \in g[i]
        /\ Closed(g[i], A) \/ Cardinality(From(i)) >= i + 1
    BY <1>2, <1>9
  <2>2. g[i + 1] = Then(g[i])
    <3>1. i + 1 \in 1 .. n /\ (i + 1) - 1 = i
      BY <1>2
    <3> QED BY <1>6, <3>1
  <2>3. /\ g[i + 1] \in SUBSET V /\ e[2] \in g[i + 1] /\ g[i] \subseteq g[i + 1]
        /\ \A a \in A : a[1] \in g[i] => a[2] \in g[i + 1]
    BY <1>3, <2>1, <2>2
  <2>4. CASE Closed(g[i], A)
    <3>1. g[i + 1] = g[i]
      BY <2>2, <2>4 DEF Closed, Then
    <3> QED BY <2>3, <2>4, <3>1
  <2>5. CASE Cardinality(From(i)) >= i + 1 /\ From(i + 1) = From(i)
    <3>1. \A a \in A : a[1] \in g[i + 1] => a[1] \in g[i]
      BY <2>5
    <3>2. Closed(g[i + 1], A)
      BY <2>3, <3>1 DEF Closed
    <3> QED BY <2>3, <3>2
  <2>6. CASE Cardinality(From(i)) >= i + 1 /\ From(i + 1) # From(i)
    <3>1. From(i) \in SUBSET From(i + 1)
      BY <2>3
    <3> HIDE DEF From
    <3>2. Cardinality(From(i)) <= Cardinality(From(i + 1))
          /\ Cardinality(From(i)) # Cardinality(From(i + 1))
      BY <1>7, <2>6, <3>1, FS_Subset
    <3>3. Cardinality(From(i + 1)) >= (i + 1) + 1
      BY <1>7, <2>6, <3>2
    <3> QED BY <2>3, <3>3
  <2> QED BY <2>1, <2>4, <2>5, <2>6
<1> HIDE DEF T
<1>10. n \in T
  BY <1>2, <1>8, <1>9, UpTo
<1>11. /\ g[n] \in SUBSET V /\ e[2] \in g[n]
       /\ Closed(g[n], A) \/ Cardinality(From(n)) >= n + 1
  BY <1>2, <1>10 DEF T
<1>12. Cardinality(From(n)) <= n
  <2>1. From(n) \in SUBSET A
    OBVIOUS
  <2> HIDE DEF From
  <2> QED BY <2>1, FS_Subset DEF n
<1> HIDE DEF From
<1>13. Closed(g[n], A)
  BY <1>2, <1>7, <1>11, <1>12
<1> QED BY <1>1, <1>11, <1>13

\* So an edge that closes no cycle can be ranked with the others.
LEMMA AcceptedIsRanked ==
  ASSUME NEW V, NEW A \in SUBSET (V \X V), IsFiniteSet(A), Ranked(V, A),
         NEW e \in V \X V, ~ wouldCreateCycle(A, e)
  PROVE  Ranked(V, A \cup {e})
<1>1. PICK R \in SUBSET V : e[2] \in R /\ e[1] \notin R /\ Closed(R, A)
  BY ReachedIsClosed
<1>2. PICK m \in Nat : \E r \in [V -> 0 .. m] : \A a \in A : r[a[1]] < r[a[2]]
  BY DEF Ranked
<1>3. PICK r \in [V -> 0 .. m] : \A a \in A : r[a[1]] < r[a[2]]
  BY <1>2
<1> DEFINE q == [v \in V |-> IF v \in R THEN r[v] + m + 1 ELSE r[v]]
<1>4. e[1] \in V /\ e[2] \in V /\ \A a \in A : a[1] \in V /\ a[2] \in V
  OBVIOUS
<1>5. \A v \in V : r[v] \in 0 .. m
  BY <1>3
<1>6. q \in [V -> 0 .. (m + m + 1)]
  BY <1>5
<1>7. ASSUME NEW a \in A \cup {e} PROVE q[a[1]] < q[a[2]]
  <2>1. CASE a = e
    BY <1>1, <1>4, <1>5, <2>1
  <2>2. CASE a \in A /\ a[1] \in R
    <3>1. a[2] \in R
      BY <1>1, <2>2 DEF Closed
    <3> QED BY <1>3, <1>4, <1>5, <2>2, <3>1
  <2>3. CASE a \in A /\ a[1] \notin R
    BY <1>3, <1>4, <1>5, <2>3
  <2> QED BY <2>1, <2>2, <2>3
<1> HIDE DEF q
<1>8. m + m + 1 \in Nat
  OBVIOUS
<1> QED BY <1>6, <1>7, <1>8 DEF Ranked

\* The edges that are kept are ranked.
Kept(V, edges) == {A \in SUBSET (V \X V) : IsFiniteSet(A) /\ A \subseteq Range(edges) /\ Ranked(V, A)}
\* What is kept of a list of edges keeps a ranking with each edge accepted.
LEMMA NothingIsRanked ==
  ASSUME NEW V, NEW edges
  PROVE  {} \in Kept(V, edges)
<1>1. IsFiniteSet({})
  BY FS_EmptySet
<1>2. [v \in V |-> 0] \in [V -> 0 .. 0] /\ \A a \in {} : [v \in V |-> 0][a[1]] < [v \in V |-> 0][a[2]]
  OBVIOUS
<1>3. Ranked(V, {})
  BY <1>2, 0 \in Nat DEF Ranked
<1> QED BY <1>1, <1>3 DEF Kept

LEMMA KeptWithAnEdge ==
  ASSUME NEW V, NEW edges, NEW A \in Kept(V, edges), NEW e \in V \X V, e \in Range(edges),
         ~ wouldCreateCycle(A, e)
  PROVE  A \cup {e} \in Kept(V, edges)
<1>1. A \in SUBSET (V \X V) /\ IsFiniteSet(A) /\ Ranked(V, A) /\ A \subseteq Range(edges)
  BY DEF Kept
<1>2. IsFiniteSet(A \cup {e})
  BY <1>1, FS_AddElement
<1>3. Ranked(V, A \cup {e})
  BY <1>1, AcceptedIsRanked
<1> QED BY <1>1, <1>2, <1>3 DEF Kept

\* No cycle is left among the edges a layout accepts.
LEMMA AcyclicLayoutEdgesAreRanked ==
  ASSUME NEW V, NEW edges \in Seq(V \X V)
  PROVE  acyclicLayoutEdges(edges) \in Kept(V, edges)
<1> DEFINE n == Len(edges)
           S == Kept(V, edges)
           With(A, i) == IF wouldCreateCycle(A, edges[i]) THEN A ELSE A \cup {edges[i]}
           IsAccepted(f) == f = [i \in 0 .. n |->
              IF i = 0 THEN {}
              ELSE IF wouldCreateCycle(f[i - 1], edges[i]) THEN f[i - 1] ELSE f[i - 1] \cup {edges[i]}]
           g == CHOOSE f : IsAccepted(f)
<1>1. acyclicLayoutEdges(edges) = g[n]
  BY DEF acyclicLayoutEdges
<1>2. n \in Nat /\ \A i \in 1 .. n : edges[i] \in V \X V /\ edges[i] \in Range(edges)
  BY DEF Range
<1> HIDE DEF n
<1>3. \A A \in S, i \in 1 .. n : With(A, i) \in S
  BY <1>2, KeptWithAnEdge
<1>4. {} \in S
  BY NothingIsRanked
<1> HIDE DEF S
<1>5. \E f : IsAccepted(f)
  <2> DEFINE step == [i \in 1 .. n |-> [A \in S |-> With(A, i)]]
  <2> HIDE DEF With
  <2>1. step \in [1 .. n -> [S -> S]]
    BY <1>3
  <2> HIDE DEF step
  <2> PICK f : Steps(f, n, S, {}, step)
    BY <1>2, <1>4, <2>1, Recursion
  <2>2. f \in [0 .. n -> S] /\ f[0] = {} /\ \A i \in 1 .. n : f[i] = step[i][f[i - 1]]
    BY DEF Steps
  <2>3. ASSUME NEW i \in 1 .. n PROVE f[i] = With(f[i - 1], i)
    <3>1. f[i - 1] \in S
      BY <1>2, <2>2
    <3> QED BY <2>2, <3>1 DEF step
  <2> DEFINE E(i) == IF i = 0 THEN {} ELSE With(f[i - 1], i)
  <2>4. \A i \in 0 .. n : i = 0 \/ i \in 1 .. n
    BY <1>2
  <2>5. \A i \in 0 .. n : f[i] = E(i)
    BY <2>2, <2>3, <2>4
  <2> HIDE DEF E
  <2>6. f = [i \in 0 .. n |-> E(i)]
    BY <2>2, <2>5
  <2> QED BY <2>6 DEF E, With
<1>6. IsAccepted(g)
  BY <1>5
<1>7. g[0] = {} /\ \A i \in 1 .. n : g[i] = With(g[i - 1], i)
  <2>1. 0 \in 0 .. n /\ \A i \in 1 .. n : i \in 0 .. n /\ i # 0
    BY <1>2
  <2> HIDE DEF g
  <2> QED BY <1>6, <2>1
<1> HIDE DEF g, With
<1>8. \A i \in 0 .. n : g[i] \in S
  <2>1. \A i \in 1 .. n : g[i - 1] \in S => g[i] \in S
    BY <1>3, <1>7
  <2> QED BY <1>2, <1>4, <1>7, <2>1, Stays
<1> QED BY <1>1, <1>2, <1>8 DEF S

\* The tree of a spine: a node hangs under one other at most.
OneParent(tree) == \A i, j \in DOMAIN tree : i # j => tree[i][2] # tree[j][2]
\* The tree of a spine has no cycle, and no node two parents.
LEMMA PrimaryTreeIsRanked ==
  ASSUME NEW g, Drawable(g)
  PROVE  /\ buildPrimaryTree(g) \in Seq(Pairs(g.nodes)) /\ OneParent(buildPrimaryTree(g))
         /\ Ranked(1 .. g.nodes, Range(buildPrimaryTree(g)))
<1> DEFINE V == 1 .. g.nodes
           edges == refinementHierarchyEdges(g)
           n == Len(edges)
           K == Kept(V, edges)
           S == {t \in [accepted : K, edges : Seq(V \X V)] :
                    Range(t.edges) \subseteq t.accepted /\ OneParent(t.edges)}
           With(t, i) ==
               IF wouldCreateCycle(t.accepted, edges[i]) THEN t
               ELSE [accepted |-> t.accepted \cup {edges[i]},
                     edges |-> IF \E j \in DOMAIN t.edges : t.edges[j][2] = edges[i][2]
                               THEN t.edges ELSE Append(t.edges, edges[i])]
           first == [accepted |-> {}, edges |-> <<>>]
           E(f, i) == IF i = 0 THEN first ELSE With(f[i - 1], i)
           IsTree(f) == f = [i \in 0 .. n |-> E(f, i)]
           tree == CHOOSE f : IsTree(f)
<1>1. buildPrimaryTree(g) = tree[n].edges
  BY DEF buildPrimaryTree
<1>2. edges \in Seq(V \X V)
  BY LayoutEdgesJoinNodes DEF Pairs
<1> HIDE DEF edges, V
<1>3. n \in Nat /\ \A i \in 1 .. n : edges[i] \in V \X V /\ edges[i] \in Range(edges)
  BY <1>2 DEF Range
<1> HIDE DEF n
<1>4. ASSUME NEW t \in S, NEW i \in 1 .. n PROVE With(t, i) \in S
  <2>1. /\ t.accepted \in K /\ t.edges \in Seq(V \X V)
        /\ Range(t.edges) \subseteq t.accepted /\ OneParent(t.edges)
    BY <1>4
  <2>2. CASE wouldCreateCycle(t.accepted, edges[i])
    BY <1>4, <2>2
  <2>3. CASE ~ wouldCreateCycle(t.accepted, edges[i])
    <3>1. t.accepted \cup {edges[i]} \in K
      BY <1>3, <2>1, <2>3, KeptWithAnEdge
    <3>2. CASE \E j \in DOMAIN t.edges : t.edges[j][2] = edges[i][2]
      <4>1. With(t, i) = [accepted |-> t.accepted \cup {edges[i]}, edges |-> t.edges]
        BY <2>3, <3>2
      <4> QED BY <2>1, <3>1, <4>1
    <3>3. CASE ~ \E j \in DOMAIN t.edges : t.edges[j][2] = edges[i][2]
      <4> DEFINE s == Append(t.edges, edges[i])
      <4>1. With(t, i) = [accepted |-> t.accepted \cup {edges[i]}, edges |-> s]
        BY <2>3, <3>3
      <4>2. /\ s \in Seq(V \X V) /\ DOMAIN t.edges = 1 .. Len(t.edges) /\ Len(t.edges) \in Nat
            /\ DOMAIN s = 1 .. Len(t.edges) + 1 /\ s[Len(t.edges) + 1] = edges[i]
            /\ \A j \in DOMAIN t.edges : s[j] = t.edges[j]
        BY <1>3, <2>1
      <4> HIDE DEF s
      <4>3. \A j \in DOMAIN s : j \in DOMAIN t.edges \/ j = Len(t.edges) + 1
        BY <4>2
      <4>4. Range(s) \subseteq t.accepted \cup {edges[i]}
        BY <2>1, <4>2, <4>3 DEF Range
      <4>5. OneParent(s)
        BY <2>1, <3>3, <4>2, <4>3 DEF OneParent
      <4> HIDE DEF K
      <4> QED BY <3>1, <4>1, <4>2, <4>4, <4>5
    <3> QED BY <3>2, <3>3
  <2> QED BY <2>2, <2>3
<1>5. first \in S
  <2>1. {} \in K
    BY NothingIsRanked
  <2>2. <<>> \in Seq(V \X V) /\ Range(<<>>) \subseteq {} /\ OneParent(<<>>)
    BY DEF Range, OneParent
  <2> HIDE DEF K
  <2> QED BY <2>1, <2>2
<1> HIDE DEF S, With, first
<1>6. \E f : IsTree(f)
  <2> DEFINE step == [i \in 1 .. n |-> [t \in S |-> With(t, i)]]
  <2>1. step \in [1 .. n -> [S -> S]]
    BY <1>4
  <2> HIDE DEF step
  <2> PICK f : Steps(f, n, S, first, step)
    BY <1>3, <1>5, <2>1, Recursion
  <2>2. f \in [0 .. n -> S] /\ f[0] = first /\ \A i \in 1 .. n : f[i] = step[i][f[i - 1]]
    BY DEF Steps
  <2>3. ASSUME NEW i \in 1 .. n PROVE f[i] = With(f[i - 1], i)
    <3>1. f[i - 1] \in S
      BY <1>3, <2>2
    <3> QED BY <2>2, <3>1 DEF step
  <2>4. \A i \in 0 .. n : i = 0 \/ i \in 1 .. n
    BY <1>3
  <2>5. \A i \in 0 .. n : f[i] = E(f, i)
    BY <2>2, <2>3, <2>4
  <2> HIDE DEF E
  <2>6. f = [i \in 0 .. n |-> E(f, i)]
    BY <2>2, <2>5
  <2> QED BY <2>6
<1>7. IsTree(tree)
  BY <1>6
<1>8. tree[0] = first /\ \A i \in 1 .. n : tree[i] = With(tree[i - 1], i)
  <2>1. 0 \in 0 .. n /\ \A i \in 1 .. n : i \in 0 .. n /\ i # 0
    BY <1>3
  <2> HIDE DEF tree
  <2> QED BY <1>7, <2>1
<1> HIDE DEF tree, E
<1>9. \A i \in 0 .. n : tree[i] \in S
  <2>1. \A i \in 1 .. n : tree[i - 1] \in S => tree[i] \in S
    BY <1>4, <1>8
  <2> QED BY <1>3, <1>5, <1>8, <2>1, Stays
<1>10. tree[n] \in S
  BY <1>3, <1>9
<1>11. /\ tree[n].edges \in Seq(V \X V) /\ OneParent(tree[n].edges)
       /\ tree[n].accepted \in K /\ Range(tree[n].edges) \subseteq tree[n].accepted
  BY <1>10 DEF S
<1>12. Ranked(V, Range(tree[n].edges))
  BY <1>11 DEF Kept, Ranked
<1> QED BY <1>1, <1>11, <1>12 DEF Pairs, V

-----------------------------------------------------------------------------
(* Ranks.                                                                  *)
Before(A, v) == {e[1] : e \in {x \in A : x[2] = v}}
Longest(A, f, v) == IF Before(A, v) = {} THEN 0 ELSE 1 + GreatestOf({f[u] : u \in Before(A, v)})

\* The longest way to a node is longer than that to each node before it.
LEMMA LongestIs ==
  ASSUME NEW n \in Nat, NEW A \in SUBSET Pairs(n), NEW f, NEW v,
         \A u \in Before(A, v) : f[u] \in Nat
  PROVE  /\ Longest(A, f, v) \in Nat
         /\ \A u \in Before(A, v) : f[u] < Longest(A, f, v)
         /\ Longest(A, f, v) = 0 \/ \E u \in Before(A, v) : Longest(A, f, v) = 1 + f[u]
<1> DEFINE B == Before(A, v)
           S == {f[u] : u \in B}
           h == [i \in 1 .. n |-> IF i \in B THEN f[i] ELSE 0]
<1>1. B \subseteq 1 .. n
  BY DEF Pairs, Before
<1> HIDE DEF B
<1>2. h \in [1 .. n -> Int]
  BY DEF B
<1> HIDE DEF h
<1>3. PICK b \in Nat : \A i \in 1 .. n : -b <= h[i] /\ h[i] <= b
  BY <1>2, Bounded
<1>4. \A i \in B : h[i] = f[i]
  BY <1>1 DEF h
<1>5. \A s \in S : s \in Nat /\ s <= b
  BY <1>1, <1>3, <1>4 DEF B
<1>6. CASE B = {}
  BY <1>6 DEF Longest, B
<1>7. CASE B # {}
  <2>1. S # {} /\ S \in SUBSET Int
    BY <1>5, <1>7
  <2> DEFINE x == GreatestOf(S)
  <2> HIDE DEF S
  <2>2. x \in S /\ \A s \in S : s <= x
    <3>1. b \in Int /\ \A s \in S : s <= b
      BY <1>5
    <3> QED BY <2>1, <3>1, GreatestIs
  <2>3. Longest(A, f, v) = 1 + x
    BY <1>7 DEF Longest, B, S
  <2> HIDE DEF x
  <2>4. x \in Nat
    BY <1>5, <2>2
  <2>5. \A u \in B : f[u] \in Nat /\ f[u] <= x
    BY <1>5, <2>2 DEF S
  <2>6. \E u \in B : x = f[u]
    BY <2>2 DEF S
  <2> QED BY <2>3, <2>4, <2>5, <2>6 DEF B
<1> QED BY <1>6, <1>7

\* Two functions that agree before a node agree on the longest way to it.
LEMMA LongestAgrees ==
  ASSUME NEW A, NEW f, NEW h, NEW v, \A u \in Before(A, v) : f[u] = h[u]
  PROVE  Longest(A, f, v) = Longest(A, h, v)
<1>1. {f[u] : u \in Before(A, v)} = {h[u] : u \in Before(A, v)}
  OBVIOUS
<1> QED BY <1>1 DEF Longest

\* Edges lead to higher ranks, and there are no more ranks than nodes.
LEMMA RanksRise ==
  ASSUME NEW n \in Nat, NEW A \in SUBSET Pairs(n), Ranked(1 .. n, A)
  PROVE  /\ computeDirectedRanks(n, A) \in [1 .. n -> Nat]
         /\ \A a \in A : computeDirectedRanks(n, A)[a[1]] < computeDirectedRanks(n, A)[a[2]]
         /\ \A v \in 1 .. n : computeDirectedRanks(n, A)[v] < n
         /\ \A v \in 1 .. n : \/ computeDirectedRanks(n, A)[v] = 0
                              \/ \E u \in Before(A, v) :
                                    computeDirectedRanks(n, A)[v] = 1 + computeDirectedRanks(n, A)[u]
<1> DEFINE V == 1 .. n
           IsRank(f) == f = [v \in V |-> Longest(A, f, v)]
           g == CHOOSE f : IsRank(f)
<1>1. computeDirectedRanks(n, A) = g
  BY DEF computeDirectedRanks, Longest, Before
<1>2. PICK m \in Nat : \E r \in [V -> 0 .. m] : \A a \in A : r[a[1]] < r[a[2]]
  BY DEF Ranked
<1>3. PICK r \in [V -> 0 .. m] : \A a \in A : r[a[1]] < r[a[2]]
  BY <1>2
<1>4. ASSUME NEW v \in V PROVE r[v] \in Nat /\ r[v] < m + 1 /\ \A u \in Before(A, v) : u \in V /\ r[u] < r[v]
  BY <1>3 DEF Before, Pairs
<1> HIDE DEF V
<1>5. \E f : IsRank(f)
  <2> DEFINE T == {k \in Nat : \E f \in [V -> Nat] : \A v \in V : r[v] < k => f[v] = Longest(A, f, v)}
  <2>1. 0 \in T
    <3>1. [v \in V |-> 0] \in [V -> Nat] /\ \A v \in V : ~ (r[v] < 0)
      BY <1>4
    <3> QED BY <3>1
  <2>2. ASSUME NEW k \in Nat, k \in T PROVE k + 1 \in T
    <3>1. PICK f \in [V -> Nat] : \A v \in V : r[v] < k => f[v] = Longest(A, f, v)
      BY <2>2
    <3> DEFINE h == [v \in V |-> IF r[v] < k THEN f[v] ELSE Longest(A, f, v)]
    <3>2. \A v \in V : Longest(A, f, v) \in Nat
      <4>1. \A v \in V : \A u \in Before(A, v) : f[u] \in Nat
        BY <1>4
      <4> QED BY <4>1, LongestIs
    <3>3. h \in [V -> Nat]
      BY <3>2
    <3>4. ASSUME NEW v \in V, r[v] < k + 1 PROVE h[v] = Longest(A, h, v)
      <4>1. \A u \in Before(A, v) : u \in V /\ r[u] < k
        BY <1>4, <3>4
      <4>2. \A u \in Before(A, v) : h[u] = f[u]
        BY <4>1
      <4>3. h[v] = Longest(A, f, v)
        BY <3>1
      <4> HIDE DEF h
      <4>4. Longest(A, f, v) = Longest(A, h, v)
        BY <4>2, LongestAgrees
      <4> QED BY <4>3, <4>4
    <3> HIDE DEF h
    <3> QED BY <3>3, <3>4
  <2> HIDE DEF T
  <2>3. m + 1 \in T
    BY <2>1, <2>2, UpTo
  <2>4. PICK f \in [V -> Nat] : \A v \in V : r[v] < m + 1 => f[v] = Longest(A, f, v)
    BY <2>3 DEF T
  <2>5. f = [v \in V |-> Longest(A, f, v)]
    BY <1>4, <2>4
  <2> QED BY <2>5
<1>6. IsRank(g)
  BY <1>5
<1>7. DOMAIN g = V /\ \A v \in V : g[v] = Longest(A, g, v)
  <2> HIDE DEF g
  <2> QED BY <1>6
<1> HIDE DEF g
<1>8. \A v \in V : g[v] \in Nat
  <2> DEFINE T == {k \in Nat : \A v \in V : r[v] < k => g[v] \in Nat}
  <2>1. 0 \in T
    BY <1>4
  <2>2. ASSUME NEW k \in Nat, k \in T PROVE k + 1 \in T
    <3> SUFFICES ASSUME NEW v \in V, r[v] < k + 1 PROVE g[v] \in Nat
      OBVIOUS
    <3>1. \A u \in Before(A, v) : u \in V /\ r[u] \in Nat /\ r[u] < k
      BY <1>4
    <3>2. \A u \in Before(A, v) : g[u] \in Nat
      BY <2>2, <3>1
    <3> QED BY <1>7, <3>2, LongestIs
  <2> HIDE DEF T
  <2>3. m + 1 \in T
    BY <2>1, <2>2, UpTo
  <2> QED BY <1>4, <2>3 DEF T
<1>9. ASSUME NEW v \in V
      PROVE  /\ \A u \in Before(A, v) : g[u] < g[v]
             /\ g[v] = 0 \/ \E u \in Before(A, v) : g[v] = 1 + g[u]
  <2>1. \A u \in Before(A, v) : u \in V /\ g[u] \in Nat
    BY <1>4, <1>8
  <2>2. Longest(A, g, v) = 0 \/ \E u \in Before(A, v) : Longest(A, g, v) = 1 + g[u]
    BY <2>1, LongestIs
  <2>3. \A u \in Before(A, v) : g[u] < Longest(A, g, v)
    BY <2>1, LongestIs
  <2> QED BY <1>7, <2>1, <2>2, <2>3
<1>10. \A a \in A : g[a[1]] < g[a[2]]
  <2>1. \A a \in A : a[2] \in V /\ a[1] \in Before(A, a[2])
    BY DEF V, Pairs, Before
  <2> QED BY <1>9, <2>1
<1>11. ASSUME NEW v \in V PROVE g[v] < n
  <2> DEFINE W == Range(g)
             T == {j \in Nat : j <= g[v] => g[v] - j \in W}
  <2>1. g[v] \in Nat /\ W \subseteq Nat
    BY <1>7, <1>8 DEF Range
  <2>2. 0 \in T
    BY <1>7, <2>1 DEF Range
  <2>3. ASSUME NEW j \in Nat, j \in T PROVE j + 1 \in T
    <3> SUFFICES ASSUME j + 1 <= g[v] PROVE g[v] - (j + 1) \in W
      OBVIOUS
    <3>1. g[v] - j \in W
      BY <2>1, <2>3
    <3>2. PICK u \in V : g[v] - j = g[u]
      BY <1>7, <3>1 DEF Range
    <3>3. g[u] # 0
      BY <2>1, <3>2
    <3>4. PICK w \in V : g[u] = 1 + g[w]
      <4>1. PICK w \in Before(A, u) : g[u] = 1 + g[w]
        BY <1>9, <3>3
      <4> QED BY <1>4, <4>1
    <3>5. g[w] \in Nat /\ g[w] \in W
      BY <1>7, <1>8 DEF Range
    <3>6. g[w] = g[v] - (j + 1)
      <4>1. \A a, b, c \in Nat : a - j = b /\ b = 1 + c => c = a - (j + 1)
        OBVIOUS
      <4>2. g[u] \in Nat
        BY <1>8
      <4> QED BY <2>1, <3>2, <3>4, <3>5, <4>1, <4>2
    <3> QED BY <3>5, <3>6
  <2> HIDE DEF T
  <2>4. \A j \in Nat : j \in T
    BY <2>2, <2>3, UpTo
  <2> HIDE DEF W
  <2>5. \A i \in 0 .. g[v] : i \in W
    <3> TAKE i \in 0 .. g[v]
    <3>1. g[v] - i \in Nat /\ g[v] - i <= g[v] /\ g[v] - (g[v] - i) = i
      BY <2>1
    <3>2. g[v] - i \in T
      BY <2>4, <3>1
    <3> QED BY <3>1, <3>2 DEF T
  <2>6. IsFiniteSet(V) /\ Cardinality(V) = n
    BY FS_Interval DEF V
  <2>7. g \in Surjection(V, W)
    <3>1. g \in [V -> W]
      <4>1. g = [i \in V |-> g[i]]
        BY <1>6, <1>7
      <4>2. \A i \in V : g[i] \in W
        BY <1>7 DEF W, Range
      <4> QED BY <4>1, <4>2
    <3>2. \A t \in W : \E s \in V : g[s] = t
      BY <1>7 DEF W, Range
    <3> QED BY <3>1, <3>2 DEF Surjection
  <2>8. IsFiniteSet(W) /\ Cardinality(W) <= n
    <3>1. IsFiniteSet(W) /\ Cardinality(W) <= Cardinality(V)
      BY <2>6, <2>7, FS_Surjection
    <3> QED BY <2>6, <3>1
  <2>9. Cardinality(0 .. g[v]) = g[v] + 1
    <3>1. \A k \in Nat : Cardinality(0 .. k) = k + 1
      <4> TAKE k \in Nat
      <4>1. Cardinality(0 .. k) = IF 0 > k THEN 0 ELSE k - 0 + 1
        BY FS_Interval
      <4> QED BY <4>1
    <3> QED BY <2>1, <3>1
  <2>10. Cardinality(0 .. g[v]) <= Cardinality(W)
    BY <2>5, <2>8, FS_Subset
  <2>11. Cardinality(W) \in Nat
    BY <2>8, FS_CardinalityType
  <2> QED BY <2>1, <2>8, <2>9, <2>10, <2>11
<1>12. g \in [V -> Nat]
  <2>1. g = [v \in V |-> g[v]]
    BY <1>6, <1>7
  <2> QED BY <1>8, <2>1
<1> QED BY <1>1, <1>9, <1>10, <1>11, <1>12 DEF V

-----------------------------------------------------------------------------
(* A row can be halved once for each node.                                 *)
Halves(M) ==
    /\ M \in [0 .. MaxNodes -> SUBSET Int]
    /\ RowUnit \in M[MaxNodes]
    /\ \A i \in 0 .. MaxNodes : 0 \in M[i] /\ \A x, y \in M[i] : x + y \in M[i] /\ x - y \in M[i]
    /\ \A i \in 1 .. MaxNodes : /\ M[i] \subseteq M[i - 1]
                                /\ \A x \in M[i] : x \div 2 \in M[i - 1] /\ 2 * (x \div 2) = x

LEMMA MaxNodesIs ==
  MaxNodes \in Nat \ {0}
BY PresetsAssumption DEF MaxNodes

\* Multiples of RowUnit can be halved MaxNodes times.
LEMMA RowUnitIs ==
  RowUnit \in Nat \ {0} /\ \E M : Halves(M)
<1> DEFINE n == MaxNodes
           IsPower(f) == f = [i \in 0 .. n |-> IF i = 0 THEN 1 ELSE 2 * f[i - 1]]
           power == CHOOSE f : IsPower(f)
           Double(S) == {2 * x : x \in S}
           step == [i \in 1 .. n |-> [S \in SUBSET Int |-> Double(S)]]
<1>1. RowUnit = power[n]
  BY DEF RowUnit
<1>2. n \in Nat
  BY MaxNodesIs
<1> HIDE DEF n
<1>3. \E f : IsPower(f)
  <2> DEFINE times == [i \in 1 .. n |-> [x \in Nat |-> 2 * x]]
  <2>1. times \in [1 .. n -> [Nat -> Nat]] /\ 1 \in Nat
    OBVIOUS
  <2> HIDE DEF times
  <2> PICK f : Steps(f, n, Nat, 1, times)
    BY <1>2, <2>1, Recursion
  <2>2. f \in [0 .. n -> Nat] /\ f[0] = 1 /\ \A i \in 1 .. n : f[i] = times[i][f[i - 1]]
    BY DEF Steps
  <2>3. ASSUME NEW i \in 1 .. n PROVE f[i] = 2 * f[i - 1]
    <3>1. f[i - 1] \in Nat
      BY <1>2, <2>2
    <3> QED BY <2>2, <3>1 DEF times
  <2> DEFINE E(i) == IF i = 0 THEN 1 ELSE 2 * f[i - 1]
  <2>4. \A i \in 0 .. n : i = 0 \/ i \in 1 .. n
    BY <1>2
  <2>5. \A i \in 0 .. n : f[i] = E(i)
    BY <2>2, <2>3, <2>4
  <2> HIDE DEF E
  <2>6. f = [i \in 0 .. n |-> E(i)]
    BY <2>2, <2>5
  <2> QED BY <2>6 DEF E
<1>4. IsPower(power)
  BY <1>3
<1>5. power[0] = 1 /\ \A i \in 1 .. n : power[i] = 2 * power[i - 1]
  <2>1. 0 \in 0 .. n /\ \A i \in 1 .. n : i \in 0 .. n /\ i # 0
    BY <1>2
  <2> HIDE DEF power
  <2> QED BY <1>4, <2>1
<1> HIDE DEF power
<1>6. \A i \in 0 .. n : power[i] \in Nat \ {0}
  <2> DEFINE P == Nat \ {0}
  <2>1. power[0] \in P
    BY <1>5
  <2>2. \A i \in 1 .. n : power[i - 1] \in P => power[i] \in P
    BY <1>5
  <2> HIDE DEF P
  <2>3. \A i \in 0 .. n : power[i] \in P
    BY <1>2, <2>1, <2>2, Stays
  <2> QED BY <2>3 DEF P
<1>7. step \in [1 .. n -> [SUBSET Int -> SUBSET Int]]
  <2>1. \A S \in SUBSET Int : Double(S) \in SUBSET Int
    OBVIOUS
  <2> HIDE DEF Double
  <2> QED BY <2>1
<1> HIDE DEF step
<1>8. PICK M : Steps(M, n, SUBSET Int, Int, step)
  <2>1. Int \in SUBSET Int
    OBVIOUS
  <2> QED BY <1>2, <1>7, <2>1, Recursion
<1>9. M \in [0 .. n -> SUBSET Int] /\ M[0] = Int /\ \A i \in 1 .. n : M[i] = step[i][M[i - 1]]
  BY <1>8 DEF Steps
<1>10. ASSUME NEW i \in 1 .. n PROVE M[i] = Double(M[i - 1])
  <2>1. M[i - 1] \in SUBSET Int
    BY <1>2, <1>9
  <2> QED BY <1>9, <2>1 DEF step
<1> DEFINE Sums(i) == 0 \in M[i] /\ \A x, y \in M[i] : x + y \in M[i] /\ x - y \in M[i]
           T == {i \in Nat : i <= n => Sums(i) /\ power[i] \in M[i]}
<1>11. 0 \in T
  BY <1>5, <1>9
<1>12. ASSUME NEW i \in Nat, i \in T PROVE i + 1 \in T
  <2> SUFFICES ASSUME i + 1 <= n PROVE Sums(i + 1) /\ power[i + 1] \in M[i + 1]
    OBVIOUS
  <2>1. Sums(i) /\ power[i] \in M[i]
    BY <1>2, <1>12
  <2>2. i + 1 \in 1 .. n /\ i \in 0 .. n /\ (i + 1) - 1 = i
    BY <1>2
  <2>3. M[i] \subseteq Int /\ M[i + 1] = Double(M[i]) /\ power[i + 1] = 2 * power[i]
    BY <1>5, <1>9, <1>10, <2>2
  <2>4. 0 \in M[i + 1]
    <3>1. 2 * 0 = 0
      OBVIOUS
    <3> QED BY <2>1, <2>3, <3>1
  <2>5. ASSUME NEW x \in M[i + 1], NEW y \in M[i + 1] PROVE x + y \in M[i + 1] /\ x - y \in M[i + 1]
    <3>1. PICK u \in M[i] : x = 2 * u
      BY <2>3
    <3>2. PICK v \in M[i] : y = 2 * v
      BY <2>3
    <3>3. u + v \in M[i] /\ u - v \in M[i]
      BY <2>1
    <3>4. x + y = 2 * (u + v) /\ x - y = 2 * (u - v)
      BY <2>3, <3>1, <3>2
    <3> QED BY <2>3, <3>3, <3>4
  <2>6. power[i + 1] \in M[i + 1]
    BY <2>1, <2>3
  <2> QED BY <2>4, <2>5, <2>6
<1> HIDE DEF T
<1>13. \A i \in 0 .. n : Sums(i) /\ power[i] \in M[i]
  <2>1. \A i \in 0 .. n : i \in Nat /\ i <= n
    BY <1>2
  <2>2. \A i \in 0 .. n : i \in T
    BY <1>11, <1>12, <2>1, UpTo
  <2> HIDE DEF Sums
  <2> QED BY <2>1, <2>2 DEF T
<1>14. ASSUME NEW i \in 1 .. n
       PROVE  /\ M[i] \subseteq M[i - 1]
              /\ \A x \in M[i] : x \div 2 \in M[i - 1] /\ 2 * (x \div 2) = x
  <2>1. i - 1 \in 0 .. n
    BY <1>2
  <2>2. M[i] = Double(M[i - 1]) /\ M[i - 1] \subseteq Int /\ Sums(i - 1)
    BY <1>9, <1>10, <1>13, <2>1
  <2>3. ASSUME NEW x \in M[i]
        PROVE  x \in M[i - 1] /\ x \div 2 \in M[i - 1] /\ 2 * (x \div 2) = x
    <3>1. PICK y \in M[i - 1] : x = 2 * y
      BY <2>2
    <3>2. y \in Int /\ x = y + y /\ x \div 2 = y
      BY <2>2, <3>1
    <3> QED BY <2>2, <3>1, <3>2
  <2> QED BY <2>3
<1>15. n \in 0 .. n
  BY <1>2
<1>16. Halves(M)
  <2>1. RowUnit \in M[n]
    BY <1>1, <1>13, <1>15
  <2> QED BY <1>9, <1>13, <1>14, <2>1 DEF Halves, n
<1> QED BY <1>1, <1>6, <1>15, <1>16

-----------------------------------------------------------------------------
(* Columns: where ranks or statuses are the columns, cards are apart.      *)
LEMMA RowsOfUnits ==
  \A a, b \in Nat : a < b => RowUnit * b - RowUnit * a >= RowUnit
<1>1. \A r \in Nat : \A a, d \in Nat : r * (a + 1 + d) - r * a >= r
  <2> TAKE r \in Nat
  <2> TAKE a, d \in Nat
  <2>1. r * (a + 1 + d) = r * a + r + r * d
    OBVIOUS
  <2>2. r * a \in Nat /\ r * d \in Nat
    OBVIOUS
  <2> QED BY <2>1, <2>2
<1> TAKE a, b \in Nat
<1> HAVE a < b
<1>2. b - a - 1 \in Nat /\ b = a + 1 + (b - a - 1)
  OBVIOUS
<1> QED BY <1>1, <1>2, RowUnitIs

\* Each node of a column lies a row below the ones before it.
LEMMA ColumnsApart ==
  ASSUME NEW n \in Nat, NEW column
  PROVE  CardsApart(computeRankColumnPositions(n, column))
<1> DEFINE above(v) == {u \in 1 .. v - 1 : column[u] = column[v]}
           places == computeRankColumnPositions(n, column)
<1>1. places = [v \in 1 .. n |-> [x |-> column[v], y |-> RowUnit * Cardinality(above(v))]]
  BY DEF computeRankColumnPositions
<1>2. \A v \in 1 .. n : IsFiniteSet(above(v)) /\ Cardinality(above(v)) \in Nat
  <2> TAKE v \in 1 .. n
  <2>1. IsFiniteSet(1 .. v - 1)
    BY FS_Interval
  <2>2. above(v) \in SUBSET (1 .. v - 1)
    OBVIOUS
  <2> HIDE DEF above
  <2> QED BY <2>1, <2>2, FS_Subset, FS_CardinalityType
<1>3. ASSUME NEW u \in 1 .. n, NEW v \in 1 .. n, u < v, column[u] = column[v]
      PROVE  Cardinality(above(u)) + 1 <= Cardinality(above(v))
  <2>1. u \notin above(u) /\ above(u) \cup {u} \in SUBSET above(v)
    BY <1>3
  <2> HIDE DEF above
  <2>2. Cardinality(above(u) \cup {u}) = Cardinality(above(u)) + 1
    BY <1>2, <2>1, FS_AddElement
  <2>3. Cardinality(above(u) \cup {u}) <= Cardinality(above(v))
    BY <1>2, <2>1, FS_Subset
  <2> QED BY <2>2, <2>3
<1>4. \A a, b \in Nat : a + 1 <= b => RowUnit * b - RowUnit * a >= RowUnit
  BY RowsOfUnits
<1> HIDE DEF above
<1>5. \A v \in 1 .. n : places[v].x = column[v] /\ places[v].y = RowUnit * Cardinality(above(v))
  BY <1>1
<1>6. DOMAIN places = 1 .. n
  BY <1>1
<1> HIDE DEF places
<1>7. ASSUME NEW u \in 1 .. n, NEW v \in 1 .. n, u < v, places[u].x = places[v].x
      PROVE  places[v].y - places[u].y >= RowUnit
  <2>1. Cardinality(above(u)) + 1 <= Cardinality(above(v))
    BY <1>3, <1>5, <1>7
  <2> QED BY <1>2, <1>4, <1>5, <2>1
<1>8. ASSUME NEW v \in 1 .. n, NEW u \in 1 .. n, v # u, places[v].x = places[u].x
      PROVE  places[v].y - places[u].y >= RowUnit \/ places[u].y - places[v].y >= RowUnit
  <2>1. CASE u < v
    BY <1>7, <1>8, <2>1
  <2>2. CASE v < u
    BY <1>7, <1>8, <2>2
  <2> QED BY <1>8, <2>1, <2>2
<1> QED BY <1>6, <1>8 DEF CardsApart, places

-----------------------------------------------------------------------------
(* Linear: no two nodes of a lane have the same rank.  A node is given its *)
(* lane when all that are in it come before; so it is when it goes on in   *)
(* the lane of its parent, and a new lane is empty.                        *)
LaneStates(V, rank) ==
    {s \in [lanes : [V -> Nat \cup {NoLane}], next : Nat, toVisit : Seq(V), on : Nat \cup {NoLane}] :
        /\ \A v \in V : s.lanes[v] < s.next
        /\ \A u, v \in V : u # v /\ s.lanes[u] = s.lanes[v] /\ s.lanes[u] # NoLane => rank[u] # rank[v]
        /\ s.on # NoLane =>
              /\ s.on < s.next /\ s.toVisit # <<>>
              /\ \A v \in V : s.lanes[v] = s.on => rank[v] < rank[Head(s.toVisit)]}

\* A step of the visit keeps the lanes apart.
LEMMA LaneStep ==
  ASSUME NEW V, NEW rank \in [V -> Nat], NEW children \in [V -> Seq(V)],
         \A v \in V : \A i \in DOMAIN children[v] : rank[v] < rank[children[v][i]],
         NEW s \in LaneStates(V, rank), s.toVisit # <<>>
  PROVE  assignLanes(s, children) \in LaneStates(V, rank)
<1> DEFINE v == Head(s.toVisit)
           lane == IF s.on # NoLane THEN s.on ELSE s.next
           next == IF s.on # NoLane THEN s.next ELSE s.next + 1
           after == assignLanes(s, children)
<1>1. /\ s.lanes \in [V -> Nat \cup {NoLane}] /\ s.next \in Nat /\ s.toVisit \in Seq(V)
      /\ s.on \in Nat \cup {NoLane}
  BY DEF LaneStates
<1>2. NoLane = -1
  BY DEF NoLane
<1>3. /\ \A u \in V : s.lanes[u] < s.next
      /\ \A u, w \in V : u # w /\ s.lanes[u] = s.lanes[w] /\ s.lanes[u] # NoLane => rank[u] # rank[w]
      /\ s.on # NoLane => /\ s.on < s.next
                          /\ \A u \in V : s.lanes[u] = s.on => rank[u] < rank[v]
  BY DEF LaneStates
<1>4. v \in V /\ Tail(s.toVisit) \in Seq(V)
  BY <1>1
<1>5. lane \in Nat /\ next \in Nat /\ lane < next /\ s.next <= next
  BY <1>1, <1>2, <1>3
<1>6. \A u \in V : s.lanes[u] = lane => rank[u] < rank[v]
  <2> TAKE u \in V
  <2>1. s.lanes[u] \in Nat \cup {NoLane} /\ s.lanes[u] < s.next
    BY <1>1, <1>3
  <2> QED BY <1>1, <1>2, <1>3, <2>1
<1> HIDE DEF lane, next, v
<1>7. \A u \in V : s.lanes[u] \in Nat \cup {NoLane} /\ s.lanes[u] < next
  <2> TAKE u \in V
  <2>1. s.lanes[u] \in Nat \cup {NoLane} /\ s.lanes[u] < s.next
    BY <1>1, <1>3
  <2> QED BY <1>1, <1>2, <1>5, <2>1
<1>8. CASE s.lanes[v] # NoLane
  <2>1. after = [lanes |-> s.lanes, next |-> next, toVisit |-> Tail(s.toVisit), on |-> NoLane]
    BY <1>8 DEF assignLanes, v, next
  <2> HIDE DEF after
  <2> QED BY <1>1, <1>3, <1>4, <1>5, <1>7, <2>1 DEF LaneStates, after
<1>9. CASE s.lanes[v] = NoLane
  <2> DEFINE lanes == [s.lanes EXCEPT ![v] = lane]
             toVisit == children[v] \o Tail(s.toVisit)
             on == IF children[v] = <<>> THEN NoLane ELSE lane
  <2>1. after = [lanes |-> lanes, next |-> next, toVisit |-> toVisit, on |-> on]
    BY <1>9 DEF assignLanes, v, next, lane
  <2>2. children[v] \in Seq(V)
    BY <1>4
  <2>3. lanes \in [V -> Nat \cup {NoLane}] /\ toVisit \in Seq(V) /\ on \in Nat \cup {NoLane}
    <3>1. lanes \in [V -> Nat \cup {NoLane}]
      BY <1>1, <1>4, <1>5
    <3>2. toVisit \in Seq(V)
      BY <1>4, <2>2
    <3> QED BY <1>5, <3>1, <3>2
  <2>4. lanes[v] = lane /\ \A u \in V : u # v => lanes[u] = s.lanes[u]
    BY <1>1, <1>4
  <2> HIDE DEF lanes
  <2>5. \A u \in V : lanes[u] < next
    BY <1>5, <1>7, <2>4
  <2>6. ASSUME NEW u \in V, NEW w \in V, u # w, lanes[u] = lanes[w], lanes[u] # NoLane
        PROVE  rank[u] # rank[w]
    <3>1. rank[u] \in Nat /\ rank[w] \in Nat /\ rank[v] \in Nat
      BY <1>4
    <3>2. CASE u = v
      <4>1. s.lanes[w] = lane
        BY <2>4, <2>6, <3>2
      <4>2. rank[w] < rank[v]
        BY <1>6, <4>1
      <4> QED BY <3>1, <3>2, <4>2
    <3>3. CASE w = v
      <4>1. s.lanes[u] = lane
        BY <2>4, <2>6, <3>3
      <4>2. rank[u] < rank[v]
        BY <1>6, <4>1
      <4> QED BY <3>1, <3>3, <4>2
    <3>4. CASE u # v /\ w # v
      BY <1>3, <2>4, <2>6, <3>4
    <3> QED BY <3>2, <3>3, <3>4
  <2>7. ASSUME on # NoLane
        PROVE  /\ on < next /\ toVisit # <<>>
               /\ \A u \in V : lanes[u] = on => rank[u] < rank[Head(toVisit)]
    <3>1. children[v] # <<>> /\ on = lane
      BY <2>7
    <3>2. 1 \in DOMAIN children[v] /\ Len(children[v]) > 0
      BY <2>2, <3>1
    <3>3. toVisit # <<>> /\ Head(toVisit) = children[v][1]
      <4> DEFINE a == Len(children[v])
                 b == Len(Tail(s.toVisit))
      <4>1. a \in Nat /\ a > 0 /\ b \in Nat
        BY <1>4, <2>2, <3>2
      <4>2. /\ Len(toVisit) = a + b
            /\ \A i \in 1 .. a + b : toVisit[i] = IF i <= a THEN children[v][i] ELSE Tail(s.toVisit)[i - a]
        BY <1>4, <2>2, ConcatProperties
      <4> HIDE DEF a, b, toVisit
      <4>3. Len(toVisit) > 0 /\ toVisit[1] = children[v][1]
        BY <4>1, <4>2
      <4>4. toVisit # <<>> /\ Head(toVisit) = toVisit[1]
        BY <2>3, <4>3
      <4> QED BY <4>3, <4>4
    <3>4. children[v][1] \in V /\ rank[v] < rank[children[v][1]]
      BY <1>4, <2>2, <3>2
    <3>5. ASSUME NEW u \in V, lanes[u] = lane PROVE rank[u] < rank[children[v][1]]
      <4>1. rank[u] \in Nat /\ rank[v] \in Nat /\ rank[children[v][1]] \in Nat
        BY <1>4, <3>4
      <4>2. u = v \/ rank[u] < rank[v]
        BY <1>6, <2>4, <3>5
      <4> QED BY <3>4, <4>1, <4>2
    <3> QED BY <1>5, <3>1, <3>3, <3>5
  <2> HIDE DEF after, toVisit, on
  <2> QED BY <1>5, <2>1, <2>3, <2>5, <2>6, <2>7 DEF LaneStates, after
<1> QED BY <1>8, <1>9

\* Nodes of one lane differ in rank when every edge leads to a higher one.
LEMMA LanesApart ==
  ASSUME NEW n \in Nat, NEW rank \in [1 .. n -> Nat], NEW edges \in Seq(Pairs(n)),
         \A e \in Range(edges) : rank[e[1]] < rank[e[2]]
  PROVE  LET lane == computeTreeLanes(n, edges)
         IN  /\ lane \in [1 .. n -> Nat]
             /\ \A u, v \in 1 .. n : u # v /\ lane[u] = lane[v] => rank[u] # rank[v]
<1> DEFINE V == 1 .. n
           all == [i \in 1 .. n |-> i]
           Kids(v) == {c \in 1 .. n : \E i \in DOMAIN edges : edges[i] = <<v, c>>}
           children == ChildrenOf(edges, n)
           Roots == {v \in 1 .. n : \A i \in DOMAIN edges : edges[i][2] # v}
           roots == Among(all, Roots)
           m == n + Len(edges)
           S == LaneStates(V, rank)
           With(s) == IF s.toVisit = <<>> THEN s ELSE assignLanes(s, children)
           first == [lanes |-> [v \in 1 .. n |-> NoLane], next |-> 0, toVisit |-> roots, on |-> NoLane]
           E(f, i) == IF i = 0 THEN first ELSE With(f[i - 1])
           IsVisit(f) == f = [i \in 0 .. m |-> E(f, i)]
           visit == CHOOSE f : IsVisit(f)
           rooted == visit[m]
           late(v) == {u \in 1 .. v - 1 : rooted.lanes[u] = NoLane}
           lane == computeTreeLanes(n, edges)
<1>1. lane = [v \in 1 .. n |-> IF rooted.lanes[v] # NoLane THEN rooted.lanes[v]
                               ELSE rooted.next + Cardinality(late(v))]
  BY DEF computeTreeLanes
<1>2. all \in Seq(V)
  OBVIOUS
<1> HIDE DEF all
<1>3. roots \in Seq(V)
  <2> HIDE DEF Roots
  <2>1. roots \in Seq(V \cap Roots)
    BY <1>2, AmongIs
  <2> QED BY <2>1
<1>4. children \in [V -> Seq(V)] /\ \A v \in V : \A i \in DOMAIN children[v] : rank[v] < rank[children[v][i]]
  <2>1. children = [v \in V |-> Among(all, Kids(v))]
    BY DEF ChildrenOf, all
  <2>2. ASSUME NEW v \in V
        PROVE  /\ Among(all, Kids(v)) \in Seq(V)
               /\ \A i \in DOMAIN Among(all, Kids(v)) : rank[v] < rank[Among(all, Kids(v))[i]]
    <3> DEFINE s == Among(all, Kids(v))
    <3>1. \A c \in Kids(v) : rank[v] < rank[c]
      <4> TAKE c \in Kids(v)
      <4>1. <<v, c>> \in Range(edges)
        BY DEF Range
      <4> QED BY <4>1
    <3> HIDE DEF Kids
    <3>2. s \in Seq(V \cap Kids(v))
      BY <1>2, AmongIs
    <3> HIDE DEF s
    <3>3. s \in Seq(V) /\ \A i \in DOMAIN s : s[i] \in Kids(v)
      BY <3>2
    <3> QED BY <3>1, <3>3 DEF s
  <2> HIDE DEF children, Kids
  <2> QED BY <2>1, <2>2
<1> HIDE DEF children, roots
<1>5. m \in Nat
  OBVIOUS
<1> HIDE DEF m, V
<1>6. first \in S
  <2>1. NoLane = -1 /\ first.lanes = [v \in V |-> NoLane] /\ first.next = 0 /\ first.toVisit = roots
        /\ first.on = NoLane
    BY DEF NoLane, V
  <2>2. first \in [lanes : [V -> Nat \cup {NoLane}], next : Nat, toVisit : Seq(V), on : Nat \cup {NoLane}]
    BY <1>3, <2>1
  <2> HIDE DEF first
  <2> QED BY <2>1, <2>2 DEF LaneStates
<1>7. \A s \in S : With(s) \in S
  <2> TAKE s \in S
  <2>1. rank \in [V -> Nat]
    BY DEF V
  <2> HIDE DEF S
  <2>2. CASE s.toVisit # <<>>
    <3>1. assignLanes(s, children) \in S
      BY <1>4, <2>1, <2>2, LaneStep DEF S
    <3> QED BY <2>2, <3>1
  <2> QED BY <2>2
<1> HIDE DEF S, With, first
<1>8. \E f : IsVisit(f)
  <2> DEFINE step == [i \in 1 .. m |-> [s \in S |-> With(s)]]
  <2>1. step \in [1 .. m -> [S -> S]]
    BY <1>7
  <2> HIDE DEF step
  <2> PICK f : Steps(f, m, S, first, step)
    BY <1>5, <1>6, <2>1, Recursion
  <2>2. f \in [0 .. m -> S] /\ f[0] = first /\ \A i \in 1 .. m : f[i] = step[i][f[i - 1]]
    BY DEF Steps
  <2>3. ASSUME NEW i \in 1 .. m PROVE f[i] = With(f[i - 1])
    <3>1. f[i - 1] \in S
      BY <1>5, <2>2
    <3> QED BY <2>2, <3>1 DEF step
  <2>4. \A i \in 0 .. m : i = 0 \/ i \in 1 .. m
    BY <1>5
  <2>5. \A i \in 0 .. m : f[i] = E(f, i)
    BY <2>2, <2>3, <2>4
  <2> HIDE DEF E
  <2>6. f = [i \in 0 .. m |-> E(f, i)]
    BY <2>2, <2>5
  <2> QED BY <2>6
<1>9. IsVisit(visit)
  BY <1>8
<1>10. visit[0] = first /\ \A i \in 1 .. m : visit[i] = With(visit[i - 1])
  <2>1. 0 \in 0 .. m /\ \A i \in 1 .. m : i \in 0 .. m /\ i # 0
    BY <1>5
  <2> HIDE DEF visit
  <2> QED BY <1>9, <2>1
<1> HIDE DEF visit, E
<1>11. rooted \in S
  <2>1. \A i \in 1 .. m : visit[i - 1] \in S => visit[i] \in S
    BY <1>7, <1>10
  <2>2. \A i \in 0 .. m : visit[i] \in S
    BY <1>5, <1>6, <1>10, <2>1, Stays
  <2> QED BY <1>5, <2>2
<1> HIDE DEF rooted
<1>12. /\ rooted.lanes \in [V -> Nat \cup {NoLane}] /\ rooted.next \in Nat
       /\ \A v \in V : rooted.lanes[v] < rooted.next
       /\ \A u, v \in V : u # v /\ rooted.lanes[u] = rooted.lanes[v] /\ rooted.lanes[u] # NoLane =>
             rank[u] # rank[v]
  BY <1>11 DEF S, LaneStates
<1>13. \A v \in V : IsFiniteSet(late(v)) /\ Cardinality(late(v)) \in Nat
  <2> TAKE v \in V
  <2>1. IsFiniteSet(1 .. v - 1)
    BY FS_Interval DEF V
  <2>2. late(v) \in SUBSET (1 .. v - 1)
    OBVIOUS
  <2> HIDE DEF late
  <2> QED BY <2>1, <2>2, FS_Subset, FS_CardinalityType
<1>14. ASSUME NEW u \in V, NEW v \in V, u < v, rooted.lanes[u] = NoLane
       PROVE  Cardinality(late(u)) + 1 <= Cardinality(late(v))
  <2>1. u \notin late(u) /\ late(u) \cup {u} \in SUBSET late(v)
    BY <1>14 DEF V
  <2> HIDE DEF late
  <2>2. Cardinality(late(u) \cup {u}) = Cardinality(late(u)) + 1
    BY <1>13, <2>1, FS_AddElement
  <2>3. Cardinality(late(u) \cup {u}) <= Cardinality(late(v))
    BY <1>13, <2>1, FS_Subset
  <2> QED BY <2>2, <2>3
<1> HIDE DEF late, lane
<1>15. lane \in [V -> Nat]
  BY <1>1, <1>12, <1>13 DEF V
<1>16. \A v \in V : lane[v] = IF rooted.lanes[v] # NoLane THEN rooted.lanes[v]
                              ELSE rooted.next + Cardinality(late(v))
  BY <1>1 DEF V
<1>17. ASSUME NEW u \in V, NEW v \in V, u < v, lane[u] = lane[v] PROVE rank[u] # rank[v]
  <2>1. CASE rooted.lanes[u] # NoLane /\ rooted.lanes[v] # NoLane
    <3>1. u # v
      BY <1>17 DEF V
    <3> QED BY <1>12, <1>16, <1>17, <2>1, <3>1
  <2>2. CASE rooted.lanes[u] # NoLane /\ rooted.lanes[v] = NoLane
    BY <1>12, <1>13, <1>16, <1>17, <2>2
  <2>3. CASE rooted.lanes[u] = NoLane /\ rooted.lanes[v] # NoLane
    BY <1>12, <1>13, <1>16, <1>17, <2>3
  <2>4. CASE rooted.lanes[u] = NoLane /\ rooted.lanes[v] = NoLane
    BY <1>12, <1>13, <1>14, <1>16, <1>17, <2>4
  <2> QED BY <2>1, <2>2, <2>3, <2>4
<1>18. \A u, v \in V : u # v /\ lane[u] = lane[v] => rank[u] # rank[v]
  <2> TAKE u, v \in V
  <2>1. u # v => u < v \/ v < u
    BY DEF V
  <2> QED BY <1>17, <2>1
<1> QED BY <1>15, <1>18 DEF V, lane

-----------------------------------------------------------------------------
(* Spine: the offsets of the children of a node.                           *)
LEMMA GreaterOfTwo ==
  ASSUME NEW a \in Int, NEW b \in Int
  PROVE  /\ GreatestOf({a, b}) \in {a, b} /\ a <= GreatestOf({a, b}) /\ b <= GreatestOf({a, b})
<1> DEFINE m == IF a < b THEN b ELSE a
<1>1. m \in Int /\ {a, b} \in SUBSET Int /\ {a, b} # {} /\ \A s \in {a, b} : s <= m
  OBVIOUS
<1> HIDE DEF m
<1> QED BY <1>1, GreatestIs

\* The least and the greatest value of a function on 1 .. n.
LEMMA Extremes ==
  ASSUME NEW n \in Nat \ {0}, NEW S \in SUBSET Int, NEW f \in [1 .. n -> S]
  PROVE  LeastOf(Range(f)) \in S /\ GreatestOf(Range(f)) \in S
<1> DEFINE W == Range(f)
<1>1. f \in [1 .. n -> Int]
  OBVIOUS
<1>2. PICK b \in Nat : \A i \in 1 .. n : -b <= f[i] /\ f[i] <= b
  BY <1>1, Bounded
<1>3. W \in SUBSET Int /\ W # {} /\ W \subseteq S
  <2>1. f[1] \in W
    BY DEF Range
  <2> QED BY <1>1, <2>1 DEF Range
<1>4. \A s \in W : -b <= s /\ s <= b
  BY <1>2 DEF Range
<1> HIDE DEF W
<1>5. -b \in Int /\ b \in Int
  OBVIOUS
<1>6. LeastOf(W) \in W
  BY <1>3, <1>4, <1>5, LeastIs
<1>7. GreatestOf(W) \in W
  BY <1>3, <1>4, <1>5, GreatestIs
<1> QED BY <1>3, <1>6, <1>7 DEF W

\* What can be halved k times can be halved less often, and so can its multiples.
LEMMA HalvesContain ==
  ASSUME NEW M, Halves(M), NEW k \in 0 .. MaxNodes, NEW j \in 0 .. k
  PROVE  M[k] \subseteq M[j]
<1> DEFINE T == {i \in Nat : i <= k => M[k] \subseteq M[k - i]}
<1>1. 0 \in T
  OBVIOUS
<1>2. ASSUME NEW i \in Nat, i \in T PROVE i + 1 \in T
  <2> SUFFICES ASSUME i + 1 <= k PROVE M[k] \subseteq M[k - (i + 1)]
    OBVIOUS
  <2>1. k - i \in 1 .. MaxNodes /\ (k - i) - 1 = k - (i + 1) /\ i <= k
    BY MaxNodesIs
  <2>2. M[k - i] \subseteq M[(k - i) - 1]
    BY <2>1 DEF Halves
  <2> QED BY <1>2, <2>1, <2>2
<1> HIDE DEF T
<1>3. k - j \in Nat /\ k - j <= k /\ k - (k - j) = j
  BY MaxNodesIs
<1>4. k - j \in T
  BY <1>1, <1>2, <1>3, UpTo
<1> QED BY <1>3, <1>4 DEF T

\* What can be halved k times: sums and differences of it, and RowUnit.
LEMMA HalvesAt ==
  ASSUME NEW M, Halves(M), NEW k \in 0 .. MaxNodes
  PROVE  /\ M[k] \subseteq Int /\ 0 \in M[k] /\ RowUnit \in M[k]
         /\ \A x, y \in M[k] : x + y \in M[k] /\ x - y \in M[k]
<1>1. M[k] \subseteq Int /\ 0 \in M[k] /\ \A x, y \in M[k] : x + y \in M[k] /\ x - y \in M[k]
  BY DEF Halves
<1>2. MaxNodes \in 0 .. MaxNodes /\ k \in 0 .. MaxNodes
  BY MaxNodesIs
<1>3. M[MaxNodes] \subseteq M[k]
  BY <1>2, HalvesContain
<1>4. RowUnit \in M[MaxNodes]
  BY DEF Halves
<1> QED BY <1>1, <1>3, <1>4

LEMMA HalvesBelow ==
  ASSUME NEW M, Halves(M), NEW k \in 1 .. MaxNodes
  PROVE  /\ k \in 0 .. MaxNodes /\ k - 1 \in 0 .. MaxNodes
         /\ M[k] \subseteq M[k - 1] /\ \A x \in M[k] : x \div 2 \in M[k - 1] /\ 2 * (x \div 2) = x
<1>1. k \in 0 .. MaxNodes /\ k - 1 \in 0 .. MaxNodes
  BY MaxNodesIs
<1> QED BY <1>1 DEF Halves

LEMMA HalvesMultiples ==
  ASSUME NEW M, Halves(M), NEW k \in 0 .. MaxNodes, NEW x \in M[k], NEW q \in Int
  PROVE  x * q \in M[k]
<1>1. M[k] \subseteq Int /\ 0 \in M[k] /\ \A u, v \in M[k] : u + v \in M[k] /\ u - v \in M[k]
  BY DEF Halves
<1>2. x \in Int
  BY <1>1
<1> DEFINE S == M[k]
           T == {i \in Nat : x * i \in S}
<1>3. 0 \in T
  <2>1. x * 0 = 0
    BY <1>2
  <2> QED BY <1>1, <2>1
<1>4. ASSUME NEW i \in Nat, i \in T PROVE i + 1 \in T
  <2>1. x * (i + 1) = x * i + x
    BY <1>2
  <2>2. x * i \in S
    BY <1>4
  <2>3. x * i + x \in S
    <3> HIDE DEF T
    <3> QED BY <1>1, <2>2
  <2> QED BY <2>1, <2>3
<1> HIDE DEF T
<1>5. \A i \in Nat : x * i \in S
  <2>1. \A i \in Nat : i \in T
    BY <1>3, <1>4, UpTo
  <2> QED BY <2>1 DEF T
<1>6. CASE q >= 0
  BY <1>5, <1>6
<1>7. CASE q < 0
  <2>1. -q \in Nat /\ x * q = 0 - x * (-q)
    BY <1>2, <1>7
  <2>2. x * (-q) \in S
    BY <1>5, <2>1
  <2> QED BY <1>1, <2>1, <2>2
<1> QED BY <1>6, <1>7

\* How far a subtree reaches over and under its top node.
Extents(S) == {x \in [top : S, bottom : S] : x.top <= 0 /\ 0 <= x.bottom}
\* Each subtree begins a row after the one before it ends.
Follow(o, exts, m) ==
    \A j \in 2 .. m : o[j - 1] + exts[j - 1].bottom + RowUnit <= o[j] + exts[j].top
\* Any two are a row apart.
Separate(o, exts) ==
    \A i, j \in DOMAIN exts : i < j => o[i] + exts[i].bottom + RowUnit <= o[j] + exts[j].top

\* Subtrees each after the one before are apart, any two of them.
LEMMA FollowingIsSeparate ==
  ASSUME NEW n \in Nat, NEW o \in [1 .. n -> Int], NEW exts \in [1 .. n -> Extents(Int)],
         Follow(o, exts, n)
  PROVE  Separate(o, exts)
<1> SUFFICES ASSUME NEW i \in 1 .. n
             PROVE  \A j \in 1 .. n : i < j => o[i] + exts[i].bottom + RowUnit <= o[j] + exts[j].top
  BY DEF Separate
<1>1. \A j \in 1 .. n : /\ o[j] \in Int /\ exts[j].top \in Int /\ exts[j].bottom \in Int
                        /\ exts[j].top <= 0 /\ 0 <= exts[j].bottom
  BY DEF Extents
<1>2. RowUnit \in Nat
  BY RowUnitIs
<1> DEFINE T == {d \in Nat : i + d + 1 <= n =>
                    o[i] + exts[i].bottom + RowUnit <= o[i + d + 1] + exts[i + d + 1].top}
<1>3. 0 \in T
  <2> SUFFICES ASSUME i + 1 <= n PROVE o[i] + exts[i].bottom + RowUnit <= o[i + 1] + exts[i + 1].top
    OBVIOUS
  <2>1. i + 1 \in 2 .. n /\ (i + 1) - 1 = i
    OBVIOUS
  <2> QED BY <2>1 DEF Follow
<1>4. ASSUME NEW d \in Nat, d \in T PROVE d + 1 \in T
  <2> SUFFICES ASSUME i + (d + 1) + 1 <= n
               PROVE  o[i] + exts[i].bottom + RowUnit <= o[i + (d + 1) + 1] + exts[i + (d + 1) + 1].top
    OBVIOUS
  <2> DEFINE a == i + d + 1
  <2>1. a \in 1 .. n /\ a + 1 \in 2 .. n /\ (a + 1) - 1 = a /\ i + (d + 1) + 1 = a + 1 /\ a + 1 \in 1 .. n
    OBVIOUS
  <2>2. o[i] + exts[i].bottom + RowUnit <= o[a] + exts[a].top
    BY <1>4, <2>1
  <2> HIDE DEF a
  <2>3. o[a] + exts[a].bottom + RowUnit <= o[a + 1] + exts[a + 1].top
    <3>1. o[(a + 1) - 1] + exts[(a + 1) - 1].bottom + RowUnit <= o[a + 1] + exts[a + 1].top
      BY <2>1 DEF Follow
    <3>2. (a + 1) - 1 = a
      BY <2>1
    <3> QED BY <3>1, <3>2
  <2> HIDE DEF T
  <2>4. o[i] + exts[i].bottom + RowUnit <= o[a + 1] + exts[a + 1].top
    <3> DEFINE c == a + 1
    <3>1. a \in 1 .. n /\ c \in 1 .. n
      BY <2>1
    <3> HIDE DEF c
    <3>2. o[i] \in Int /\ exts[i].bottom \in Int
      BY <1>1
    <3>3. /\ o[a] \in Int /\ exts[a].top \in Int /\ exts[a].bottom \in Int
          /\ exts[a].top <= 0 /\ 0 <= exts[a].bottom
      BY <1>1, <3>1
    <3>4. o[c] \in Int /\ exts[c].top \in Int
      BY <1>1, <3>1
    <3>5. o[a] + exts[a].bottom + RowUnit <= o[c] + exts[c].top
      BY <2>3 DEF c
    <3>6. o[i] + exts[i].bottom + RowUnit <= o[c] + exts[c].top
      <4>1. \A x, w, t, b, z, r, y \in Int :
               w <= 0 /\ 0 <= b /\ x + r <= t + w /\ t + b + r <= y + z /\ 0 <= r => x + r <= y + z
        OBVIOUS
      <4>2. /\ o[i] + exts[i].bottom \in Int /\ o[a] \in Int /\ exts[a].top \in Int
            /\ exts[a].bottom \in Int /\ exts[a].top <= 0 /\ 0 <= exts[a].bottom
            /\ o[c] \in Int /\ exts[c].top \in Int /\ RowUnit \in Int /\ 0 <= RowUnit
        BY <1>2, <3>2, <3>3, <3>4
      <4> QED BY <2>2, <3>5, <4>1, <4>2
    <3> QED BY <3>6 DEF c
  <2> QED BY <2>1, <2>4
<1> HIDE DEF T
<1>5. ASSUME NEW j \in 1 .. n, i < j
      PROVE  o[i] + exts[i].bottom + RowUnit <= o[j] + exts[j].top
  <2>1. j - i - 1 \in Nat /\ i + (j - i - 1) + 1 = j
    BY <1>5
  <2>2. j - i - 1 \in T
    BY <1>3, <1>4, <2>1, UpTo
  <2> QED BY <2>1, <2>2 DEF T
<1> QED BY <1>5

\* Moving a subtree that is too close, with all after it, parts the two.
PushOne(o, exts, i) ==
    LET overlap == o[i] + exts[i].bottom + RowUnit - (o[i + 1] + exts[i + 1].top)
    IN [j \in DOMAIN exts |-> IF j > i /\ overlap > 0 THEN o[j] + overlap ELSE o[j]]
LEMMA PushParts ==
  ASSUME NEW M, Halves(M), NEW k \in 1 .. MaxNodes, NEW n \in Nat,
         NEW exts \in [1 .. n -> Extents(M[k])], NEW o \in [1 .. n -> M[k]], NEW i \in 1 .. n - 1
  PROVE  /\ PushOne(o, exts, i) \in [1 .. n -> M[k]]
         /\ Follow(o, exts, i) => Follow(PushOne(o, exts, i), exts, i + 1)
<1> DEFINE S == M[k]
           overlap == o[i] + exts[i].bottom + RowUnit - (o[i + 1] + exts[i + 1].top)
           q == PushOne(o, exts, i)
<1>1. S \subseteq Int /\ \A x, y \in S : x + y \in S /\ x - y \in S
  BY HalvesAt, HalvesBelow
<1>2. RowUnit \in S
  BY HalvesAt, HalvesBelow
<1>3. \A j \in 1 .. n : exts[j].top \in S /\ exts[j].bottom \in S /\ o[j] \in S
  BY DEF Extents
<1>4. i \in 1 .. n /\ i + 1 \in 1 .. n
  OBVIOUS
<1> HIDE DEF S
<1>5. overlap \in S
  <2>1. o[i] + exts[i].bottom \in S
    BY <1>1, <1>3, <1>4
  <2>2. o[i + 1] + exts[i + 1].top \in S
    BY <1>1, <1>3, <1>4
  <2>3. RowUnit - (o[i + 1] + exts[i + 1].top) \in S
    BY <1>1, <1>2, <2>2
  <2> QED BY <1>1, <2>1, <2>3
<1>6. q = [j \in 1 .. n |-> IF j > i /\ overlap > 0 THEN o[j] + overlap ELSE o[j]]
  BY DEF PushOne
<1> HIDE DEF q
<1>7. q \in [1 .. n -> S]
  <2> HIDE DEF overlap
  <2>1. \A j \in 1 .. n : o[j] + overlap \in S /\ o[j] \in S
    BY <1>1, <1>3, <1>5
  <2> QED BY <1>6, <2>1
<1>8. ASSUME Follow(o, exts, i) PROVE Follow(q, exts, i + 1)
  <2> SUFFICES ASSUME NEW j \in 2 .. i + 1
               PROVE  q[j - 1] + exts[j - 1].bottom + RowUnit <= q[j] + exts[j].top
    BY DEF Follow
  <2>1. CASE j # i + 1
    <3>1. j \in 2 .. i /\ j \in 1 .. n /\ j - 1 \in 1 .. n /\ ~ (j > i) /\ ~ (j - 1 > i)
      BY <2>1
    <3>2. o[j - 1] + exts[j - 1].bottom + RowUnit <= o[j] + exts[j].top
      BY <1>8, <3>1 DEF Follow
    <3>3. q[j] = o[j] /\ q[j - 1] = o[j - 1]
      BY <1>6, <3>1
    <3> QED BY <3>2, <3>3
  <2>2. CASE j = i + 1
    <3>1. j - 1 = i /\ ~ (i > i) /\ i + 1 > i
      BY <2>2
    <3>2. q[i] = o[i] /\ q[i + 1] = IF overlap > 0 THEN o[i + 1] + overlap ELSE o[i + 1]
      BY <1>4, <1>6, <3>1
    <3>3. /\ o[i] \in Int /\ exts[i].bottom \in Int /\ o[i + 1] \in Int /\ exts[i + 1].top \in Int
          /\ RowUnit \in Int
      BY <1>1, <1>2, <1>3, <1>4
    <3>4. \A a, b, r, c, t \in Int :
             LET w == a + b + r - (c + t)
             IN  a + b + r <= (IF w > 0 THEN c + w ELSE c) + t
      OBVIOUS
    <3>5. o[i] + exts[i].bottom + RowUnit <= q[i + 1] + exts[i + 1].top
      BY <3>2, <3>3, <3>4
    <3>6. q[j] = q[i + 1] /\ q[j - 1] = o[i] /\ exts[j - 1] = exts[i] /\ exts[j] = exts[i + 1]
      BY <2>2, <3>1, <3>2
    <3> QED BY <3>5, <3>6
  <2> QED BY <2>1, <2>2
<1> QED BY <1>7, <1>8 DEF S, q

\* The offsets of two subtrees, and of three or more.
Offsets(o, exts, S) ==
    /\ o \in [DOMAIN exts -> S] /\ Separate(o, exts)
    /\ Len(exts) = 1 => o[1] = 0
    /\ Len(exts) = 2 => o[1] + o[2] = 0

\* Two subtrees lie as far above as below their parent, a row apart.
LEMMA TwoOffsets ==
  ASSUME NEW M, Halves(M), NEW k \in 1 .. MaxNodes, NEW exts \in Seq(Extents(M[k])), Len(exts) = 2
  PROVE  Offsets(symmetricTwoChildOffsets(exts), exts, M[k - 1])
<1> DEFINE x == exts[1].bottom - exts[2].top + RowUnit
           half == GreatestOf({RowUnit, x \div 2})
<1>1. /\ M[k] \subseteq Int /\ \A a, b \in M[k] : a + b \in M[k] /\ a - b \in M[k]
      /\ M[k - 1] \subseteq Int /\ 0 \in M[k - 1] /\ \A a, b \in M[k - 1] : a - b \in M[k - 1]
      /\ M[k] \subseteq M[k - 1] /\ \A a \in M[k] : a \div 2 \in M[k - 1] /\ 2 * (a \div 2) = a
  BY HalvesAt, HalvesBelow
<1>2. RowUnit \in M[k]
  BY HalvesAt, HalvesBelow
<1>3. /\ exts[1].bottom \in M[k] /\ exts[1].top \in M[k]
      /\ exts[2].bottom \in M[k] /\ exts[2].top \in M[k]
  BY DEF Extents
<1>4. x \in M[k]
  <2>1. exts[1].bottom - exts[2].top \in M[k]
    BY <1>1, <1>3
  <2> QED BY <1>1, <1>2, <2>1
<1>5. symmetricTwoChildOffsets(exts) = <<-half, half>>
  BY DEF symmetricTwoChildOffsets
<1>6. x \in Int /\ RowUnit \in Int /\ x \div 2 \in Int /\ 2 * (x \div 2) = x /\ x \div 2 \in M[k - 1]
  BY <1>1, <1>2, <1>4
<1>7. half \in {RowUnit, x \div 2} /\ x \div 2 <= half
  <2> HIDE DEF x
  <2> QED BY <1>6, GreaterOfTwo
<1>8. half \in M[k - 1] /\ half \in Int
  BY <1>1, <1>2, <1>6, <1>7
<1> HIDE DEF half
<1>9. -half \in M[k - 1]
  <2>1. 0 - half \in M[k - 1] /\ -half = 0 - half
    BY <1>1, <1>8
  <2> QED BY <2>1
<1>10. -half + exts[1].bottom + RowUnit <= half + exts[2].top
  <2>1. \A h, b, t, r, d \in Int : d <= h /\ 2 * d = b - t + r => -h + b + r <= h + t
    OBVIOUS
  <2>2. exts[1].bottom \in Int /\ exts[2].top \in Int
    BY <1>1, <1>3
  <2> QED BY <1>6, <1>7, <1>8, <2>1, <2>2
<1> DEFINE o == <<-half, half>>
<1>11. DOMAIN exts = 1 .. 2 /\ o \in [1 .. 2 -> M[k - 1]] /\ o[1] = -half /\ o[2] = half
  BY <1>8, <1>9
<1> HIDE DEF o
<1>12. Separate(o, exts)
  <2> SUFFICES ASSUME NEW i \in 1 .. 2, NEW j \in 1 .. 2, i < j
               PROVE  o[i] + exts[i].bottom + RowUnit <= o[j] + exts[j].top
    BY <1>11 DEF Separate
  <2>1. i = 1 /\ j = 2
    OBVIOUS
  <2> QED BY <1>10, <1>11, <2>1
<1>13. o[1] + o[2] = 0
  BY <1>8, <1>11
<1> QED BY <1>5, <1>11, <1>12, <1>13 DEF Offsets, o

\* More are pushed apart from the first on, and then moved together.
LEMMA RelaxedOffsets ==
  ASSUME NEW M, Halves(M), NEW k \in 1 .. MaxNodes, NEW exts \in Seq(Extents(M[k])), Len(exts) > 2
  PROVE  Offsets(relaxedSpineChildOffsets(exts), exts, M[k - 1])
<1> DEFINE n == Len(exts)
           S == M[k]
           first == symmetricRowOffsets(n)
           E(f, i) == IF i = 0 THEN first ELSE PushOne(f[i - 1], exts, i)
           IsPushed(f) == f = [i \in 0 .. n - 1 |-> E(f, i)]
           pushed == CHOOSE f : IsPushed(f)
           placed == pushed[n - 1]
           top == LeastOf({placed[i] + exts[i].top : i \in 1 .. n})
           bottom == GreatestOf({placed[i] + exts[i].bottom : i \in 1 .. n})
           middle == (top + bottom) \div 2
           o == relaxedSpineChildOffsets(exts)
<1>1. n \in Nat /\ n > 2 /\ DOMAIN exts = 1 .. n /\ exts \in [1 .. n -> Extents(S)]
  OBVIOUS
<1>2. o = [i \in 1 .. n |-> placed[i] - middle]
  BY <1>1 DEF relaxedSpineChildOffsets, PushOne
<1>3. /\ S \subseteq Int /\ RowUnit \in S /\ \A x, y \in S : x + y \in S /\ x - y \in S
      /\ M[k - 1] \subseteq Int /\ \A x, y \in M[k - 1] : x - y \in M[k - 1]
      /\ S \subseteq M[k - 1] /\ \A x \in S : x \div 2 \in M[k - 1]
  BY HalvesAt, HalvesBelow
<1>4. \A q \in Int : RowUnit * q \in S
  BY <1>3, HalvesMultiples, HalvesBelow
<1> HIDE DEF n, S
<1>5. first \in [1 .. n -> S]
  <2> DEFINE side == n \div 2
             way(i) == IF n % 2 = 1 \/ i - 1 < side THEN i - 1 - side ELSE i - side
  <2>1. first = [i \in 1 .. n |-> RowUnit * way(i)]
    BY DEF symmetricRowOffsets
  <2>2. side \in Int
    BY <1>1
  <2> HIDE DEF side
  <2>3. \A i \in 1 .. n : way(i) \in Int
    BY <1>1, <2>2
  <2> HIDE DEF way, first
  <2> QED BY <1>4, <2>1, <2>3
<1> HIDE DEF first
<1>6. n - 1 \in Nat /\ \A i \in 1 .. n - 1 : i \in 0 .. n - 1 /\ i # 0
  BY <1>1
<1>7. \A p \in [1 .. n -> S], i \in 1 .. n - 1 :
         /\ PushOne(p, exts, i) \in [1 .. n -> S]
         /\ Follow(p, exts, i) => Follow(PushOne(p, exts, i), exts, i + 1)
  BY <1>1, PushParts DEF S
<1>8. \E f : IsPushed(f)
  <2> DEFINE O == [1 .. n -> S]
             step == [i \in 1 .. n - 1 |-> [p \in O |-> PushOne(p, exts, i)]]
  <2>1. \A p \in O, i \in 1 .. n - 1 : PushOne(p, exts, i) \in O
    BY <1>7
  <2>2. first \in O
    BY <1>5
  <2> HIDE DEF O
  <2>3. step \in [1 .. n - 1 -> [O -> O]]
    BY <2>1
  <2> HIDE DEF step
  <2> PICK f : Steps(f, n - 1, O, first, step)
    BY <1>6, <2>2, <2>3, Recursion
  <2>4. f \in [0 .. n - 1 -> O] /\ f[0] = first /\ \A i \in 1 .. n - 1 : f[i] = step[i][f[i - 1]]
    BY DEF Steps
  <2>5. ASSUME NEW i \in 1 .. n - 1 PROVE f[i] = PushOne(f[i - 1], exts, i)
    <3>1. i - 1 \in 0 .. n - 1
      BY <1>1
    <3>2. f[i - 1] \in O
      BY <2>4, <3>1
    <3> QED BY <2>4, <3>2 DEF step
  <2>6. \A i \in 0 .. n - 1 : i = 0 \/ i \in 1 .. n - 1
    BY <1>1
  <2>7. \A i \in 0 .. n - 1 : f[i] = E(f, i)
    BY <2>4, <2>5, <2>6
  <2> HIDE DEF E
  <2>8. f = [i \in 0 .. n - 1 |-> E(f, i)]
    BY <2>4, <2>7
  <2> QED BY <2>8
<1>9. IsPushed(pushed)
  BY <1>8
<1>10. pushed[0] = first /\ \A i \in 1 .. n - 1 : pushed[i] = PushOne(pushed[i - 1], exts, i)
  <2>1. 0 \in 0 .. n - 1
    BY <1>6
  <2> HIDE DEF pushed
  <2> QED BY <1>6, <1>9, <2>1
<1> HIDE DEF pushed, E
<1>11. placed \in [1 .. n -> S] /\ Follow(placed, exts, n)
  <2> DEFINE T == {i \in Nat : i <= n - 1 => pushed[i] \in [1 .. n -> S] /\ Follow(pushed[i], exts, i + 1)}
  <2>1. 0 \in T
    <3>1. Follow(pushed[0], exts, 0 + 1)
      BY DEF Follow
    <3> QED BY <1>5, <1>10, <3>1
  <2>2. ASSUME NEW i \in Nat, i \in T PROVE i + 1 \in T
    <3> SUFFICES ASSUME i + 1 <= n - 1
                 PROVE  pushed[i + 1] \in [1 .. n -> S] /\ Follow(pushed[i + 1], exts, (i + 1) + 1)
      OBVIOUS
    <3>1. i + 1 \in 1 .. n - 1 /\ (i + 1) - 1 = i /\ i <= n - 1
      BY <1>1
    <3>2. pushed[i] \in [1 .. n -> S] /\ Follow(pushed[i], exts, i + 1)
      BY <2>2, <3>1
    <3>3. pushed[i + 1] = PushOne(pushed[i], exts, i + 1)
      BY <1>10, <3>1
    <3> QED BY <1>7, <3>1, <3>2, <3>3
  <2> HIDE DEF T
  <2>3. n - 1 \in T
    BY <1>6, <2>1, <2>2, UpTo
  <2>4. (n - 1) + 1 = n
    BY <1>1
  <2> QED BY <1>6, <2>3, <2>4 DEF T
<1> HIDE DEF placed
<1>12. \A i \in 1 .. n : placed[i] \in S /\ exts[i].top \in S /\ exts[i].bottom \in S
  BY <1>1, <1>11 DEF Extents
<1>13. top \in S
  <2> DEFINE f == [i \in 1 .. n |-> placed[i] + exts[i].top]
  <2>1. f \in [1 .. n -> S]
    BY <1>3, <1>12
  <2>2. {placed[i] + exts[i].top : i \in 1 .. n} = Range(f)
    BY DEF Range
  <2> HIDE DEF f
  <2>3. LeastOf(Range(f)) \in S
    <3>1. n \in Nat \ {0} /\ S \in SUBSET Int
      BY <1>1, <1>3
    <3> QED BY <2>1, <3>1, Extremes
  <2> QED BY <2>2, <2>3
<1>14. bottom \in S
  <2> DEFINE f == [i \in 1 .. n |-> placed[i] + exts[i].bottom]
  <2>1. f \in [1 .. n -> S]
    BY <1>3, <1>12
  <2>2. {placed[i] + exts[i].bottom : i \in 1 .. n} = Range(f)
    BY DEF Range
  <2> HIDE DEF f
  <2>3. GreatestOf(Range(f)) \in S
    <3>1. n \in Nat \ {0} /\ S \in SUBSET Int
      BY <1>1, <1>3
    <3> QED BY <2>1, <3>1, Extremes
  <2> QED BY <2>2, <2>3
<1> HIDE DEF top, bottom
<1>15. middle \in M[k - 1] /\ middle \in Int
  <2>1. top + bottom \in S
    BY <1>3, <1>13, <1>14
  <2> QED BY <1>3, <2>1
<1> HIDE DEF middle, o
<1>16. o \in [1 .. n -> M[k - 1]]
  <2>1. \A i \in 1 .. n : placed[i] - middle \in M[k - 1]
    BY <1>3, <1>12, <1>15
  <2> QED BY <1>2, <2>1
<1>17. Separate(o, exts)
  <2>1. placed \in [1 .. n -> Int] /\ exts \in [1 .. n -> Extents(Int)]
    <3>1. Extents(S) \subseteq Extents(Int)
      BY <1>3 DEF Extents
    <3>2. placed \in [1 .. n -> Int]
      BY <1>3, <1>11
    <3> QED BY <1>1, <3>1, <3>2
  <2>2. Separate(placed, exts)
    BY <1>1, <1>11, <2>1, FollowingIsSeparate
  <2> SUFFICES ASSUME NEW i \in 1 .. n, NEW j \in 1 .. n, i < j
               PROVE  o[i] + exts[i].bottom + RowUnit <= o[j] + exts[j].top
    BY <1>1 DEF Separate
  <2>3. placed[i] + exts[i].bottom + RowUnit <= placed[j] + exts[j].top
    BY <1>1, <2>2 DEF Separate
  <2>4. o[i] = placed[i] - middle /\ o[j] = placed[j] - middle
    BY <1>2
  <2>5. /\ placed[i] \in Int /\ placed[j] \in Int /\ exts[i].bottom \in Int /\ exts[j].top \in Int
        /\ RowUnit \in Int
    BY <1>3, <1>12
  <2>6. \A a, b, r, c, t, m \in Int : a + b + r <= c + t => (a - m) + b + r <= (c - m) + t
    OBVIOUS
  <2> QED BY <1>15, <2>3, <2>4, <2>5, <2>6
<1> QED BY <1>1, <1>16, <1>17 DEF Offsets, o, n

\* In rows of their own, and under their parent.
LEMMA SpineOffsets ==
  ASSUME NEW M, Halves(M), NEW k \in 1 .. MaxNodes, NEW exts \in Seq(Extents(M[k]))
  PROVE  Offsets(spineChildOffsets(exts), exts, M[k - 1])
<1>1. Len(exts) \in Nat /\ DOMAIN exts = 1 .. Len(exts)
  OBVIOUS
<1>2. CASE Len(exts) < 2
  <2>1. spineChildOffsets(exts) = [i \in DOMAIN exts |-> 0]
    BY <1>2 DEF spineChildOffsets
  <2>2. 0 \in M[k - 1]
    BY HalvesAt, HalvesBelow
  <2>3. \A i, j \in DOMAIN exts : ~ (i < j)
    BY <1>1, <1>2
  <2> QED BY <1>1, <1>2, <2>1, <2>2, <2>3 DEF Offsets, Separate
<1>3. CASE Len(exts) = 2
  <2>1. spineChildOffsets(exts) = symmetricTwoChildOffsets(exts)
    BY <1>3 DEF spineChildOffsets
  <2> QED BY <1>3, <2>1, TwoOffsets
<1>4. CASE Len(exts) > 2
  <2>1. spineChildOffsets(exts) = relaxedSpineChildOffsets(exts)
    BY <1>1, <1>4 DEF spineChildOffsets
  <2> QED BY <1>4, <2>1, RelaxedOffsets
<1> QED BY <1>1, <1>2, <1>3, <1>4

\* What a node reaches holds what its children reach from where they lie.
LEMMA AroundIs ==
  ASSUME NEW M, Halves(M), NEW k \in 1 .. MaxNodes, NEW exts \in Seq(Extents(M[k]))
  PROVE  /\ Around(exts) \in Extents(M[k - 1])
         /\ \A i \in DOMAIN exts :
               /\ Around(exts).top <= spineChildOffsets(exts)[i] + exts[i].top
               /\ spineChildOffsets(exts)[i] + exts[i].bottom <= Around(exts).bottom
<1> DEFINE n == Len(exts)
           o == spineChildOffsets(exts)
           S == M[k - 1]
           Tops == {0} \cup {o[i] + exts[i].top : i \in 1 .. n}
           Bottoms == {0} \cup {o[i] + exts[i].bottom : i \in 1 .. n}
<1>1. n \in Nat /\ DOMAIN exts = 1 .. n
  OBVIOUS
<1>2. /\ M[k] \subseteq S /\ S \subseteq Int /\ 0 \in S /\ \A x, y \in S : x + y \in S
  BY HalvesAt, HalvesBelow
<1>3. o \in [1 .. n -> S]
  BY <1>1, SpineOffsets DEF Offsets
<1>4. \A i \in 1 .. n : exts[i].top \in M[k] /\ exts[i].bottom \in M[k]
  BY <1>1 DEF Extents
<1>5. Around(exts) = [top |-> LeastOf(Tops), bottom |-> GreatestOf(Bottoms)]
  BY <1>1 DEF Around, Reach
<1> HIDE DEF n, o, S
<1>6. \A i \in 1 .. n : o[i] + exts[i].top \in S /\ o[i] + exts[i].bottom \in S
  BY <1>2, <1>3, <1>4
<1>7. LeastOf(Tops) \in Tops /\ \A s \in Tops : LeastOf(Tops) <= s
  <2> DEFINE f == [i \in 1 .. n |-> o[i] + exts[i].top]
  <2>1. f \in [1 .. n -> Int]
    BY <1>2, <1>6
  <2> HIDE DEF f
  <2>2. PICK b \in Nat : \A i \in 1 .. n : -b <= f[i] /\ f[i] <= b
    BY <1>1, <2>1, Bounded
  <2>3. -b \in Int /\ Tops # {}
    OBVIOUS
  <2>4. Tops \in SUBSET Int
    <3>1. \A i \in 1 .. n : o[i] + exts[i].top \in Int
      BY <1>2, <1>6
    <3> QED BY <3>1
  <2>5. \A i \in 1 .. n : -b <= o[i] + exts[i].top
    BY <2>2 DEF f
  <2>6. \A s \in Tops : -b <= s
    BY <2>5
  <2> HIDE DEF Tops
  <2> QED BY <2>3, <2>4, <2>6, LeastIs
<1>8. GreatestOf(Bottoms) \in Bottoms /\ \A s \in Bottoms : s <= GreatestOf(Bottoms)
  <2> DEFINE f == [i \in 1 .. n |-> o[i] + exts[i].bottom]
  <2>1. f \in [1 .. n -> Int]
    BY <1>2, <1>6
  <2> HIDE DEF f
  <2>2. PICK b \in Nat : \A i \in 1 .. n : -b <= f[i] /\ f[i] <= b
    BY <1>1, <2>1, Bounded
  <2>3. b \in Int /\ Bottoms # {}
    OBVIOUS
  <2>4. Bottoms \in SUBSET Int
    <3>1. \A i \in 1 .. n : o[i] + exts[i].bottom \in Int
      BY <1>2, <1>6
    <3> QED BY <3>1
  <2>5. \A i \in 1 .. n : o[i] + exts[i].bottom <= b
    BY <2>2 DEF f
  <2>6. \A s \in Bottoms : s <= b
    BY <2>5
  <2> HIDE DEF Bottoms
  <2> QED BY <2>3, <2>4, <2>6, GreatestIs
<1>9. Tops \subseteq S /\ Bottoms \subseteq S
  <2>1. Tops \subseteq S
    BY <1>2, <1>6
  <2>2. Bottoms \subseteq S
    BY <1>2, <1>6
  <2> QED BY <2>1, <2>2
<1>10. 0 \in Tops /\ 0 \in Bottoms
  OBVIOUS
<1>11. \A i \in 1 .. n : o[i] + exts[i].top \in Tops /\ o[i] + exts[i].bottom \in Bottoms
  OBVIOUS
<1> HIDE DEF Tops, Bottoms
<1>12. /\ Around(exts).top = LeastOf(Tops) /\ Around(exts).bottom = GreatestOf(Bottoms)
       /\ Around(exts) = [top |-> Around(exts).top, bottom |-> Around(exts).bottom]
  BY <1>5
<1>13. /\ Around(exts).top \in S /\ Around(exts).bottom \in S
       /\ Around(exts).top <= 0 /\ 0 <= Around(exts).bottom
  BY <1>7, <1>8, <1>9, <1>10, <1>12
<1>14. Around(exts) \in Extents(S)
  BY <1>12, <1>13 DEF Extents
<1>15. \A i \in 1 .. n : /\ Around(exts).top <= o[i] + exts[i].top
                          /\ o[i] + exts[i].bottom <= Around(exts).bottom
  BY <1>7, <1>8, <1>11, <1>12
<1> QED BY <1>1, <1>14, <1>15 DEF o, S

-----------------------------------------------------------------------------
(* The tree of a spine.                                                    *)
LEMMA ChildrenAre ==
  ASSUME NEW n \in Nat, NEW edges \in Seq(Pairs(n)), NEW v \in 1 .. n
  PROVE  /\ ChildrenOf(edges, n) \in [1 .. n -> Seq(1 .. n)] /\ Distinct(ChildrenOf(edges, n)[v])
         /\ \A c : c \in Range(ChildrenOf(edges, n)[v]) <=> c \in 1 .. n /\ <<v, c>> \in Range(edges)
<1> DEFINE all == [i \in 1 .. n |-> i]
           Kids(u) == {c \in 1 .. n : \E i \in DOMAIN edges : edges[i] = <<u, c>>}
           children == ChildrenOf(edges, n)
<1>1. children = [u \in 1 .. n |-> Among(all, Kids(u))]
  BY DEF ChildrenOf
<1>2. all \in Seq(1 .. n) /\ Distinct(all) /\ Range(all) = 1 .. n
  BY DEF Distinct, Range
<1>3. \A c : c \in Kids(v) <=> c \in 1 .. n /\ <<v, c>> \in Range(edges)
  BY DEF Range
<1>4. \A u : Kids(u) \subseteq 1 .. n
  OBVIOUS
<1> HIDE DEF all, Kids, children
<1>5. ASSUME NEW u \in 1 .. n
      PROVE  /\ Among(all, Kids(u)) \in Seq(1 .. n) /\ Distinct(Among(all, Kids(u)))
             /\ Range(Among(all, Kids(u))) = Kids(u)
  <2>1. /\ Among(all, Kids(u)) \in Seq(1 .. n \cap Kids(u))
        /\ Range(Among(all, Kids(u))) = Range(all) \cap Kids(u)
        /\ Distinct(all) => Distinct(Among(all, Kids(u)))
    BY <1>2, AmongIs
  <2>2. 1 .. n \cap Kids(u) = Kids(u)
    BY <1>4
  <2>3. Among(all, Kids(u)) \in Seq(Kids(u))
    BY <2>1, <2>2
  <2> QED BY <1>2, <1>4, <2>1, <2>2, <2>3
<1>6. children \in [1 .. n -> Seq(1 .. n)]
  BY <1>1, <1>5
<1>7. children[v] = Among(all, Kids(v))
  BY <1>1
<1> QED BY <1>3, <1>5, <1>6, <1>7 DEF children

\* Every node but the roots hangs under one node, a rank below it.
RootsOf(n, A) == Among([i \in 1 .. n |-> i], {v \in 1 .. n : \A e \in A : e[2] # v})
Forest(n, children, roots, rank) ==
    /\ n \in 0 .. MaxNodes
    /\ children \in [1 .. n -> Seq(1 .. n)] /\ \A v \in 1 .. n : Distinct(children[v])
    /\ roots \in Seq(1 .. n) /\ Distinct(roots)
    /\ rank \in [1 .. n -> Nat] /\ \A v \in 1 .. n : rank[v] < n
    /\ \A u, v, c \in 1 .. n : c \in Range(children[u]) /\ c \in Range(children[v]) => u = v
    /\ \A v, c \in 1 .. n : c \in Range(children[v]) => rank[c] = rank[v] + 1
    /\ \A v \in 1 .. n : v \in Range(roots) => rank[v] = 0
    /\ \A v \in 1 .. n : v \in Range(roots) \/ \E u \in 1 .. n : v \in Range(children[u])
SpineForest(g) ==
    LET tree == buildPrimaryTree(g)
    IN  Forest(g.nodes, ChildrenOf(tree, g.nodes), RootsOf(g.nodes, Range(tree)),
               computeDirectedRanks(g.nodes, Range(tree)))

\* Such is the tree of a spine.
LEMMA PrimaryTreeIsForest ==
  ASSUME NEW g, Drawable(g)
  PROVE  SpineForest(g)
<1> DEFINE n == g.nodes
           tree == buildPrimaryTree(g)
           A == Range(tree)
           children == ChildrenOf(tree, n)
           all == [i \in 1 .. n |-> i]
           Roots == {v \in 1 .. n : \A e \in A : e[2] # v}
           roots == RootsOf(n, A)
           rank == computeDirectedRanks(n, A)
<1>1. n \in Nat /\ n \in 0 .. MaxNodes
  BY MaxNodesIs DEF Drawable
<1>2. tree \in Seq(Pairs(n)) /\ OneParent(tree) /\ Ranked(1 .. n, A)
  BY PrimaryTreeIsRanked
<1>3. roots = Among(all, Roots)
  BY DEF RootsOf
<1> HIDE DEF n, tree
<1>4. A \in SUBSET Pairs(n)
  BY <1>2 DEF Range
<1>5. \A a, b \in A : a[2] = b[2] => a = b
  BY <1>2 DEF OneParent, Range
<1>6. /\ rank \in [1 .. n -> Nat] /\ \A a \in A : rank[a[1]] < rank[a[2]]
      /\ \A v \in 1 .. n : rank[v] < n
      /\ \A v \in 1 .. n : rank[v] = 0 \/ \E u \in Before(A, v) : rank[v] = 1 + rank[u]
  BY <1>1, <1>2, <1>4, RanksRise
<1>7. \A v \in 1 .. n : /\ children \in [1 .. n -> Seq(1 .. n)] /\ Distinct(children[v])
                        /\ \A c : c \in Range(children[v]) <=> c \in 1 .. n /\ <<v, c>> \in A
  BY <1>1, <1>2, ChildrenAre
<1>8. children \in [1 .. n -> Seq(1 .. n)]
  <2>1. CASE n = 0
    <3>1. 1 .. n = {}
      BY <2>1
    <3>2. children = [v \in 1 .. n |-> Among(all, {c \in 1 .. n : \E i \in DOMAIN tree : tree[i] = <<v, c>>})]
      BY DEF ChildrenOf
    <3> QED BY <3>1, <3>2
  <2>2. CASE n # 0
    <3>1. 1 \in 1 .. n
      BY <1>1, <2>2
    <3> QED BY <1>7, <3>1
  <2> QED BY <2>1, <2>2
<1>9. roots \in Seq(1 .. n) /\ Distinct(roots) /\ Range(roots) = Roots
  <2>1. all \in Seq(1 .. n) /\ Distinct(all) /\ Range(all) = 1 .. n
    BY <1>1 DEF Distinct, Range
  <2>2. Roots \subseteq 1 .. n
    OBVIOUS
  <2> HIDE DEF all, Roots, roots
  <2>3. roots \in Seq(1 .. n \cap Roots) /\ Range(roots) = Range(all) \cap Roots /\ Distinct(roots)
    BY <1>3, <2>1, AmongIs
  <2>4. 1 .. n \cap Roots = Roots
    BY <2>2
  <2>5. Range(roots) = Roots
    BY <2>1, <2>3, <2>4
  <2>6. roots \in Seq(Roots)
    BY <2>3, <2>4
  <2>7. roots \in Seq(1 .. n)
    BY <2>2, <2>6, SeqMonotonic
  <2> QED BY <2>3, <2>5, <2>7
<1> HIDE DEF A, children, roots, rank
<1>10. \A u, v, c \in 1 .. n : c \in Range(children[u]) /\ c \in Range(children[v]) => u = v
  <2>1. \A u, v, c \in 1 .. n : <<u, c>> \in A /\ <<v, c>> \in A => u = v
    BY <1>5
  <2> QED BY <1>7, <2>1
<1>11. ASSUME NEW v \in 1 .. n, NEW c \in 1 .. n, c \in Range(children[v]) PROVE rank[c] = rank[v] + 1
  <2>1. <<v, c>> \in A
    BY <1>7, <1>11
  <2>2. \A u \in Before(A, c) : u = v
    BY <1>5, <2>1 DEF Before
  <2>3. rank[v] \in Nat /\ rank[c] \in Nat /\ rank[v] < rank[c]
    BY <1>6, <2>1
  <2>4. rank[c] # 0
    BY <2>3
  <2>5. rank[c] = 1 + rank[v]
    BY <1>6, <2>2, <2>4
  <2> QED BY <2>3, <2>5
<1>12. ASSUME NEW v \in 1 .. n, v \in Range(roots) PROVE rank[v] = 0
  <2>1. \A e \in A : e[2] # v
    BY <1>9, <1>12
  <2>2. Before(A, v) = {}
    BY <2>1 DEF Before
  <2> QED BY <1>6, <2>2
<1>13. ASSUME NEW v \in 1 .. n, v \notin Range(roots)
       PROVE  \E u \in 1 .. n : v \in Range(children[u])
  <2>1. PICK e \in A : e[2] = v
    BY <1>9, <1>13
  <2>2. e[1] \in 1 .. n /\ e = <<e[1], e[2]>>
    BY <1>4 DEF Pairs
  <2> QED BY <1>7, <2>1, <2>2
<1>14. Forest(n, children, roots, rank)
  BY <1>1, <1>6, <1>7, <1>8, <1>9, <1>10, <1>11, <1>12, <1>13 DEF Forest
<1> QED BY <1>14 DEF SpineForest, n, tree, A, children, roots, rank

\* What the children of a node are given by a function.
KidsOf(children, f, v) == [i \in DOMAIN children[v] |-> f[children[v][i]]]

\* They depend on the function at the children only, and are in its range.
LEMMA KidsAgree ==
  ASSUME NEW children, NEW f, NEW h, NEW v,
         \A c \in Range(children[v]) : f[c] = h[c]
  PROVE  KidsOf(children, f, v) = KidsOf(children, h, v)
<1>1. \A i \in DOMAIN children[v] : f[children[v][i]] = h[children[v][i]]
  BY DEF Range
<1> QED BY <1>1 DEF KidsOf

LEMMA KidsAre ==
  ASSUME NEW X, NEW Y, NEW children, NEW f, NEW v, children[v] \in Seq(Y),
         \A c \in Range(children[v]) : f[c] \in X
  PROVE  KidsOf(children, f, v) \in Seq(X)
<1>1. Len(children[v]) \in Nat /\ DOMAIN children[v] = 1 .. Len(children[v])
  OBVIOUS
<1>2. \A i \in 1 .. Len(children[v]) : f[children[v][i]] \in X
  BY <1>1 DEF Range
<1>3. KidsOf(children, f, v) = [i \in 1 .. Len(children[v]) |-> f[children[v][i]]]
  BY <1>1 DEF KidsOf
<1> QED BY <1>1, <1>2, <1>3

LEMMA KidsLen ==
  ASSUME NEW Y, NEW children, NEW f, NEW v, children[v] \in Seq(Y)
  PROVE  Len(KidsOf(children, f, v)) = Len(children[v])
<1>1. Len(children[v]) \in Nat /\ DOMAIN children[v] = 1 .. Len(children[v])
  OBVIOUS
<1>2. KidsOf(children, f, v) = [i \in 1 .. Len(children[v]) |-> f[children[v][i]]]
  BY <1>1 DEF KidsOf
<1> QED BY <1>1, <1>2

\* A subtree reaches as far as its children's do, from where they lie.
LEMMA ExtentsAre ==
  ASSUME NEW M, Halves(M), NEW n, NEW children, NEW roots, NEW rank,
         Forest(n, children, roots, rank)
  PROVE  LET extent == computeRelativeSpineExtent(children)
         IN  \A v \in 1 .. n : /\ extent[v] = Around(KidsOf(children, extent, v))
                               /\ extent[v] \in Extents(M[rank[v]])
<1> DEFINE V == 1 .. n
           IsExtent(f) == f = [v \in V |-> Around(KidsOf(children, f, v))]
           extent == CHOOSE f : IsExtent(f)
<1>1. n \in Nat /\ n <= MaxNodes
  BY MaxNodesIs DEF Forest
<1>2. /\ DOMAIN children = V
      /\ \A v \in V : children[v] \in Seq(V) /\ rank[v] \in Nat /\ rank[v] < n
      /\ \A v \in V : \A c \in Range(children[v]) : c \in V /\ rank[c] = rank[v] + 1
  <2>1. \A v \in V : \A c \in Range(children[v]) : c \in V
    BY DEF Forest, Range
  <2> QED BY <2>1 DEF Forest
<1>3. computeRelativeSpineExtent(children) = extent
  BY <1>2 DEF computeRelativeSpineExtent, KidsOf
<1> HIDE DEF V
<1>4. \E f : IsExtent(f)
  <2> DEFINE Good(f, k) == \A v \in V : rank[v] >= n - k => f[v] = Around(KidsOf(children, f, v))
             T == {k \in Nat : \E f : Good(f, k)}
  <2>1. 0 \in T
    <3>1. \A v \in V : ~ (rank[v] >= n - 0)
      BY <1>1, <1>2
    <3>2. Good(0, 0)
      BY <3>1
    <3> QED BY <3>2
  <2>2. ASSUME NEW k \in Nat, k \in T PROVE k + 1 \in T
    <3>1. PICK f : Good(f, k)
      BY <2>2
    <3> DEFINE h == [v \in V |-> IF rank[v] >= n - k THEN f[v] ELSE Around(KidsOf(children, f, v))]
    <3>2. ASSUME NEW v \in V, rank[v] >= n - (k + 1) PROVE h[v] = Around(KidsOf(children, h, v))
      <4>1. \A c \in Range(children[v]) : c \in V /\ rank[c] >= n - k
        BY <1>1, <1>2, <3>2
      <4>2. \A c \in Range(children[v]) : f[c] = h[c]
        BY <4>1
      <4>3. h[v] = Around(KidsOf(children, f, v))
        BY <3>1
      <4> HIDE DEF h
      <4>4. KidsOf(children, f, v) = KidsOf(children, h, v)
        BY <4>2, KidsAgree
      <4> QED BY <4>3, <4>4
    <3> HIDE DEF h
    <3>3. Good(h, k + 1)
      BY <3>2
    <3> HIDE DEF Good
    <3> QED BY <3>3
  <2> HIDE DEF T
  <2>3. n \in T
    BY <1>1, <2>1, <2>2, UpTo
  <2>4. PICK f : Good(f, n)
    BY <2>3 DEF T
  <2> DEFINE h == [v \in V |-> f[v]]
  <2>5. ASSUME NEW v \in V PROVE h[v] = Around(KidsOf(children, h, v))
    <3>1. rank[v] >= n - n
      BY <1>1, <1>2
    <3>2. \A c \in Range(children[v]) : f[c] = h[c]
      BY <1>2
    <3>3. h[v] = f[v] /\ f[v] = Around(KidsOf(children, f, v))
      BY <2>4, <3>1
    <3> HIDE DEF h
    <3>4. KidsOf(children, f, v) = KidsOf(children, h, v)
      BY <3>2, KidsAgree
    <3> QED BY <3>3, <3>4
  <2>6. h = [v \in V |-> h[v]]
    OBVIOUS
  <2> HIDE DEF h
  <2>7. IsExtent(h)
    BY <2>5, <2>6
  <2> QED BY <2>7
<1>5. \A v \in V : extent[v] = Around(KidsOf(children, extent, v))
  <2>1. IsExtent(extent)
    BY <1>4
  <2> HIDE DEF extent
  <2> QED BY <2>1
<1> HIDE DEF extent
<1>6. \A v \in V : extent[v] \in Extents(M[rank[v]])
  <2> DEFINE T == {k \in Nat : \A v \in V : rank[v] >= n - k => extent[v] \in Extents(M[rank[v]])}
  <2>1. 0 \in T
    <3>1. \A v \in V : ~ (rank[v] >= n - 0)
      BY <1>1, <1>2
    <3> QED BY <3>1
  <2>2. ASSUME NEW k \in Nat, k \in T PROVE k + 1 \in T
    <3> SUFFICES ASSUME NEW v \in V, rank[v] >= n - (k + 1) PROVE extent[v] \in Extents(M[rank[v]])
      OBVIOUS
    <3> DEFINE r == rank[v] + 1
    <3>1. r \in 1 .. MaxNodes /\ r - 1 = rank[v]
      BY <1>1, <1>2, MaxNodesIs
    <3>2. \A c \in Range(children[v]) : c \in V /\ rank[c] = r /\ rank[c] >= n - k
      BY <1>1, <1>2
    <3> HIDE DEF r
    <3>3. \A c \in Range(children[v]) : extent[c] \in Extents(M[r])
      BY <2>2, <3>2
    <3>4. KidsOf(children, extent, v) \in Seq(Extents(M[r]))
      BY <1>2, <3>3, KidsAre
    <3>5. Around(KidsOf(children, extent, v)) \in Extents(M[r - 1])
      BY <3>1, <3>4, AroundIs
    <3> QED BY <1>5, <3>1, <3>5
  <2> HIDE DEF T
  <2>3. n \in T
    BY <1>1, <2>1, <2>2, UpTo
  <2>4. \A v \in V : rank[v] >= n - n
    BY <1>1, <1>2
  <2> QED BY <2>3, <2>4 DEF T
<1> QED BY <1>3, <1>5, <1>6 DEF V

\* Where the rows of the roots begin.
TopRow(roots, extent) ==
    CHOOSE f : f = [i \in 0 .. Len(roots) |->
        IF i = 0 THEN 0
        ELSE f[i - 1] + extent[roots[i]].bottom - extent[roots[i]].top + 2 * RowUnit]
\* Each begins two rows after the end of the one before.
LEMMA TopRowIs ==
  ASSUME NEW n \in Nat, NEW roots \in Seq(1 .. n), NEW extent,
         \A v \in 1 .. n : extent[v] \in Extents(Int)
  PROVE  /\ \A i \in 0 .. Len(roots) : TopRow(roots, extent)[i] \in Int
         /\ \A i \in 1 .. Len(roots) :
               TopRow(roots, extent)[i] = TopRow(roots, extent)[i - 1] + extent[roots[i]].bottom
                                            - extent[roots[i]].top + 2 * RowUnit
<1> DEFINE m == Len(roots)
           E(f, i) == IF i = 0 THEN 0
                      ELSE f[i - 1] + extent[roots[i]].bottom - extent[roots[i]].top + 2 * RowUnit
           IsTop(f) == f = [i \in 0 .. m |-> E(f, i)]
           top == CHOOSE f : IsTop(f)
           step == [i \in 1 .. m |->
                      [x \in Int |-> x + extent[roots[i]].bottom - extent[roots[i]].top + 2 * RowUnit]]
<1>1. TopRow(roots, extent) = top
  BY DEF TopRow
<1>2. m \in Nat /\ \A i \in 1 .. m : roots[i] \in 1 .. n
  OBVIOUS
<1> HIDE DEF m
<1>3. \A i \in 1 .. m : extent[roots[i]].bottom \in Int /\ extent[roots[i]].top \in Int
  BY <1>2 DEF Extents
<1>4. 2 * RowUnit \in Int
  BY RowUnitIs
<1>5. step \in [1 .. m -> [Int -> Int]]
  BY <1>3, <1>4
<1>6. \A i \in 1 .. m : \A x \in Int :
         step[i][x] = x + extent[roots[i]].bottom - extent[roots[i]].top + 2 * RowUnit
  OBVIOUS
<1> HIDE DEF step
<1>7. PICK h : Steps(h, m, Int, 0, step)
  <2> DEFINE Z == Int
  <2>1. 0 \in Z /\ step \in [1 .. m -> [Z -> Z]]
    BY <1>5
  <2> HIDE DEF Z
  <2>2. \E h : Steps(h, m, Z, 0, step)
    BY <1>2, <2>1, Recursion
  <2> QED BY <2>2 DEF Z
<1>8. h \in [0 .. m -> Int] /\ h[0] = 0 /\ \A i \in 1 .. m : h[i] = step[i][h[i - 1]]
  BY <1>7 DEF Steps
<1>9. \A i \in 1 .. m : i - 1 \in 0 .. m /\ h[i - 1] \in Int /\ i # 0 /\ i \in 0 .. m
  BY <1>2, <1>8
<1>10. IsTop(h)
  <2>1. \A i \in 1 .. m : h[i] = E(h, i)
    BY <1>6, <1>8, <1>9
  <2>2. \A i \in 0 .. m : i = 0 \/ i \in 1 .. m
    BY <1>2
  <2>3. \A i \in 0 .. m : h[i] = E(h, i)
    BY <1>8, <2>1, <2>2
  <2> HIDE DEF E
  <2> QED BY <1>8, <2>3
<1>11. IsTop(top)
  BY <1>10
<1> HIDE DEF top
<1>12. 0 \in 0 .. m
  BY <1>2
<1>13. top[0] = 0 /\ \A i \in 1 .. m : top[i] = E(top, i)
  BY <1>9, <1>11, <1>12
<1>14. \A i \in 1 .. m : top[i] = top[i - 1] + extent[roots[i]].bottom - extent[roots[i]].top + 2 * RowUnit
  BY <1>9, <1>13
<1> HIDE DEF E, IsTop
<1>15. \A i \in 0 .. m : top[i] \in Int
  <2>1. ASSUME NEW i \in 1 .. m, top[i - 1] \in Int PROVE top[i] \in Int
    <3>1. \A x, b, t, r \in Int : x + b - t + r \in Int
      OBVIOUS
    <3>2. extent[roots[i]].bottom \in Int /\ extent[roots[i]].top \in Int
      BY <1>3
    <3>3. top[i - 1] + extent[roots[i]].bottom - extent[roots[i]].top + 2 * RowUnit \in Int
      BY <1>4, <2>1, <3>1, <3>2
    <3> QED BY <1>14, <3>3
  <2>2. top[0] \in Int
    BY <1>13
  <2> QED BY <1>2, <2>1, <2>2, Stays
<1> QED BY <1>1, <1>14, <1>15 DEF m

\* Under which node, and where under it, a node hangs.
ParentOf(children, v) ==
    CHOOSE p \in DOMAIN children : \E i \in DOMAIN children[p] : children[p][i] = v
ChildAt(children, u, v) == CHOOSE i \in DOMAIN children[u] : children[u][i] = v
RowFrom(children, roots, extent, f, v) ==
    IF \E i \in DOMAIN roots : roots[i] = v
    THEN TopRow(roots, extent)[(CHOOSE i \in DOMAIN roots : roots[i] = v) - 1] - extent[v].top
    ELSE f[ParentOf(children, v)] +
           spineChildOffsets(KidsOf(children, extent, ParentOf(children, v)))
                            [ChildAt(children, ParentOf(children, v), v)]

\* A node that is no root hangs in one place; a child hangs where it is.
LEMMA HangsUnder ==
  ASSUME NEW n, NEW children, NEW roots, NEW rank, Forest(n, children, roots, rank)
  PROVE  /\ \A v \in 1 .. n : v \notin Range(roots) =>
              /\ ParentOf(children, v) \in 1 .. n
              /\ rank[v] = rank[ParentOf(children, v)] + 1
              /\ ChildAt(children, ParentOf(children, v), v) \in DOMAIN children[ParentOf(children, v)]
         /\ \A u \in 1 .. n : \A i \in DOMAIN children[u] :
              /\ children[u][i] \in 1 .. n /\ children[u][i] \notin Range(roots)
              /\ ParentOf(children, children[u][i]) = u
              /\ ChildAt(children, u, children[u][i]) = i
<1>1. ASSUME NEW v \in 1 .. n, v \notin Range(roots)
      PROVE  /\ ParentOf(children, v) \in 1 .. n
             /\ rank[v] = rank[ParentOf(children, v)] + 1
             /\ ChildAt(children, ParentOf(children, v), v) \in DOMAIN children[ParentOf(children, v)]
  <2> DEFINE u == ParentOf(children, v)
  <2>1. PICK p \in 1 .. n : v \in Range(children[p])
    BY <1>1 DEF Forest
  <2>2. p \in DOMAIN children /\ \E i \in DOMAIN children[p] : children[p][i] = v
    BY <2>1 DEF Forest, Range
  <2>3. u \in DOMAIN children /\ \E i \in DOMAIN children[u] : children[u][i] = v
    BY <2>2 DEF ParentOf
  <2> HIDE DEF u
  <2>4. u \in 1 .. n
    BY <2>3 DEF Forest
  <2>5. v \in Range(children[u])
    BY <2>3 DEF Range
  <2>6. ChildAt(children, u, v) \in DOMAIN children[u]
    BY <2>3 DEF ChildAt
  <2>7. rank[v] = rank[u] + 1
    BY <2>4, <2>5 DEF Forest
  <2> QED BY <2>4, <2>6, <2>7 DEF u
<1>2. ASSUME NEW u \in 1 .. n, NEW i \in DOMAIN children[u]
      PROVE  /\ children[u][i] \in 1 .. n /\ children[u][i] \notin Range(roots)
             /\ ParentOf(children, children[u][i]) = u
             /\ ChildAt(children, u, children[u][i]) = i
  <2> DEFINE c == children[u][i]
  <2>1. c \in 1 .. n
    BY DEF Forest
  <2>2. c \in Range(children[u])
    BY DEF Range
  <2>3. \A j \in DOMAIN children[u] : children[u][j] = c => j = i
    BY DEF Forest, Distinct
  <2>4. \E j \in DOMAIN children[u] : children[u][j] = c
    OBVIOUS
  <2> HIDE DEF c
  <2>5. rank[c] # 0
    <3>1. rank[c] = rank[u] + 1 /\ rank[u] \in Nat
      BY <2>1, <2>2 DEF Forest
    <3> QED BY <3>1
  <2>6. c \notin Range(roots)
    BY <2>1, <2>5 DEF Forest
  <2>7. \A p \in 1 .. n : c \in Range(children[p]) => p = u
    BY <2>1, <2>2 DEF Forest
  <2>8. \A p \in 1 .. n : (\E j \in DOMAIN children[p] : children[p][j] = c) => p = u
    BY <2>7 DEF Range
  <2>9. u \in DOMAIN children /\ DOMAIN children = 1 .. n
    BY DEF Forest
  <2>10. ParentOf(children, c) = u
    BY <2>4, <2>8, <2>9 DEF ParentOf
  <2>11. ChildAt(children, u, c) = i
    BY <2>3, <2>4 DEF ChildAt
  <2> QED BY <2>1, <2>6, <2>10, <2>11 DEF c
<1> QED BY <1>1, <1>2

\* The subtrees of the children of a node are apart, within its own reach.
Placed(children, extent, v) ==
    LET exts == KidsOf(children, extent, v)
        o == spineChildOffsets(exts)
    IN  /\ Separate(o, exts)
        /\ \A i \in DOMAIN children[v] :
              /\ o[i] \in Int
              /\ extent[v].top <= o[i] + exts[i].top /\ o[i] + exts[i].bottom <= extent[v].bottom
        /\ Len(children[v]) = 1 => o[1] = 0
        /\ Len(children[v]) = 2 => o[1] + o[2] = 0
LEMMA ChildrenArePlaced ==
  ASSUME NEW M, Halves(M), NEW n, NEW children, NEW roots, NEW rank,
         Forest(n, children, roots, rank), NEW v \in 1 .. n
  PROVE  Placed(children, computeRelativeSpineExtent(children), v)
<1> DEFINE V == 1 .. n
           extent == computeRelativeSpineExtent(children)
           exts == KidsOf(children, extent, v)
           o == spineChildOffsets(exts)
           r == rank[v] + 1
<1>1. n \in Nat /\ n <= MaxNodes
  BY MaxNodesIs DEF Forest
<1>2. children[v] \in Seq(V) /\ rank[v] \in Nat /\ rank[v] < n
  BY DEF Forest
<1>3. \A u \in V : extent[u] \in Extents(M[rank[u]])
  BY ExtentsAre
<1>4. extent[v] = Around(exts)
  BY ExtentsAre
<1> HIDE DEF extent
<1>5. r \in 1 .. MaxNodes /\ r - 1 \in 0 .. MaxNodes
  BY <1>1, <1>2, MaxNodesIs
<1>6. \A c \in Range(children[v]) : c \in V /\ rank[c] = r
  <2>1. \A c \in Range(children[v]) : c \in V
    <3> HIDE DEF V
    <3> QED BY <1>2 DEF Range
  <2>2. \A c \in V : c \in Range(children[v]) => rank[c] = rank[v] + 1
    BY DEF Forest
  <2> QED BY <2>1, <2>2
<1> HIDE DEF r, V
<1>7. \A c \in Range(children[v]) : extent[c] \in Extents(M[r])
  BY <1>3, <1>6
<1>8. exts \in Seq(Extents(M[r]))
  BY <1>2, <1>7, KidsAre
<1>9. DOMAIN exts = DOMAIN children[v]
  BY DEF KidsOf
<1>10. Len(exts) = Len(children[v])
  BY <1>2, KidsLen
<1> HIDE DEF exts
<1>11. Offsets(o, exts, M[r - 1])
  BY <1>5, <1>8, SpineOffsets
<1>12. \A i \in DOMAIN exts : /\ Around(exts).top <= o[i] + exts[i].top
                              /\ o[i] + exts[i].bottom <= Around(exts).bottom
  BY <1>5, <1>8, AroundIs
<1>13. M[r - 1] \subseteq Int
  BY <1>5, HalvesAt
<1> HIDE DEF o
<1>14. Separate(o, exts) /\ \A i \in DOMAIN children[v] : o[i] \in Int
  BY <1>9, <1>11, <1>13 DEF Offsets
<1>15. (Len(children[v]) = 1 => o[1] = 0) /\ (Len(children[v]) = 2 => o[1] + o[2] = 0)
  BY <1>10, <1>11 DEF Offsets
<1> QED BY <1>4, <1>9, <1>12, <1>14, <1>15 DEF Placed, o, exts, extent

\* A child lies where its parent puts it; the subtrees of the roots are apart.
LEMMA RowsAre ==
  ASSUME NEW M, Halves(M), NEW n, NEW children, NEW roots, NEW rank,
         Forest(n, children, roots, rank)
  PROVE  LET extent == computeRelativeSpineExtent(children)
             row == assignRelativeSpineRows(children, roots, extent)
         IN  /\ \A v \in 1 .. n : row[v] \in Int
             /\ \A v \in 1 .. n : \A i \in DOMAIN children[v] :
                   row[children[v][i]] = row[v] + spineChildOffsets(KidsOf(children, extent, v))[i]
             /\ Separate([i \in DOMAIN roots |-> row[roots[i]]], [i \in DOMAIN roots |-> extent[roots[i]]])
<1> DEFINE V == 1 .. n
           extent == computeRelativeSpineExtent(children)
           top == TopRow(roots, extent)
           IsRow(f) == f = [v \in V |-> RowFrom(children, roots, extent, f, v)]
           row == CHOOSE f : IsRow(f)
           at(v) == CHOOSE i \in DOMAIN roots : roots[i] = v
           under(u) == spineChildOffsets(KidsOf(children, extent, u))
<1>1. n \in Nat /\ n <= MaxNodes
  BY MaxNodesIs DEF Forest
<1>2. /\ DOMAIN children = V /\ roots \in Seq(V) /\ Distinct(roots)
      /\ \A v \in V : children[v] \in Seq(V) /\ rank[v] \in Nat /\ rank[v] < n
  BY DEF Forest
<1>3. assignRelativeSpineRows(children, roots, extent) = row
  <2> HIDE DEF extent
  <2> QED BY <1>2 DEF assignRelativeSpineRows, RowFrom, TopRow, ParentOf, ChildAt, KidsOf
<1>4. \A v \in V : extent[v] \in Extents(M[rank[v]])
  BY ExtentsAre
<1> HIDE DEF extent
<1>5. \A k \in 0 .. MaxNodes : M[k] \subseteq Int
  BY HalvesAt
<1>6. \A v \in V : extent[v] \in Extents(Int)
  <2>1. \A v \in V : rank[v] \in 0 .. MaxNodes
    BY <1>1, <1>2, MaxNodesIs
  <2> QED BY <1>4, <1>5, <2>1 DEF Extents
<1>7. /\ \A i \in 0 .. Len(roots) : top[i] \in Int
      /\ \A i \in 1 .. Len(roots) :
            top[i] = top[i - 1] + extent[roots[i]].bottom - extent[roots[i]].top + 2 * RowUnit
  BY <1>1, <1>2, <1>6, TopRowIs
<1> HIDE DEF top
<1>8. \A v \in V : v \notin Range(roots) =>
              /\ ParentOf(children, v) \in V
              /\ rank[v] = rank[ParentOf(children, v)] + 1
              /\ ChildAt(children, ParentOf(children, v), v) \in DOMAIN children[ParentOf(children, v)]
  BY HangsUnder
<1>9. \A u \in V : \A i \in DOMAIN children[u] :
              /\ children[u][i] \in V /\ children[u][i] \notin Range(roots)
              /\ ParentOf(children, children[u][i]) = u
              /\ ChildAt(children, u, children[u][i]) = i
  BY HangsUnder
<1> HIDE DEF V, under
<1>10. \A f, v : v \notin Range(roots) =>
          RowFrom(children, roots, extent, f, v) =
            f[ParentOf(children, v)] + under(ParentOf(children, v))[ChildAt(children, ParentOf(children, v), v)]
  BY DEF RowFrom, Range, under
<1>11. \A f, v : v \in Range(roots) =>
          RowFrom(children, roots, extent, f, v) = top[at(v) - 1] - extent[v].top
  BY DEF RowFrom, Range, top
<1>12. \E f : IsRow(f)
  <2> DEFINE Good(f, k) == \A v \in V : rank[v] < k => f[v] = RowFrom(children, roots, extent, f, v)
             T == {k \in Nat : \E f : Good(f, k)}
  <2>1. 0 \in T
    <3>1. \A v \in V : ~ (rank[v] < 0)
      BY <1>2
    <3>2. Good(0, 0)
      BY <3>1
    <3> QED BY <3>2
  <2>2. ASSUME NEW k \in Nat, k \in T PROVE k + 1 \in T
    <3>1. PICK f : Good(f, k)
      BY <2>2
    <3> DEFINE h == [v \in V |-> IF rank[v] < k THEN f[v] ELSE RowFrom(children, roots, extent, f, v)]
    <3>2. ASSUME NEW v \in V, rank[v] < k + 1 PROVE h[v] = RowFrom(children, roots, extent, h, v)
      <4>1. h[v] = RowFrom(children, roots, extent, f, v)
        BY <3>1
      <4>2. CASE v \in Range(roots)
        BY <1>11, <4>1, <4>2
      <4>3. CASE v \notin Range(roots)
        <5>1. rank[ParentOf(children, v)] < k /\ ParentOf(children, v) \in V
          BY <1>2, <1>8, <3>2, <4>3
        <5>2. h[ParentOf(children, v)] = f[ParentOf(children, v)]
          BY <5>1
        <5> HIDE DEF h
        <5> QED BY <1>10, <4>1, <4>3, <5>2
      <4> QED BY <4>2, <4>3
    <3> HIDE DEF h
    <3>3. Good(h, k + 1)
      BY <3>2
    <3> HIDE DEF Good
    <3> QED BY <3>3
  <2> HIDE DEF T
  <2>3. n \in T
    BY <1>1, <2>1, <2>2, UpTo
  <2>4. PICK f : Good(f, n)
    BY <2>3 DEF T
  <2> DEFINE h == [v \in V |-> f[v]]
  <2>5. ASSUME NEW v \in V PROVE h[v] = RowFrom(children, roots, extent, h, v)
    <3>1. h[v] = f[v] /\ f[v] = RowFrom(children, roots, extent, f, v)
      BY <1>2, <2>4
    <3>2. CASE v \in Range(roots)
      BY <1>11, <3>1, <3>2
    <3>3. CASE v \notin Range(roots)
      <4>1. h[ParentOf(children, v)] = f[ParentOf(children, v)]
        BY <1>8, <3>3
      <4> HIDE DEF h
      <4> QED BY <1>10, <3>1, <3>3, <4>1
    <3> QED BY <3>2, <3>3
  <2>6. h = [v \in V |-> h[v]]
    OBVIOUS
  <2> HIDE DEF h
  <2>7. IsRow(h)
    BY <2>5, <2>6
  <2> QED BY <2>7
<1>13. \A v \in V : row[v] = RowFrom(children, roots, extent, row, v)
  <2>1. IsRow(row)
    BY <1>12
  <2> HIDE DEF row
  <2> QED BY <2>1
<1> HIDE DEF row
<1>14. \A i \in DOMAIN roots : roots[i] \in V /\ roots[i] \in Range(roots) /\ at(roots[i]) = i
  <2>1. \A i, j \in DOMAIN roots : roots[i] = roots[j] => i = j
    BY <1>2 DEF Distinct
  <2> QED BY <1>2, <2>1 DEF Range
<1>15. \A i \in DOMAIN roots : row[roots[i]] = top[i - 1] - extent[roots[i]].top
  <2> HIDE DEF at
  <2> QED BY <1>11, <1>13, <1>14
<1>16. \A v \in V : v \in Range(roots) => row[v] \in Int
  <2>1. \A i \in DOMAIN roots : i - 1 \in 0 .. Len(roots)
    BY <1>2
  <2>2. \A i \in DOMAIN roots : extent[roots[i]].top \in Int /\ top[i - 1] \in Int
    BY <1>6, <1>7, <1>14, <2>1 DEF Extents
  <2>3. \A i \in DOMAIN roots : row[roots[i]] \in Int
    BY <1>15, <2>2
  <2> QED BY <2>3 DEF Range
<1>17. \A u \in V : \A i \in DOMAIN children[u] : under(u)[i] \in Int
  <2>1. \A u \in V : Placed(children, extent, u)
    BY ChildrenArePlaced DEF V, extent
  <2> QED BY <2>1 DEF Placed, under
<1>18. \A v \in V : v \notin Range(roots) /\ row[ParentOf(children, v)] \in Int => row[v] \in Int
  BY <1>8, <1>10, <1>13, <1>17
<1>19. \A v \in V : row[v] \in Int
  <2> DEFINE T == {k \in Nat : \A v \in V : rank[v] < k => row[v] \in Int}
  <2>1. 0 \in T
    BY <1>2
  <2>2. ASSUME NEW k \in Nat, k \in T PROVE k + 1 \in T
    <3> SUFFICES ASSUME NEW v \in V, rank[v] < k + 1, v \notin Range(roots) PROVE row[v] \in Int
      BY <1>16
    <3>1. ParentOf(children, v) \in V /\ rank[ParentOf(children, v)] < k
      BY <1>2, <1>8
    <3> QED BY <1>18, <2>2, <3>1
  <2> HIDE DEF T
  <2>3. n \in T
    BY <1>1, <2>1, <2>2, UpTo
  <2> QED BY <1>2, <2>3 DEF T
<1>20. \A v \in V : \A i \in DOMAIN children[v] : row[children[v][i]] = row[v] + under(v)[i]
  BY <1>9, <1>10, <1>13
<1>21. Separate([i \in DOMAIN roots |-> row[roots[i]]], [i \in DOMAIN roots |-> extent[roots[i]]])
  <2> DEFINE m == Len(roots)
             o == [i \in 1 .. m |-> row[roots[i]]]
             exts == [i \in 1 .. m |-> extent[roots[i]]]
  <2>1. m \in Nat /\ DOMAIN roots = 1 .. m
    BY <1>2
  <2> HIDE DEF m
  <2>2. o \in [1 .. m -> Int] /\ exts \in [1 .. m -> Extents(Int)]
    BY <1>6, <1>14, <1>19, <2>1
  <2>3. Follow(o, exts, m)
    <3> SUFFICES ASSUME NEW j \in 2 .. m
                 PROVE  o[j - 1] + exts[j - 1].bottom + RowUnit <= o[j] + exts[j].top
      BY DEF Follow
    <3> DEFINE i == j - 1
    <3>1. i \in 1 .. m /\ j \in 1 .. m /\ i - 1 \in 0 .. m /\ i \in 0 .. m
      BY <2>1
    <3>2. /\ o[i] = row[roots[i]] /\ o[j] = row[roots[j]]
          /\ exts[i] = extent[roots[i]] /\ exts[j] = extent[roots[j]]
      BY <3>1
    <3>3. row[roots[j]] = top[i] - extent[roots[j]].top
      BY <1>15, <2>1, <3>1
    <3> HIDE DEF i, o, exts
    <3>4. row[roots[i]] = top[i - 1] - extent[roots[i]].top
      BY <1>15, <2>1, <3>1
    <3>5. top[i] = top[i - 1] + extent[roots[i]].bottom - extent[roots[i]].top + 2 * RowUnit
      BY <1>7, <2>1, <3>1 DEF m
    <3>6. /\ top[i] \in Int /\ top[i - 1] \in Int
          /\ extent[roots[i]].bottom \in Int /\ extent[roots[i]].top \in Int
          /\ extent[roots[j]].top \in Int /\ RowUnit \in Nat
      BY <1>6, <1>7, <1>14, <2>1, <3>1, RowUnitIs DEF Extents, m
    <3>7. \A t, s, b, a, c \in Int : \A r \in Nat :
             t = s + b - a + 2 * r => (s - a) + b + r <= (t - c) + c
      OBVIOUS
    <3>8. (top[i - 1] - extent[roots[i]].top) + extent[roots[i]].bottom + RowUnit
             <= (top[i] - extent[roots[j]].top) + extent[roots[j]].top
      BY <3>5, <3>6, <3>7
    <3>9. o[i] + exts[i].bottom + RowUnit <= o[j] + exts[j].top
      BY <3>2, <3>3, <3>4, <3>8
    <3> QED BY <3>9 DEF i
  <2> HIDE DEF o, exts
  <2>4. Separate(o, exts)
    BY <2>1, <2>2, <2>3, FollowingIsSeparate
  <2> QED BY <2>1, <2>4 DEF o, exts
<1> QED BY <1>3, <1>19, <1>20, <1>21 DEF V, under, extent

\* Apart: the first subtree ends a row before the second begins.
Over(row, extent, u, v) == row[u] + extent[u].bottom + RowUnit <= row[v] + extent[v].top

\* Subtrees of the same rank do not share a row, nor do their top nodes.
LEMMA SubtreesApart ==
  ASSUME NEW M, Halves(M), NEW n, NEW children, NEW roots, NEW rank,
         Forest(n, children, roots, rank)
  PROVE  LET extent == computeRelativeSpineExtent(children)
             row == assignRelativeSpineRows(children, roots, extent)
         IN  \A u, v \in 1 .. n : u # v /\ rank[u] = rank[v] =>
                Over(row, extent, u, v) \/ Over(row, extent, v, u)
<1> DEFINE V == 1 .. n
           extent == computeRelativeSpineExtent(children)
           row == assignRelativeSpineRows(children, roots, extent)
           under(u) == spineChildOffsets(KidsOf(children, extent, u))
           p(v) == ParentOf(children, v)
           at(v) == ChildAt(children, p(v), v)
           Either(u, v) == Over(row, extent, u, v) \/ Over(row, extent, v, u)
<1>1. n \in Nat /\ n <= MaxNodes
  BY MaxNodesIs DEF Forest
<1>2. /\ \A v \in V : children[v] \in Seq(V) /\ rank[v] \in Nat /\ rank[v] < n
      /\ \A v \in V : v \in Range(roots) => rank[v] = 0
  BY DEF Forest
<1>3. \A v \in V : Placed(children, extent, v)
  BY ChildrenArePlaced
<1>4. \A v \in V : extent[v].top \in Int /\ extent[v].bottom \in Int
  <2>1. \A v \in V : extent[v] \in Extents(M[rank[v]])
    BY ExtentsAre
  <2> HIDE DEF extent
  <2>2. \A v \in V : rank[v] \in 0 .. MaxNodes
    BY <1>1, <1>2, MaxNodesIs
  <2>3. \A v \in V : M[rank[v]] \subseteq Int
    BY <2>2, HalvesAt
  <2> QED BY <2>1, <2>3 DEF Extents
<1>5. /\ \A v \in V : row[v] \in Int
      /\ \A v \in V : \A i \in DOMAIN children[v] : row[children[v][i]] = row[v] + under(v)[i]
      /\ Separate([i \in DOMAIN roots |-> row[roots[i]]], [i \in DOMAIN roots |-> extent[roots[i]]])
  BY RowsAre
<1>6. \A v \in V : v \notin Range(roots) =>
              /\ p(v) \in V /\ rank[v] = rank[p(v)] + 1 /\ at(v) \in DOMAIN children[p(v)]
  BY HangsUnder
<1>7. \A v \in V : v \notin Range(roots) => children[p(v)][at(v)] = v
  <2> TAKE v \in V
  <2> HAVE v \notin Range(roots)
  <2>1. p(v) \in V /\ \E u \in V : v \in Range(children[u])
    BY <1>6 DEF Forest
  <2>2. \E u \in DOMAIN children : \E i \in DOMAIN children[u] : children[u][i] = v
    BY <2>1 DEF Forest, Range
  <2>3. \E i \in DOMAIN children[p(v)] : children[p(v)][i] = v
    BY <2>2 DEF ParentOf
  <2> HIDE DEF p
  <2> QED BY <2>3 DEF ChildAt
<1> HIDE DEF extent, row, V, p, at
<1>8. ASSUME NEW v \in V, v \notin Range(roots)
      PROVE  /\ under(p(v))[at(v)] \in Int /\ row[v] = row[p(v)] + under(p(v))[at(v)]
             /\ KidsOf(children, extent, p(v))[at(v)] = extent[v]
             /\ extent[p(v)].top <= under(p(v))[at(v)] + extent[v].top
             /\ under(p(v))[at(v)] + extent[v].bottom <= extent[p(v)].bottom
  <2>1. p(v) \in V /\ at(v) \in DOMAIN children[p(v)] /\ children[p(v)][at(v)] = v
    BY <1>6, <1>7, <1>8
  <2>2. KidsOf(children, extent, p(v))[at(v)] = extent[v]
    BY <2>1 DEF KidsOf
  <2>3. Placed(children, extent, p(v))
    BY <1>3, <2>1
  <2>4. row[v] = row[p(v)] + under(p(v))[at(v)]
    <3>1. row[children[p(v)][at(v)]] = row[p(v)] + under(p(v))[at(v)]
      BY <1>5, <2>1
    <3> QED BY <2>1, <3>1
  <2> QED BY <2>1, <2>2, <2>3, <2>4 DEF Placed
<1> DEFINE T == {k \in Nat : \A u, v \in V : u # v /\ rank[u] = k /\ rank[v] = k => Either(u, v)}
<1>9. 0 \in T
  <2> SUFFICES ASSUME NEW u \in V, NEW v \in V, u # v, rank[u] = 0, rank[v] = 0
               PROVE  Either(u, v)
    OBVIOUS
  <2>1. u \in Range(roots) /\ v \in Range(roots)
    <3>1. \A w \in V : w \notin Range(roots) => p(w) \in V /\ rank[w] = rank[p(w)] + 1
      BY <1>6
    <3>2. \A w \in V : w \notin Range(roots) => rank[w] # 0
      BY <1>2, <3>1
    <3> QED BY <3>2
  <2>2. PICK i \in DOMAIN roots, j \in DOMAIN roots : u = roots[i] /\ v = roots[j]
    BY <2>1 DEF Range
  <2>3. DOMAIN roots = 1 .. Len(roots) /\ Len(roots) \in Nat
    BY DEF Forest
  <2>4. i < j \/ j < i
    BY <2>2, <2>3
  <2>5. /\ i < j => Over(row, extent, u, v)
        /\ j < i => Over(row, extent, v, u)
    BY <1>5, <2>2 DEF Separate, Over
  <2> QED BY <2>4, <2>5
<1>10. ASSUME NEW k \in Nat, k \in T PROVE k + 1 \in T
  <2> SUFFICES ASSUME NEW u \in V, NEW v \in V, u # v, rank[u] = k + 1, rank[v] = k + 1
               PROVE  Either(u, v)
    OBVIOUS
  <2>1. u \notin Range(roots) /\ v \notin Range(roots)
    BY <1>2
  <2>2. /\ p(u) \in V /\ p(v) \in V /\ rank[p(u)] = k /\ rank[p(v)] = k
        /\ at(u) \in DOMAIN children[p(u)] /\ children[p(u)][at(u)] = u
        /\ at(v) \in DOMAIN children[p(v)] /\ children[p(v)][at(v)] = v
    BY <1>2, <1>6, <1>7, <2>1
  <2>3. /\ row[p(u)] \in Int /\ row[p(v)] \in Int /\ row[u] \in Int /\ row[v] \in Int
        /\ extent[u].top \in Int /\ extent[u].bottom \in Int
        /\ extent[v].top \in Int /\ extent[v].bottom \in Int
        /\ extent[p(u)].top \in Int /\ extent[p(u)].bottom \in Int
        /\ extent[p(v)].top \in Int /\ extent[p(v)].bottom \in Int /\ RowUnit \in Int
    BY <1>4, <1>5, <2>2, RowUnitIs
  <2>4. ASSUME NEW a \in {u, v}, NEW b \in {u, v}, a # b, p(a) = p(b), at(a) < at(b)
        PROVE  Over(row, extent, a, b)
    <3> DEFINE q == p(a)
    <3>1. q \in V /\ at(a) \in DOMAIN children[q] /\ at(b) \in DOMAIN children[q]
      BY <2>2, <2>4
    <3>2. Separate(under(q), KidsOf(children, extent, q))
      BY <1>3, <3>1 DEF Placed
    <3>3. DOMAIN KidsOf(children, extent, q) = DOMAIN children[q]
      BY DEF KidsOf
    <3>4. under(q)[at(a)] + KidsOf(children, extent, q)[at(a)].bottom + RowUnit
            <= under(q)[at(b)] + KidsOf(children, extent, q)[at(b)].top
      BY <2>4, <3>1, <3>2, <3>3 DEF Separate
    <3>5. a \in V /\ b \in V /\ a \notin Range(roots) /\ b \notin Range(roots)
      BY <2>1
    <3>6. /\ KidsOf(children, extent, q)[at(a)] = extent[a] /\ KidsOf(children, extent, q)[at(b)] = extent[b]
          /\ row[a] = row[q] + under(q)[at(a)] /\ row[b] = row[q] + under(q)[at(b)]
          /\ under(q)[at(a)] \in Int /\ under(q)[at(b)] \in Int
      BY <1>8, <2>4, <3>5
    <3>7. /\ row[q] \in Int /\ extent[a].bottom \in Int /\ extent[b].top \in Int /\ RowUnit \in Int
      BY <1>4, <1>5, <3>1, <3>5, RowUnitIs
    <3>8. \A x, y, w, e, f, r \in Int : x + e + r <= y + f => (w + x) + e + r <= (w + y) + f
      OBVIOUS
    <3> HIDE DEF q, under
    <3>9. (row[q] + under(q)[at(a)]) + extent[a].bottom + RowUnit
            <= (row[q] + under(q)[at(b)]) + extent[b].top
      BY <3>4, <3>6, <3>7, <3>8
    <3> QED BY <3>6, <3>9 DEF Over
  <2>5. CASE p(u) = p(v)
    <3>1. at(u) # at(v)
      BY <2>2, <2>5
    <3>2. at(u) \in Nat /\ at(v) \in Nat
      <4>1. children[p(u)] \in Seq(V) /\ children[p(v)] \in Seq(V)
        BY <1>2, <2>2
      <4> QED BY <2>2, <4>1
    <3>3. at(u) < at(v) \/ at(v) < at(u)
      BY <3>1, <3>2
    <3>4. at(u) < at(v) => Over(row, extent, u, v)
      BY <2>4, <2>5
    <3>5. at(v) < at(u) => Over(row, extent, v, u)
      BY <2>4, <2>5
    <3> QED BY <3>3, <3>4, <3>5
  <2>6. ASSUME NEW a \in {u, v}, NEW b \in {u, v}, Over(row, extent, p(a), p(b))
        PROVE  Over(row, extent, a, b)
    <3>1. a \in V /\ b \in V /\ a \notin Range(roots) /\ b \notin Range(roots)
      BY <2>1
    <3>2. /\ under(p(a))[at(a)] \in Int /\ row[a] = row[p(a)] + under(p(a))[at(a)]
          /\ under(p(a))[at(a)] + extent[a].bottom <= extent[p(a)].bottom
          /\ under(p(b))[at(b)] \in Int /\ row[b] = row[p(b)] + under(p(b))[at(b)]
          /\ extent[p(b)].top <= under(p(b))[at(b)] + extent[b].top
      BY <1>8, <3>1
    <3>3. /\ row[p(a)] \in Int /\ row[p(b)] \in Int /\ extent[a].bottom \in Int
          /\ extent[b].top \in Int /\ extent[p(a)].bottom \in Int /\ extent[p(b)].top \in Int
          /\ RowUnit \in Int
      BY <2>3
    <3>4. \A x, y, w, z, e, f, c, d, r \in Int :
             w + c + r <= z + d /\ x + e <= c /\ d <= y + f => (w + x) + e + r <= (z + y) + f
      OBVIOUS
    <3>5. row[p(a)] + extent[p(a)].bottom + RowUnit <= row[p(b)] + extent[p(b)].top
      BY <2>6 DEF Over
    <3> HIDE DEF under
    <3>6. (row[p(a)] + under(p(a))[at(a)]) + extent[a].bottom + RowUnit
            <= (row[p(b)] + under(p(b))[at(b)]) + extent[b].top
      BY <3>2, <3>3, <3>4, <3>5
    <3> QED BY <3>2, <3>6 DEF Over
  <2>7. CASE p(u) # p(v)
    <3>1. Either(p(u), p(v))
      BY <1>10, <2>2, <2>7
    <3>2. Over(row, extent, p(u), p(v)) => Over(row, extent, u, v)
      BY <2>6
    <3>3. Over(row, extent, p(v), p(u)) => Over(row, extent, v, u)
      BY <2>6
    <3> QED BY <3>1, <3>2, <3>3
  <2> QED BY <2>5, <2>7
<1> HIDE DEF T
<1>11. ASSUME NEW u \in V, NEW v \in V, u # v, rank[u] = rank[v] PROVE Either(u, v)
  <2>1. rank[u] \in Nat
    BY <1>2
  <2>2. rank[u] \in T
    BY <1>9, <1>10, <2>1, UpTo
  <2> QED BY <1>11, <2>2 DEF T
<1> QED BY <1>11 DEF V, extent, row

\* As many elements as places.
LEMMA DistinctCount ==
  ASSUME NEW X, NEW s \in Seq(X), Distinct(s)
  PROVE  Cardinality(Range(s)) = Len(s)
<1> DEFINE n == Len(s)
<1>1. n \in Nat /\ DOMAIN s = 1 .. n /\ s \in [1 .. n -> X]
  OBVIOUS
<1> HIDE DEF n
<1>2. s \in [1 .. n -> Range(s)]
  BY <1>1 DEF Range
<1>3. s \in Bijection(1 .. n, Range(s))
  <2>1. s \in Injection(1 .. n, Range(s))
    <3>1. \A a, b \in 1 .. n : s[a] = s[b] => a = b
      BY <1>1 DEF Distinct
    <3> QED BY <1>2, <3>1 DEF Injection, IsInjective
  <2>2. \A t \in Range(s) : \E i \in 1 .. n : s[i] = t
    BY <1>1 DEF Range
  <2>3. s \in Surjection(1 .. n, Range(s))
    BY <1>2, <2>2 DEF Surjection
  <2> QED BY <2>1, <2>3 DEF Bijection
<1>4. IsFiniteSet(1 .. n) /\ Cardinality(1 .. n) = n
  BY <1>1, FS_Interval
<1>5. ExistsBijection(1 .. n, Range(s))
  BY <1>3 DEF ExistsBijection
<1> QED BY <1>4, <1>5, FS_Bijection DEF n

\* Of two numbers, the least and the greatest are the two.
LEMMA LeastAndGreatest ==
  ASSUME NEW a \in Int, NEW b \in Int
  PROVE  LeastOf({a, b}) + GreatestOf({a, b}) = a + b
<1> DEFINE S == {a, b}
           low == IF a <= b THEN a ELSE b
           high == IF a <= b THEN b ELSE a
<1>1. S \in SUBSET Int /\ S # {}
  OBVIOUS
<1>2. low \in Int /\ high \in Int /\ \A s \in S : low <= s /\ s <= high
  OBVIOUS
<1>3. low \in S /\ high \in S /\ low + high = a + b
  OBVIOUS
<1> HIDE DEF S, low, high
<1>4. LeastOf(S) \in S /\ \A s \in S : LeastOf(S) <= s
  BY <1>1, <1>2, LeastIs
<1>5. GreatestOf(S) \in S /\ \A s \in S : s <= GreatestOf(S)
  BY <1>1, <1>2, GreatestIs
<1>6. LeastOf(S) = low /\ GreatestOf(S) = high
  <2> DEFINE l == LeastOf(S)
             h == GreatestOf(S)
  <2>1. l \in Int /\ l <= low /\ low <= l
    BY <1>1, <1>2, <1>3, <1>4
  <2>2. h \in Int /\ high <= h /\ h <= high
    BY <1>1, <1>2, <1>3, <1>5
  <2> HIDE DEF l, h
  <2>3. l = low /\ h = high
    BY <1>2, <2>1, <2>2
  <2> QED BY <2>3 DEF l, h
<1> QED BY <1>3, <1>6 DEF S

-----------------------------------------------------------------------------
(* The layouts.                                                            *)
LEMMA SpineReads ==
  ASSUME NEW g, Drawable(g)
  PROVE  ReadsWell("spine", computeSpinePositions(g), buildPrimaryTree(g),
                   acyclicLayoutEdges(buildPrimaryTree(g)))
<1> DEFINE n == g.nodes
           tree == buildPrimaryTree(g)
           A == Range(tree)
           V == 1 .. n
           children == ChildrenOf(tree, n)
           roots == RootsOf(n, A)
           rank == computeDirectedRanks(n, A)
           extent == computeRelativeSpineExtent(children)
           row == assignRelativeSpineRows(children, roots, extent)
           places == computeSpinePositions(g)
<1>1. n \in Nat /\ n <= MaxNodes
  BY MaxNodesIs DEF Drawable
<1>2. Forest(n, children, roots, rank)
  BY PrimaryTreeIsForest DEF SpineForest
<1>3. tree \in Seq(Pairs(n)) /\ Ranked(V, A)
  BY PrimaryTreeIsRanked
<1>4. places = [v \in V |-> [x |-> rank[v], y |-> row[v]]]
  BY DEF computeSpinePositions, SpineOf, RootsOf, Range
<1> HIDE DEF n, tree
<1>5. A \in SUBSET Pairs(n)
  BY <1>3 DEF Range
<1>6. \A a \in A : a[1] \in V /\ a[2] \in V /\ rank[a[1]] < rank[a[2]]
  <2>1. \A a \in A : rank[a[1]] < rank[a[2]]
    BY <1>1, <1>3, <1>5, RanksRise
  <2> QED BY <1>5, <2>1 DEF Pairs
<1>7. \A v \in V : \A c : c \in Range(children[v]) <=> c \in V /\ <<v, c>> \in A
  BY <1>1, <1>3, ChildrenAre
<1> HIDE DEF A, children, roots, rank
<1>8. PICK M : Halves(M)
  BY RowUnitIs
<1>9. \A v \in V : /\ row[v] \in Int
                   /\ \A i \in DOMAIN children[v] :
                        row[children[v][i]] = row[v] + spineChildOffsets(KidsOf(children, extent, v))[i]
  <2>1. /\ \A v \in V : row[v] \in Int
        /\ \A v \in V : \A i \in DOMAIN children[v] :
              row[children[v][i]] = row[v] + spineChildOffsets(KidsOf(children, extent, v))[i]
        /\ Separate([i \in DOMAIN roots |-> row[roots[i]]], [i \in DOMAIN roots |-> extent[roots[i]]])
    BY <1>2, <1>8, RowsAre
  <2> HIDE DEF row, extent
  <2> QED BY <2>1
<1>10. \A u, v \in V : u # v /\ rank[u] = rank[v] => Over(row, extent, u, v) \/ Over(row, extent, v, u)
  BY <1>2, <1>8, SubtreesApart
<1>11. \A v \in V : extent[v].top \in Int /\ extent[v].bottom \in Int /\ extent[v].top <= 0 /\ 0 <= extent[v].bottom
  <2>1. \A v \in V : extent[v] \in Extents(M[rank[v]])
    BY <1>2, <1>8, ExtentsAre
  <2> HIDE DEF extent
  <2>2. \A v \in V : rank[v] \in 0 .. MaxNodes
    BY <1>1, <1>2, MaxNodesIs DEF Forest
  <2>3. \A v \in V : M[rank[v]] \subseteq Int
    BY <1>8, <2>2, HalvesAt
  <2> QED BY <2>1, <2>3 DEF Extents
<1>12. \A v \in V : Placed(children, extent, v)
  BY <1>2, <1>8, ChildrenArePlaced
<1> HIDE DEF row, extent
<1>13. DOMAIN places = V /\ \A v \in V : places[v].x = rank[v] /\ places[v].y = row[v]
  <2> HIDE DEF places
  <2> QED BY <1>4
<1> HIDE DEF places
<1>14. CardsApart(places)
  <2> SUFFICES ASSUME NEW v \in V, NEW u \in V, v # u, rank[v] = rank[u]
               PROVE  row[v] - row[u] >= RowUnit \/ row[u] - row[v] >= RowUnit
    BY <1>13 DEF CardsApart
  <2>1. \A x, y, b, t, r \in Int : 0 <= b /\ t <= 0 /\ x + b + r <= y + t => y - x >= r
    OBVIOUS
  <2>2. /\ row[u] \in Int /\ row[v] \in Int /\ RowUnit \in Int
        /\ extent[u].top \in Int /\ extent[u].bottom \in Int /\ extent[u].top <= 0 /\ 0 <= extent[u].bottom
        /\ extent[v].top \in Int /\ extent[v].bottom \in Int /\ extent[v].top <= 0 /\ 0 <= extent[v].bottom
    BY <1>9, <1>11, RowUnitIs
  <2>3. Over(row, extent, u, v) => row[v] - row[u] >= RowUnit
    BY <2>1, <2>2 DEF Over
  <2>4. Over(row, extent, v, u) => row[u] - row[v] >= RowUnit
    BY <2>1, <2>2 DEF Over
  <2> QED BY <1>10, <2>3, <2>4
<1>15. RunRight(places, acyclicLayoutEdges(tree))
  <2>1. acyclicLayoutEdges(tree) \in Kept(V, tree)
    BY <1>3, AcyclicLayoutEdgesAreRanked DEF Pairs
  <2>2. acyclicLayoutEdges(tree) \subseteq A
    BY <2>1 DEF Kept, A
  <2> QED BY <1>6, <1>13, <2>2 DEF RunRight
<1>16. ASSUME NEW v \in V
       PROVE  LET kids == {tree[i][2] : i \in {j \in DOMAIN tree : tree[j][1] = v}}
                  ys == {places[c].y : c \in kids}
              IN  Cardinality(kids) \in {1, 2} => LeastOf(ys) + GreatestOf(ys) = 2 * places[v].y
  <2> DEFINE s == children[v]
             kids == {tree[i][2] : i \in {j \in DOMAIN tree : tree[j][1] = v}}
             ys == {places[c].y : c \in kids}
             o == spineChildOffsets(KidsOf(children, extent, v))
  <2>1. s \in Seq(V) /\ Distinct(s)
    BY <1>2 DEF Forest, V
  <2>2. kids = Range(s)
    <3>1. \A i \in DOMAIN tree : tree[i] \in A /\ tree[i] = <<tree[i][1], tree[i][2]>> /\ tree[i][2] \in V
      BY <1>3 DEF A, Range, Pairs
    <3>2. \A c \in kids : <<v, c>> \in A /\ c \in V
      BY <3>1
    <3>3. \A c : <<v, c>> \in A => c \in kids
      <4> TAKE c
      <4> HAVE <<v, c>> \in A
      <4>1. PICK i \in DOMAIN tree : tree[i] = <<v, c>>
        BY DEF A, Range
      <4> QED BY <4>1
    <3> HIDE DEF kids
    <3> QED BY <1>7, <3>2, <3>3
  <2> HIDE DEF kids, s, o
  <2>3. Cardinality(kids) = Len(s)
    <3> HIDE DEF V
    <3>1. Cardinality(Range(s)) = Len(s)
      BY <2>1, DistinctCount
    <3> QED BY <2>2, <3>1
  <2>4. DOMAIN s = 1 .. Len(s) /\ \A i \in DOMAIN s : s[i] \in V
    <3> HIDE DEF V
    <3> QED BY <2>1
  <2>5. \A i \in DOMAIN s : places[s[i]].y = row[v] + o[i] /\ o[i] \in Int
    BY <1>9, <1>12, <1>13, <2>4 DEF Placed, s, o
  <2>6. (Len(s) = 1 => o[1] = 0) /\ (Len(s) = 2 => o[1] + o[2] = 0)
    BY <1>12 DEF Placed, s, o
  <2>7. row[v] \in Int /\ places[v].y = row[v]
    BY <1>9, <1>13
  <2>8. CASE Len(s) = 1
    <3>1. kids = {s[1]} /\ 1 \in DOMAIN s
      BY <2>2, <2>4, <2>8 DEF Range
    <3>2. ys = {row[v] + o[1]}
      BY <2>5, <3>1
    <3>3. row[v] + o[1] = row[v]
      BY <2>6, <2>7, <2>8
    <3>4. ys = {row[v], row[v]}
      BY <3>2, <3>3
    <3> HIDE DEF ys
    <3>5. LeastOf({row[v], row[v]}) + GreatestOf({row[v], row[v]}) = row[v] + row[v]
      BY <2>7, LeastAndGreatest
    <3>6. row[v] + row[v] = 2 * row[v]
      BY <2>7
    <3> QED BY <2>7, <3>4, <3>5, <3>6 DEF kids, ys
  <2>9. CASE Len(s) = 2
    <3>1. kids = {s[1], s[2]} /\ 1 \in DOMAIN s /\ 2 \in DOMAIN s
      <4>1. DOMAIN s = {1, 2}
        BY <2>4, <2>9
      <4> QED BY <2>2, <4>1 DEF Range
    <3> DEFINE a == row[v] + o[1]
               b == row[v] + o[2]
    <3>2. ys = {a, b}
      BY <2>5, <3>1
    <3>3. a \in Int /\ b \in Int /\ a + b = 2 * row[v]
      BY <2>5, <2>6, <2>7, <2>9, <3>1
    <3> HIDE DEF ys, a, b
    <3>4. LeastOf({a, b}) + GreatestOf({a, b}) = a + b
      BY <3>3, LeastAndGreatest
    <3> QED BY <2>7, <3>2, <3>3, <3>4 DEF kids, ys
  <2>10. Cardinality(kids) \in {1, 2} => LeastOf(ys) + GreatestOf(ys) = 2 * places[v].y
    BY <2>3, <2>8, <2>9 DEF kids
  <2> QED BY <2>10 DEF kids
<1>17. CentredOnParent(places, tree)
  BY <1>13, <1>16 DEF CentredOnParent
<1> QED BY <1>14, <1>15, <1>17 DEF ReadsWell, places, tree

\* Without cycles, the accepted edges lead to the right.
LEMMA RanksRunRight ==
  ASSUME NEW n \in Nat, NEW edges \in Seq(Pairs(n))
  PROVE  LET A == acyclicLayoutEdges(edges)
             rank == computeDirectedRanks(n, A)
         IN  /\ A \subseteq Range(edges) /\ A \subseteq Pairs(n) /\ rank \in [1 .. n -> Nat]
             /\ \A a \in A : rank[a[1]] < rank[a[2]]
<1> DEFINE A == acyclicLayoutEdges(edges)
<1>1. A \in Kept(1 .. n, edges)
  BY AcyclicLayoutEdgesAreRanked DEF Pairs
<1>2. A \in SUBSET Pairs(n) /\ A \subseteq Range(edges) /\ Ranked(1 .. n, A)
  BY <1>1 DEF Kept, Pairs
<1> HIDE DEF A
<1>3. computeDirectedRanks(n, A) \in [1 .. n -> Nat]
  BY <1>2, RanksRise
<1>4. \A a \in A : computeDirectedRanks(n, A)[a[1]] < computeDirectedRanks(n, A)[a[2]]
  BY <1>2, RanksRise
<1> QED BY <1>2, <1>3, <1>4 DEF A

\* The layouts in columns of ranks.
LEMMA RankColumnsRead ==
  ASSUME NEW n \in Nat, NEW edges \in Seq(Pairs(n)), NEW preset, preset # "spine"
  PROVE  LET A == acyclicLayoutEdges(edges)
         IN  ReadsWell(preset, computeRankColumnPositions(n, computeDirectedRanks(n, A)), edges, A)
<1> DEFINE A == acyclicLayoutEdges(edges)
           rank == computeDirectedRanks(n, A)
           places == computeRankColumnPositions(n, rank)
<1>1. A \subseteq Pairs(n) /\ rank \in [1 .. n -> Nat] /\ \A a \in A : rank[a[1]] < rank[a[2]]
  BY RanksRunRight
<1> HIDE DEF A, rank
<1>2. CardsApart(places)
  BY ColumnsApart
<1>3. \A v \in 1 .. n : places[v].x = rank[v]
  BY DEF computeRankColumnPositions
<1> HIDE DEF places
<1>4. \A a \in A : a[1] \in 1 .. n /\ a[2] \in 1 .. n
  BY <1>1 DEF Pairs
<1>5. RunRight(places, A)
  BY <1>1, <1>3, <1>4 DEF RunRight
<1> QED BY <1>2, <1>5 DEF ReadsWell, A, rank, places

\* The layout in columns of statuses goes by no edges.
LEMMA StatusColumnsRead ==
  ASSUME NEW n \in Nat, NEW column
  PROVE  ReadsWell("status-columns", computeRankColumnPositions(n, column), <<>>, acyclicLayoutEdges(<<>>))
<1>1. acyclicLayoutEdges(<<>>) = {}
  <2>1. <<>> \in Seq(Pairs(n)) /\ Range(<<>>) = {}
    BY DEF Range
  <2>2. acyclicLayoutEdges(<<>>) \subseteq Range(<<>>)
    BY <2>1, RanksRunRight
  <2> QED BY <2>1, <2>2
<1>2. CardsApart(computeRankColumnPositions(n, column))
  BY ColumnsApart
<1> QED BY <1>1, <1>2 DEF ReadsWell, RunRight

\* Linear: a lane is a row, and its nodes differ in rank.
LEMMA LinearReads ==
  ASSUME NEW g, Drawable(g)
  PROVE  ReadsWell("linear", computeLinearPositions(g), linearForwardEdges(g),
                   acyclicLayoutEdges(linearForwardEdges(g)))
<1> DEFINE n == g.nodes
           edges == linearForwardEdges(g)
           hierarchy == refinementHierarchyEdges(g)
           A == acyclicLayoutEdges(edges)
           rank == computeDirectedRanks(n, A)
           lane == computeTreeLanes(n, hierarchy)
           places == computeLinearPositions(g)
<1>1. n \in Nat
  BY MaxNodesIs DEF Drawable
<1>2. edges \in Seq(Pairs(n)) /\ hierarchy \in Seq(Pairs(n)) /\ Range(hierarchy) \subseteq Range(edges)
  BY LayoutEdgesJoinNodes
<1>3. places = [v \in 1 .. n |-> [x |-> rank[v], y |-> RowUnit * lane[v]]]
  BY DEF computeLinearPositions
<1> HIDE DEF n, edges, hierarchy
<1>4. /\ A \subseteq Range(edges) /\ A \subseteq Pairs(n) /\ rank \in [1 .. n -> Nat]
      /\ \A a \in A : rank[a[1]] < rank[a[2]]
  BY <1>1, <1>2, RanksRunRight
<1> HIDE DEF A, rank
<1>5. DOMAIN places = 1 .. n /\ \A v \in 1 .. n : places[v].x = rank[v] /\ places[v].y = RowUnit * lane[v]
  <2> HIDE DEF places, lane
  <2> QED BY <1>3
<1> HIDE DEF places
<1>6. RunRight(places, A)
  <2>1. \A a \in A : a[1] \in 1 .. n /\ a[2] \in 1 .. n
    BY <1>4 DEF Pairs
  <2> QED BY <1>4, <1>5, <2>1 DEF RunRight
<1>7. ASSUME A = {edges[i] : i \in DOMAIN edges} PROVE CardsApart(places)
  <2>1. \A e \in Range(hierarchy) : rank[e[1]] < rank[e[2]]
    <3>1. Range(edges) = A
      BY <1>7 DEF Range
    <3> QED BY <1>2, <1>4, <3>1
  <2>2. /\ lane \in [1 .. n -> Nat]
        /\ \A u, v \in 1 .. n : u # v /\ lane[u] = lane[v] => rank[u] # rank[v]
    BY <1>1, <1>2, <1>4, <2>1, LanesApart
  <2> HIDE DEF lane
  <2> SUFFICES ASSUME NEW v \in 1 .. n, NEW u \in 1 .. n, v # u, rank[v] = rank[u]
               PROVE  \/ RowUnit * lane[v] - RowUnit * lane[u] >= RowUnit
                      \/ RowUnit * lane[u] - RowUnit * lane[v] >= RowUnit
    BY <1>5 DEF CardsApart
  <2>3. lane[u] \in Nat /\ lane[v] \in Nat /\ lane[u] # lane[v]
    BY <2>2
  <2>4. lane[u] < lane[v] \/ lane[v] < lane[u]
    BY <2>3
  <2> QED BY <2>3, <2>4, RowsOfUnits
<1> QED BY <1>6, <1>7 DEF ReadsWell, places, A, edges

\* Each preset draws every graph readably.
LEMMA EveryLayoutReads ==
  ASSUME NEW g, Drawable(g), NEW preset \in {"tree", "linear", "spine", "canonical", "status-columns"}
  PROVE  ReadsWell(preset, computeSpecGraphCanvasLayoutPositions(g, preset), LayoutEdges(g, preset),
                   acyclicLayoutEdges(LayoutEdges(g, preset)))
<1>1. g.nodes \in Nat
  BY MaxNodesIs DEF Drawable
<1>2. CASE preset = "tree"
  <2>1. refinementHierarchyEdges(g) \in Seq(Pairs(g.nodes))
    BY LayoutEdgesJoinNodes
  <2>2. LayoutEdges(g, preset) = refinementHierarchyEdges(g)
    BY <1>2 DEF LayoutEdges
  <2>3. computeSpecGraphCanvasLayoutPositions(g, preset) = computeTreePositions(g)
    BY <1>2 DEF computeSpecGraphCanvasLayoutPositions
  <2> QED BY <1>1, <1>2, <2>1, <2>2, <2>3, RankColumnsRead DEF computeTreePositions
<1>3. CASE preset = "canonical"
  <2>1. canonicalLayoutEdges(g) \in Seq(Pairs(g.nodes))
    BY LayoutEdgesJoinNodes
  <2>2. LayoutEdges(g, preset) = canonicalLayoutEdges(g)
    BY <1>3 DEF LayoutEdges
  <2>3. computeSpecGraphCanvasLayoutPositions(g, preset) = computeCanonicalPositions(g)
    BY <1>3 DEF computeSpecGraphCanvasLayoutPositions
  <2> QED BY <1>1, <1>3, <2>1, <2>2, <2>3, RankColumnsRead DEF computeCanonicalPositions
<1>4. CASE preset = "status-columns"
  <2>1. LayoutEdges(g, preset) = <<>>
    BY <1>4 DEF LayoutEdges
  <2>2. computeSpecGraphCanvasLayoutPositions(g, preset) = computeStatusColumnPositions(g)
    BY <1>4 DEF computeSpecGraphCanvasLayoutPositions
  <2> QED BY <1>1, <1>4, <2>1, <2>2, StatusColumnsRead DEF computeStatusColumnPositions
<1>5. CASE preset = "linear"
  <2>1. LayoutEdges(g, preset) = linearForwardEdges(g)
    BY <1>5 DEF LayoutEdges
  <2>2. computeSpecGraphCanvasLayoutPositions(g, preset) = computeLinearPositions(g)
    BY <1>5 DEF computeSpecGraphCanvasLayoutPositions
  <2> QED BY <1>5, <2>1, <2>2, LinearReads
<1>6. CASE preset = "spine"
  <2>1. LayoutEdges(g, preset) = buildPrimaryTree(g)
    BY <1>6 DEF LayoutEdges
  <2>2. computeSpecGraphCanvasLayoutPositions(g, preset) = computeSpinePositions(g)
    BY <1>6 DEF computeSpecGraphCanvasLayoutPositions
  <2> QED BY <1>6, <2>1, <2>2, SpineReads
<1> QED BY <1>2, <1>3, <1>4, <1>5, <1>6

\* A backend's graphs have at most MaxNodes nodes, and edges between them.
GraphIsDrawable ==
    /\ specGraph = [nodes |-> specGraph.nodes, edges |-> specGraph.edges]
    /\ Drawable(specGraph)

\* Another graph is one of that kind.
LEMMA NextGraphIsDrawable ==
  ASSUME GraphIsDrawable, [AnotherGraph]_specGraph
  PROVE  GraphIsDrawable'
<1> DEFINE Edges(n) == (1 .. n) \X {"depends_on", "refines"} \X (1 .. n)
           Graph(n, E) == [nodes |-> n, edges |-> E]
<1>1. ASSUME NEW n \in 0 .. MaxNodes, NEW E \in SUBSET Edges(n), specGraph' = Graph(n, E)
      PROVE  GraphIsDrawable'
  <2>1. specGraph'.nodes = n /\ specGraph'.edges = E
    BY <1>1
  <2> QED BY <1>1, <2>1 DEF GraphIsDrawable, Drawable
<1>2. ForestNodes <= MaxNodes /\ GraphNodes <= MaxNodes /\ ForestNodes \in Nat /\ GraphNodes \in Nat
      /\ MaxNodes \in Nat
  BY PresetsAssumption DEF MaxNodes
<1>3. specGraph.nodes \in 0 .. MaxNodes /\ specGraph.edges \subseteq Edges(specGraph.nodes)
  BY DEF GraphIsDrawable, Drawable
<1>4. CASE UNCHANGED specGraph
  BY <1>4 DEF GraphIsDrawable, Drawable
<1>5. ASSUME NEW p \in 0 .. (specGraph.nodes + 1) - 1, specGraph.nodes + 1 <= ForestNodes,
             specGraph' = [nodes |-> specGraph.nodes + 1,
                           edges |-> specGraph.edges \cup
                                       IF p = 0 THEN {} ELSE {<<specGraph.nodes + 1, "refines", p>>}]
      PROVE  GraphIsDrawable'
  <2> DEFINE m == specGraph.nodes
             n == m + 1
             E == specGraph.edges \cup IF p = 0 THEN {} ELSE {<<n, "refines", p>>}
  <2>1. n \in 0 .. MaxNodes
    BY <1>2, <1>3, <1>5
  <2>2. Edges(m) \subseteq Edges(n)
    <3>1. 1 .. m \subseteq 1 .. n
      BY <1>3
    <3> QED BY <3>1
  <2>3. p # 0 => <<n, "refines", p>> \in Edges(n)
    BY <1>3
  <2>4. E \in SUBSET Edges(n)
    <3> HIDE DEF Edges, m, n
    <3> QED BY <1>3, <2>2, <2>3 DEF m
  <2>5. specGraph' = Graph(n, E)
    BY <1>5
  <2> HIDE DEF Edges, n, E, Graph
  <2> QED BY <1>1, <2>1, <2>4, <2>5
<1>6. ASSUME specGraph.nodes = GraphNodes,
             NEW s \in 1 .. GraphNodes, NEW t \in 1 .. GraphNodes, NEW i \in DOMAIN EdgeKinds,
             specGraph' = [specGraph EXCEPT !.edges = @ \cup {<<s, EdgeKinds[i], t>>}]
      PROVE  GraphIsDrawable'
  <2> DEFINE n == specGraph.nodes
             E == specGraph.edges \cup {<<s, EdgeKinds[i], t>>}
  <2>1. EdgeKinds[i] \in {"depends_on", "refines"}
    BY DEF EdgeKinds
  <2>2. <<s, EdgeKinds[i], t>> \in Edges(n)
    BY <1>6, <2>1
  <2>3. E \in SUBSET Edges(n)
    <3> HIDE DEF Edges
    <3> QED BY <1>3, <2>2
  <2>4. specGraph' = Graph(n, E)
    BY <1>6 DEF GraphIsDrawable
  <2> HIDE DEF Edges, n, E, Graph
  <2> QED BY <1>1, <1>3, <2>3, <2>4 DEF n
<1>7. CASE specGraph' = NoGraph
  <2>1. specGraph' = Graph(0, {}) /\ 0 \in 0 .. MaxNodes /\ {} \in SUBSET Edges(0)
    BY <1>2, <1>7 DEF NoGraph
  <2> HIDE DEF Edges, Graph
  <2> QED BY <1>1, <2>1
<1> HIDE DEF Edges, Graph
<1> QED BY <1>4, <1>5, <1>6, <1>7 DEF AnotherGraph

\* Every graph a backend may send is drawn readably in every layout.
THEOREM LayoutsAreReadable == PresetsSpec => []LayoutIsReadable
<1>1. PresetsInit => GraphIsDrawable
  BY MaxNodesIs DEF PresetsInit, GraphIsDrawable, Drawable, NoGraph
<1>2. GraphIsDrawable /\ [AnotherGraph]_specGraph => GraphIsDrawable'
  BY NextGraphIsDrawable
<1>3. GraphIsDrawable => LayoutIsReadable
  BY EveryLayoutReads DEF GraphIsDrawable, LayoutIsReadable
<1> QED BY <1>1, <1>2, <1>3, PTL DEF PresetsSpec

-----------------------------------------------------------------------------
(* CanvasLayout.                                                           *)
\* The ids of the presets.
PresetNames == {"tree", "linear", "spine", "dagre", "canonical", "status-columns"}

\* The six presets, and what each stands for in the storage.
LEMMA PresetsAre ==
    /\ Presets = PresetNames
    /\ \A p \in PresetNames : normalizeSpecGraphCanvasLayoutPreset(p) = p /\ p # "none"
    /\ \A v : normalizeSpecGraphCanvasLayoutPreset(v) \in PresetNames \cup {"none"}
<1>1. Presets = PresetNames
  <2>1. DOMAIN SPEC_GRAPH_CANVAS_LAYOUT_PRESETS = 1..6
    BY DEF SPEC_GRAPH_CANVAS_LAYOUT_PRESETS
  <2>2. /\ SPEC_GRAPH_CANVAS_LAYOUT_PRESETS[1] = "tree"
        /\ SPEC_GRAPH_CANVAS_LAYOUT_PRESETS[2] = "linear"
        /\ SPEC_GRAPH_CANVAS_LAYOUT_PRESETS[3] = "spine"
        /\ SPEC_GRAPH_CANVAS_LAYOUT_PRESETS[4] = "dagre"
        /\ SPEC_GRAPH_CANVAS_LAYOUT_PRESETS[5] = "canonical"
        /\ SPEC_GRAPH_CANVAS_LAYOUT_PRESETS[6] = "status-columns"
    BY DEF SPEC_GRAPH_CANVAS_LAYOUT_PRESETS
  <2>3. 1..6 = {1, 2, 3, 4, 5, 6}
    OBVIOUS
  <2> QED BY <2>1, <2>2, <2>3 DEF Presets, PresetNames
<1> QED BY <1>1 DEF PresetNames, normalizeSpecGraphCanvasLayoutPreset

\* Alt+[ and Alt+] reach a preset or Force.
LEMMA CycleTargets ==
    ASSUME layoutPreset \in PresetNames, NEW d \in {-1, 1}
    PROVE  cycleSpecGraphCanvasLayoutTarget(d) \in PresetNames \cup {"force"}
<1> DEFINE targets == Append(SPEC_GRAPH_CANVAS_LAYOUT_PRESETS, "force")
           Here(i) == targets[i] = IF forceLayoutEnabled THEN "force" ELSE layoutPreset
           current == CHOOSE i \in DOMAIN targets : Here(i)
<1>1. /\ DOMAIN targets = 1..7 /\ Len(targets) = 7
      /\ targets[1] = "tree" /\ targets[2] = "linear" /\ targets[3] = "spine"
      /\ targets[4] = "dagre" /\ targets[5] = "canonical" /\ targets[6] = "status-columns"
      /\ targets[7] = "force"
  BY DEF SPEC_GRAPH_CANVAS_LAYOUT_PRESETS
<1>2. cycleSpecGraphCanvasLayoutTarget(d) = targets[1 + ((current - 1 + d) % Len(targets))]
  BY Zenon DEF cycleSpecGraphCanvasLayoutTarget
<1> HIDE DEF targets
<1>3. \E i \in 1..7 : Here(i)
  BY <1>1 DEF PresetNames
<1> HIDE DEF Here
<1>4. current \in 1..7
  BY <1>1, <1>3
<1> HIDE DEF current
<1>5. 1 + ((current - 1 + d) % 7) \in 1..7
  BY <1>4
<1> QED BY <1>1, <1>2, <1>5 DEF PresetNames

-----
(* The preset shown is the one stored; outside the time in which effects   *)
(* are due the overrides are of nodes that are drawn, and they are the     *)
(* stored ones unless a place is unsaved; a relaxation runs under Force    *)
(* only, and then on what is drawn.                                        *)
Remembers(graph, overrides, storage) ==
    \A n \in DrawnNodes[graph] :
        /\ n \in DOMAIN overrides <=> n \in DOMAIN storage.overrides[graph]
        /\ n \in DOMAIN overrides => overrides[n] = storage.overrides[graph][n]

LayoutInv ==
    /\ canvasGraph \in DOMAIN DrawnNodes
    /\ layoutStorage = [preset |-> layoutStorage.preset, overrides |-> layoutStorage.overrides]
    /\ layoutStorage.overrides = [g \in DOMAIN DrawnNodes |-> layoutStorage.overrides[g]]
    /\ layoutPreset \in PresetNames
    /\ layoutPreset = readSpecGraphCanvasLayoutPreset(layoutStorage)
    /\ forceLive \in Relaxations
    /\ dragged # "none" => dragged \in DrawnNodes[canvasGraph]
    /\ ~layoutDue => DOMAIN layoutOverrides \subseteq DrawnNodes[canvasGraph]
    /\ ~layoutDue /\ ~unsaved => Remembers(canvasGraph, layoutOverrides, layoutStorage)
    /\ forceLive # ForceOff => forceLayoutEnabled
    /\ ~layoutDue /\ forceLive # ForceOff => forceLive.positions = "current"

\* What is read back for a graph is what is stored of its nodes.
LEMMA StoredReadsBack ==
    ASSUME NEW graph, NEW storage,
           NEW o, o = readSpecGraphCanvasLayoutOverrides(storage, graph)
    PROVE  DOMAIN o \subseteq DrawnNodes[graph] /\ Remembers(graph, o, storage)
  BY DEF readSpecGraphCanvasLayoutOverrides, Remembers

\* Writing the overrides of the graph drawn keeps the shape and the preset of
\* the storage.
LEMMA Writes ==
    ASSUME LayoutInv, NEW o, NEW s,
           s = writeSpecGraphCanvasLayoutOverrides(layoutStorage, canvasGraph, o)
    PROVE  /\ s = [preset |-> s.preset, overrides |-> s.overrides]
           /\ s.overrides = [g \in DOMAIN DrawnNodes |-> s.overrides[g]]
           /\ s.preset = layoutStorage.preset
           /\ s.overrides[canvasGraph] = o
<1> DEFINE p == layoutStorage.preset
           ov == layoutStorage.overrides
<1>1. layoutStorage = [preset |-> p, overrides |-> ov]
  BY DEF LayoutInv
<1>2. ov = [g \in DOMAIN DrawnNodes |-> ov[g]] /\ canvasGraph \in DOMAIN DrawnNodes
  BY DEF LayoutInv
<1>3. s = [layoutStorage EXCEPT !.overrides = [ov EXCEPT ![canvasGraph] = o]]
  BY DEF writeSpecGraphCanvasLayoutOverrides
<1> HIDE DEF p, ov
<1>4. s = [preset |-> p, overrides |-> [ov EXCEPT ![canvasGraph] = o]]
  BY <1>1, <1>3
<1>5. [ov EXCEPT ![canvasGraph] = o]
      = [g \in DOMAIN DrawnNodes |-> IF g = canvasGraph THEN o ELSE ov[g]]
  BY <1>2
<1>6. s.preset = p /\ s.overrides = [ov EXCEPT ![canvasGraph] = o]
  BY <1>4
<1> QED BY <1>2, <1>4, <1>5, <1>6 DEF p

\* The places shown are those that are written when a drag ends.
LEMMA Upserts ==
    ASSUME NEW o, NEW n, NEW place, NEW next,
           next = upsertSpecGraphCanvasLayoutOverride(o, n, place)
    PROVE  DOMAIN next = DOMAIN o \cup {n}
  BY DEF upsertSpecGraphCanvasLayoutOverride

\* Force states that a step may lead to.
LEMMA ForceTypes ==
    ASSUME forceLive \in Relaxations
    PROVE  /\ ForceOff \in Relaxations
           /\ Started(forceLive) \in {"current", "older"}
           /\ reheatForceLiveLayout(forceLive) \in Relaxations
           /\ reheatForceLiveLayout(forceLive).positions = forceLive.positions
           /\ forceLive = ForceOff => reheatForceLiveLayout(forceLive) = ForceOff
           /\ MovedUnderForce \in Relaxations
           /\ MovedUnderForce.positions = Started(forceLive)
<1> DEFINE s == forceLive.state
           p == forceLive.positions
           r == reheatForceLiveLayout(forceLive)
           m == [state |-> s, positions |-> Started(forceLive)]
<1>1. /\ forceLive = [state |-> s, positions |-> p]
      /\ s \in {"off", "running", "paused", "settled"} /\ p \in {"none", "current", "older"}
  BY DEF Relaxations
<1>2. ForceOff \in Relaxations
  BY DEF Relaxations, ForceOff
<1>3. Started(forceLive) \in {"current", "older"}
  BY <1>1 DEF Started
<1>4. ASSUME NEW x \in {"off", "running", "paused", "settled"},
             NEW y \in {"none", "current", "older"}, NEW live, live = [state |-> x, positions |-> y]
      PROVE  /\ live \in Relaxations /\ reheatForceLiveLayout(live) \in Relaxations
             /\ reheatForceLiveLayout(live).positions = y
             /\ x = "off" => reheatForceLiveLayout(live) = live
  <2>1. [live EXCEPT !.state = "running"] = [state |-> "running", positions |-> y]
    BY <1>4
  <2>2. \/ reheatForceLiveLayout(live) = live
        \/ reheatForceLiveLayout(live) = [state |-> "running", positions |-> y] /\ live.state # "off"
    BY <2>1 DEF reheatForceLiveLayout
  <2> QED BY <1>4, <2>2 DEF Relaxations
<1>5. [forceLive EXCEPT !.positions = Started(forceLive)] = m
  BY <1>1
<1>6. r \in Relaxations /\ r.positions = p /\ (forceLive = ForceOff => r = forceLive)
  BY <1>1, <1>4 DEF ForceOff
<1>7. MovedUnderForce = reheatForceLiveLayout(m)
  BY <1>5 DEF MovedUnderForce
<1>8. MovedUnderForce \in Relaxations /\ MovedUnderForce.positions = Started(forceLive)
  BY <1>1, <1>3, <1>4, <1>7
<1> QED BY <1>2, <1>3, <1>6, <1>8

\* Every step keeps what is remembered and what is relaxed.
LEMMA LayoutInvStep == LayoutInv /\ [LayoutStep]_laidOut => LayoutInv'
<1> SUFFICES ASSUME LayoutInv, [LayoutStep]_laidOut PROVE LayoutInv'
  OBVIOUS
<1> USE DEF LayoutInv
<1>1. CASE UNCHANGED laidOut
  BY <1>1 DEF laidOut, Remembers
<1>2. CASE Reopen
  <2>1. readSpecGraphCanvasLayoutPreset(layoutStorage) \in PresetNames
    OBVIOUS
  <2> QED BY <1>2, <2>1, ForceTypes DEF Reopen, OpenCanvas
<1>3. ASSUME NEW preset \in PresetNames, ShowPreset(preset),
             UNCHANGED <<canvasGraph, layoutOverrides, dragged, layoutDue, unsaved>>
      PROVE  LayoutInv'
  <2>1. layoutStorage' = [preset |-> preset, overrides |-> layoutStorage.overrides]
    BY <1>3 DEF ShowPreset
  <2>2. layoutStorage'.preset = preset /\ layoutStorage'.overrides = layoutStorage.overrides
    BY <2>1
  <2>3. readSpecGraphCanvasLayoutPreset(layoutStorage') = preset
    BY <2>2, PresetsAre DEF readSpecGraphCanvasLayoutPreset
  <2>4. layoutPreset' = preset /\ forceLive' = ForceOff /\ ForceOff \in Relaxations
    BY <1>3, ForceTypes DEF ShowPreset
  <2> QED BY <1>3, <2>1, <2>2, <2>3, <2>4 DEF Remembers
<1>4. CASE updateLayoutPreset
  BY <1>3, <1>4, PresetsAre DEF updateLayoutPreset
<1>5. CASE toggleForceLayout
  BY <1>5, ForceTypes DEF toggleForceLayout, Remembers
<1>6. CASE cycleLayoutPreset
  <2>1. PICK d \in {-1, 1} :
           \/ cycleSpecGraphCanvasLayoutTarget(d) # "force"
              /\ ShowPreset(cycleSpecGraphCanvasLayoutTarget(d))
           \/ /\ cycleSpecGraphCanvasLayoutTarget(d) = "force" /\ forceLayoutEnabled' = TRUE
              /\ UNCHANGED <<layoutPreset, forceLive, layoutStorage>>
    BY <1>6 DEF cycleLayoutPreset
  <2>2. UNCHANGED <<canvasGraph, layoutOverrides, dragged, layoutDue, unsaved>>
    BY <1>6 DEF cycleLayoutPreset
  <2>3. cycleSpecGraphCanvasLayoutTarget(d) \in PresetNames \cup {"force"}
    BY CycleTargets
  <2>4. CASE cycleSpecGraphCanvasLayoutTarget(d) # "force"
    BY <1>3, <2>1, <2>2, <2>3, <2>4
  <2>5. CASE cycleSpecGraphCanvasLayoutTarget(d) = "force"
    BY <2>1, <2>2, <2>5 DEF Remembers
  <2> QED BY <2>4, <2>5
<1>7. ASSUME forceLive' \in Relaxations,
             forceLive' # ForceOff =>
                 forceLayoutEnabled /\ (~layoutDue => forceLive'.positions = "current"),
             UNCHANGED <<canvasGraph, layoutPreset, forceLayoutEnabled, layoutOverrides,
                         layoutStorage, layoutDue, unsaved>>,
             dragged' = dragged \/ dragged' \in DrawnNodes[canvasGraph] \cup {"none"}
      PROVE  LayoutInv'
  BY <1>7 DEF Remembers
<1>8. CASE toggleForceLiveLayout \/ ForceFrame
  <2> DEFINE s == forceLive.state
             p == forceLive.positions
  <2>0. /\ forceLive = [state |-> s, positions |-> p]
        /\ s \in {"off", "running", "paused", "settled"} /\ p \in {"none", "current", "older"}
    BY DEF Relaxations
  <2>1. \A t : [forceLive EXCEPT !.state = t] = [state |-> t, positions |-> p]
    BY <2>0
  <2>2. PICK t \in {"running", "paused", "settled"}, q \in {p, Started(forceLive)} :
          /\ forceLive' = [state |-> t, positions |-> q]
          /\ s \in {"off", "settled"} => q = Started(forceLive)
    <3>1. CASE toggleForceLiveLayout
      <4>1. CASE s = "running"
        BY <2>1, <3>1, <4>1 DEF toggleForceLiveLayout
      <4>2. CASE s = "paused"
        BY <2>1, <3>1, <4>2 DEF toggleForceLiveLayout
      <4>3. CASE s \notin {"running", "paused"}
        BY <3>1, <4>3 DEF toggleForceLiveLayout
      <4> QED BY <4>1, <4>2, <4>3
    <3>2. CASE ForceFrame
      BY <3>2 DEF ForceFrame
    <3> QED BY <1>8, <3>1, <3>2
  <2>3. Started(forceLive) \in {"current", "older"}
        /\ (p \in {"none", "current"} => Started(forceLive) = "current")
    BY <2>0 DEF Started
  <2>4. forceLive' \in Relaxations /\ forceLive'.positions = q
    BY <2>0, <2>2, <2>3 DEF Relaxations
  <2>5. ASSUME ~layoutDue PROVE forceLive'.positions = "current"
    <3>1. CASE forceLive = ForceOff
      BY <2>2, <2>3, <2>4, <3>1 DEF ForceOff
    <3>2. CASE forceLive # ForceOff
      BY <2>2, <2>3, <2>4, <2>5, <3>2
    <3> QED BY <3>1, <3>2
  <2>6. forceLayoutEnabled
    BY <1>8 DEF toggleForceLiveLayout, ForceFrame
  <2> QED BY <1>7, <1>8, <2>4, <2>5, <2>6 DEF toggleForceLiveLayout, ForceFrame
<1>9. CASE onNodeDragStart
  BY <1>7, <1>9, ForceTypes DEF onNodeDragStart
<1>10. ASSUME NEW n \in DrawnNodes[canvasGraph], NEW place, updateLiveLayoutOverrides(n, place)
       PROVE  LayoutInv'
  <2>1. CASE forceLayoutEnabled
    <3>1. MovedUnderForce \in Relaxations /\ MovedUnderForce.positions = Started(forceLive)
      BY ForceTypes
    <3>2. ~layoutDue => MovedUnderForce.positions = "current"
      BY <3>1 DEF Started, ForceOff
    <3>3. /\ forceLive' = MovedUnderForce
          /\ UNCHANGED <<canvasGraph, layoutPreset, forceLayoutEnabled, layoutOverrides, layoutStorage,
                         dragged, layoutDue, unsaved>>
      BY <1>10, <2>1 DEF updateLiveLayoutOverrides
    <3>4. dragged' = dragged /\ (~layoutDue => forceLive'.positions = "current")
      BY <3>2, <3>3
    <3>5. forceLive' \in Relaxations
      BY <3>1, <3>3
    <3>6. UNCHANGED <<canvasGraph, layoutPreset, forceLayoutEnabled, layoutOverrides,
                      layoutStorage, layoutDue, unsaved>>
      BY <3>3
    <3> HIDE DEF LayoutInv
    <3> QED BY <1>7, <2>1, <3>4, <3>5, <3>6
  <2>2. CASE ~forceLayoutEnabled
    <3>1. /\ layoutOverrides' = upsertSpecGraphCanvasLayoutOverride(layoutOverrides, n, place)
          /\ unsaved' = TRUE
          /\ UNCHANGED <<forceLive, canvasGraph, layoutPreset, forceLayoutEnabled, layoutStorage,
                         dragged, layoutDue>>
      BY <1>10, <2>2 DEF updateLiveLayoutOverrides
    <3>2. DOMAIN layoutOverrides' = DOMAIN layoutOverrides \cup {n}
      BY <3>1, Upserts
    <3> QED BY <1>10, <3>1, <3>2
  <2> QED BY <2>1, <2>2
<1>11. CASE onNodeDrag \/ Nudge
  BY <1>10, <1>11 DEF onNodeDrag, Nudge
<1>12. CASE onNodeDragStop
  <2>1. CASE forceLayoutEnabled
    <3>1. ~layoutDue => MovedUnderForce.positions = "current"
      BY ForceTypes DEF Started, ForceOff
    <3> QED BY <1>7, <1>12, <2>1, <3>1, ForceTypes DEF onNodeDragStop
  <2>2. CASE ~forceLayoutEnabled
    <3>1. PICK place \in DragPlaces[dragged] : persistLayoutOverride(dragged, place)
      BY <1>12, <2>2 DEF onNodeDragStop
    <3>2. /\ dragged \in DrawnNodes[canvasGraph] /\ dragged' = "none"
          /\ UNCHANGED <<canvasGraph, layoutPreset, forceLayoutEnabled, forceLive>>
      BY <1>12, <2>2 DEF onNodeDragStop
    <3> DEFINE next == upsertSpecGraphCanvasLayoutOverride(layoutOverrides, dragged, place)
    <3>3. DOMAIN next = DOMAIN layoutOverrides \cup {dragged}
      BY Upserts
    <3>4. layoutStorage' = writeSpecGraphCanvasLayoutOverrides(layoutStorage, canvasGraph, next)
      BY <3>1 DEF persistLayoutOverride
    <3>5. /\ layoutStorage' = [preset |-> layoutStorage'.preset,
                               overrides |-> layoutStorage'.overrides]
          /\ layoutStorage'.overrides = [g \in DOMAIN DrawnNodes |-> layoutStorage'.overrides[g]]
          /\ layoutStorage'.preset = layoutStorage.preset
          /\ layoutStorage'.overrides[canvasGraph] = next
      BY <3>4, Writes
    <3>6. layoutPreset' = readSpecGraphCanvasLayoutPreset(layoutStorage')
      BY <3>2, <3>5 DEF readSpecGraphCanvasLayoutPreset
    <3>7. CASE layoutOverrides' = next /\ unsaved' = FALSE /\ UNCHANGED layoutDue
      BY <3>2, <3>3, <3>5, <3>6, <3>7 DEF Remembers
    <3>8. CASE /\ layoutOverrides' =
                     readSpecGraphCanvasLayoutOverrides(layoutStorage, canvasGraph)
               /\ unsaved' = TRUE /\ layoutDue' = FALSE
      <4>1. DOMAIN layoutOverrides' \subseteq DrawnNodes[canvasGraph]
        BY <3>8, StoredReadsBack
      <4> QED BY <2>2, <3>2, <3>5, <3>6, <3>8, <4>1
    <3> QED BY <3>1, <3>7, <3>8 DEF persistLayoutOverride
  <2> QED BY <2>1, <2>2
<1>13. CASE resetLayoutOverrides
  <2>1. layoutStorage' =
            writeSpecGraphCanvasLayoutOverrides(layoutStorage, canvasGraph, NoOverrides)
    BY <1>13 DEF resetLayoutOverrides
  <2>2. /\ layoutStorage' = [preset |-> layoutStorage'.preset,
                             overrides |-> layoutStorage'.overrides]
        /\ layoutStorage'.overrides = [g \in DOMAIN DrawnNodes |-> layoutStorage'.overrides[g]]
        /\ layoutStorage'.preset = layoutStorage.preset
        /\ layoutStorage'.overrides[canvasGraph] = NoOverrides
    BY <2>1, Writes
  <2>3. readSpecGraphCanvasLayoutPreset(layoutStorage')
        = readSpecGraphCanvasLayoutPreset(layoutStorage)
    BY <2>2 DEF readSpecGraphCanvasLayoutPreset
  <2>4. DOMAIN NoOverrides = {}
    BY DEF NoOverrides
  <2> QED BY <1>13, <2>2, <2>3, <2>4 DEF resetLayoutOverrides, Remembers
<1>14. CASE FreshGraph
  <2>1. forceLive' \in Relaxations /\ (forceLive = ForceOff => forceLive' = ForceOff)
    BY <1>14 DEF FreshGraph, Relaxations, ForceOff
  <2> QED BY <1>14, <2>1 DEF FreshGraph
<1>15. CASE LookAtOtherParts
  BY <1>15, ForceTypes DEF LookAtOtherParts, Remembers
<1>16. CASE LayoutEffects
  <2>1. /\ DOMAIN layoutOverrides' \subseteq DrawnNodes[canvasGraph]
        /\ Remembers(canvasGraph, layoutOverrides', layoutStorage)
    BY <1>16, StoredReadsBack DEF LayoutEffects
  <2>2. \/ forceLive' = ForceOff
        \/ /\ forceLayoutEnabled /\ forceLive' \in Relaxations
           /\ forceLive'.positions = "current"
    BY <1>16 DEF LayoutEffects, Relaxations
  <2> QED BY <1>16, <2>1, <2>2, ForceTypes DEF LayoutEffects
<1> QED
  BY <1>1, <1>2, <1>4, <1>5, <1>6, <1>8, <1>9, <1>11, <1>12, <1>13, <1>14, <1>15, <1>16
     DEF LayoutStep

\* Once its effects have run, the canvas shows the preset and the places kept
\* for the graph drawn, and relaxes only that graph and only under Force, for
\* any graphs, nodes and places.
THEOREM CanvasCorrect == LayoutSpec => []CanvasAtRest
<1>1. LayoutInit => LayoutInv
  <2> SUFFICES ASSUME LayoutInit PROVE LayoutInv
    OBVIOUS
  <2>1. \A v : readSpecGraphCanvasLayoutPreset(v) \in PresetNames
    BY PresetsAre DEF readSpecGraphCanvasLayoutPreset, PresetNames
  <2>2. PICK o : layoutStorage.overrides =
                    [g \in DOMAIN DrawnNodes |-> IF g = canvasGraph THEN o ELSE NoOverrides]
    BY DEF LayoutInit
  <2>3. layoutStorage = [preset |-> layoutStorage.preset, overrides |-> layoutStorage.overrides]
    BY DEF LayoutInit
  <2>4. forceLive = ForceOff /\ ForceOff \in Relaxations
    BY DEF LayoutInit, ForceOff, Relaxations
  <2> QED BY <2>1, <2>2, <2>3, <2>4 DEF LayoutInit, LayoutInv
<1>2. LayoutInv => CanvasAtRest
  <2> SUFFICES ASSUME LayoutInv PROVE CanvasAtRest
    OBVIOUS
  <2>1. RelaxationIsOfWhatIsDrawn
    BY DEF LayoutInv, RelaxationIsOfWhatIsDrawn
  <2>2. ASSUME ~layoutDue, ~unsaved
        PROVE  applySpecGraphCanvasLayoutOverrides(canvasGraph, layoutOverrides)
               = applySpecGraphCanvasLayoutOverrides(canvasGraph,
                     readSpecGraphCanvasLayoutOverrides(layoutStorage, canvasGraph))
    <3> DEFINE o == readSpecGraphCanvasLayoutOverrides(layoutStorage, canvasGraph)
    <3>1. Remembers(canvasGraph, o, layoutStorage)
      BY StoredReadsBack
    <3>2. Remembers(canvasGraph, layoutOverrides, layoutStorage)
      BY <2>2 DEF LayoutInv
    <3> HIDE DEF o
    <3>3. \A n \in DrawnNodes[canvasGraph] :
             /\ n \in DOMAIN o <=> n \in DOMAIN layoutOverrides
             /\ n \in DOMAIN o => o[n] = layoutOverrides[n]
      BY <3>1, <3>2 DEF Remembers
    <3>4. applySpecGraphCanvasLayoutOverrides(canvasGraph, layoutOverrides)
          = applySpecGraphCanvasLayoutOverrides(canvasGraph, o)
      BY <3>3 DEF applySpecGraphCanvasLayoutOverrides
    <3> QED BY <3>4 DEF o
  <2>3. layoutPreset = readSpecGraphCanvasLayoutPreset(layoutStorage)
    BY DEF LayoutInv
  <2> QED BY <2>1, <2>2, <2>3 DEF CanvasAtRest, LayoutIsRemembered
<1> QED BY <1>1, <1>2, LayoutInvStep, PTL DEF LayoutSpec

-----------------------------------------------------------------------------
(* ConversationRecords: what records, streams and artifacts are made of.   *)
Pieces == {"ask", "received", "context"} \cup STRING
Words == Seq(Pieces)
Titles == {"Untitled"} \cup (STRING \ {""})
Sets ==
    [context_set_id : {"ctx-draft"}, created_at : {0}, label : {"draft"}, items : Seq(Items)]
Events ==
    [kind : {"turn_started"}, turn : Nat, role : {"operator", "agent"}, at : Nat, context : Sets]
      \cup [kind : {"text_delta"}, turn : Nat, text : Words]
      \cup [kind : {"tool_call"}, turn : Nat]
      \cup [kind : {"output_created"}, turn : Nat, at : Nat]
      \cup [kind : {"turn_completed"}, turn : Nat]
Conversations ==
    [title : Titles, events : Seq(Events), context_set : Sets, created_at : Nat,
     updated_at : Nat, turn_count : Nat]
Streams == [of : Nat, events : Seq(Events)]
RecordsTypeInv ==
    /\ records \in Seq(Conversations) /\ streams \in Seq(Streams) /\ clock \in Nat
    /\ \A n \in DOMAIN streams : streams[n].of \in DOMAIN records

LEMMA SerializedIsSet ==
  ASSUME NEW items \in Seq(Items)
  PROVE  serializeHistoryContextSet(createAgentContextDraft(items)) \in Sets
<1>1. \A item \in Items : [item EXCEPT !.body = ""] \in Items
  <2> TAKE item \in Items
  <2>1. /\ item \in [kind : DOMAIN ItemKind, key : STRING, blank : SUBSET STRING, body : {"", "long"}]
        /\ item.blank \cap Needed[ItemKind[item.kind]] \subseteq {"title"}
    BY DEF Items
  <2> DEFINE kept == [item EXCEPT !.body = ""]
  <2>2. kept \in [kind : DOMAIN ItemKind, key : STRING, blank : SUBSET STRING, body : {"", "long"}]
        /\ kept.kind = item.kind /\ kept.blank = item.blank
    BY <2>1
  <2> HIDE DEF kept
  <2>3. kept \in Items
    BY <2>1, <2>2 DEF Items
  <2> QED BY <2>3 DEF kept
<1> DEFINE strip == [item \in Items |-> [item EXCEPT !.body = ""]]
           kept == [i \in DOMAIN items |-> strip[items[i]]]
<1>2. kept \in Seq(Items)
  <2>1. strip \in [Items -> Items]
    BY <1>1
  <2> HIDE DEF strip
  <2> QED BY <2>1
<1>3. kept = [i \in DOMAIN items |-> [items[i] EXCEPT !.body = ""]]
  <2>1. \A i \in DOMAIN items : items[i] \in Items
    OBVIOUS
  <2>2. \A i \in DOMAIN items : strip[items[i]] = [items[i] EXCEPT !.body = ""]
    BY <2>1
  <2> HIDE DEF strip
  <2> QED BY <2>2
<1> HIDE DEF kept, strip
<1> DEFINE draft == createAgentContextDraft(items)
<1>4. draft = [context_set_id |-> "ctx-draft", created_at |-> 0, label |-> "draft", items |-> items]
  BY DEF createAgentContextDraft
<1>5. serializeHistoryContextSet(draft) = [draft EXCEPT !.items = kept]
  <2>1. draft.items = items
    BY <1>4
  <2> HIDE DEF draft
  <2> QED BY <1>3, <2>1 DEF serializeHistoryContextSet
<1>6. [draft EXCEPT !.items = kept] =
        [context_set_id |-> "ctx-draft", created_at |-> 0, label |-> "draft", items |-> kept]
  <2> HIDE DEF draft
  <2> QED BY <1>4
<1>7. [draft EXCEPT !.items = kept] \in Sets
  <2> HIDE DEF draft
  <2> QED BY <1>2, <1>6 DEF Sets
<1> QED BY <1>5, <1>7

LEMMA MessageEventsAre ==
  ASSUME NEW text \in Words, NEW set \in Sets, NEW turn \in Nat, NEW at \in Nat
  PROVE  MessageEvents(text, set, turn, at) \in Seq(Events) /\ MessageEvents(text, set, turn, at) # <<>>
<1> DEFINE Begun(t, role) ==
             [kind |-> "turn_started", turn |-> t, role |-> role, at |-> at, context |-> set]
           Completed(t) == [kind |-> "turn_completed", turn |-> t]
           Tool == [kind |-> "tool_call", turn |-> turn + 1]
           Output == [kind |-> "output_created", turn |-> turn + 1, at |-> at]
           Summary == Delta(turn + 1, summarizeContextItems(set))
           first == <<Begun(turn, "operator"), Delta(turn, text), Completed(turn), Begun(turn + 1, "agent")>>
           tools == IF Attached(set) THEN <<Tool>> ELSE <<>>
           said == <<Delta(turn + 1, <<"received">> \o text), Delta(turn + 1, <<"context">>)>>
           summary == IF Attached(set) THEN <<Summary>> ELSE <<>>
           last == <<Output, Completed(turn + 1)>>
<1>1. \A t \in Nat : Begun(t, "operator") \in Events /\ Begun(t, "agent") \in Events
                     /\ Completed(t) \in Events
  BY DEF Events
<1>2. \A t \in Nat, words \in Words : Delta(t, words) \in Events
  BY DEF Events, Delta
<1>3. Tool \in Events /\ Output \in Events
  BY DEF Events
<1>4. text \in Words /\ <<"received">> \o text \in Words /\ <<"context">> \in Words
  BY DEF Words, Pieces
<1>5. summarizeContextItems(set) \in Words
  <2>1. set.items \in Seq(Items)
    BY DEF Sets
  <2>2. \A i \in DOMAIN set.items : set.items[i].key \in STRING
    <3>1. \A item \in Items : item.key \in STRING
      BY DEF Items
    <3> QED BY <2>1, <3>1
  <2>3. Len(set.items) \in Nat /\ DOMAIN set.items = 1 .. Len(set.items)
    BY <2>1
  <2> QED BY <2>2, <2>3 DEF summarizeContextItems, Words, Pieces
<1>6. MessageEvents(text, set, turn, at) = first \o tools \o said \o summary \o last
  BY DEF MessageEvents
<1>7. turn + 1 \in Nat
  OBVIOUS
<1>8. first \in Seq(Events) /\ Len(first) = 4
  <2> HIDE DEF Begun, Completed
  <2> QED BY <1>1, <1>2, <1>4, <1>7
<1>9. said \in Seq(Events)
  BY <1>2, <1>4, <1>7
<1>10. tools \in Seq(Events) /\ summary \in Seq(Events)
  <2>1. Summary \in Events
    BY <1>2, <1>5, <1>7
  <2>2. <<Tool>> \in Seq(Events) /\ <<Summary>> \in Seq(Events) /\ <<>> \in Seq(Events)
    <3> HIDE DEF Tool, Summary
    <3> QED BY <1>3, <2>1
  <2> HIDE DEF Tool, Summary
  <2> QED BY <2>2
<1>11. last \in Seq(Events)
  <2> DEFINE completed == Completed(turn + 1)
  <2>1. Output \in Events /\ completed \in Events
    BY <1>1, <1>3, <1>7
  <2> HIDE DEF Output, completed
  <2>2. <<Output, completed>> \in Seq(Events)
    BY <2>1
  <2> QED BY <2>2 DEF completed
<1> HIDE DEF first, tools, said, summary, last
<1>12. \A s, t \in Seq(Events) : s # <<>> => s \o t \in Seq(Events) /\ s \o t # <<>>
  BY ConcatEqualIffEmpty
<1>13. first # <<>>
  <2> SUFFICES ASSUME first = <<>> PROVE FALSE
    OBVIOUS
  <2>1. Len(first) = 0
    OBVIOUS
  <2> QED BY <1>8, <2>1
<1>14. first \o tools \o said \in Seq(Events) /\ first \o tools \o said # <<>>
  BY <1>8, <1>9, <1>10, <1>12, <1>13
<1>15. first \o tools \o said \o summary \o last \in Seq(Events)
       /\ first \o tools \o said \o summary \o last # <<>>
  BY <1>10, <1>11, <1>12, <1>14
<1> QED BY <1>6, <1>15

LEMMA RecordsTypeStep == RecordsTypeInv /\ [RecordsNext]_recordVars => RecordsTypeInv'
<1> SUFFICES ASSUME RecordsTypeInv, [RecordsNext]_recordVars PROVE RecordsTypeInv'
  OBVIOUS
<1>1. /\ records \in Seq(Conversations) /\ streams \in Seq(Streams) /\ clock \in Nat
      /\ \A n \in DOMAIN streams : streams[n].of \in DOMAIN records
  BY DEF RecordsTypeInv
<1>2. ASSUME NEW start \in Starts, startConversation(start) PROVE RecordsTypeInv'
  <2>1. start \in [title : STRING, prompt : STRING, items : Seq(Items)]
    BY RecordsAssumption
  <2>2. normalizeConversationTitle(start.title, start.prompt) \in Titles
    BY <2>1 DEF normalizeConversationTitle, Titles
  <2> DEFINE rec == [title |-> normalizeConversationTitle(start.title, start.prompt), events |-> <<>>,
                     context_set |-> serializeHistoryContextSet(createAgentContextDraft(start.items)),
                     created_at |-> clock, updated_at |-> clock, turn_count |-> 0]
  <2>3. rec \in Conversations
    BY <1>1, <2>1, <2>2, SerializedIsSet DEF Conversations
  <2>4. records' = Append(records, rec) /\ UNCHANGED <<streams, clock>>
    BY <1>2 DEF startConversation
  <2> HIDE DEF rec
  <2>5. records' \in Seq(Conversations) /\ DOMAIN records \subseteq DOMAIN records'
    BY <1>1, <2>3, <2>4
  <2> QED BY <1>1, <2>4, <2>5 DEF RecordsTypeInv
<1>3. ASSUME NEW id \in DOMAIN records, NEW set \in Sets, sendMessage(id, <<"ask">>, set)
      PROVE  RecordsTypeInv'
  <2> DEFINE events == MessageEvents(<<"ask">>, set, 2 * Len(streams) + 1, clock')
             rec == [records[id] EXCEPT !.context_set = set, !.updated_at = clock',
                            !.turn_count = @ + 2, !.events = Append(@, Head(events))]
             stream == [of |-> id, events |-> Tail(events)]
  <2>1. /\ clock' = clock + 1 /\ records' = [records EXCEPT ![id] = rec]
        /\ streams' = Append(streams, stream)
    BY <1>3 DEF sendMessage
  <2>2. events \in Seq(Events) /\ events # <<>>
    <3>1. clock' \in Nat /\ 2 * Len(streams) + 1 \in Nat
      BY <1>1, <2>1
    <3>2. <<"ask">> \in Words
      BY DEF Words, Pieces
    <3> QED BY <3>1, <3>2, MessageEventsAre
  <2> HIDE DEF events
  <2>3. Head(events) \in Events /\ Tail(events) \in Seq(Events)
    BY <2>2
  <2>4. records[id] \in Conversations /\ id \in Nat
    BY <1>1
  <2>5. rec \in Conversations
    <3>1. records[id].events \in Seq(Events) /\ records[id].turn_count \in Nat
      BY <2>4 DEF Conversations
    <3>2. /\ Append(records[id].events, Head(events)) \in Seq(Events)
          /\ records[id].turn_count + 2 \in Nat /\ clock' \in Nat
      BY <1>1, <2>1, <2>3, <3>1
    <3> QED BY <2>4, <3>2 DEF Conversations
  <2>6. stream \in Streams
    BY <2>3, <2>4 DEF Streams
  <2> HIDE DEF rec
  <2>7. records' \in Seq(Conversations) /\ DOMAIN records' = DOMAIN records
    BY <1>1, <2>1, <2>5
  <2>8. streams' \in Seq(Streams)
    BY <1>1, <2>1, <2>6
  <2>9. ASSUME NEW n \in DOMAIN streams' PROVE streams'[n].of \in DOMAIN records'
    <3>1. CASE n \in DOMAIN streams
      <4>1. streams'[n] = streams[n]
        BY <1>1, <2>1, <2>6, <3>1
      <4> QED BY <1>1, <2>7, <3>1, <4>1
    <3>2. CASE n \notin DOMAIN streams
      <4>1. streams'[n] = stream
        BY <1>1, <2>1, <2>6, <3>2
      <4> QED BY <2>7, <4>1
    <3> QED BY <3>1, <3>2
  <2> QED BY <1>1, <2>1, <2>7, <2>8, <2>9 DEF RecordsTypeInv
<1>4. ASSUME NEW n \in DOMAIN streams, appendEvent(n) PROVE RecordsTypeInv'
  <2> DEFINE id == streams[n].of
             rec == [records[id] EXCEPT !.events = Append(@, Head(streams[n].events))]
             stream == [streams[n] EXCEPT !.events = Tail(@)]
  <2>1. /\ streams[n].events # <<>> /\ records' = [records EXCEPT ![id] = rec]
        /\ streams' = [streams EXCEPT ![n] = stream] /\ clock' = clock
    BY <1>4 DEF appendEvent
  <2>2. streams[n] \in Streams /\ id \in DOMAIN records
    BY <1>1
  <2>3. streams[n].events \in Seq(Events) /\ id \in Nat
    BY <2>2 DEF Streams
  <2>4. Head(streams[n].events) \in Events /\ Tail(streams[n].events) \in Seq(Events)
    BY <2>1, <2>3
  <2>5. records[id] \in Conversations
    BY <1>1, <2>2
  <2>6. rec \in Conversations
    <3>1. records[id].events \in Seq(Events)
      BY <2>5 DEF Conversations
    <3>2. Append(records[id].events, Head(streams[n].events)) \in Seq(Events)
      BY <2>4, <3>1
    <3> HIDE DEF id
    <3> QED BY <2>5, <3>2 DEF Conversations
  <2>7. stream \in Streams /\ stream.of = id
    BY <2>2, <2>4 DEF Streams
  <2> HIDE DEF rec, stream, id
  <2>8. records' \in Seq(Conversations) /\ DOMAIN records' = DOMAIN records
    BY <1>1, <2>1, <2>2, <2>6
  <2>9. streams' \in Seq(Streams) /\ DOMAIN streams' = DOMAIN streams
    BY <1>1, <2>1, <2>7
  <2>10. \A m \in DOMAIN streams : streams'[m].of = streams[m].of
    BY <1>1, <2>1, <2>7 DEF id
  <2> QED BY <1>1, <2>1, <2>8, <2>9, <2>10 DEF RecordsTypeInv
<1>5. ASSUME NEW n \in DOMAIN streams, StopReading(n) PROVE RecordsTypeInv'
  <2> DEFINE stream == [streams[n] EXCEPT !.events = <<>>]
  <2>1. streams' = [streams EXCEPT ![n] = stream] /\ UNCHANGED <<records, clock>>
    BY <1>5 DEF StopReading
  <2>2. streams[n] \in Streams
    BY <1>1
  <2>3. stream \in Streams /\ stream.of = streams[n].of
    <3>1. <<>> \in Seq(Events)
      OBVIOUS
    <3> QED BY <2>2, <3>1 DEF Streams
  <2> HIDE DEF stream
  <2>4. streams' \in Seq(Streams) /\ DOMAIN streams' = DOMAIN streams
        /\ \A m \in DOMAIN streams : streams'[m].of = streams[m].of
    BY <1>1, <2>1, <2>3
  <2> QED BY <1>1, <2>1, <2>4 DEF RecordsTypeInv
<1>6. CASE UNCHANGED recordVars
  BY <1>1, <1>6 DEF recordVars, RecordsTypeInv
<1>7. ASSUME NEW id \in DOMAIN records
      PROVE  /\ records[id].context_set \in Sets
             /\ \A items \in SentItems :
                   serializeHistoryContextSet(createAgentContextDraft(items)) \in Sets
  <2>1. records[id] \in Conversations
    BY <1>1
  <2>2. records[id].context_set \in Sets
    BY <2>1 DEF Conversations
  <2>3. \A items \in SentItems : items \in Seq(Items)
    BY RecordsAssumption
  <2> QED BY <2>2, <2>3, SerializedIsSet
<1>8. CASE \E start \in Starts : startConversation(start)
  BY <1>2, <1>8
<1>9. ASSUME NEW id \in DOMAIN records, resumeConversation(id) PROVE RecordsTypeInv'
  BY <1>6, <1>9 DEF resumeConversation
<1>10. ASSUME NEW id \in DOMAIN records, sendMessage(id, <<"ask">>, records[id].context_set)
       PROVE  RecordsTypeInv'
  BY <1>3, <1>7, <1>10
<1>11. ASSUME NEW id \in DOMAIN records, NEW items \in SentItems,
              sendMessage(id, <<"ask">>, serializeHistoryContextSet(createAgentContextDraft(items)))
       PROVE  RecordsTypeInv'
  BY <1>3, <1>7, <1>11
<1> QED BY <1>4, <1>5, <1>6, <1>8, <1>9, <1>10, <1>11 DEF RecordsNext

-----------------------------------------------------------------------------
(* The turns of a conversation: each has an id of its own, and was started.*)
Turns ==
    [turn : Nat, role : {"operator", "agent"}, text : Words, outputs : Seq({"analysis"}),
     completed : BOOLEAN]
StartsTurn(e, id) == e.kind = "turn_started" /\ e.turn = id
StartedTurns(events) ==
    {turns \in Seq(Turns) :
        /\ \A i, j \in DOMAIN turns : turns[i].turn = turns[j].turn => i = j
        /\ \A i \in DOMAIN turns : \E k \in DOMAIN events : StartsTurn(events[k], turns[i].turn)}

\* An update of turns that keeps what they are.
LEMMA UpdateKeeps ==
  ASSUME NEW events, NEW turns \in StartedTurns(events), NEW id, NEW new \in [Turns -> Turns],
         \A t \in Turns : new[t].turn = t.turn
  PROVE  [i \in DOMAIN turns |-> IF turns[i].turn = id THEN new[turns[i]] ELSE turns[i]]
           \in StartedTurns(events)
<1> DEFINE after == [i \in DOMAIN turns |-> IF turns[i].turn = id THEN new[turns[i]] ELSE turns[i]]
<1>1. turns \in Seq(Turns) /\ \A i \in DOMAIN turns : turns[i] \in Turns
  BY DEF StartedTurns
<1>2. DOMAIN after = DOMAIN turns /\ \A i \in DOMAIN turns : after[i] \in Turns /\ after[i].turn = turns[i].turn
  BY <1>1
<1>3. after \in Seq(Turns)
  <2>1. DOMAIN turns = 1 .. Len(turns) /\ Len(turns) \in Nat
    BY <1>1
  <2>2. after = [i \in 1 .. Len(turns) |-> after[i]]
    BY <2>1
  <2> HIDE DEF after
  <2> QED BY <1>2, <2>1, <2>2
<1> HIDE DEF after
<1>4. \A i, j \in DOMAIN after : after[i].turn = after[j].turn => i = j
  BY <1>2 DEF StartedTurns
<1>5. \A i \in DOMAIN after : \E k \in DOMAIN events : StartsTurn(events[k], after[i].turn)
  BY <1>2 DEF StartedTurns
<1> QED BY <1>3, <1>4, <1>5 DEF StartedTurns, after

LEMMA EventKeeps ==
  ASSUME NEW events \in Seq(Events), NEW k \in DOMAIN events, NEW turns \in StartedTurns(events)
  PROVE  projectAgentRuntimeEvent(turns, events[k]) \in StartedTurns(events)
<1> DEFINE e == events[k]
<1>1. e \in Events /\ turns \in Seq(Turns)
  BY DEF StartedTurns
<1>2. CASE e.kind = "turn_started"
  <2>1. CASE \E i \in DOMAIN turns : turns[i].turn = e.turn
    BY <1>2, <2>1 DEF projectAgentRuntimeEvent
  <2>2. CASE ~ \E i \in DOMAIN turns : turns[i].turn = e.turn
    <3> DEFINE t == [turn |-> e.turn, role |-> e.role, text |-> <<>>, outputs |-> <<>>, completed |-> FALSE]
               after == Append(turns, t)
    <3>1. projectAgentRuntimeEvent(turns, e) = after
      BY <1>2, <2>2 DEF projectAgentRuntimeEvent
    <3>2. t \in Turns /\ t.turn = e.turn
      <4>1. e.turn \in Nat /\ e.role \in {"operator", "agent"}
        BY <1>1, <1>2 DEF Events
      <4>2. <<>> \in Words /\ <<>> \in Seq({"analysis"})
        BY DEF Words
      <4> HIDE DEF e
      <4> QED BY <4>1, <4>2 DEF Turns
    <3> HIDE DEF t, e
    <3>3. after \in Seq(Turns)
      BY <1>1, <3>2
    <3>4. \A i \in DOMAIN after :
             \/ i \in DOMAIN turns /\ after[i] = turns[i]
             \/ i = Len(turns) + 1 /\ i \notin DOMAIN turns /\ after[i] = t
      BY <1>1, <3>2
    <3> HIDE DEF after
    <3>5. \A i, j \in DOMAIN after : after[i].turn = after[j].turn => i = j
      BY <2>2, <3>2, <3>4 DEF StartedTurns
    <3>6. \A i \in DOMAIN after : \E n \in DOMAIN events : StartsTurn(events[n], after[i].turn)
      BY <1>2, <3>2, <3>4 DEF StartedTurns, StartsTurn, e
    <3> QED BY <3>1, <3>3, <3>5, <3>6 DEF StartedTurns, e
  <2> QED BY <2>1, <2>2
<1>3. CASE e.kind = "text_delta"
  <2> DEFINE new == [t \in Turns |-> [t EXCEPT !.text = @ \o e.text]]
  <2>1. e.text \in Words
    BY <1>1, <1>3 DEF Events
  <2>2. new \in [Turns -> Turns] /\ \A t \in Turns : new[t].turn = t.turn
    <3>1. ASSUME NEW t \in Turns
          PROVE  [t EXCEPT !.text = @ \o e.text] \in Turns /\ [t EXCEPT !.text = @ \o e.text].turn = t.turn
      <4>1. t.text \o e.text \in Words
        BY <2>1 DEF Turns, Words
      <4> HIDE DEF e
      <4> QED BY <4>1 DEF Turns
    <3> QED BY <3>1
  <2>3. [i \in DOMAIN turns |-> IF turns[i].turn = e.turn THEN new[turns[i]] ELSE turns[i]]
          \in StartedTurns(events)
    <3> HIDE DEF new, e
    <3> QED BY <2>2, UpdateKeeps
  <2>4. projectAgentRuntimeEvent(turns, e) =
          [i \in DOMAIN turns |-> IF turns[i].turn = e.turn THEN new[turns[i]] ELSE turns[i]]
    <3>1. \A i \in DOMAIN turns : new[turns[i]] = [turns[i] EXCEPT !.text = @ \o e.text]
      <4>1. \A i \in DOMAIN turns : turns[i] \in Turns
        BY <1>1
      <4> HIDE DEF e
      <4> QED BY <4>1
    <3>2. projectAgentRuntimeEvent(turns, e) =
            updateTurn(turns, e.turn, LAMBDA t : [t EXCEPT !.text = @ \o e.text])
      BY <1>3 DEF projectAgentRuntimeEvent
    <3> HIDE DEF e, new
    <3> QED BY <3>1, <3>2 DEF updateTurn
  <2> QED BY <2>3, <2>4
<1>4. CASE e.kind = "tool_call"
  BY <1>4 DEF projectAgentRuntimeEvent
<1>5. CASE e.kind = "output_created"
  <2> DEFINE new == [t \in Turns |-> [t EXCEPT !.outputs = Append(@, "analysis")]]
  <2>2. new \in [Turns -> Turns] /\ \A t \in Turns : new[t].turn = t.turn
    <3>1. ASSUME NEW t \in Turns
          PROVE  /\ [t EXCEPT !.outputs = Append(@, "analysis")] \in Turns
                 /\ [t EXCEPT !.outputs = Append(@, "analysis")].turn = t.turn
      <4>1. Append(t.outputs, "analysis") \in Seq({"analysis"})
        BY DEF Turns
      <4> QED BY <4>1 DEF Turns
    <3> QED BY <3>1
  <2>3. [i \in DOMAIN turns |-> IF turns[i].turn = e.turn THEN new[turns[i]] ELSE turns[i]]
          \in StartedTurns(events)
    <3> HIDE DEF new, e
    <3> QED BY <2>2, UpdateKeeps
  <2>4. projectAgentRuntimeEvent(turns, e) =
          [i \in DOMAIN turns |-> IF turns[i].turn = e.turn THEN new[turns[i]] ELSE turns[i]]
    BY <1>1, <1>5 DEF projectAgentRuntimeEvent, updateTurn
  <2> QED BY <2>3, <2>4
<1>6. CASE e.kind = "turn_completed"
  <2> DEFINE new == [t \in Turns |-> [t EXCEPT !.completed = TRUE]]
  <2>2. new \in [Turns -> Turns] /\ \A t \in Turns : new[t].turn = t.turn
    BY DEF Turns
  <2>3. [i \in DOMAIN turns |-> IF turns[i].turn = e.turn THEN new[turns[i]] ELSE turns[i]]
          \in StartedTurns(events)
    <3> HIDE DEF new, e
    <3> QED BY <2>2, UpdateKeeps
  <2>4. projectAgentRuntimeEvent(turns, e) =
          [i \in DOMAIN turns |-> IF turns[i].turn = e.turn THEN new[turns[i]] ELSE turns[i]]
    BY <1>1, <1>6 DEF projectAgentRuntimeEvent, updateTurn
  <2> QED BY <2>3, <2>4
<1>7. e.kind \in {"turn_started", "text_delta", "tool_call", "output_created", "turn_completed"}
  BY <1>1 DEF Events
<1> QED BY <1>2, <1>3, <1>4, <1>5, <1>6, <1>7

LEMMA TurnsAreStarted ==
  ASSUME NEW events \in Seq(Events)
  PROVE  projectAgentRuntimeEvents(events) \in StartedTurns(events)
<1> DEFINE n == Len(events)
           S == StartedTurns(events)
           E(f, k) == IF k = 0 THEN <<>> ELSE projectAgentRuntimeEvent(f[k - 1], events[k])
           IsIt(f) == f = [k \in 0 .. n |-> E(f, k)]
           g == CHOOSE f : IsIt(f)
<1>1. projectAgentRuntimeEvents(events) = g[n]
  BY DEF projectAgentRuntimeEvents
<1>2. n \in Nat /\ DOMAIN events = 1 .. n
  OBVIOUS
<1>3. <<>> \in S
  BY DEF StartedTurns
<1>4. \A k \in 1 .. n, s \in S : projectAgentRuntimeEvent(s, events[k]) \in S
  BY <1>2, EventKeeps
<1>5. \E f : IsIt(f)
  <2> DEFINE step == [k \in 1 .. n |-> [s \in S |-> projectAgentRuntimeEvent(s, events[k])]]
  <2>1. step \in [1 .. n -> [S -> S]]
    BY <1>4
  <2> HIDE DEF step, n, S
  <2> PICK f : Steps(f, n, S, <<>>, step)
    BY <1>2, <1>3, <2>1, Recursion
  <2>2. f \in [0 .. n -> S] /\ f[0] = <<>> /\ \A k \in 1 .. n : f[k] = step[k][f[k - 1]]
    BY DEF Steps
  <2>3. \A k \in 0 .. n : f[k] = E(f, k)
    <3>1. ASSUME NEW k \in 1 .. n PROVE f[k] = projectAgentRuntimeEvent(f[k - 1], events[k]) /\ k # 0
      <4>1. k - 1 \in 0 .. n /\ f[k - 1] \in S
        BY <1>2, <2>2
      <4> QED BY <1>2, <2>2, <4>1 DEF step
    <3>2. \A k \in 0 .. n : k = 0 \/ k \in 1 .. n
      BY <1>2
    <3> QED BY <2>2, <3>1, <3>2
  <2> HIDE DEF E
  <2> QED BY <2>2, <2>3
<1>6. IsIt(g)
  BY <1>5
<1>7. g[0] = <<>> /\ \A k \in 1 .. n : g[k] = projectAgentRuntimeEvent(g[k - 1], events[k])
  <2>1. 0 \in 0 .. n /\ \A k \in 1 .. n : k \in 0 .. n /\ k # 0
    BY <1>2
  <2>2. \A k \in 0 .. n : g[k] = E(g, k)
    <3> HIDE DEF g, n, E
    <3> QED BY <1>6
  <2> HIDE DEF g, n
  <2> QED BY <2>1, <2>2
<1> HIDE DEF g, n, S
<1>8. \A k \in 0 .. n : g[k] \in S
  BY <1>2, <1>3, <1>4, <1>7, Stays
<1> QED BY <1>1, <1>2, <1>8 DEF S

-----------------------------------------------------------------------------
(* The context sets of a conversation: each has an id of its own, and one  *)
(* is there for each turn that was started.                                *)
Artifacts == {createArtifactContextSet(set) : set \in Sets}
Ids == {"ctx-draft"} \X Nat
Registries ==
    {reg \in Seq([was : Artifacts, id : Ids]) :
        /\ \A i, j \in DOMAIN reg : reg[i].id = reg[j].id => i = j
        /\ \A i \in DOMAIN reg : reg[i].id[2] <= Len(reg)}

LEMMA RegisterIs ==
  ASSUME NEW reg \in Registries, NEW set \in Sets
  PROVE  LET after == registerContextSet(reg, set)
         IN  /\ after \in Registries /\ Registered(after, set) # {}
             /\ \A other : Registered(reg, other) # {} => Registered(after, other) # {}
<1> DEFINE e == [was |-> createArtifactContextSet(set), id |-> <<baseId(set), seenCount(reg, set) + 1>>]
           n == Len(reg)
           after == Append(reg, e)
<1>1. CASE Registered(reg, set) # {}
  BY <1>1 DEF registerContextSet
<1>2. CASE Registered(reg, set) = {}
  <2>1. registerContextSet(reg, set) = after
    BY <1>2 DEF registerContextSet
  <2>2. /\ reg \in Seq([was : Artifacts, id : Ids]) /\ n \in Nat /\ DOMAIN reg = 1 .. n
        /\ \A i \in 1 .. n : reg[i].id \in Ids /\ reg[i].id[2] <= n
        /\ \A i, j \in 1 .. n : reg[i].id = reg[j].id => i = j
    <3>1. reg \in Seq([was : Artifacts, id : Ids])
      BY DEF Registries
    <3> DEFINE entry == [was : Artifacts, id : Ids]
    <3>2. \A i \in DOMAIN reg : reg[i] \in entry
      <4>1. reg \in Seq(entry)
        BY <3>1
      <4> HIDE DEF entry
      <4> QED BY <4>1
    <3>3. n \in Nat /\ DOMAIN reg = 1 .. n
      BY <3>1
    <3> QED BY <3>1, <3>2, <3>3 DEF Registries
  <2>3. baseId(set) = "ctx-draft"
    BY DEF baseId, Sets
  <2>4. seenCount(reg, set) = n
    <3>1. {i \in DOMAIN reg : reg[i].id[1] = baseId(set)} = 1 .. n
      BY <2>2, <2>3 DEF Ids
    <3>2. Cardinality(1 .. n) = n
      BY <2>2, FS_Interval
    <3> QED BY <3>1, <3>2 DEF seenCount
  <2>5. e \in [was : Artifacts, id : Ids] /\ e.id = <<"ctx-draft", n + 1>> /\ e.id[2] = n + 1
    BY <2>2, <2>3, <2>4 DEF Artifacts, Ids
  <2>6. e.was = createArtifactContextSet(set)
    OBVIOUS
  <2> HIDE DEF e
  <2>7. /\ after \in Seq([was : Artifacts, id : Ids]) /\ Len(after) = n + 1
        /\ DOMAIN after = 1 .. n + 1 /\ after[n + 1] = e /\ \A i \in 1 .. n : after[i] = reg[i]
    BY <2>2, <2>5
  <2> HIDE DEF after, n
  <2>8. \A i \in 1 .. n + 1 : i = n + 1 \/ i \in 1 .. n
    BY <2>2
  <2>9. \A i \in 1 .. n : reg[i].id # e.id
    <3> SUFFICES ASSUME NEW i \in 1 .. n, reg[i].id = e.id PROVE FALSE
      OBVIOUS
    <3>1. reg[i].id[2] <= n /\ reg[i].id[2] = n + 1
      BY <2>2, <2>5
    <3> QED BY <2>2, <3>1
  <2>10. \A i, j \in DOMAIN after : after[i].id = after[j].id => i = j
    BY <2>2, <2>7, <2>8, <2>9
  <2>11. \A i \in DOMAIN after : after[i].id[2] <= Len(after)
    <3> TAKE i \in DOMAIN after
    <3>1. CASE i = n + 1
      BY <2>2, <2>5, <2>7, <3>1
    <3>2. CASE i \in 1 .. n
      <4>1. after[i].id[2] = reg[i].id[2] /\ reg[i].id[2] <= n /\ reg[i].id[2] \in Nat
        BY <2>2, <2>7, <3>2 DEF Ids
      <4> QED BY <2>2, <2>7, <4>1
    <3> QED BY <2>7, <2>8, <3>1, <3>2
  <2>12. after \in Registries
    BY <2>7, <2>10, <2>11 DEF Registries
  <2>13. n + 1 \in Registered(after, set)
    BY <2>2, <2>6, <2>7 DEF Registered
  <2>14. \A other : Registered(reg, other) \subseteq Registered(after, other)
    BY <2>2, <2>7 DEF Registered
  <2> QED BY <2>1, <2>12, <2>13, <2>14
<1> QED BY <1>1, <1>2

LEMMA MetadataIs ==
  ASSUME NEW source \in Conversations
  PROVE  LET reg == collectEventMetadata(source)
         IN  /\ reg \in Registries
             /\ \A k \in DOMAIN source.events : source.events[k].kind = "turn_started" =>
                    Registered(reg, source.events[k].context) # {}
<1> DEFINE events == source.events
           n == Len(events)
           S == Registries
           first == registerContextSet(<<>>, source.context_set)
           Next1(s, k) == IF events[k].kind = "turn_started" THEN registerContextSet(s, events[k].context)
                          ELSE s
           E(f, k) == IF k = 0 THEN first ELSE Next1(f[k - 1], k)
           IsIt(f) == f = [k \in 0 .. n |-> E(f, k)]
           g == CHOOSE f : IsIt(f)
<1>1. collectEventMetadata(source) = g[n]
  BY DEF collectEventMetadata
<1>2. /\ events \in Seq(Events) /\ n \in Nat /\ DOMAIN events = 1 .. n /\ source.context_set \in Sets
      /\ \A k \in 1 .. n : events[k] \in Events
  <2>1. events \in Seq(Events) /\ source.context_set \in Sets
    BY DEF Conversations
  <2> HIDE DEF events
  <2> QED BY <2>1
<1>3. \A k \in 1 .. n : events[k].kind = "turn_started" => events[k].context \in Sets
  <2>1. \A e \in Events : e.kind = "turn_started" => e.context \in Sets
    BY DEF Events
  <2> QED BY <1>2, <2>1
<1>4. first \in S
  <2>1. <<>> \in Registries
    BY DEF Registries
  <2> QED BY <1>2, <2>1, RegisterIs
<1> HIDE DEF events, first, n
<1>5. \A k \in 1 .. n, s \in S : Next1(s, k) \in S
  BY <1>3, RegisterIs
<1>6. \E f : IsIt(f)
  <2> DEFINE step == [k \in 1 .. n |-> [s \in S |-> Next1(s, k)]]
  <2>1. step \in [1 .. n -> [S -> S]]
    BY <1>5
  <2> HIDE DEF step, S, Next1
  <2> PICK f : Steps(f, n, S, first, step)
    BY <1>2, <1>4, <2>1, Recursion
  <2>2. f \in [0 .. n -> S] /\ f[0] = first /\ \A k \in 1 .. n : f[k] = step[k][f[k - 1]]
    BY DEF Steps
  <2>3. \A k \in 0 .. n : f[k] = E(f, k)
    <3>1. ASSUME NEW k \in 1 .. n PROVE f[k] = Next1(f[k - 1], k) /\ k # 0
      <4>1. k - 1 \in 0 .. n /\ f[k - 1] \in S
        BY <1>2, <2>2
      <4> QED BY <1>2, <2>2, <4>1 DEF step
    <3>2. \A k \in 0 .. n : k = 0 \/ k \in 1 .. n
      BY <1>2
    <3> QED BY <2>2, <3>1, <3>2
  <2> HIDE DEF E
  <2> QED BY <2>2, <2>3
<1>7. IsIt(g)
  BY <1>6
<1>8. g[0] = first /\ \A k \in 1 .. n : g[k] = Next1(g[k - 1], k)
  <2>1. 0 \in 0 .. n /\ \A k \in 1 .. n : k \in 0 .. n /\ k # 0
    BY <1>2
  <2>2. \A k \in 0 .. n : g[k] = E(g, k)
    <3> HIDE DEF g, E
    <3> QED BY <1>7
  <2> HIDE DEF g, Next1
  <2> QED BY <2>1, <2>2
<1> HIDE DEF g, S, Next1
<1>9. \A k \in 0 .. n : g[k] \in S
  BY <1>2, <1>4, <1>5, <1>8, Stays
<1> DEFINE Has(k) == \A j \in 1 .. k : events[j].kind = "turn_started" =>
                        Registered(g[k], events[j].context) # {}
           T == {k \in Nat : k <= n => Has(k)}
<1>10. 0 \in T
  OBVIOUS
<1>11. ASSUME NEW k \in Nat, k \in T PROVE k + 1 \in T
  <2> SUFFICES ASSUME k + 1 <= n PROVE Has(k + 1)
    OBVIOUS
  <2>1. k + 1 \in 1 .. n /\ k \in 0 .. n /\ (k + 1) - 1 = k /\ Has(k)
    BY <1>2, <1>11
  <2>2. g[k + 1] = Next1(g[k], k + 1) /\ g[k] \in Registries
    <3>1. g[k + 1] = Next1(g[(k + 1) - 1], k + 1)
      BY <1>8, <2>1
    <3> QED BY <1>9, <2>1, <3>1 DEF S
  <2>3. \A other : Registered(g[k], other) # {} => Registered(g[k + 1], other) # {}
    BY <1>3, <2>1, <2>2, RegisterIs DEF Next1
  <2>4. events[k + 1].kind = "turn_started" => Registered(g[k + 1], events[k + 1].context) # {}
    BY <1>3, <2>1, <2>2, RegisterIs DEF Next1
  <2>5. \A j \in 1 .. k + 1 : j \in 1 .. k \/ j = k + 1
    OBVIOUS
  <2> QED BY <2>1, <2>3, <2>4, <2>5
<1> HIDE DEF T
<1>12. n \in T
  BY <1>2, <1>10, <1>11, UpTo
<1>13. Has(n) /\ n \in 0 .. n
  BY <1>2, <1>12 DEF T
<1> QED BY <1>1, <1>2, <1>9, <1>13 DEF S, events


-----------------------------------------------------------------------------
(* What an artifact's turns put out, found again by the turn it came from. *)
LEMMA Upward ==
  ASSUME NEW n \in Nat, NEW T, 0 \in T, \A k \in 1 .. n : k - 1 \in T => k \in T
  PROVE  n \in T
<1> DEFINE f == [k \in 0 .. n |-> k]
<1>1. f[0] \in T /\ \A k \in 1 .. n : f[k - 1] \in T => f[k] \in T
  OBVIOUS
<1> HIDE DEF f
<1>2. \A k \in 0 .. n : f[k] \in T
  BY <1>1, Stays
<1> QED BY <1>2 DEF f

Outputs ==
    [kind : {"analysis"}, origin_turn_id : Nat, created_at : Nat, context_set_ids : Seq(Ids)]
Kinds == Seq({"analysis"})
\* f collects, output by output, the kinds of those that turn put out.
Collects(f, s, turn) ==
    /\ f \in [0 .. Len(s) -> Kinds] /\ f[0] = <<>>
    /\ \A k \in 1 .. Len(s) :
          f[k] = IF s[k].origin_turn_id = turn THEN Append(f[k - 1], s[k].kind) ELSE f[k - 1]

LEMMA ByTurnIs ==
  ASSUME NEW s \in Seq(Outputs), NEW turn
  PROVE  \E f : Collects(f, s, turn) /\ outputsByTurn(s, turn) = f[Len(s)]
<1> DEFINE n == Len(s)
           S == Kinds
           Next1(v, k) == IF s[k].origin_turn_id = turn THEN Append(v, s[k].kind) ELSE v
           E(f, k) == IF k = 0 THEN <<>> ELSE Next1(f[k - 1], k)
           IsIt(f) == f = [k \in 0 .. n |->
                             IF k = 0 THEN <<>>
                             ELSE IF s[k].origin_turn_id = turn THEN Append(f[k - 1], s[k].kind)
                             ELSE f[k - 1]]
           g == CHOOSE f : IsIt(f)
<1>1. outputsByTurn(s, turn) = g[n]
  BY DEF outputsByTurn
<1>2. n \in Nat /\ <<>> \in S
  BY DEF Kinds
<1>3. \A k \in 1 .. n, v \in S : Next1(v, k) \in S
  <2> TAKE k \in 1 .. n, v \in S
  <2>1. s[k] \in Outputs
    OBVIOUS
  <2>2. s[k].kind = "analysis"
    BY <2>1 DEF Outputs
  <2>3. Append(v, "analysis") \in S
    BY DEF Kinds
  <2> QED BY <2>2, <2>3
<1>4. \E f : IsIt(f)
  <2> DEFINE step == [k \in 1 .. n |-> [v \in S |-> Next1(v, k)]]
  <2>1. step \in [1 .. n -> [S -> S]]
    BY <1>3
  <2> HIDE DEF step, S, n, Next1
  <2> PICK f : Steps(f, n, S, <<>>, step)
    BY <1>2, <2>1, Recursion
  <2>2. f \in [0 .. n -> S] /\ f[0] = <<>> /\ \A k \in 1 .. n : f[k] = step[k][f[k - 1]]
    BY DEF Steps
  <2>3. \A k \in 0 .. n : f[k] = E(f, k)
    <3>1. ASSUME NEW k \in 1 .. n PROVE f[k] = Next1(f[k - 1], k) /\ k # 0
      <4>1. k - 1 \in 0 .. n /\ f[k - 1] \in S
        BY <1>2, <2>2
      <4> QED BY <1>2, <2>2, <4>1 DEF step
    <3>2. \A k \in 0 .. n : k = 0 \/ k \in 1 .. n
      BY <1>2
    <3> QED BY <2>2, <3>1, <3>2
  <2>4. f = [k \in 0 .. n |-> E(f, k)]
    <3> HIDE DEF E
    <3> QED BY <2>2, <2>3
  <2>5. IsIt(f)
    BY <2>4 DEF Next1
  <2> HIDE DEF IsIt
  <2> QED BY <2>5
<1>5. IsIt(g)
  BY <1>4
<1>6. \A k \in 0 .. n : g[k] = E(g, k)
  <2> HIDE DEF g, n
  <2> QED BY <1>5
<1> HIDE DEF g, n, S, IsIt
<1>7. g[0] = <<>> /\ \A k \in 1 .. n : g[k] = Next1(g[k - 1], k)
  <2>1. 0 \in 0 .. n /\ \A k \in 1 .. n : k \in 0 .. n /\ k # 0
    BY <1>2
  <2> HIDE DEF Next1
  <2> QED BY <1>6, <2>1
<1>8. \A k \in 0 .. n : g[k] \in S
  <2> HIDE DEF Next1
  <2> QED BY <1>2, <1>3, <1>7, Stays
<1> DEFINE h == [k \in 0 .. n |-> g[k]]
<1>9. h \in [0 .. n -> S] /\ h[0] = <<>> /\ h[n] = g[n]
      /\ \A k \in 1 .. n : h[k] = Next1(h[k - 1], k)
  <2>1. 0 \in 0 .. n /\ n \in 0 .. n /\ \A k \in 1 .. n : k \in 0 .. n /\ k - 1 \in 0 .. n
    BY <1>2
  <2>2. \A k \in 0 .. n : h[k] = g[k]
    OBVIOUS
  <2>3. \A k \in 1 .. n : h[k] = Next1(h[k - 1], k)
    <3> HIDE DEF h, Next1
    <3> QED BY <1>7, <2>1, <2>2
  <2>4. h \in [0 .. n -> S]
    BY <1>8
  <2> HIDE DEF h
  <2> QED BY <1>7, <2>1, <2>2, <2>3, <2>4
<1> HIDE DEF h
<1> QED BY <1>1, <1>9 DEF Collects, n, S

LEMMA AppendToConcat ==
  ASSUME NEW s \in Kinds, NEW t \in Kinds
  PROVE  s \o <<>> = s /\ <<>> \o s = s /\ Append(s \o t, "analysis") = s \o Append(t, "analysis")
<1>1. PICK S : S = {"analysis"}
  OBVIOUS
<1>2. s \in Seq(S) /\ t \in Seq(S) /\ "analysis" \in S
  BY <1>1 DEF Kinds
<1>3. \A x \in S : Append(s \o t, x) = s \o Append(t, x)
  BY <1>2
<1> QED BY <1>2, <1>3, ConcatEmptySeq

LEMMA ByTurnConcat ==
  ASSUME NEW s \in Seq(Outputs), NEW t \in Seq(Outputs), NEW turn
  PROVE  outputsByTurn(s \o t, turn) = outputsByTurn(s, turn) \o outputsByTurn(t, turn)
<1> DEFINE m == Len(s)
           n == Len(t)
           st == s \o t
<1>1. /\ st \in Seq(Outputs) /\ Len(st) = m + n /\ m \in Nat /\ n \in Nat
  OBVIOUS
<1>2. \A k \in 1 .. n : st[m + k] = t[k]
  OBVIOUS
<1>3. \A k \in 1 .. m : st[k] = s[k]
  OBVIOUS
<1> HIDE DEF st
<1>4. PICK f : Collects(f, s, turn) /\ outputsByTurn(s, turn) = f[m]
  BY ByTurnIs
<1>5. PICK g : Collects(g, t, turn) /\ outputsByTurn(t, turn) = g[n]
  BY ByTurnIs
<1>6. PICK h : Collects(h, st, turn) /\ outputsByTurn(st, turn) = h[m + n]
  BY <1>1, ByTurnIs
<1>7. /\ f \in [0 .. m -> Kinds] /\ f[0] = <<>>
      /\ \A k \in 1 .. m : f[k] = IF s[k].origin_turn_id = turn THEN Append(f[k - 1], s[k].kind) ELSE f[k - 1]
  BY <1>4 DEF Collects
<1>8. /\ g \in [0 .. n -> Kinds] /\ g[0] = <<>>
      /\ \A k \in 1 .. n : g[k] = IF t[k].origin_turn_id = turn THEN Append(g[k - 1], t[k].kind) ELSE g[k - 1]
  BY <1>5 DEF Collects
<1>9. /\ h \in [0 .. m + n -> Kinds] /\ h[0] = <<>>
      /\ \A k \in 1 .. m + n :
            h[k] = IF st[k].origin_turn_id = turn THEN Append(h[k - 1], st[k].kind) ELSE h[k - 1]
  BY <1>1, <1>6 DEF Collects
<1>10. \A k \in 1 .. n : t[k].kind = "analysis"
  <2>1. \A k \in 1 .. n : t[k] \in Outputs
    OBVIOUS
  <2> QED BY <2>1 DEF Outputs
<1> HIDE DEF m, n
<1>11. h[m] = f[m]
  <2> DEFINE T == {k \in 0 .. m : h[k] = f[k]}
  <2>1. 0 \in T
    BY <1>1, <1>7, <1>9
  <2>2. \A k \in 1 .. m : k - 1 \in T => k \in T
    <3> TAKE k \in 1 .. m
    <3>1. k \in 1 .. m + n /\ k \in 0 .. m
      BY <1>1
    <3>2. h[k] = IF st[k].origin_turn_id = turn THEN Append(h[k - 1], st[k].kind) ELSE h[k - 1]
      BY <1>9, <3>1
    <3>3. f[k] = IF s[k].origin_turn_id = turn THEN Append(f[k - 1], s[k].kind) ELSE f[k - 1]
      BY <1>7
    <3> QED BY <1>3, <3>1, <3>2, <3>3
  <2> HIDE DEF T
  <2>3. m \in T
    BY <1>1, <2>1, <2>2, Upward
  <2> QED BY <2>3 DEF T
<1>12. h[m + n] = f[m] \o g[n]
  <2> DEFINE T == {k \in 0 .. n : h[m + k] = f[m] \o g[k]}
  <2>1. f[m] \in Kinds /\ \A k \in 0 .. n : g[k] \in Kinds
    BY <1>1, <1>7, <1>8
  <2>2. 0 \in T
    <3>1. f[m] \o <<>> = f[m]
      BY <2>1, AppendToConcat
    <3>2. m + 0 = m /\ 0 \in 0 .. n
      BY <1>1
    <3> QED BY <1>8, <1>11, <3>1, <3>2
  <2>3. \A k \in 1 .. n : k - 1 \in T => k \in T
    <3> SUFFICES ASSUME NEW k \in 1 .. n, h[m + (k - 1)] = f[m] \o g[k - 1]
                 PROVE  h[m + k] = f[m] \o g[k]
      <4>1. \A k \in 1 .. n : k \in 0 .. n
        BY <1>1
      <4> QED BY <4>1
    <3> HIDE DEF T
    <3>1. m + k \in 1 .. m + n /\ (m + k) - 1 = m + (k - 1) /\ k - 1 \in 0 .. n
      BY <1>1
    <3>2. h[m + (k - 1)] = f[m] \o g[k - 1]
      OBVIOUS
    <3>3. st[m + k] = t[k] /\ t[k].kind = "analysis"
      BY <1>2, <1>10
    <3>4. h[m + k] = IF t[k].origin_turn_id = turn THEN Append(h[m + (k - 1)], t[k].kind)
                     ELSE h[m + (k - 1)]
      <4>1. h[m + k] = IF st[m + k].origin_turn_id = turn THEN Append(h[(m + k) - 1], st[m + k].kind)
                       ELSE h[(m + k) - 1]
        BY <1>9, <3>1
      <4> QED BY <3>1, <3>3, <4>1
    <3>5. g[k] = IF t[k].origin_turn_id = turn THEN Append(g[k - 1], t[k].kind) ELSE g[k - 1]
      BY <1>8
    <3>6. Append(f[m] \o g[k - 1], "analysis") = f[m] \o Append(g[k - 1], "analysis")
      BY <2>1, <3>1, AppendToConcat
    <3> QED BY <3>2, <3>3, <3>4, <3>5, <3>6
  <2> HIDE DEF T
  <2>4. n \in T
    BY <1>1, <2>2, <2>3, Upward
  <2> QED BY <2>4 DEF T
<1> QED BY <1>4, <1>5, <1>6, <1>12 DEF st

LEMMA ByTurnOfNone ==
  ASSUME NEW turn
  PROVE  outputsByTurn(<<>>, turn) = <<>>
<1>1. <<>> \in Seq(Outputs) /\ Len(<<>>) = 0
  OBVIOUS
<1>2. PICK f : Collects(f, <<>>, turn) /\ outputsByTurn(<<>>, turn) = f[Len(<<>>)]
  BY <1>1, ByTurnIs
<1> QED BY <1>1, <1>2 DEF Collects

KindsOf(s) == [k \in DOMAIN s |-> s[k].kind]
LEMMA ByTurnOfOne ==
  ASSUME NEW s \in Seq(Outputs), NEW from, \A k \in DOMAIN s : s[k].origin_turn_id = from, NEW turn
  PROVE  outputsByTurn(s, turn) = IF turn = from THEN KindsOf(s) ELSE <<>>
<1> DEFINE n == Len(s)
           kinds(k) == [i \in 1 .. k |-> s[i].kind]
<1>1. n \in Nat /\ DOMAIN s = 1 .. n
  OBVIOUS
<1>2. PICK f : Collects(f, s, turn) /\ outputsByTurn(s, turn) = f[n]
  BY ByTurnIs
<1>3. /\ f[0] = <<>>
      /\ \A k \in 1 .. n : f[k] = IF turn = from THEN Append(f[k - 1], s[k].kind) ELSE f[k - 1]
  BY <1>1, <1>2 DEF Collects
<1> HIDE DEF n
<1> DEFINE T == {k \in 0 .. n : f[k] = IF turn = from THEN kinds(k) ELSE <<>>}
<1>4. 0 \in T
  <2>1. kinds(0) = <<>>
    OBVIOUS
  <2> QED BY <1>1, <1>3, <2>1
<1>5. \A k \in 1 .. n : k - 1 \in T => k \in T
  <2> SUFFICES ASSUME NEW k \in 1 .. n, f[k - 1] = IF turn = from THEN kinds(k - 1) ELSE <<>>
               PROVE  f[k] = IF turn = from THEN kinds(k) ELSE <<>>
    <3>1. \A k \in 1 .. n : k \in 0 .. n
      BY <1>1
    <3> HIDE DEF kinds
    <3> QED BY <3>1
  <2>1. Append(kinds(k - 1), s[k].kind) = kinds(k)
    <3> DEFINE a == kinds(k - 1)
               b == Append(a, s[k].kind)
    <3>1. k - 1 \in Nat /\ k \in Nat
      BY <1>1
    <3>2. \A i \in 1 .. k - 1 : s[i].kind = "analysis"
      <4>1. \A i \in 1 .. k - 1 : s[i] \in Outputs
        BY <1>1
      <4> QED BY <4>1 DEF Outputs
    <3>3. a \in Kinds /\ Len(a) = k - 1 /\ \A i \in 1 .. k - 1 : a[i] = s[i].kind
      BY <3>1, <3>2 DEF Kinds
    <3>4. s[k].kind = "analysis"
      <4>1. s[k] \in Outputs
        BY <1>1
      <4> QED BY <4>1 DEF Outputs
    <3> HIDE DEF a
    <3>5. b \in Kinds /\ Len(b) = k /\ b[k] = s[k].kind /\ \A i \in 1 .. k - 1 : b[i] = a[i]
      BY <3>1, <3>3, <3>4 DEF Kinds
    <3> HIDE DEF b
    <3>6. DOMAIN b = 1 .. k /\ b = [i \in 1 .. k |-> b[i]]
      BY <3>5 DEF Kinds
    <3>7. \A i \in 1 .. k : b[i] = s[i].kind
      <4>1. \A i \in 1 .. k : i = k \/ i \in 1 .. k - 1
        BY <3>1
      <4> QED BY <3>3, <3>5, <4>1
    <3> QED BY <3>6, <3>7 DEF a, b
  <2> HIDE DEF kinds
  <2> QED BY <1>3, <2>1
<1> HIDE DEF T
<1>6. n \in T
  BY <1>1, <1>4, <1>5, Upward
<1> QED BY <1>1, <1>2, <1>6 DEF T, KindsOf

-----------------------------------------------------------------------------
(* The parts of the artifact of a conversation.                            *)
ShownTurns(id) == projectAgentRuntimeEvents(records[id].events)
RegistryOf(id) == collectEventMetadata(records[id])
StartOf(id, turn) == TurnStarted(records[id], turn)
SetIdsOf(id, turn) == <<contextSetId(RegistryOf(id), StartOf(id, turn).context)>>
PutOut(id, t) ==
    [k \in DOMAIN t.outputs |->
       createOutputArtifact(t.outputs[k], t.turn, StartOf(id, t.turn).at, SetIdsOf(id, t.turn))]
WasStarted(id, turn) ==
    \E k \in DOMAIN records[id].events : StartsTurn(records[id].events[k], turn)

LEMMA ConversationIs ==
  ASSUME RecordsTypeInv, NEW id \in DOMAIN records
  PROVE  /\ records[id] \in Conversations /\ records[id].events \in Seq(Events)
         /\ ShownTurns(id) \in StartedTurns(records[id].events)
         /\ RegistryOf(id) \in Registries
         /\ \A i \in DOMAIN ShownTurns(id) :
               ShownTurns(id)[i] \in Turns /\ WasStarted(id, ShownTurns(id)[i].turn)
<1>1. records[id] \in Conversations
  BY DEF RecordsTypeInv
<1>2. records[id].events \in Seq(Events)
  BY <1>1 DEF Conversations
<1>3. ShownTurns(id) \in StartedTurns(records[id].events)
  BY <1>2, TurnsAreStarted DEF ShownTurns
<1>4. RegistryOf(id) \in Registries
  BY <1>1, MetadataIs DEF RegistryOf
<1>5. ShownTurns(id) \in Seq(Turns)
      /\ \A i \in DOMAIN ShownTurns(id) : WasStarted(id, ShownTurns(id)[i].turn)
  BY <1>3 DEF StartedTurns, WasStarted
<1> QED BY <1>1, <1>2, <1>3, <1>4, <1>5

LEMMA StartIs ==
  ASSUME RecordsTypeInv, NEW id \in DOMAIN records, NEW turn, WasStarted(id, turn)
  PROVE  /\ StartOf(id, turn).at \in Nat /\ StartOf(id, turn).context \in Sets
         /\ \E j \in DOMAIN RegistryOf(id) :
               /\ RegistryOf(id)[j].was = createArtifactContextSet(StartOf(id, turn).context)
               /\ SetIdsOf(id, turn) = <<RegistryOf(id)[j].id>> /\ RegistryOf(id)[j].id \in Ids
<1> DEFINE events == records[id].events
           reg == RegistryOf(id)
           e == StartOf(id, turn)
<1>1. /\ records[id] \in Conversations /\ events \in Seq(Events) /\ reg \in Registries
  BY ConversationIs
<1>2. PICK k \in DOMAIN events : e = events[k] /\ StartsTurn(events[k], turn)
  BY DEF StartOf, TurnStarted, WasStarted, StartsTurn
<1>3. e \in Events /\ e.kind = "turn_started"
  <2>1. events[k] \in Events
    <3> HIDE DEF events
    <3> QED BY <1>1
  <2> QED BY <1>2, <2>1 DEF StartsTurn
<1>4. e.at \in Nat /\ e.context \in Sets
  <2> HIDE DEF e
  <2> QED BY <1>3 DEF Events
<1>5. Registered(reg, e.context) # {}
  BY <1>1, <1>2, <1>3, MetadataIs DEF RegistryOf
<1> DEFINE j == CHOOSE i \in Registered(reg, e.context) : TRUE
<1>6. j \in Registered(reg, e.context)
  BY <1>5
<1>7. SetIdsOf(id, turn) = <<reg[j].id>>
  BY DEF SetIdsOf, contextSetId
<1> HIDE DEF j, e
<1>8. j \in DOMAIN reg /\ reg[j].was = createArtifactContextSet(e.context)
  BY <1>6 DEF Registered
<1>9. reg[j].id \in Ids
  <2> DEFINE entry == [was : Artifacts, id : Ids]
  <2>1. reg \in Seq(entry)
    BY <1>1 DEF Registries
  <2>2. reg[j] \in entry
    <3> HIDE DEF entry, reg
    <3> QED BY <1>8, <2>1
  <2> QED BY <2>2
<1> QED BY <1>4, <1>7, <1>8, <1>9 DEF e

LEMMA PutOutIs ==
  ASSUME RecordsTypeInv, NEW id \in DOMAIN records, NEW t \in Turns, WasStarted(id, t.turn)
  PROVE  /\ PutOut(id, t) \in Seq(Outputs) /\ DOMAIN PutOut(id, t) = DOMAIN t.outputs
         /\ \A k \in DOMAIN t.outputs :
               /\ PutOut(id, t)[k].origin_turn_id = t.turn /\ PutOut(id, t)[k].kind = t.outputs[k]
               /\ PutOut(id, t)[k].context_set_ids = SetIdsOf(id, t.turn)
<1>1. t.turn \in Nat /\ t.outputs \in Seq({"analysis"})
  BY DEF Turns
<1>2. Len(t.outputs) \in Nat /\ DOMAIN t.outputs = 1 .. Len(t.outputs)
      /\ \A k \in DOMAIN t.outputs : t.outputs[k] = "analysis"
  BY <1>1
<1>3. StartOf(id, t.turn).at \in Nat /\ SetIdsOf(id, t.turn) \in Seq(Ids)
  <2>1. PICK j \in DOMAIN RegistryOf(id) :
               SetIdsOf(id, t.turn) = <<RegistryOf(id)[j].id>> /\ RegistryOf(id)[j].id \in Ids
    BY StartIs
  <2>2. \A x \in Ids : <<x>> \in Seq(Ids)
    OBVIOUS
  <2> QED BY <2>1, <2>2, StartIs
<1> DEFINE at == StartOf(id, t.turn).at
           ids == SetIdsOf(id, t.turn)
           O(k) == createOutputArtifact(t.outputs[k], t.turn, at, ids)
<1>4. \A k \in DOMAIN t.outputs :
         /\ O(k) \in Outputs /\ O(k).origin_turn_id = t.turn /\ O(k).kind = t.outputs[k]
         /\ O(k).context_set_ids = ids
  <2> HIDE DEF at, ids
  <2> QED BY <1>1, <1>2, <1>3 DEF createOutputArtifact, Outputs, at, ids
<1>5. PutOut(id, t) = [k \in DOMAIN t.outputs |-> O(k)]
  BY DEF PutOut
<1> HIDE DEF O
<1>6. PutOut(id, t) \in Seq(Outputs)
  BY <1>2, <1>4, <1>5
<1> QED BY <1>4, <1>5, <1>6

\* An output names the context set of the turn it came from.
OutputPlaced(id, o) ==
    WasStarted(id, o.origin_turn_id) /\ o.context_set_ids = SetIdsOf(id, o.origin_turn_id)
PlacedOutputs(id) == {s \in Seq(Outputs) : \A k \in DOMAIN s : OutputPlaced(id, s[k])}

LEMMA PlacedConcat ==
  ASSUME NEW id, NEW s \in PlacedOutputs(id), NEW t \in PlacedOutputs(id)
  PROVE  s \o t \in PlacedOutputs(id)
<1>1. s \in Seq(Outputs) /\ t \in Seq(Outputs)
  BY DEF PlacedOutputs
<1> DEFINE st == s \o t
<1>2. /\ st \in Seq(Outputs) /\ DOMAIN st = 1 .. Len(s) + Len(t)
      /\ \A k \in 1 .. Len(s) + Len(t) : st[k] = IF k <= Len(s) THEN s[k] ELSE t[k - Len(s)]
  BY <1>1
<1> HIDE DEF st
<1>3. ASSUME NEW k \in DOMAIN st PROVE OutputPlaced(id, st[k])
  <2>1. CASE k <= Len(s)
    <3>1. k \in DOMAIN s /\ st[k] = s[k]
      BY <1>1, <1>2, <2>1
    <3> QED BY <3>1 DEF PlacedOutputs
  <2>2. CASE ~ (k <= Len(s))
    <3>1. k - Len(s) \in DOMAIN t /\ st[k] = t[k - Len(s)]
      BY <1>1, <1>2, <2>2
    <3> QED BY <3>1 DEF PlacedOutputs
  <2> QED BY <2>1, <2>2
<1> QED BY <1>2, <1>3 DEF PlacedOutputs, st

LEMMA OutputsAre ==
  ASSUME RecordsTypeInv, NEW id \in DOMAIN records
  PROVE  LET all == createAgentConversationArtifactSnapshot(id).outputs
         IN  /\ all \in PlacedOutputs(id)
             /\ \A i \in DOMAIN ShownTurns(id) :
                   outputsByTurn(all, ShownTurns(id)[i].turn) = ShownTurns(id)[i].outputs
<1> DEFINE turns == ShownTurns(id)
           n == Len(turns)
           S == PlacedOutputs(id)
           Own(k) == PutOut(id, turns[k])
           Put(s, k) == s \o Own(k)
           E(f, k) == IF k = 0 THEN <<>> ELSE Put(f[k - 1], k)
           IsIt(f) == f = [k \in 0 .. n |-> E(f, k)]
           g == CHOOSE f : IsIt(f)
<1>1. createAgentConversationArtifactSnapshot(id).outputs = g[n]
  BY DEF createAgentConversationArtifactSnapshot, PutOut, StartOf, SetIdsOf, RegistryOf, ShownTurns
<1>2. /\ turns \in Seq(Turns) /\ n \in Nat /\ DOMAIN turns = 1 .. n
      /\ \A i, j \in 1 .. n : turns[i].turn = turns[j].turn => i = j
      /\ \A i \in 1 .. n : turns[i] \in Turns /\ WasStarted(id, turns[i].turn)
  <2>1. turns \in Seq(Turns) /\ \A i, j \in DOMAIN turns : turns[i].turn = turns[j].turn => i = j
    BY ConversationIs DEF StartedTurns
  <2>2. \A i \in DOMAIN turns : turns[i] \in Turns /\ WasStarted(id, turns[i].turn)
    BY ConversationIs
  <2> HIDE DEF turns
  <2> QED BY <2>1, <2>2
<1> HIDE DEF turns, n
<1>3. \A k \in 1 .. n : Own(k) \in S
  <2> TAKE k \in 1 .. n
  <2>1. /\ Own(k) \in Seq(Outputs)
        /\ DOMAIN Own(k) = DOMAIN turns[k].outputs
        /\ \A j \in DOMAIN turns[k].outputs :
              /\ Own(k)[j].origin_turn_id = turns[k].turn
              /\ Own(k)[j].context_set_ids = SetIdsOf(id, turns[k].turn)
    BY <1>2, PutOutIs
  <2> HIDE DEF Own
  <2>2. \A j \in DOMAIN Own(k) : OutputPlaced(id, Own(k)[j])
    BY <1>2, <2>1 DEF OutputPlaced
  <2> QED BY <2>1, <2>2 DEF PlacedOutputs
<1> HIDE DEF Own
<1>4. <<>> \in S
  BY DEF PlacedOutputs
<1>5. \A k \in 1 .. n, s \in S : Put(s, k) \in S
  BY <1>3, PlacedConcat
<1> HIDE DEF Put
<1>6. \E f : IsIt(f)
  <2> DEFINE step == [k \in 1 .. n |-> [s \in S |-> Put(s, k)]]
  <2>1. step \in [1 .. n -> [S -> S]]
    BY <1>5
  <2> HIDE DEF step, S
  <2> PICK f : Steps(f, n, S, <<>>, step)
    BY <1>2, <1>4, <2>1, Recursion
  <2>2. f \in [0 .. n -> S] /\ f[0] = <<>> /\ \A k \in 1 .. n : f[k] = step[k][f[k - 1]]
    BY DEF Steps
  <2>3. \A k \in 0 .. n : f[k] = E(f, k)
    <3>1. ASSUME NEW k \in 1 .. n PROVE f[k] = Put(f[k - 1], k) /\ k # 0
      <4>1. k - 1 \in 0 .. n /\ f[k - 1] \in S
        BY <1>2, <2>2
      <4> QED BY <1>2, <2>2, <4>1 DEF step
    <3>2. \A k \in 0 .. n : k = 0 \/ k \in 1 .. n
      BY <1>2
    <3> QED BY <2>2, <3>1, <3>2
  <2> HIDE DEF E
  <2> QED BY <2>2, <2>3
<1>7. IsIt(g)
  BY <1>6
<1>8. g[0] = <<>> /\ \A k \in 1 .. n : g[k] = Put(g[k - 1], k)
  <2>1. 0 \in 0 .. n /\ \A k \in 1 .. n : k \in 0 .. n /\ k # 0
    BY <1>2
  <2>2. \A k \in 0 .. n : g[k] = E(g, k)
    <3> HIDE DEF g, E
    <3> QED BY <1>7
  <2> HIDE DEF g
  <2> QED BY <2>1, <2>2
<1> HIDE DEF g, S
<1>9. \A k \in 0 .. n : g[k] \in S
  <2>1. g[0] \in S
    BY <1>4, <1>8
  <2>2. \A k \in 1 .. n : g[k - 1] \in S => g[k] \in S
    BY <1>5, <1>8
  <2> QED BY <1>2, <2>1, <2>2, Stays
<1>10. ASSUME NEW i \in 1 .. n
       PROVE  outputsByTurn(g[n], turns[i].turn) = turns[i].outputs
  <2> DEFINE id1 == turns[i].turn
             Of(s) == outputsByTurn(s, id1)
             T == {k \in 0 .. n : Of(g[k]) = IF i <= k THEN turns[i].outputs ELSE <<>>}
  <2>1. turns[i].outputs \in Kinds
    BY <1>2 DEF Turns, Kinds
  <2>2. 0 \in T
    <3>1. Of(<<>>) = <<>>
      BY ByTurnOfNone
    <3> HIDE DEF Of, id1
    <3> QED BY <1>2, <1>8, <3>1
  <2>3. \A k \in 1 .. n : k - 1 \in T => k \in T
    <3> SUFFICES ASSUME NEW k \in 1 .. n, Of(g[k - 1]) = IF i <= k - 1 THEN turns[i].outputs ELSE <<>>
                 PROVE  Of(g[k]) = IF i <= k THEN turns[i].outputs ELSE <<>>
      BY <1>2
    <3> HIDE DEF T
    <3>1. g[k] = g[k - 1] \o Own(k) /\ g[k - 1] \in Seq(Outputs) /\ Own(k) \in Seq(Outputs)
      <4>1. k - 1 \in 0 .. n
        BY <1>2
      <4>2. g[k - 1] \in S /\ Own(k) \in S
        BY <1>3, <1>9, <4>1
      <4>3. g[k] = g[k - 1] \o Own(k)
        BY <1>8 DEF Put
      <4> QED BY <4>2, <4>3 DEF S, PlacedOutputs
    <3>2. Of(g[k]) = Of(g[k - 1]) \o Of(Own(k))
      <4> HIDE DEF id1
      <4>1. Of(g[k - 1] \o Own(k)) = Of(g[k - 1]) \o Of(Own(k))
        BY <3>1, ByTurnConcat
      <4> QED BY <3>1, <4>1
    <3>3. Of(Own(k)) = IF i = k THEN turns[i].outputs ELSE <<>>
      <4>1. turns[k] \in Turns /\ WasStarted(id, turns[k].turn)
        BY <1>2
      <4>2. /\ Own(k) \in Seq(Outputs) /\ DOMAIN Own(k) = DOMAIN turns[k].outputs
            /\ \A j \in DOMAIN Own(k) :
                  Own(k)[j].origin_turn_id = turns[k].turn /\ Own(k)[j].kind = turns[k].outputs[j]
        <5>1. /\ PutOut(id, turns[k]) \in Seq(Outputs)
              /\ DOMAIN PutOut(id, turns[k]) = DOMAIN turns[k].outputs
              /\ \A j \in DOMAIN turns[k].outputs :
                    /\ PutOut(id, turns[k])[j].origin_turn_id = turns[k].turn
                    /\ PutOut(id, turns[k])[j].kind = turns[k].outputs[j]
          BY <4>1, PutOutIs
        <5> QED BY <5>1 DEF Own
      <4>3. Of(Own(k)) = IF id1 = turns[k].turn THEN KindsOf(Own(k)) ELSE <<>>
        <5> DEFINE own == Own(k)
                   from == turns[k].turn
        <5>1. own \in Seq(Outputs) /\ \A j \in DOMAIN own : own[j].origin_turn_id = from
          BY <4>2
        <5> HIDE DEF own, from, id1
        <5>2. outputsByTurn(own, id1) = IF id1 = from THEN KindsOf(own) ELSE <<>>
          BY <5>1, ByTurnOfOne
        <5> QED BY <5>2 DEF own, from
      <4>4. KindsOf(Own(k)) = turns[k].outputs
        <5>1. turns[k].outputs \in Kinds
          BY <4>1 DEF Turns, Kinds
        <5>2. turns[k].outputs = [j \in DOMAIN turns[k].outputs |-> turns[k].outputs[j]]
          BY <5>1 DEF Kinds
        <5> QED BY <4>2, <5>2 DEF KindsOf
      <4>5. id1 = turns[k].turn <=> i = k
        BY <1>2
      <4> HIDE DEF Of
      <4> QED BY <4>3, <4>4, <4>5
    <3> HIDE DEF Of
    <3>4. turns[i].outputs \o <<>> = turns[i].outputs /\ <<>> \o turns[i].outputs = turns[i].outputs
          /\ <<>> \o <<>> = <<>>
      <4>1. <<>> \in Kinds
        BY DEF Kinds
      <4> QED BY <2>1, <4>1, AppendToConcat
    <3>5. i \in Nat /\ k \in Nat
      BY <1>2
    <3> DEFINE before == Of(g[k - 1])
               own == Of(Own(k))
               shown == turns[i].outputs
    <3>6. /\ before = IF i <= k - 1 THEN shown ELSE <<>>
          /\ own = IF i = k THEN shown ELSE <<>>
          /\ Of(g[k]) = before \o own
          /\ shown \o <<>> = shown /\ <<>> \o shown = shown /\ <<>> \o <<>> = <<>>
      BY <3>2, <3>3, <3>4
    <3> HIDE DEF before, own, shown
    <3>7. i < k => before = shown /\ own = <<>>
      BY <3>5, <3>6
    <3>8. i = k => before = <<>> /\ own = shown
      BY <3>5, <3>6
    <3>9. i > k => before = <<>> /\ own = <<>>
      BY <3>5, <3>6
    <3>10. /\ i < k => Of(g[k]) = shown
           /\ i = k => Of(g[k]) = shown
           /\ i > k => Of(g[k]) = <<>>
      <4> DEFINE after == Of(g[k])
      <4>1. after = before \o own
        BY <3>6
      <4> HIDE DEF after
      <4> QED BY <3>6, <3>7, <3>8, <3>9, <4>1, Zenon DEF after
    <3>11. i < k \/ i = k \/ i > k
      BY <3>5
    <3>12. /\ i < k => i <= k
           /\ i = k => i <= k
           /\ i > k => ~ (i <= k)
      BY <3>5
    <3>13. Of(g[k]) = IF i <= k THEN shown ELSE <<>>
      BY <3>10, <3>11, <3>12
    <3> QED BY <3>13 DEF shown
  <2> HIDE DEF T
  <2>4. n \in T
    BY <1>2, <2>2, <2>3, Upward
  <2> QED BY <1>2, <2>4 DEF T
<1>11. g[n] \in S
  BY <1>2, <1>9
<1> QED BY <1>1, <1>2, <1>10, <1>11 DEF S, turns

-----------------------------------------------------------------------------
(* Each part of an artifact is read.                                       *)
LEMMA ItemIsRead ==
  ASSUME NEW item \in Items,
         ~ (mapContextItem(item).kind = "external_link" /\ "title" \in mapContextItem(item).blank)
  PROVE  parseContextItem(mapContextItem(item)).ok
<1> DEFINE raw == mapContextItem(item)
<1>1. item.kind \in DOMAIN ItemKind /\ item.blank \cap Needed[ItemKind[item.kind]] \subseteq {"title"}
  BY DEF Items
<1>2. raw.kind = ItemKind[item.kind] /\ raw.blank = item.blank
  BY DEF mapContextItem
<1>3. \A kind \in DOMAIN ItemKind :
         ItemKind[kind] \in DOMAIN Needed
         /\ (ItemKind[kind] # "external_link" => "title" \notin Needed[ItemKind[kind]])
  BY DEF ItemKind, Needed
<1> HIDE DEF raw
<1>4. raw.kind \in DOMAIN Needed /\ raw.blank \cap Needed[raw.kind] = {}
  BY <1>1, <1>2, <1>3 DEF raw
<1> QED BY <1>4 DEF parseContextItem, Read, raw

WrittenSet(set, id) == [createArtifactContextSet(set) EXCEPT !.context_set_id = id]
ReadItems(set) ==
    [k \in DOMAIN set.items |-> parseContextItem(mapContextItem(set.items[k])).data]
Titled(raw) ==
    \A k \in DOMAIN raw.items :
       ~ (raw.items[k].kind = "external_link" /\ "title" \in raw.items[k].blank)
LEMMA SetIsRead ==
  ASSUME NEW set \in Sets, NEW id \in Ids, Titled(WrittenSet(set, id))
  PROVE  /\ parseContextSet(WrittenSet(set, id)).ok
         /\ parseContextSet(WrittenSet(set, id)).data.context_set_id = id
         /\ parseContextSet(WrittenSet(set, id)).data.items = ReadItems(set)
<1> DEFINE raw == WrittenSet(set, id)
           mapped == [k \in DOMAIN set.items |-> mapContextItem(set.items[k])]
           data == [k \in DOMAIN set.items |-> parseContextItem(mapContextItem(set.items[k])).data]
<1>1. /\ set \in [context_set_id : {"ctx-draft"}, created_at : {0}, label : {"draft"}, items : Seq(Items)]
      /\ \A k \in DOMAIN set.items : set.items[k] \in Items
  <2>1. set.items \in Seq(Items)
    BY DEF Sets
  <2> QED BY <2>1 DEF Sets
<1>2. createArtifactContextSet(set) = [set EXCEPT !.items = mapped]
  BY DEF createArtifactContextSet
<1> HIDE DEF mapped
<1>3. raw = [context_set_id |-> id, created_at |-> 0, label |-> "draft", items |-> mapped]
  <2>1. raw = [[set EXCEPT !.items = mapped] EXCEPT !.context_set_id = id]
    BY <1>2 DEF WrittenSet
  <2> HIDE DEF raw
  <2> QED BY <1>1, <2>1
<1> HIDE DEF raw
<1>4. raw.context_set_id[1] # "" /\ raw.label # "" /\ raw.items = mapped
  <2>1. raw.context_set_id = id /\ raw.label = "draft" /\ raw.items = mapped
    BY <1>3
  <2>2. id[1] = "ctx-draft"
    BY DEF Ids
  <2> QED BY <2>1, <2>2
<1>5. \A k \in DOMAIN mapped : parseContextItem(mapped[k]).ok
  <2> TAKE k \in DOMAIN mapped
  <2>1. k \in DOMAIN set.items /\ mapped[k] = mapContextItem(set.items[k])
    BY DEF mapped
  <2>2. set.items[k] \in Items
    BY <1>1, <2>1
  <2>3. ~ (mapped[k].kind = "external_link" /\ "title" \in mapped[k].blank)
    BY <1>4 DEF Titled, raw
  <2> QED BY <2>1, <2>2, <2>3, ItemIsRead
<1>6. ReadEach(mapped, parseContextItem) = Read(data)
  <2>1. DOMAIN mapped = DOMAIN set.items
        /\ \A k \in DOMAIN set.items : mapped[k] = mapContextItem(set.items[k])
    BY DEF mapped
  <2> DEFINE results == [k \in DOMAIN mapped |-> parseContextItem(mapped[k])]
  <2>2. ReadEach(mapped, parseContextItem) =
          IF \A k \in DOMAIN mapped : results[k].ok THEN Read([k \in DOMAIN mapped |-> results[k].data])
          ELSE Refused
    BY DEF ReadEach
  <2>3. \A k \in DOMAIN mapped : results[k] = parseContextItem(mapped[k])
    OBVIOUS
  <2> HIDE DEF results
  <2>4. [k \in DOMAIN mapped |-> results[k].data] = data
    BY <2>1, <2>3
  <2> QED BY <1>5, <2>2, <2>3, <2>4
<1> HIDE DEF data
<1>7. parseContextSet(raw) = Read([raw EXCEPT !.items = data])
  <2>1. ReadEach(raw.items, parseContextItem) = Read(data)
    BY <1>4, <1>6
  <2>2. Read(data).ok /\ Read(data).data = data
    BY DEF Read
  <2> QED BY <1>4, <2>1, <2>2 DEF parseContextSet
<1> DEFINE kept == [raw EXCEPT !.items = data]
<1>8. kept.context_set_id = id /\ kept.items = data
  BY <1>3
<1> HIDE DEF kept
<1>9. Read(kept).ok /\ Read(kept).data = kept
  BY DEF Read
<1> QED BY <1>7, <1>8, <1>9 DEF kept, data, raw, ReadItems

LEMMA JoinedIs ==
  ASSUME NEW text \in Words
  PROVE  /\ Joined(<<>>) = <<>>
         /\ Joined(<<[kind |-> "text", text |-> text]>>) = text
<1>1. Joined(<<>>) = <<>>
  <2> DEFINE IsIt(f) == f = [k \in 0 .. Len(<<>>) |->
                               IF k = 0 THEN <<>> ELSE f[k - 1] \o formatContentBlock(<<>>[k])]
             g == CHOOSE f : IsIt(f)
             f0 == [k \in 0 .. 0 |-> <<>>]
  <2>1. Joined(<<>>) = g[Len(<<>>)]
    BY DEF Joined
  <2>2. IsIt(f0)
    <3>1. Len(<<>>) = 0 /\ \A k \in 0 .. 0 : k = 0
      OBVIOUS
    <3> QED BY <3>1
  <2>3. IsIt(g)
    BY <2>2
  <2>4. Len(<<>>) = 0 /\ 0 \in 0 .. Len(<<>>)
    OBVIOUS
  <2>5. g[0] = <<>>
    <3> HIDE DEF g
    <3> QED BY <2>3, <2>4
  <2> HIDE DEF g
  <2> QED BY <2>1, <2>4, <2>5
<1>2. Joined(<<[kind |-> "text", text |-> text]>>) = text
  <2> DEFINE one == <<[kind |-> "text", text |-> text]>>
             IsIt(f) == f = [k \in 0 .. Len(one) |->
                               IF k = 0 THEN <<>> ELSE f[k - 1] \o formatContentBlock(one[k])]
             g == CHOOSE f : IsIt(f)
             f1 == [k \in 0 .. 1 |-> IF k = 0 THEN <<>> ELSE text]
  <2>1. Joined(one) = g[Len(one)]
    BY DEF Joined
  <2>2. Len(one) = 1 /\ one[1].text = text
    OBVIOUS
  <2>3. <<>> \o text = text
    BY ConcatEmptySeq DEF Words
  <2> HIDE DEF one
  <2>4. IsIt(f1)
    <3>1. \A k \in 0 .. 1 : k = 0 \/ k = 1
      OBVIOUS
    <3>2. f1[0] = <<>> /\ f1[1] = text /\ 1 - 1 = 0
      OBVIOUS
    <3>3. \A k \in 0 .. 1 : (IF k = 0 THEN <<>> ELSE text) =
                            (IF k = 0 THEN <<>> ELSE f1[k - 1] \o formatContentBlock(one[k]))
      <4> HIDE DEF f1
      <4> QED BY <2>2, <2>3, <3>1, <3>2 DEF formatContentBlock
    <3> QED BY <2>2, <3>3
  <2>5. IsIt(g)
    BY <2>4
  <2> HIDE DEF g
  <2>6. g[0] = <<>>
    BY <2>2, <2>5
  <2>7. g[1] = g[0] \o formatContentBlock(one[1])
    <3>1. 1 \in 0 .. Len(one) /\ 1 # 0 /\ 1 - 1 = 0
      BY <2>2
    <3> QED BY <2>5, <3>1
  <2>8. g[1] = text
    BY <2>2, <2>3, <2>6, <2>7 DEF formatContentBlock
  <2> QED BY <2>1, <2>2, <2>8 DEF one
<1> QED BY <1>1, <1>2

LEMMA TurnIsRead ==
  ASSUME NEW t \in Turns, NEW at, NEW ids
  PROVE  LET raw == createTurnArtifact(t, at, ids)
         IN  /\ parseTurn(raw) = Read(raw)
             /\ raw.turn_id = t.turn /\ raw.role = t.role /\ raw.completed = t.completed
             /\ raw.context_set_ids = ids /\ Joined(raw.content) = t.text
<1> DEFINE raw == createTurnArtifact(t, at, ids)
           block == [kind |-> "text", text |-> t.text]
<1>1. t.turn \in Nat /\ t.role \in {"operator", "agent"} /\ t.text \in Words
  BY DEF Turns
<1>2. /\ raw.turn_id = t.turn /\ raw.role = t.role /\ raw.completed = t.completed
      /\ raw.context_set_ids = ids
      /\ raw.content = IF t.text = <<>> THEN <<>> ELSE <<block>>
  BY DEF createTurnArtifact
<1> HIDE DEF raw
<1>3. Joined(raw.content) = t.text
  BY <1>1, <1>2, JoinedIs
<1>4. ReadEach(raw.content, parseContentBlock).ok
  <2>1. ASSUME NEW k \in DOMAIN raw.content PROVE parseContentBlock(raw.content[k]) = Read(raw.content[k])
    <3>1. t.text # <<>> /\ raw.content = <<block>>
      BY <1>2
    <3>2. k = 1 /\ raw.content[k] = block
      BY <3>1
    <3>3. parseContentBlock(block) = Read(block)
      BY <3>1 DEF parseContentBlock
    <3> QED BY <3>2, <3>3
  <2>2. \A k \in DOMAIN raw.content : parseContentBlock(raw.content[k]).ok
    <3>1. \A data : Read(data).ok
      BY DEF Read
    <3> TAKE k \in DOMAIN raw.content
    <3>2. parseContentBlock(raw.content[k]) = Read(raw.content[k])
      BY <2>1
    <3> QED BY <3>1, <3>2
  <2> DEFINE results == [k \in DOMAIN raw.content |-> parseContentBlock(raw.content[k])]
  <2>3. \A k \in DOMAIN raw.content : results[k].ok
    BY <2>2
  <2>4. ReadEach(raw.content, parseContentBlock) =
          IF \A k \in DOMAIN raw.content : results[k].ok
          THEN Read([k \in DOMAIN raw.content |-> results[k].data]) ELSE Refused
    BY DEF ReadEach
  <2> HIDE DEF results
  <2> QED BY <2>3, <2>4 DEF Read
<1>5. parseTurn(raw) = Read(raw)
  BY <1>1, <1>2, <1>4 DEF parseTurn, participantRole
<1> QED BY <1>2, <1>3, <1>5 DEF raw

LEMMA WrittenIs ==
  ASSUME NEW id \in DOMAIN records
  PROVE  LET a == createAgentConversationArtifactSnapshot(id)
         IN  /\ parseArtifactHeader(a, "specspace_agent_conversation")
             /\ a.title = records[id].title /\ a.status = "active" /\ a.storage = "specspace"
             /\ a.conversation_id = id /\ a.updated_at = records[id].updated_at
             /\ {"context_sets", "turns", "outputs"} \subseteq DOMAIN a
             /\ a.context_sets = [i \in DOMAIN RegistryOf(id) |->
                   [RegistryOf(id)[i].was EXCEPT !.context_set_id = RegistryOf(id)[i].id]]
             /\ a.turns = [i \in DOMAIN ShownTurns(id) |->
                   createTurnArtifact(ShownTurns(id)[i], StartOf(id, ShownTurns(id)[i].turn).at,
                                      SetIdsOf(id, ShownTurns(id)[i].turn))]
<1> DEFINE a == createAgentConversationArtifactSnapshot(id)
<1>1. /\ a.title = records[id].title /\ a.status = "active" /\ a.storage = "specspace"
      /\ a.conversation_id = id /\ a.updated_at = records[id].updated_at
      /\ a.artifact_kind = "specspace_agent_conversation" /\ a.api_version = "v1"
      /\ a.schema_version = 1
      /\ {"context_sets", "turns", "outputs"} \subseteq DOMAIN a
  BY DEF createAgentConversationArtifactSnapshot
<1>2. a.context_sets = [i \in DOMAIN RegistryOf(id) |->
                   [RegistryOf(id)[i].was EXCEPT !.context_set_id = RegistryOf(id)[i].id]]
  BY DEF createAgentConversationArtifactSnapshot, RegistryOf
<1>3. a.turns = [i \in DOMAIN ShownTurns(id) |->
                   createTurnArtifact(ShownTurns(id)[i], StartOf(id, ShownTurns(id)[i].turn).at,
                                      SetIdsOf(id, ShownTurns(id)[i].turn))]
  BY DEF createAgentConversationArtifactSnapshot, RegistryOf, ShownTurns, StartOf, SetIdsOf
<1> HIDE DEF a
<1>4. parseArtifactHeader(a, "specspace_agent_conversation")
  BY <1>1 DEF parseArtifactHeader
<1> QED BY <1>1, <1>2, <1>3, <1>4 DEF a

LEMMA ConversationReads ==
  ASSUME RecordsTypeInv, NEW id \in DOMAIN records
  PROVE  ReadsBack(id)
<1> DEFINE a == createAgentConversationArtifactSnapshot(id)
           reg == RegistryOf(id)
           turns == ShownTurns(id)
           SetData(i) == parseContextSet(a.context_sets[i]).data
           setsData == [i \in DOMAIN reg |-> SetData(i)]
           d == [a EXCEPT !.context_sets = setsData, !.turns = a.turns, !.outputs = a.outputs]
<1> SUFFICES ASSUME ~ HoldsUntitled(a)
             PROVE  /\ parseAgentConversationArtifact(a).ok
                    /\ parseAgentConversationArtifact(a).data = d
                    /\ TranscriptOf(d) = turns
                    /\ \A i \in DOMAIN d.turns :
                          NamesItsSet(d, d.turns[i].context_set_ids, StartOf(id, d.turns[i].turn_id).context)
                    /\ \A i \in DOMAIN d.outputs :
                          NamesItsSet(d, d.outputs[i].context_set_ids,
                                      StartOf(id, d.outputs[i].origin_turn_id).context)
  BY DEF ReadsBack, ShownTurns, StartOf
<1>1. /\ reg \in Registries /\ DOMAIN reg = 1 .. Len(reg) /\ Len(reg) \in Nat
      /\ \A i \in DOMAIN reg : reg[i].was \in Artifacts /\ reg[i].id \in Ids
      /\ \A i, j \in DOMAIN reg : reg[i].id = reg[j].id => i = j
  <2> DEFINE entry == [was : Artifacts, id : Ids]
  <2>1. /\ reg \in Registries /\ reg \in Seq(entry)
        /\ \A i, j \in DOMAIN reg : reg[i].id = reg[j].id => i = j
    BY ConversationIs DEF Registries
  <2>2. \A e \in entry : e.was \in Artifacts /\ e.id \in Ids
    OBVIOUS
  <2> HIDE DEF entry, reg
  <2> QED BY <2>1, <2>2
<1>2. /\ turns \in Seq(Turns)
      /\ \A i \in DOMAIN turns : turns[i] \in Turns /\ WasStarted(id, turns[i].turn)
  BY ConversationIs DEF StartedTurns
<1>3. /\ a.context_sets = [i \in DOMAIN reg |-> [reg[i].was EXCEPT !.context_set_id = reg[i].id]]
      /\ a.turns = [i \in DOMAIN turns |->
            createTurnArtifact(turns[i], StartOf(id, turns[i].turn).at, SetIdsOf(id, turns[i].turn))]
      /\ {"context_sets", "turns", "outputs"} \subseteq DOMAIN a
      /\ parseArtifactHeader(a, "specspace_agent_conversation")
      /\ a.title = records[id].title /\ a.status = "active" /\ a.storage = "specspace"
  BY WrittenIs
<1>4. a.outputs \in PlacedOutputs(id)
      /\ \A i \in DOMAIN turns : outputsByTurn(a.outputs, turns[i].turn) = turns[i].outputs
  BY OutputsAre
<1>5. a.title # ""
  <2>1. records[id].title \in Titles
    BY ConversationIs DEF Conversations
  <2> QED BY <1>3, <2>1 DEF Titles
<1> HIDE DEF a, reg, turns
<1>6. ASSUME NEW i \in DOMAIN reg
      PROVE  /\ parseContextSet(a.context_sets[i]).ok /\ SetData(i).context_set_id = reg[i].id
             /\ \A set \in Sets : reg[i].was = createArtifactContextSet(set) =>
                   SetData(i).items = ReadItems(set)
  <2> DEFINE raw == a.context_sets[i]
  <2>1. raw = [reg[i].was EXCEPT !.context_set_id = reg[i].id] /\ i \in DOMAIN a.context_sets
    BY <1>3
  <2>2. \A k \in DOMAIN raw.items : ~ (raw.items[k].kind = "external_link" /\ "title" \in raw.items[k].blank)
    BY <2>1 DEF HoldsUntitled
  <2> HIDE DEF raw
  <2>3. ASSUME NEW set \in Sets, reg[i].was = createArtifactContextSet(set)
        PROVE  /\ parseContextSet(raw).ok /\ parseContextSet(raw).data.context_set_id = reg[i].id
               /\ parseContextSet(raw).data.items = ReadItems(set)
    <3>1. raw = WrittenSet(set, reg[i].id) /\ reg[i].id \in Ids
      BY <1>1, <2>1, <2>3 DEF WrittenSet
    <3>2. Titled(WrittenSet(set, reg[i].id))
      BY <2>2, <3>1 DEF Titled
    <3> QED BY <3>1, <3>2, SetIsRead
  <2>4. \E set \in Sets : reg[i].was = createArtifactContextSet(set)
    BY <1>1 DEF Artifacts
  <2> QED BY <2>3, <2>4 DEF raw
<1> HIDE DEF SetData
<1>7. \A data : Read(data).ok /\ Read(data).data = data
  BY DEF Read
<1>8. ReadEach(a.context_sets, parseContextSet) = Read(setsData)
  <2> DEFINE results == [i \in DOMAIN a.context_sets |-> parseContextSet(a.context_sets[i])]
  <2>1. ReadEach(a.context_sets, parseContextSet) =
          IF \A i \in DOMAIN a.context_sets : results[i].ok
          THEN Read([i \in DOMAIN a.context_sets |-> results[i].data]) ELSE Refused
    BY DEF ReadEach
  <2>2. DOMAIN a.context_sets = DOMAIN reg
    BY <1>3
  <2>3. \A i \in DOMAIN reg : results[i] = parseContextSet(a.context_sets[i])
    BY <2>2
  <2> HIDE DEF results
  <2>4. \A i \in DOMAIN a.context_sets : results[i].ok
    BY <1>6, <2>2, <2>3
  <2>5. [i \in DOMAIN a.context_sets |-> results[i].data] = setsData
    BY <2>2, <2>3 DEF SetData
  <2> QED BY <2>1, <2>4, <2>5
<1>9. ASSUME NEW i \in DOMAIN turns
      PROVE  /\ parseTurn(a.turns[i]) = Read(a.turns[i])
             /\ a.turns[i].turn_id = turns[i].turn /\ a.turns[i].role = turns[i].role
             /\ a.turns[i].completed = turns[i].completed
             /\ a.turns[i].context_set_ids = SetIdsOf(id, turns[i].turn)
             /\ Joined(a.turns[i].content) = turns[i].text
  <2>1. a.turns[i] = createTurnArtifact(turns[i], StartOf(id, turns[i].turn).at, SetIdsOf(id, turns[i].turn))
    BY <1>3
  <2>2. turns[i] \in Turns
    BY <1>2
  <2> QED BY <2>1, <2>2, TurnIsRead
<1>10. ReadEach(a.turns, parseTurn) = Read(a.turns)
  <2> DEFINE results == [i \in DOMAIN a.turns |-> parseTurn(a.turns[i])]
  <2>1. ReadEach(a.turns, parseTurn) =
          IF \A i \in DOMAIN a.turns : results[i].ok
          THEN Read([i \in DOMAIN a.turns |-> results[i].data]) ELSE Refused
    BY DEF ReadEach
  <2>2. DOMAIN a.turns = DOMAIN turns /\ a.turns = [i \in DOMAIN a.turns |-> a.turns[i]]
    BY <1>3
  <2>3. \A i \in DOMAIN a.turns : results[i] = Read(a.turns[i])
    BY <1>9, <2>2
  <2> HIDE DEF results
  <2>4. \A i \in DOMAIN a.turns : results[i].ok /\ results[i].data = a.turns[i]
    BY <1>7, <2>3
  <2>5. [i \in DOMAIN a.turns |-> results[i].data] = a.turns
    BY <2>2, <2>4
  <2> QED BY <2>1, <2>4, <2>5
<1>11. ReadEach(a.outputs, parseOutput) = Read(a.outputs)
  <2> DEFINE results == [i \in DOMAIN a.outputs |-> parseOutput(a.outputs[i])]
  <2>1. ReadEach(a.outputs, parseOutput) =
          IF \A i \in DOMAIN a.outputs : results[i].ok
          THEN Read([i \in DOMAIN a.outputs |-> results[i].data]) ELSE Refused
    BY DEF ReadEach
  <2>2. a.outputs \in Seq(Outputs)
    BY <1>4 DEF PlacedOutputs
  <2>3. a.outputs = [i \in DOMAIN a.outputs |-> a.outputs[i]]
    BY <2>2
  <2>4. \A i \in DOMAIN a.outputs : parseOutput(a.outputs[i]) = Read(a.outputs[i])
    <3>1. \A o \in Outputs : parseOutput(o) = Read(o)
      BY DEF Outputs, parseOutput, outputKind
    <3> QED BY <2>2, <3>1
  <2>5. \A i \in DOMAIN a.outputs : results[i] = Read(a.outputs[i])
    BY <2>4
  <2> HIDE DEF results
  <2>6. \A i \in DOMAIN a.outputs : results[i].ok /\ results[i].data = a.outputs[i]
    BY <1>7, <2>5
  <2>7. [i \in DOMAIN a.outputs |-> results[i].data] = a.outputs
    BY <2>3, <2>6
  <2> QED BY <2>1, <2>6, <2>7
<1> HIDE DEF setsData
<1>12. parseAgentConversationArtifact(a) = Read(d)
  <2> DEFINE sets  == ReadEach(a.context_sets, parseContextSet)
             shown == ReadEach(a.turns, parseTurn)
             outs  == ReadEach(a.outputs, parseOutput)
             copy  == [a EXCEPT !.context_sets = sets.data, !.turns = shown.data, !.outputs = outs.data]
  <2>1. sets.ok /\ sets.data = setsData /\ shown.ok /\ shown.data = a.turns
        /\ outs.ok /\ outs.data = a.outputs
    BY <1>7, <1>8, <1>10, <1>11
  <2>2. parseAgentConversationArtifact(a) =
          IF /\ parseArtifactHeader(a, "specspace_agent_conversation")
             /\ a.title # "" /\ a.status \in {"active", "archived", "superseded"}
             /\ a.storage = "specspace"
             /\ sets.ok /\ shown.ok /\ outs.ok
          THEN Read(copy) ELSE Refused
    BY DEF parseAgentConversationArtifact
  <2> HIDE DEF sets, shown, outs
  <2>3. copy = d
    BY <2>1
  <2> HIDE DEF copy, d
  <2> QED BY <1>3, <1>5, <2>1, <2>2, <2>3
<1>13. d.context_sets = setsData /\ d.turns = a.turns /\ d.outputs = a.outputs
  BY <1>3
<1> HIDE DEF d
<1>14. TranscriptOf(d) = turns
  <2> DEFINE Shows(i) == [turn |-> a.turns[i].turn_id, role |-> a.turns[i].role,
                          completed |-> a.turns[i].completed, text |-> Joined(a.turns[i].content),
                          outputs |-> outputsByTurn(a.outputs, a.turns[i].turn_id)]
  <2>1. TranscriptOf(d) = [i \in DOMAIN a.turns |-> Shows(i)]
    BY <1>13 DEF TranscriptOf
  <2>2. ASSUME NEW i \in DOMAIN turns PROVE Shows(i) = turns[i]
    <3>1. Shows(i) = [turn |-> turns[i].turn, role |-> turns[i].role, completed |-> turns[i].completed,
                      text |-> turns[i].text, outputs |-> turns[i].outputs]
      BY <1>4, <1>9
    <3>2. \A t \in Turns : t = [turn |-> t.turn, role |-> t.role, completed |-> t.completed,
                                text |-> t.text, outputs |-> t.outputs]
      BY DEF Turns
    <3> QED BY <1>2, <3>1, <3>2
  <2>3. DOMAIN a.turns = DOMAIN turns /\ turns = [i \in DOMAIN turns |-> turns[i]]
    BY <1>2, <1>3
  <2> HIDE DEF Shows
  <2> QED BY <2>1, <2>2, <2>3
<1>15. ASSUME NEW turn, WasStarted(id, turn)
       PROVE  NamesItsSet(d, SetIdsOf(id, turn), StartOf(id, turn).context)
  <2> DEFINE sent == StartOf(id, turn).context
             ids == SetIdsOf(id, turn)
             named == {i \in DOMAIN d.context_sets :
                         \E k \in DOMAIN ids : d.context_sets[i].context_set_id = ids[k]}
  <2>1. PICK j \in DOMAIN reg :
           reg[j].was = createArtifactContextSet(sent) /\ ids = <<reg[j].id>>
    BY <1>15, StartIs DEF reg
  <2>2. sent \in Sets
    BY <1>15, StartIs
  <2> HIDE DEF sent, ids
  <2>3. DOMAIN d.context_sets = DOMAIN reg /\ \A i \in DOMAIN reg : d.context_sets[i] = SetData(i)
    BY <1>13 DEF setsData
  <2>4. DOMAIN ids = {1} /\ ids[1] = reg[j].id
    BY <2>1
  <2>5. \A i \in DOMAIN reg : d.context_sets[i].context_set_id = reg[i].id
    BY <1>6, <2>3
  <2>6. named = {j}
    BY <1>1, <2>3, <2>4, <2>5
  <2>7. Cardinality(named) = 1
    BY <2>6, FS_Singleton
  <2>8. d.context_sets[j].items = ReadItems(sent)
    BY <1>6, <2>1, <2>2, <2>3
  <2>9. NamesItsSet(d, ids, sent)
    BY <2>6, <2>7, <2>8 DEF NamesItsSet, ReadItems
  <2> QED BY <2>9 DEF ids, sent
<1>16. ASSUME NEW i \in DOMAIN d.turns
       PROVE  NamesItsSet(d, d.turns[i].context_set_ids, StartOf(id, d.turns[i].turn_id).context)
  <2>1. i \in DOMAIN turns
    BY <1>3, <1>13
  <2>2. d.turns[i].context_set_ids = SetIdsOf(id, turns[i].turn) /\ d.turns[i].turn_id = turns[i].turn
    BY <1>9, <1>13, <2>1
  <2>3. WasStarted(id, turns[i].turn)
    BY <1>2, <2>1
  <2> QED BY <1>15, <2>2, <2>3
<1>17. ASSUME NEW i \in DOMAIN d.outputs
       PROVE  NamesItsSet(d, d.outputs[i].context_set_ids, StartOf(id, d.outputs[i].origin_turn_id).context)
  <2>1. OutputPlaced(id, d.outputs[i])
    BY <1>4, <1>13 DEF PlacedOutputs
  <2> QED BY <1>15, <2>1 DEF OutputPlaced
<1> QED BY <1>7, <1>12, <1>14, <1>16, <1>17

-----------------------------------------------------------------------------
(* The list of conversations: each place in it is some conversation's, and *)
(* one that was used later comes first.                                    *)
ComesBefore(used, a, b) == used[a] > used[b] \/ (used[a] = used[b] /\ a >= b)
UpToOne(used, n, b) == {a \in 1 .. n : ComesBefore(used, a, b)}
PlaceIn(used, n) == [b \in 1 .. n |-> Cardinality(UpToOne(used, n, b))]

LEMMA PlacesAreTaken ==
  ASSUME NEW n \in Nat, NEW used \in [1 .. n -> Nat]
  PROVE  /\ \A i \in 1 .. n : \E a \in 1 .. n : PlaceIn(used, n)[a] = i
         /\ \A a, b \in 1 .. n : PlaceIn(used, n)[a] < PlaceIn(used, n)[b] => ComesBefore(used, a, b)
<1> DEFINE N == 1 .. n
           U(b) == UpToOne(used, n, b)
           place == PlaceIn(used, n)
<1>1. /\ IsFiniteSet(N) /\ Cardinality(N) = n
      /\ \A b \in N : used[b] \in Nat /\ b \in Nat
  <2>1. IsFiniteSet(1 .. n) /\ Cardinality(1 .. n) = IF 1 > n THEN 0 ELSE n - 1 + 1
    BY FS_Interval
  <2>2. (IF 1 > n THEN 0 ELSE n - 1 + 1) = n
    OBVIOUS
  <2>3. \A b \in N : used[b] \in Nat /\ b \in Nat
    OBVIOUS
  <2> QED BY <2>1, <2>2, <2>3
<1>2. \A b \in N : U(b) \subseteq N /\ b \in U(b)
  BY <1>1 DEF UpToOne, ComesBefore
<1>3. \A b \in N : IsFiniteSet(U(b)) /\ Cardinality(U(b)) \in Nat /\ Cardinality(U(b)) <= n
  <2> TAKE b \in N
  <2>1. IsFiniteSet(U(b)) /\ Cardinality(U(b)) <= Cardinality(N)
    BY <1>1, <1>2, FS_Subset
  <2> HIDE DEF N, U
  <2> QED BY <1>1, <2>1, FS_CardinalityType
<1>4. \A b \in N : Cardinality(U(b)) >= 1
  <2> TAKE b \in N
  <2>1. U(b) # {}
    BY <1>2
  <2> HIDE DEF U, N
  <2>2. Cardinality(U(b)) # 0
    BY <1>3, <2>1, FS_EmptySet
  <2> QED BY <1>3, <2>2
<1>5. \A b \in N : place[b] = Cardinality(U(b))
  BY DEF PlaceIn
<1>6. place \in [N -> N]
  <2>1. \A b \in N : Cardinality(U(b)) \in N
    BY <1>3, <1>4
  <2> QED BY <2>1 DEF PlaceIn
<1>7. \A a, b \in N : ComesBefore(used, a, b) \/ ComesBefore(used, b, a)
  BY <1>1 DEF ComesBefore
<1>8. ASSUME NEW a \in N, NEW b \in N, a # b, ComesBefore(used, a, b)
      PROVE  place[a] < place[b]
  <2>1. U(a) \subseteq U(b)
    <3> SUFFICES ASSUME NEW c \in N, ComesBefore(used, c, a) PROVE ComesBefore(used, c, b)
      BY DEF UpToOne
    <3>1. used[a] \in Nat /\ used[b] \in Nat /\ used[c] \in Nat /\ a \in Nat /\ b \in Nat /\ c \in Nat
      BY <1>1
    <3> QED BY <1>8, <3>1 DEF ComesBefore
  <2>2. b \notin U(a)
    <3>1. used[a] \in Nat /\ used[b] \in Nat /\ a \in Nat /\ b \in Nat
      BY <1>1
    <3>2. ~ ComesBefore(used, b, a)
      BY <1>8, <3>1 DEF ComesBefore
    <3> QED BY <3>2 DEF UpToOne
  <2>3. b \in U(b)
    BY <1>2
  <2> HIDE DEF U
  <2>4. U(a) # U(b)
    BY <2>2, <2>3
  <2>5. Cardinality(U(a)) <= Cardinality(U(b)) /\ Cardinality(U(a)) # Cardinality(U(b))
    BY <1>3, <2>1, <2>4, FS_Subset
  <2> HIDE DEF place
  <2> QED BY <1>3, <1>5, <2>5
<1> HIDE DEF place, U
<1>13. \A a \in N : place[a] \in Nat
  <2>1. \A a \in N : place[a] \in N
    <3> HIDE DEF N
    <3> QED BY <1>6
  <2> QED BY <2>1
<1>9. place \in Injection(N, N)
  <2>1. ASSUME NEW a \in N, NEW b \in N, place[a] = place[b] PROVE a = b
    <3> SUFFICES ASSUME a # b PROVE FALSE
      OBVIOUS
    <3>1. place[a] < place[b] \/ place[b] < place[a]
      BY <1>7, <1>8
    <3>2. place[a] \in Nat /\ place[b] \in Nat
      BY <1>13
    <3> QED BY <2>1, <3>1, <3>2
  <2> QED BY <1>6, <2>1 DEF Injection, IsInjective
<1>10. place \in Surjection(N, N)
  <2> HIDE DEF N
  <2> QED BY <1>1, <1>9, FS_Injection
<1>11. \A i \in N : \E a \in N : place[a] = i
  BY <1>10 DEF Surjection
<1>12. ASSUME NEW a \in N, NEW b \in N, place[a] < place[b] PROVE ComesBefore(used, a, b)
  <2>1. place[a] \in Nat /\ place[b] \in Nat
    BY <1>13
  <2>2. a # b
    BY <1>12, <2>1
  <2>3. ~ ComesBefore(used, b, a)
    <3> SUFFICES ASSUME ComesBefore(used, b, a) PROVE FALSE
      OBVIOUS
    <3>1. place[b] < place[a]
      BY <1>8, <2>2
    <3> QED BY <1>12, <2>1, <3>1
  <2> QED BY <1>7, <2>3
<1> QED BY <1>11, <1>12 DEF place

LEMMA IndexReads ==
  ASSUME RecordsTypeInv
  PROVE  IndexIsTrue
<1> DEFINE n == Len(records)
           used == [id \in 1 .. n |-> records[id].updated_at]
           entry(id) == createAgentConversationIndexEntry(createAgentConversationArtifactSnapshot(id))
           All == {entry(id) : id \in DOMAIN records}
           Sorted(s) == \A i, j \in DOMAIN s : i < j => s[i] # s[j] /\ compareIndexEntries(s[i], s[j])
           entries == CHOOSE s \in [DOMAIN records -> All] : Sorted(s)
           index == createAgentConversationIndexArtifact
<1>1. /\ n \in Nat /\ DOMAIN records = 1 .. n
      /\ \A id \in 1 .. n : records[id].updated_at \in Nat /\ records[id].title \in Titles
  <2>1. records \in Seq(Conversations)
    BY DEF RecordsTypeInv
  <2>2. \A c \in Conversations : c.updated_at \in Nat /\ c.title \in Titles
    BY DEF Conversations
  <2> QED BY <2>1, <2>2
<1>2. used \in [1 .. n -> Nat] /\ \A id \in 1 .. n : used[id] = records[id].updated_at
  BY <1>1
<1>3. ASSUME NEW id \in 1 .. n
      PROVE  LET a == createAgentConversationArtifactSnapshot(id)
             IN  /\ entry(id).conversation_id = id /\ entry(id).updated_at = used[id]
                 /\ entry(id).title # "" /\ entry(id).turn_count = Len(a.turns)
                 /\ Len(TranscriptOf(a)) = Len(a.turns)
  <2> DEFINE a == createAgentConversationArtifactSnapshot(id)
  <2>1. a.conversation_id = id /\ a.updated_at = used[id] /\ a.title = records[id].title
        /\ DOMAIN a.turns = DOMAIN ShownTurns(id)
    <3>1. id \in DOMAIN records
      BY <1>1
    <3>2. /\ a.conversation_id = id /\ a.updated_at = records[id].updated_at
          /\ a.title = records[id].title
          /\ a.turns = [i \in DOMAIN ShownTurns(id) |->
                createTurnArtifact(ShownTurns(id)[i], StartOf(id, ShownTurns(id)[i].turn).at,
                                   SetIdsOf(id, ShownTurns(id)[i].turn))]
      BY <3>1, WrittenIs
    <3> HIDE DEF a, used
    <3> QED BY <1>2, <3>2
  <2>2. DOMAIN TranscriptOf(a) = DOMAIN ShownTurns(id)
    BY <2>1 DEF TranscriptOf
  <2>3. ShownTurns(id) \in Seq(Turns)
    BY <1>1, ConversationIs DEF StartedTurns
  <2>4. Len(TranscriptOf(a)) = Len(ShownTurns(id)) /\ Len(a.turns) = Len(ShownTurns(id))
    <3>1. DOMAIN ShownTurns(id) = 1 .. Len(ShownTurns(id)) /\ Len(ShownTurns(id)) \in Nat
      BY <2>3
    <3> HIDE DEF a
    <3> QED BY <2>1, <2>2, <3>1
  <2> DEFINE e == createAgentConversationIndexEntry(a)
  <2>5. entry(id) = e
    OBVIOUS
  <2> HIDE DEF a, used
  <2>6. e.conversation_id = id /\ e.updated_at = used[id]
        /\ e.title = records[id].title /\ e.turn_count = Len(a.turns)
    BY <2>1 DEF createAgentConversationIndexEntry
  <2>7. records[id].title # ""
    BY <1>1 DEF Titles
  <2> HIDE DEF e, entry
  <2> QED BY <2>4, <2>5, <2>6, <2>7 DEF a
<1>4. index = [artifact_kind |-> "specspace_agent_conversation_index", api_version |-> "v1",
               schema_version |-> 1, entry_count |-> Len(entries), entries |-> entries]
  BY DEF createAgentConversationIndexArtifact
<1>5. \A k, id \in 1 .. n : k # id /\ ComesBefore(used, k, id) =>
         entry(k) # entry(id) /\ compareIndexEntries(entry(k), entry(id))
  <2> TAKE k, id \in 1 .. n
  <2> DEFINE e == entry(k)
             f == entry(id)
  <2>1. /\ e.conversation_id = k /\ e.updated_at = used[k]
        /\ f.conversation_id = id /\ f.updated_at = used[id]
    BY <1>3
  <2> HIDE DEF e, f, used
  <2>2. ComesBefore(used, k, id) => compareIndexEntries(e, f)
    BY <2>1 DEF compareIndexEntries, ComesBefore
  <2>3. k # id => e # f
    BY <2>1
  <2> QED BY <2>2, <2>3 DEF e, f
<1> HIDE DEF entry, used, index
<1>6. \E s \in [DOMAIN records -> All] : Sorted(s)
  <2> DEFINE whose(i) == CHOOSE id \in 1 .. n : PlaceIn(used, n)[id] = i
             s == [i \in 1 .. n |-> entry(whose(i))]
  <2>1. \A i \in 1 .. n : whose(i) \in 1 .. n /\ PlaceIn(used, n)[whose(i)] = i
    <3> TAKE i \in 1 .. n
    <3>1. \E id \in 1 .. n : PlaceIn(used, n)[id] = i
      <4> HIDE DEF n
      <4> QED BY <1>1, <1>2, PlacesAreTaken
    <3> QED BY <3>1
  <2> HIDE DEF whose
  <2>2. s \in [DOMAIN records -> All]
    BY <1>1, <2>1
  <2>3. ASSUME NEW i \in 1 .. n, NEW j \in 1 .. n, i < j
        PROVE  s[i] # s[j] /\ compareIndexEntries(s[i], s[j])
    <3> DEFINE a == whose(i)
               b == whose(j)
    <3>1. /\ a \in 1 .. n /\ b \in 1 .. n /\ PlaceIn(used, n)[a] = i /\ PlaceIn(used, n)[b] = j
          /\ s[i] = entry(a) /\ s[j] = entry(b)
      BY <2>1
    <3> HIDE DEF a, b, n, s
    <3>2. ComesBefore(used, a, b)
      BY <1>1, <1>2, <2>3, <3>1, PlacesAreTaken
    <3>3. a # b
      BY <1>1, <2>3, <3>1
    <3> QED BY <1>5, <3>1, <3>2, <3>3
  <2>4. DOMAIN s = 1 .. n
    OBVIOUS
  <2> HIDE DEF s
  <2>5. Sorted(s)
    BY <2>3, <2>4
  <2> HIDE DEF Sorted
  <2> QED BY <2>2, <2>5
<1>7. entries \in [DOMAIN records -> All] /\ Sorted(entries)
  BY <1>6
<1> HIDE DEF entries
<1>8. DOMAIN entries = 1 .. n /\ \A i \in 1 .. n : \E id \in 1 .. n : entries[i] = entry(id)
  BY <1>1, <1>7
<1>9. \A i \in 1 .. n : /\ entries[i].title # "" /\ entries[i].updated_at \in Nat
                        /\ entries[i].turn_count =
                             Len(TranscriptOf(createAgentConversationArtifactSnapshot(entries[i].conversation_id)))
  <2> TAKE i \in 1 .. n
  <2>1. PICK id \in 1 .. n : entries[i] = entry(id)
    BY <1>8
  <2> DEFINE e == entry(id)
             a == createAgentConversationArtifactSnapshot(id)
  <2>2. /\ e.conversation_id = id /\ e.title # "" /\ e.updated_at = used[id]
        /\ e.turn_count = Len(a.turns) /\ Len(TranscriptOf(a)) = Len(a.turns)
    BY <1>3
  <2>3. used[id] \in Nat
    BY <1>2
  <2>4. entries[i] = e
    BY <2>1
  <2> HIDE DEF e
  <2> QED BY <2>2, <2>3, <2>4
<1>10. index.entries = entries /\ index.entry_count = Len(index.entries)
       /\ parseArtifactHeader(index, "specspace_agent_conversation_index")
  BY <1>4 DEF parseArtifactHeader
<1>11. parseAgentConversationIndexArtifact(index).ok
  <2>1. \A i \in DOMAIN entries : parseIndexEntry(entries[i]) = Read(entries[i])
    BY <1>8, <1>9 DEF parseIndexEntry
  <2>2. \A data : Read(data).ok
    BY DEF Read
  <2> DEFINE results == [i \in DOMAIN entries |-> parseIndexEntry(entries[i])]
  <2>3. ReadEach(entries, parseIndexEntry) =
          IF \A i \in DOMAIN entries : results[i].ok
          THEN Read([i \in DOMAIN entries |-> results[i].data]) ELSE Refused
    BY DEF ReadEach
  <2>4. \A i \in DOMAIN entries : results[i] = Read(entries[i])
    BY <2>1
  <2> HIDE DEF results
  <2>5. ReadEach(entries, parseIndexEntry).ok
    BY <2>2, <2>3, <2>4
  <2> QED BY <1>10, <2>2, <2>5 DEF parseAgentConversationIndexArtifact
<1>12. ASSUME NEW i \in 1 .. n, i > 1
       PROVE  entries[i - 1].updated_at >= entries[i].updated_at
  <2>1. i - 1 \in 1 .. n /\ i - 1 < i
    BY <1>1, <1>12
  <2> DEFINE e == entries[i - 1]
             f == entries[i]
  <2>2. compareIndexEntries(e, f)
    BY <1>7, <1>8, <2>1
  <2>3. e.updated_at \in Nat /\ f.updated_at \in Nat
    BY <1>9, <2>1
  <2> HIDE DEF e, f
  <2>4. e.updated_at >= f.updated_at
    BY <2>2, <2>3 DEF compareIndexEntries
  <2> QED BY <2>4 DEF e, f
<1> QED BY <1>8, <1>9, <1>10, <1>11, <1>12 DEF IndexIsTrue, index

(* Whatever conversations are started, however their streams are read and  *)
(* wherever a reader stops, the artifact of each conversation is read back *)
(* with the transcript its events show, each turn and output names the one *)
(* context set its message was sent with, and the list of conversations is *)
(* sorted and counts their turns; but for an untitled Markdown.            *)
THEOREM RecordsRead == RecordsSpec => []RecordReadsBack
<1>1. RecordsInit => RecordsTypeInv
  BY DEF RecordsInit, RecordsTypeInv
<1>2. RecordsTypeInv => RecordReadsBack
  BY ConversationReads, IndexReads DEF RecordReadsBack
<1> QED BY <1>1, <1>2, RecordsTypeStep, PTL DEF RecordsSpec
=============================================================================
