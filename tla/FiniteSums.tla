----------------------------- MODULE FiniteSums -----------------------------
(***************************************************************************)
(* Facts about the sums and powers the properties are stated with.  All of *)
(* them rest on one principle: a nonempty set of numbers has a least one.  *)
(***************************************************************************)
EXTENDS FiniteSetsExt, FiniteSetTheorems, TLAPS

\* A nonempty set of natural numbers has a least element.
LEMMA LeastNatural ==
    ASSUME NEW T \in SUBSET Nat, T # {}
    PROVE  \E x \in T : \A y \in T : x <= y
<1> DEFINE R == OpToRel(<, Nat)
<1>1. IsWellFoundedOn(R, Nat)
  BY NatLessThanWellFounded
<1>2. PICK x \in T : \A y \in T : <<y, x>> \notin R
  <2> HIDE DEF R
  <2> QED BY <1>1, WFMin
<1>3. \A y \in T : ~(y < x)
  BY <1>2 DEF OpToRel
<1> QED BY <1>3

\* Among finite sets, one has the fewest elements.
LEMMA SmallestSet ==
    ASSUME NEW F, F # {}, \A S \in F : IsFiniteSet(S)
    PROVE  \E S \in F : \A T \in F : Cardinality(S) <= Cardinality(T)
<1> DEFINE N == {Cardinality(S) : S \in F}
<1>1. N \in SUBSET Nat /\ N # {}
  BY FS_CardinalityType
<1>2. PICK n \in N : \A m \in N : n <= m
  BY <1>1, LeastNatural
<1> QED BY <1>2

-----------------------------------------------------------------------------
(* The recursion behind a sum.                                              *)

Choice(S) == CHOOSE x \in S : TRUE
SumTable(g, f, S) ==
    g = [s \in SUBSET S |-> IF s = {} THEN 0 ELSE f[Choice(s)] + g[s \ {Choice(s)}]]

\* The sum is read from a table of the sums over the subsets.
LEMMA SumIsTabled ==
    ASSUME NEW f, NEW S
    PROVE  SumFunctionOnSet(f, S) = (CHOOSE g : SumTable(g, f, S))[S]
BY DEF SumFunctionOnSet, FoldFunctionOnSet, MapThenFoldSet, SumTable, Choice

\* The choice of an element leaves fewer.
LEMMA ChoiceLeavesFewer ==
    ASSUME NEW S, IsFiniteSet(S), S # {}
    PROVE  /\ Choice(S) \in S
           /\ IsFiniteSet(S \ {Choice(S)})
           /\ Cardinality(S \ {Choice(S)}) < Cardinality(S)
<1>1. Choice(S) \in S
  BY DEF Choice
<1>2. /\ IsFiniteSet(S \ {Choice(S)})
      /\ Cardinality(S \ {Choice(S)}) = Cardinality(S) - 1
      /\ Cardinality(S) \in Nat
  BY <1>1, FS_RemoveElement, FS_CardinalityType
<1> QED BY <1>1, <1>2

\* Two tables agree on the sets they have in common.
LEMMA TablesAgree ==
    ASSUME NEW f, NEW S, NEW T, NEW g, NEW h, SumTable(g, f, S), SumTable(h, f, T),
           NEW U \in (SUBSET S) \cap (SUBSET T), IsFiniteSet(U)
    PROVE  g[U] = h[U]
<1> DEFINE F == {V \in SUBSET U : g[V] # h[V]}
<1>1. SUFFICES ASSUME F # {} PROVE FALSE
  OBVIOUS
<1>2. \A V \in F : IsFiniteSet(V)
  BY FS_Subset
<1>3. PICK V \in F : \A W \in F : Cardinality(V) <= Cardinality(W)
  <2> HIDE DEF F
  <2> QED BY <1>1, <1>2, SmallestSet
<1>4. V # {}
  BY DEF SumTable
<1> DEFINE W == V \ {Choice(V)}
<1>5. W \in SUBSET U /\ Cardinality(W) < Cardinality(V)
  BY <1>2, <1>4, ChoiceLeavesFewer
<1>6. Cardinality(W) \in Nat /\ Cardinality(V) \in Nat
  BY <1>2, <1>4, <1>5, ChoiceLeavesFewer, FS_CardinalityType
<1>7. g[W] = h[W]
  <2>1. W \notin F
    <3> HIDE DEF F
    <3> QED BY <1>3, <1>5, <1>6
  <2> QED BY <1>5, <2>1
<1>8. g[V] = f[Choice(V)] + g[W] /\ h[V] = f[Choice(V)] + h[W]
  BY <1>4 DEF SumTable
<1> QED BY <1>3, <1>7, <1>8

\* Every finite set has a table of the sums over its subsets.
LEMMA TableExists ==
    ASSUME NEW f, NEW S0, IsFiniteSet(S0)
    PROVE  \E g : SumTable(g, f, S0)
<1> DEFINE F == {V \in SUBSET S0 : ~\E g : SumTable(g, f, V)}
<1>1. SUFFICES ASSUME F # {} PROVE FALSE
  OBVIOUS
<1>2. \A V \in F : IsFiniteSet(V)
  BY FS_Subset
<1>3. PICK S \in F : \A W \in F : Cardinality(S) <= Cardinality(W)
  <2> HIDE DEF F
  <2> QED BY <1>1, <1>2, SmallestSet
<1> DEFINE G(T) == CHOOSE g : SumTable(g, f, T)
           g0 == [s \in SUBSET S |->
                     IF s = {} THEN 0
                     ELSE f[Choice(s)] + G(s \ {Choice(s)})[s \ {Choice(s)}]]
<1>4. IsFiniteSet(S) /\ S \in SUBSET S0
  BY <1>2
<1>5. ASSUME NEW s \in SUBSET S, s # {}
      PROVE  SumTable(G(s \ {Choice(s)}), f, s \ {Choice(s)})
  <2> DEFINE t == s \ {Choice(s)}
  <2>1. IsFiniteSet(s) /\ IsFiniteSet(t) /\ Cardinality(t) < Cardinality(s)
        /\ Cardinality(s) <= Cardinality(S)
    BY <1>4, <1>5, FS_Subset, ChoiceLeavesFewer
  <2>2. Cardinality(t) \in Nat /\ Cardinality(s) \in Nat /\ Cardinality(S) \in Nat
    BY <1>4, <2>1, FS_CardinalityType
  <2>3. t \notin F
    <3> HIDE DEF F, t
    <3> QED BY <1>3, <2>1, <2>2
  <2>4. \E g : SumTable(g, f, t)
    BY <1>4, <2>3
  <2> QED BY <2>4
<1>6. ASSUME NEW t \in SUBSET S, t # S
      PROVE  g0[t] = G(t)[t]
  <2>1. CASE t = {}
    <3>1. IsFiniteSet(t) /\ Cardinality(t) = 0 /\ Cardinality(S) \in Nat /\ Cardinality(S) # 0
      BY <1>4, <1>6, <2>1, FS_EmptySet, FS_CardinalityType
    <3>2. t \notin F
      <4> HIDE DEF F
      <4> QED BY <1>3, <3>1
    <3>3. SumTable(G(t), f, t)
      BY <1>4, <3>2
    <3> HIDE DEF G
    <3> QED BY <2>1, <3>3 DEF SumTable
  <2>2. CASE t # {}
    <3> DEFINE u == t \ {Choice(t)}
    <3>1. SumTable(G(u), f, u)
      BY <1>5, <2>2
    <3>2. IsFiniteSet(t) /\ IsFiniteSet(u) /\ Cardinality(t) <= Cardinality(S)
      BY <1>4, <2>2, FS_Subset, ChoiceLeavesFewer
    <3>3. Cardinality(t) # Cardinality(S) /\ Cardinality(t) \in Nat /\ Cardinality(S) \in Nat
      BY <1>4, <1>6, <3>2, FS_Subset, FS_CardinalityType
    <3>4. t \notin F
      <4> HIDE DEF F
      <4> QED BY <1>3, <3>2, <3>3
    <3>5. SumTable(G(t), f, t)
      BY <1>4, <3>4
    <3>6. G(t)[t] = f[Choice(t)] + G(t)[u]
      <4> HIDE DEF G
      <4> QED BY <2>2, <3>5 DEF SumTable
    <3>7. G(t)[u] = G(u)[u]
      <4> HIDE DEF G
      <4> QED BY <3>1, <3>2, <3>5, TablesAgree
    <3>8. g0[t] = f[Choice(t)] + G(u)[u]
      <4> HIDE DEF G
      <4> QED BY <2>2
    <3> QED BY <3>6, <3>7, <3>8
  <2> QED BY <2>1, <2>2
<1>7. SumTable(g0, f, S)
  <2>1. ASSUME NEW s \in SUBSET S, s # {}
        PROVE  g0[s] = f[Choice(s)] + g0[s \ {Choice(s)}]
    <3> DEFINE t == s \ {Choice(s)}
    <3>1. Choice(s) \in s
      BY <2>1 DEF Choice
    <3>2. t \in SUBSET S /\ t # S
      BY <3>1
    <3>3. g0[t] = G(t)[t]
      <4> HIDE DEF g0, G, t
      <4> QED BY <1>6, <3>2
    <3>4. g0[s] = f[Choice(s)] + G(t)[t]
      <4> HIDE DEF G
      <4> QED BY <2>1
    <3> QED BY <3>3, <3>4
  <2>2. g0[{}] = 0
    OBVIOUS
  <2>3. \A s \in SUBSET S :
           g0[s] = IF s = {} THEN 0 ELSE f[Choice(s)] + g0[s \ {Choice(s)}]
    <3> HIDE DEF g0
    <3> QED BY <2>1, <2>2
  <2>4. /\ DOMAIN g0 = SUBSET S
        /\ g0 = [s \in SUBSET S |-> g0[s]]
    <3> HIDE DEF G
    <3> QED OBVIOUS
  <2> HIDE DEF g0
  <2> QED BY <2>3, <2>4 DEF SumTable
<1> QED BY <1>3, <1>7

-----------------------------------------------------------------------------
(* Sums over finite sets.                                                   *)

\* The sum over a finite set is the term of the chosen element and the rest.
LEMMA SumByChoice ==
    ASSUME NEW f, NEW S, IsFiniteSet(S)
    PROVE  SumFunctionOnSet(f, S) =
             IF S = {} THEN 0
             ELSE f[Choice(S)] + SumFunctionOnSet(f, S \ {Choice(S)})
<1> DEFINE c == Choice(S)
           T == S \ {c}
           g == CHOOSE h : SumTable(h, f, S)
           k == CHOOSE h : SumTable(h, f, T)
<1>1. SumTable(g, f, S) /\ SumFunctionOnSet(f, S) = g[S]
  BY TableExists, SumIsTabled
<1>2. g[S] = IF S = {} THEN 0 ELSE f[c] + g[T]
  <2> HIDE DEF g, c
  <2> QED BY <1>1 DEF SumTable, c
<1>3. CASE S = {}
  BY <1>1, <1>2, <1>3
<1>4. CASE S # {}
  <2>1. IsFiniteSet(T) /\ T \in SUBSET S
    BY <1>4, ChoiceLeavesFewer
  <2>2. SumTable(k, f, T) /\ SumFunctionOnSet(f, T) = k[T]
    BY <2>1, TableExists, SumIsTabled
  <2>3. g[T] = k[T]
    <3> HIDE DEF g, k, T
    <3> QED BY <1>1, <2>1, <2>2, TablesAgree
  <2> HIDE DEF g, k
  <2> QED BY <1>1, <1>2, <1>4, <2>2, <2>3
<1> QED BY <1>3, <1>4

\* Sums of integers are integers, and sums of natural numbers natural numbers.
LEMMA SumType ==
    ASSUME NEW f, NEW S, IsFiniteSet(S), NEW N \in {Nat, Int}, \A x \in S : f[x] \in N
    PROVE  SumFunctionOnSet(f, S) \in N
<1> DEFINE F == {V \in SUBSET S : SumFunctionOnSet(f, V) \notin N}
<1>1. SUFFICES ASSUME F # {} PROVE FALSE
  OBVIOUS
<1>2. \A V \in F : IsFiniteSet(V)
  BY FS_Subset
<1>3. PICK V \in F : \A W \in F : Cardinality(V) <= Cardinality(W)
  <2> HIDE DEF F
  <2> QED BY <1>1, <1>2, SmallestSet
<1>4. V # {}
  <2>1. 0 \in N
    OBVIOUS
  <2> QED BY <1>2, <2>1, SumByChoice
<1> DEFINE W == V \ {Choice(V)}
<1>5. W \in SUBSET S /\ Cardinality(W) < Cardinality(V) /\ Choice(V) \in S
  BY <1>2, <1>4, ChoiceLeavesFewer
<1>6. Cardinality(W) \in Nat /\ Cardinality(V) \in Nat
  BY <1>2, <1>4, ChoiceLeavesFewer, FS_CardinalityType
<1>7. W \notin F
  <2> HIDE DEF F
  <2> QED BY <1>3, <1>5, <1>6
<1>8. SumFunctionOnSet(f, W) \in N
  BY <1>5, <1>7
<1>9. SumFunctionOnSet(f, V) = f[Choice(V)] + SumFunctionOnSet(f, W)
  BY <1>2, <1>4, SumByChoice
<1>10. f[Choice(V)] \in N
  BY <1>5
<1>11. SumFunctionOnSet(f, V) \in N
  BY <1>8, <1>9, <1>10
<1> QED BY <1>11

\* Any element may be taken first.
LEMMA SumRemove ==
    ASSUME NEW f, NEW S, IsFiniteSet(S), \A x \in S : f[x] \in Int, NEW e \in S
    PROVE  SumFunctionOnSet(f, S) = f[e] + SumFunctionOnSet(f, S \ {e})
<1> DEFINE Sum(V) == SumFunctionOnSet(f, V)
           F == {V \in SUBSET S : \E x \in V : Sum(V) # f[x] + Sum(V \ {x})}
<1>1. SUFFICES ASSUME F # {} PROVE FALSE
  OBVIOUS
<1>2. \A V \in SUBSET S : IsFiniteSet(V) /\ Sum(V) \in Int
  BY FS_Subset, SumType
<1>3. PICK V \in F : \A W \in F : Cardinality(V) <= Cardinality(W)
  <2>1. \A W \in F : IsFiniteSet(W)
    BY <1>2
  <2> HIDE DEF F
  <2> QED BY <1>1, <2>1, SmallestSet
<1>4. PICK x \in V : Sum(V) # f[x] + Sum(V \ {x})
  OBVIOUS
<1> DEFINE c == Choice(V)
           U == V \ {c}
           W == V \ {x}
<1>5. c \in V /\ Sum(V) = f[c] + Sum(U)
  BY <1>2, SumByChoice, ChoiceLeavesFewer
<1>6. c # x
  BY <1>4, <1>5
<1>7. ASSUME NEW T \in SUBSET V, T # V
      PROVE  \A y \in T : Sum(T) = f[y] + Sum(T \ {y})
  <2>1. Cardinality(T) < Cardinality(V) /\ Cardinality(T) \in Nat /\ Cardinality(V) \in Nat
    BY <1>2, <1>7, FS_Subset, FS_CardinalityType
  <2>2. T \notin F
    <3> HIDE DEF F
    <3> QED BY <1>3, <2>1
  <2> QED BY <2>2
<1>8. Sum(U) = f[x] + Sum(U \ {x})
  BY <1>5, <1>6, <1>7
<1>9. Sum(W) = f[c] + Sum(W \ {c})
  BY <1>5, <1>6, <1>7
<1>10. U \ {x} = W \ {c}
  OBVIOUS
<1>11. /\ f[c] \in Int /\ f[x] \in Int /\ Sum(W \ {c}) \in Int
  BY <1>2, <1>5
<1>12. Sum(V) = f[x] + Sum(W)
  <2>1. Sum(V) = f[c] + (f[x] + Sum(W \ {c}))
    BY <1>5, <1>8, <1>10
  <2> QED BY <1>9, <1>11, <2>1
<1> QED BY <1>4, <1>12

\* An element more adds its term.
LEMMA SumAdd ==
    ASSUME NEW f, NEW S, IsFiniteSet(S), NEW e, e \notin S, \A x \in S \cup {e} : f[x] \in Int
    PROVE  SumFunctionOnSet(f, S \cup {e}) = f[e] + SumFunctionOnSet(f, S)
<1>1. IsFiniteSet(S \cup {e}) /\ (S \cup {e}) \ {e} = S
  BY FS_AddElement
<1> QED BY <1>1, SumRemove

\* Terms that agree have one sum.
LEMMA SumSame ==
    ASSUME NEW f, NEW g, NEW S, IsFiniteSet(S), \A x \in S : f[x] = g[x]
    PROVE  SumFunctionOnSet(f, S) = SumFunctionOnSet(g, S)
<1> DEFINE F == {V \in SUBSET S : SumFunctionOnSet(f, V) # SumFunctionOnSet(g, V)}
<1>1. SUFFICES ASSUME F # {} PROVE FALSE
  OBVIOUS
<1>2. \A V \in F : IsFiniteSet(V)
  BY FS_Subset
<1>3. PICK V \in F : \A W \in F : Cardinality(V) <= Cardinality(W)
  <2> HIDE DEF F
  <2> QED BY <1>1, <1>2, SmallestSet
<1>4. V # {}
  BY <1>2, SumByChoice
<1> DEFINE W == V \ {Choice(V)}
<1>5. W \in SUBSET S /\ Cardinality(W) < Cardinality(V) /\ Choice(V) \in S
  BY <1>2, <1>4, ChoiceLeavesFewer
<1>6. Cardinality(W) \in Nat /\ Cardinality(V) \in Nat
  BY <1>2, <1>4, ChoiceLeavesFewer, FS_CardinalityType
<1>7. W \notin F
  <2> HIDE DEF F
  <2> QED BY <1>3, <1>5, <1>6
<1>8. SumFunctionOnSet(f, W) = SumFunctionOnSet(g, W)
  BY <1>5, <1>7
<1>9. /\ SumFunctionOnSet(f, V) = f[Choice(V)] + SumFunctionOnSet(f, W)
      /\ SumFunctionOnSet(g, V) = g[Choice(V)] + SumFunctionOnSet(g, W)
  BY <1>2, <1>4, SumByChoice
<1>10. SumFunctionOnSet(f, V) = SumFunctionOnSet(g, V)
  BY <1>5, <1>8, <1>9
<1> QED BY <1>10

\* Terms that are nothing add nothing.
LEMMA SumOfNothing ==
    ASSUME NEW f, NEW S, IsFiniteSet(S), \A x \in S : f[x] = 0
    PROVE  SumFunctionOnSet(f, S) = 0
<1> DEFINE F == {V \in SUBSET S : SumFunctionOnSet(f, V) # 0}
<1>1. SUFFICES ASSUME F # {} PROVE FALSE
  OBVIOUS
<1>2. \A V \in F : IsFiniteSet(V)
  BY FS_Subset
<1>3. PICK V \in F : \A W \in F : Cardinality(V) <= Cardinality(W)
  <2> HIDE DEF F
  <2> QED BY <1>1, <1>2, SmallestSet
<1>4. V # {}
  BY <1>2, SumByChoice
<1> DEFINE W == V \ {Choice(V)}
<1>5. W \in SUBSET S /\ Cardinality(W) < Cardinality(V) /\ Choice(V) \in S
  BY <1>2, <1>4, ChoiceLeavesFewer
<1>6. Cardinality(W) \in Nat /\ Cardinality(V) \in Nat
  BY <1>2, <1>4, ChoiceLeavesFewer, FS_CardinalityType
<1>7. W \notin F
  <2> HIDE DEF F
  <2> QED BY <1>3, <1>5, <1>6
<1>8. SumFunctionOnSet(f, V) = f[Choice(V)] + SumFunctionOnSet(f, W)
  BY <1>2, <1>4, SumByChoice
<1>9. SumFunctionOnSet(f, V) = 0
  BY <1>5, <1>7, <1>8
<1> QED BY <1>9

\* A sum is no larger than one that covers its terms, when none is negative.
LEMMA SumCovered ==
    ASSUME NEW f, NEW S, NEW T, IsFiniteSet(S), IsFiniteSet(T),
           \A x \in S \cup T : f[x] \in Nat, \A x \in S : f[x] > 0 => x \in T
    PROVE  SumFunctionOnSet(f, S) <= SumFunctionOnSet(f, T)
<1> DEFINE Sum(V) == SumFunctionOnSet(f, V)
           Covers(V, U) == \A x \in V : f[x] > 0 => x \in U
           F == {V \in SUBSET S : \E U \in SUBSET T : Covers(V, U) /\ ~(Sum(V) <= Sum(U))}
<1>1. SUFFICES ASSUME F # {} PROVE FALSE
  OBVIOUS
<1>2. \A V \in SUBSET S : IsFiniteSet(V) /\ Sum(V) \in Nat
  BY FS_Subset, SumType
<1>3. \A U \in SUBSET T : IsFiniteSet(U) /\ Sum(U) \in Nat
  BY FS_Subset, SumType
<1>4. PICK V \in F : \A W \in F : Cardinality(V) <= Cardinality(W)
  <2>1. \A W \in F : IsFiniteSet(W)
    BY <1>2
  <2> HIDE DEF F
  <2> QED BY <1>1, <2>1, SmallestSet
<1>5. PICK U \in SUBSET T : Covers(V, U) /\ ~(Sum(V) <= Sum(U))
  OBVIOUS
<1>6. V # {}
  <2>1. Sum({}) = 0
    BY FS_EmptySet, SumByChoice
  <2> QED BY <1>3, <1>5, <2>1
<1> DEFINE c == Choice(V)
           W == V \ {c}
<1>7. /\ c \in V /\ Cardinality(W) < Cardinality(V)
      /\ Cardinality(W) \in Nat /\ Cardinality(V) \in Nat
  BY <1>2, <1>6, ChoiceLeavesFewer, FS_CardinalityType
<1>8. Sum(V) = f[c] + Sum(W)
  BY <1>2, <1>6, SumByChoice
<1>9. W \notin F
  <2> HIDE DEF F
  <2> QED BY <1>4, <1>7
<1>10. CASE f[c] = 0
  <2>1. Covers(W, U)
    BY <1>5
  <2>2. Sum(W) <= Sum(U)
    BY <1>9, <2>1
  <2> QED BY <1>2, <1>3, <1>5, <1>8, <1>10, <2>2
<1>11. CASE f[c] > 0
  <2>1. c \in U
    BY <1>5, <1>7, <1>11
  <2>2. Sum(U) = f[c] + Sum(U \ {c})
    BY <1>3, <2>1, SumRemove
  <2>3. Covers(W, U \ {c})
    BY <1>5
  <2>4. Sum(W) <= Sum(U \ {c})
    BY <1>9, <2>3
  <2>5. f[c] \in Nat /\ Sum(W) \in Nat /\ Sum(U \ {c}) \in Nat
    BY <1>2, <1>3, <1>7
  <2>6. Sum(V) <= Sum(U)
    BY <1>8, <2>2, <2>4, <2>5
  <2> QED BY <1>5, <2>6
<1>12. f[c] \in Nat
  BY <1>7
<1> QED BY <1>10, <1>11, <1>12

-----------------------------------------------------------------------------
(* Counts and largest elements.                                             *)

\* Numbered things are as many as their numbers.
LEMMA NumberedCount ==
    ASSUME NEW S, IsFiniteSet(S), NEW g
    PROVE  LET P == {<<j, g[j]>> : j \in S}
           IN  IsFiniteSet(P) /\ Cardinality(P) = Cardinality(S)
<1> DEFINE P == {<<j, g[j]>> : j \in S}
           f == [j \in S |-> <<j, g[j]>>]
<1>1. f \in Bijection(S, P)
  BY DEF Bijection, Injection, Surjection, IsInjective
<1>2. ExistsBijection(S, P)
  BY <1>1 DEF ExistsBijection
<1> HIDE DEF P
<1>3. IsFiniteSet(P) /\ Cardinality(P) = Cardinality(S)
  BY <1>2, FS_Bijection
<1> QED BY <1>3 DEF P

\* Pairs are as many as those of each second element together.
LEMMA PairsByColumn ==
    ASSUME NEW A, NEW O, IsFiniteSet(A), IsFiniteSet(O), NEW P \in SUBSET (A \X O)
    PROVE  Cardinality(P) =
             SumFunctionOnSet([o \in O |-> Cardinality({a \in A : <<a, o>> \in P})], O)
<1> DEFINE Column(o) == {a \in A : <<a, o>> \in P}
           f == [o \in O |-> Cardinality(Column(o))]
           In(V) == {s \in P : s[2] \in V}
           Sum(V) == SumFunctionOnSet(f, V)
           F == {V \in SUBSET O : Cardinality(In(V)) # Sum(V)}
<1>1. \A V \in SUBSET O : IsFiniteSet(V)
  BY FS_Subset
<1>2. IsFiniteSet(P)
  <2>1. IsFiniteSet(A \X O)
    BY FS_Product
  <2> QED BY <2>1, FS_Subset
<1>3. \A V : IsFiniteSet(In(V)) /\ Cardinality(In(V)) \in Nat
  <2> SUFFICES ASSUME NEW V PROVE IsFiniteSet(In(V))
    BY FS_CardinalityType
  <2>1. In(V) \subseteq P
    OBVIOUS
  <2> QED BY <1>2, <2>1, FS_Subset
<1>4. \A o \in O : f[o] = Cardinality(Column(o)) /\ f[o] \in Nat
  <2> SUFFICES ASSUME NEW o \in O PROVE Cardinality(Column(o)) \in Nat
    OBVIOUS
  <2>1. Column(o) \subseteq A
    OBVIOUS
  <2> QED BY <2>1, FS_Subset, FS_CardinalityType
<1>5. \A o \in O : Cardinality(In({o})) = f[o]
  <2> SUFFICES ASSUME NEW o \in O PROVE Cardinality(In({o})) = Cardinality(Column(o))
    BY <1>4
  <2> DEFINE g == [a \in A |-> o]
  <2>1. Column(o) \subseteq A
    OBVIOUS
  <2>2. IsFiniteSet(Column(o))
    BY <2>1, FS_Subset
  <2>3. In({o}) = {<<a, g[a]>> : a \in Column(o)}
    <3>1. ASSUME NEW s \in In({o})
          PROVE  s \in {<<a, g[a]>> : a \in Column(o)}
      <4>1. s = <<s[1], o>> /\ s[1] \in A /\ s \in P
        OBVIOUS
      <4>2. s[1] \in Column(o) /\ g[s[1]] = o
        BY <4>1
      <4> QED BY <4>1, <4>2
    <3>2. ASSUME NEW a \in Column(o)
          PROVE  <<a, g[a]>> \in In({o})
      <4>1. g[a] = o /\ <<a, o>> \in P /\ <<a, o>>[2] = o
        OBVIOUS
      <4> QED BY <4>1
    <3> HIDE DEF In, Column, g
    <3> QED BY <3>1, <3>2
  <2> HIDE DEF Column, In
  <2>4. Cardinality({<<a, g[a]>> : a \in Column(o)}) = Cardinality(Column(o))
    <3> HIDE DEF g
    <3> QED BY <2>2, NumberedCount
  <2> HIDE DEF g
  <2> QED BY <2>3, <2>4
<1>6. F = {}
  <2>1. SUFFICES ASSUME F # {} PROVE FALSE
    OBVIOUS
  <2>2. PICK V \in F : \A W \in F : Cardinality(V) <= Cardinality(W)
    <3>1. \A V \in F : IsFiniteSet(V)
      BY <1>1
    <3> HIDE DEF F
    <3> QED BY <2>1, <3>1, SmallestSet
  <2>3. IsFiniteSet(V) /\ V \subseteq O /\ Cardinality(In(V)) # Sum(V)
    BY <1>1
  <2>4. V # {}
    <3>1. In({}) = {} /\ Cardinality({}) = 0
      BY FS_EmptySet
    <3>2. Sum({}) = 0
      BY FS_EmptySet, SumByChoice
    <3> QED BY <2>3, <3>1, <3>2
  <2> DEFINE c == Choice(V)
             W == V \ {c}
  <2>5. /\ c \in V /\ Cardinality(W) < Cardinality(V) /\ IsFiniteSet(W)
        /\ Cardinality(W) \in Nat /\ Cardinality(V) \in Nat
    BY <2>3, <2>4, ChoiceLeavesFewer, FS_CardinalityType
  <2>6. W \notin F
    <3> HIDE DEF F
    <3> QED BY <2>2, <2>5
  <2>7. Cardinality(In(W)) = Sum(W)
    BY <2>3, <2>6
  <2>8. Sum(V) = f[c] + Sum(W)
    BY <2>3, <2>4, SumByChoice
  <2>9. In(V) = In(W) \cup In({c}) /\ In(W) \cap In({c}) = {}
    BY <2>5
  <2>10. Cardinality(In(V)) = Cardinality(In(W)) + Cardinality(In({c}))
    <3>1. Cardinality(In(W) \cap In({c})) = 0
      BY <2>9, FS_EmptySet
    <3>2. /\ IsFiniteSet(In(W)) /\ IsFiniteSet(In({c}))
          /\ Cardinality(In(W)) \in Nat /\ Cardinality(In({c})) \in Nat
      BY <1>3
    <3> HIDE DEF In, c, W
    <3>3. Cardinality(In(W) \cup In({c})) =
            Cardinality(In(W)) + Cardinality(In({c})) - Cardinality(In(W) \cap In({c}))
      BY <3>2, FS_Union
    <3>4. Cardinality(In(V)) = Cardinality(In(W)) + Cardinality(In({c})) - 0
      BY <2>9, <3>1, <3>3
    <3>5. \A x, y \in Nat : x + y - 0 = x + y
      OBVIOUS
    <3> QED BY <3>2, <3>4, <3>5
  <2>11. Cardinality(In({c})) = f[c] /\ f[c] \in Nat
    BY <1>4, <1>5, <2>3, <2>5
  <2>12. Cardinality(In(W)) \in Nat
    BY <1>3
  <2> HIDE DEF In, Sum, f, c, F
  <2> QED BY <2>3, <2>7, <2>8, <2>10, <2>11, <2>12
<1>7. In(O) = P
  OBVIOUS
<1> QED BY <1>6, <1>7

\* A nonempty finite set of integers has a largest element.
LEMMA MaxIsLargest ==
    ASSUME NEW S \in SUBSET Int, IsFiniteSet(S), S # {}
    PROVE  Max(S) \in S /\ \A y \in S : y <= Max(S)
<1> DEFINE F == {V \in SUBSET S : V # {} /\ ~\E x \in V : \A y \in V : y <= x}
<1>1. F = {}
  <2>1. SUFFICES ASSUME F # {} PROVE FALSE
    OBVIOUS
  <2>2. \A V \in F : IsFiniteSet(V)
    BY FS_Subset
  <2>3. PICK V \in F : \A W \in F : Cardinality(V) <= Cardinality(W)
    <3> HIDE DEF F
    <3> QED BY <2>1, <2>2, SmallestSet
  <2> DEFINE c == Choice(V)
             W == V \ {c}
  <2>4. /\ c \in V /\ Cardinality(W) < Cardinality(V)
        /\ Cardinality(W) \in Nat /\ Cardinality(V) \in Nat
    BY <2>2, ChoiceLeavesFewer, FS_CardinalityType
  <2>5. W \notin F
    <3> HIDE DEF F
    <3> QED BY <2>3, <2>4
  <2>6. W # {}
    <3>1. SUFFICES ASSUME W = {} PROVE FALSE
      OBVIOUS
    <3>2. \A y \in V : y = c
      BY <3>1
    <3> HIDE DEF c
    <3> QED BY <2>4, <3>2
  <2>7. PICK x \in W : \A y \in W : y <= x
    BY <2>5, <2>6
  <2> HIDE DEF c
  <2>8. c \in Int /\ x \in Int
    BY <2>4
  <2>9. CASE c <= x
    BY <2>7, <2>9
  <2>10. CASE x <= c
    BY <2>4, <2>7, <2>8, <2>10
  <2> QED BY <2>8, <2>9, <2>10
<1>2. \E x \in S : \A y \in S : y <= x
  BY <1>1
<1>3. \E x \in S : \A y \in S : x >= y
  BY <1>2
<1> QED BY <1>3 DEF Max

-----------------------------------------------------------------------------
(* Powers of two.                                                           *)

LEMMA PowerType ==
    ASSUME NEW n \in Nat
    PROVE  2^n \in Nat
<1>1. IsFiniteSet(1..n) /\ Cardinality(1..n) = n
  BY FS_Interval
<1>2. IsFiniteSet(SUBSET (1..n)) /\ Cardinality(SUBSET (1..n)) = 2^n
  BY <1>1, FS_SUBSET
<1> QED BY <1>2, FS_CardinalityType

\* The next power doubles: half of the subsets hold the new element.
LEMMA PowerDoubles ==
    ASSUME NEW n \in Nat
    PROVE  2^(n + 1) = 2 * 2^n
<1> DEFINE A == SUBSET (1..n)
           B == {T \in SUBSET (1..(n + 1)) : n + 1 \in T}
           f == [T \in A |-> T \cup {n + 1}]
<1>1. IsFiniteSet(A) /\ Cardinality(A) = 2^n
  <2>1. IsFiniteSet(1..n) /\ Cardinality(1..n) = n
    BY FS_Interval
  <2> QED BY <2>1, FS_SUBSET
<1>2. IsFiniteSet(SUBSET (1..(n + 1))) /\ Cardinality(SUBSET (1..(n + 1))) = 2^(n + 1)
  <2>1. IsFiniteSet(1..(n + 1)) /\ Cardinality(1..(n + 1)) = n + 1
    BY FS_Interval
  <2> QED BY <2>1, FS_SUBSET
<1>3. IsFiniteSet(B) /\ Cardinality(B) = Cardinality(A)
  <2>1. f \in Bijection(A, B)
    <3>1. f \in [A -> B]
      OBVIOUS
    <3>2. \A S, T \in A : f[S] = f[T] => S = T
      <4> SUFFICES ASSUME NEW S \in A, NEW T \in A, S \cup {n + 1} = T \cup {n + 1}
                   PROVE  S = T
        OBVIOUS
      <4>1. n + 1 \notin S /\ n + 1 \notin T
        OBVIOUS
      <4> QED BY <4>1
    <3>3. \A T \in B : \E S \in A : f[S] = T
      <4> TAKE T \in B
      <4>1. T \ {n + 1} \in A
        <5>1. \A i \in 1..(n + 1) : i # n + 1 => i \in 1..n
          OBVIOUS
        <5> QED BY <5>1
      <4>2. f[T \ {n + 1}] = T
        BY <4>1
      <4> QED BY <4>1, <4>2
    <3> HIDE DEF A, B, f
    <3> QED BY <3>1, <3>2, <3>3 DEF Bijection, Injection, Surjection, IsInjective
  <2>2. ExistsBijection(A, B)
    BY <2>1 DEF ExistsBijection
  <2> HIDE DEF A, B, f
  <2> QED BY <1>1, <2>2, FS_Bijection
<1>4. A \cup B = SUBSET (1..(n + 1)) /\ A \cap B = {}
  <2>1. ASSUME NEW T \in SUBSET (1..(n + 1)), n + 1 \notin T PROVE T \in A
    <3>1. \A i \in 1..(n + 1) : i # n + 1 => i \in 1..n
      OBVIOUS
    <3> QED BY <2>1, <3>1
  <2>2. A \subseteq SUBSET (1..(n + 1)) /\ \A T \in A : n + 1 \notin T
    OBVIOUS
  <2> QED BY <2>1, <2>2
<1>5. Cardinality(A \cup B) = 2^n + 2^n
  <2>1. 2^n \in Nat
    BY PowerType
  <2>2. Cardinality(A \cup B) = Cardinality(A) + Cardinality(B) - Cardinality(A \cap B)
    <3> HIDE DEF A, B
    <3> QED BY <1>1, <1>3, FS_Union
  <2>3. Cardinality(A \cap B) = 0
    BY <1>4, FS_EmptySet
  <2> HIDE DEF A, B
  <2> QED BY <1>1, <1>3, <2>1, <2>2, <2>3
<1>6. 2^n \in Nat
  BY PowerType
<1>7. 2^(n + 1) = 2^n + 2^n
  BY <1>2, <1>4, <1>5
<1>8. \A p \in Nat : p + p = 2 * p
  OBVIOUS
<1> QED BY <1>6, <1>7, <1>8

=============================================================================
