----------------------------- MODULE SumProofs -----------------------------
(***************************************************************************)
(* Facts about SumFunction, the sum the model takes over the rows of an    *)
(* agent or of a user. The operator folds over the domain in an order that *)
(* CHOOSE leaves open, so what it returns is proved by induction on the    *)
(* size of the domain: a smallest set that breaks the claim is refuted.    *)
(***************************************************************************)
EXTENDS Naturals, FiniteSets, Functions, FiniteSetTheorems, TLAPS

\* The element the fold takes next.
First(s) == CHOOSE x \in s : TRUE

\* g gives the sum of fun over every subset of S, by the recursion of the fold.
Totals(g, fun, S) ==
  g = [s \in SUBSET S |-> IF s = {} THEN 0 ELSE fun[First(s)] + g[s \ {First(s)}]]

\* A non-empty set of naturals has a least element.
LEMMA Least ==
  ASSUME NEW T, T \subseteq Nat, T # {}
  PROVE  \E n \in T : \A m \in T : ~ (m < n)
<1>1. IsWellFoundedOn({ss \in Nat \X Nat : ss[1] < ss[2]}, Nat)
  BY NatLessThanWellFounded, Zenon DEF OpToRel
<1>2. \E n \in T : \A m \in T : ~ (<<m, n>> \in {ss \in Nat \X Nat : ss[1] < ss[2]})
  BY <1>1, WFMin, Zenon
<1>. QED
  BY <1>2

\* A non-empty set of finite sets has a smallest member.
LEMMA Smallest ==
  ASSUME NEW C, C # {}, \A T \in C : IsFiniteSet(T)
  PROVE  \E T \in C : \A U \in C : ~ (Cardinality(U) < Cardinality(T))
<1>. DEFINE N == {Cardinality(T) : T \in C}
<1>1. N \subseteq Nat /\ N # {}
  BY FS_CardinalityType
<1>. HIDE DEF N
<1>2. PICK n \in N : \A m \in N : ~ (m < n)
  BY <1>1, Least
<1>. QED
  BY <1>2 DEF N

\* What the fold chooses is a member, and taking it away leaves a smaller set.
LEMMA FirstIn ==
  ASSUME NEW S, S # {}
  PROVE  First(S) \in S
BY DEF First

LEMMA Without ==
  ASSUME NEW S, IsFiniteSet(S), NEW x \in S
  PROVE  /\ IsFiniteSet(S \ {x}) /\ Cardinality(S \ {x}) < Cardinality(S)
         /\ Cardinality(S) \in Nat /\ Cardinality(S \ {x}) = Cardinality(S) - 1
<1>1. Cardinality(S) \in Nat /\ Cardinality(S \ {x}) \in Nat
  BY FS_CardinalityType, FS_RemoveElement
<1>2. IsFiniteSet(S \ {x}) /\ Cardinality(S \ {x}) = Cardinality(S) - 1
  BY FS_RemoveElement
<1>. QED
  BY <1>1, <1>2

\* The recursion of the fold has a solution over the subsets of a finite set.
LEMMA TotalsExist ==
  ASSUME NEW fun, NEW S, IsFiniteSet(S)
  PROVE  \E g : Totals(g, fun, S)
<1>. DEFINE Small(n) == {s \in SUBSET S : Cardinality(s) <= n}
            Step(g, s) == IF s = {} THEN 0 ELSE fun[First(s)] + g[s \ {First(s)}]
            Bad == {n \in Nat : ~ \E g : g = [s \in Small(n) |-> Step(g, s)]}
<1>1. \A s \in SUBSET S : IsFiniteSet(s) /\ Cardinality(s) \in Nat
  BY FS_Subset, FS_CardinalityType
<1>2. Bad = {}
  <2>1. SUFFICES ASSUME Bad # {} PROVE FALSE
    OBVIOUS
  <2>2. PICK n \in Bad : \A m \in Bad : ~ (m < n)
    <3>1. Bad \subseteq Nat
      OBVIOUS
    <3>. QED
      BY <2>1, <3>1, Least
  <2>3. n # 0
    <3>1. Small(0) = {{}}
      BY <1>1, FS_EmptySet
    <3>2. [s \in Small(0) |-> 0] = [s \in Small(0) |-> Step([t \in Small(0) |-> 0], s)]
      BY <3>1
    <3>. QED
      BY <3>2
  <2>4. PICK g : g = [s \in Small(n - 1) |-> Step(g, s)]
    <3>1. n - 1 \in Nat /\ n - 1 < n
      BY <2>3
    <3>. QED
      BY <2>2, <3>1
  <2>. DEFINE h == [s \in Small(n) |-> Step(g, s)]
  <2>5. \A s \in Small(n) : s # {} => /\ s \ {First(s)} \in Small(n - 1)
                                      /\ s \ {First(s)} \in Small(n)
    <3>1. SUFFICES ASSUME NEW s \in Small(n), s # {}
                   PROVE  Cardinality(s \ {First(s)}) <= n - 1
      BY <1>1
    <3>. QED
      BY <1>1, <3>1, FirstIn, Without
  <2>6. \A s \in Small(n - 1) : g[s] = Step(g, s) /\ s \in Small(n)
    <3>1. \A s \in Small(n - 1) : s \in Small(n)
      BY <1>1
    <3>. HIDE DEF Step
    <3>2. \A s \in Small(n - 1) : g[s] = Step(g, s)
      BY <2>4
    <3>. QED
      BY <3>1, <3>2
  <2>7. \A s \in Small(n) : Step(g, s) = Step(h, s)
    <3>. SUFFICES ASSUME NEW s \in Small(n), s # {}
                  PROVE  g[s \ {First(s)}] = h[s \ {First(s)}]
      OBVIOUS
    <3>. QED
      BY <2>5, <2>6
  <2>8. h = [s \in Small(n) |-> Step(h, s)]
    BY <2>7
  <2>. QED
    BY <2>2, <2>8
<1>3. PICK g : g = [s \in Small(Cardinality(S)) |-> Step(g, s)]
  BY <1>1, <1>2
<1>4. Small(Cardinality(S)) = SUBSET S
  BY <1>1, FS_Subset
<1>. QED
  BY <1>3, <1>4 DEF Totals

\* Two solutions agree wherever both are defined.
LEMMA TotalsAgree ==
  ASSUME NEW fun, NEW S, IsFiniteSet(S), NEW T, T \subseteq S,
         NEW g, Totals(g, fun, S), NEW h, Totals(h, fun, T)
  PROVE  \A s \in SUBSET T : g[s] = h[s]
<1>. DEFINE Bad == {s \in SUBSET T : g[s] # h[s]}
<1>1. SUFFICES ASSUME Bad # {} PROVE FALSE
  OBVIOUS
<1>2. \A s \in Bad : IsFiniteSet(s)
  BY FS_Subset
<1>3. PICK s \in Bad : \A u \in Bad : ~ (Cardinality(u) < Cardinality(s))
  <2>. HIDE DEF Bad
  <2>. QED
    BY <1>1, <1>2, Smallest
<1>4. /\ g[s] = IF s = {} THEN 0 ELSE fun[First(s)] + g[s \ {First(s)}]
      /\ h[s] = IF s = {} THEN 0 ELSE fun[First(s)] + h[s \ {First(s)}]
  BY DEF Totals
<1>5. s # {}
  BY <1>4
<1>6. Cardinality(s \ {First(s)}) < Cardinality(s)
  BY <1>2, <1>5, FirstIn, Without
<1>7. g[s \ {First(s)}] = h[s \ {First(s)}]
  BY <1>3, <1>6
<1>. QED
  BY <1>4, <1>5, <1>7

\* The sum over a finite set follows the recursion of the fold.
LEMMA SumUnfolds ==
  ASSUME NEW fun, NEW S, IsFiniteSet(S)
  PROVE  SumFunctionOnSet(fun, S) =
           IF S = {} THEN 0 ELSE fun[First(S)] + SumFunctionOnSet(fun, S \ {First(S)})
<1>. DEFINE iter(T) == CHOOSE g : Totals(g, fun, T)
<1>1. \A T : SumFunctionOnSet(fun, T) = iter(T)[T]
  BY DEF SumFunctionOnSet, FoldFunctionOnSet, MapThenFoldSet, First, Totals
<1>2. \A T : IsFiniteSet(T) => Totals(iter(T), fun, T)
  BY TotalsExist
<1>. HIDE DEF iter
<1>3. iter(S)[S] = IF S = {} THEN 0 ELSE fun[First(S)] + iter(S)[S \ {First(S)}]
  BY <1>2 DEF Totals
<1>4. iter(S)[S \ {First(S)}] = iter(S \ {First(S)})[S \ {First(S)}]
  <2>1. IsFiniteSet(S \ {First(S)}) /\ S \ {First(S)} \subseteq S
    BY FS_RemoveElement
  <2>. DEFINE R == S \ {First(S)}
  <2>2. Totals(iter(S), fun, S) /\ Totals(iter(R), fun, R)
    BY <1>2, <2>1
  <2>3. R \in SUBSET R /\ R \subseteq S
    OBVIOUS
  <2>. HIDE DEF R
  <2>. QED
    BY <2>2, <2>3, TotalsAgree DEF R
<1>. QED
  BY <1>1, <1>3, <1>4

\* A sum of naturals is a natural number.
LEMMA SumIsNat ==
  ASSUME NEW fun, NEW S, IsFiniteSet(S), \A x \in S : fun[x] \in Nat
  PROVE  SumFunctionOnSet(fun, S) \in Nat
<1>. DEFINE Bad == {s \in SUBSET S : SumFunctionOnSet(fun, s) \notin Nat}
<1>1. SUFFICES ASSUME Bad # {} PROVE FALSE
  OBVIOUS
<1>2. \A s \in Bad : IsFiniteSet(s)
  BY FS_Subset
<1>3. PICK s \in Bad : \A u \in Bad : ~ (Cardinality(u) < Cardinality(s))
  <2>. HIDE DEF Bad
  <2>. QED
    BY <1>1, <1>2, Smallest
<1>4. SumFunctionOnSet(fun, s) =
        IF s = {} THEN 0 ELSE fun[First(s)] + SumFunctionOnSet(fun, s \ {First(s)})
  BY <1>2, SumUnfolds
<1>5. s # {} /\ First(s) \in s
  BY <1>4, FirstIn
<1>6. Cardinality(s \ {First(s)}) < Cardinality(s)
  BY <1>2, <1>5, Without
<1>7. SumFunctionOnSet(fun, s \ {First(s)}) \in Nat
  BY <1>3, <1>6
<1>. QED
  BY <1>4, <1>5, <1>7

\* Any member may be taken out first: the order of the fold does not matter.
LEMMA SumWithout ==
  ASSUME NEW fun, NEW S, IsFiniteSet(S), \A x \in S : fun[x] \in Nat, NEW y \in S
  PROVE  SumFunctionOnSet(fun, S) = fun[y] + SumFunctionOnSet(fun, S \ {y})
<1>. DEFINE Sum(s) == SumFunctionOnSet(fun, s)
            Bad == {s \in SUBSET S : \E z \in s : Sum(s) # fun[z] + Sum(s \ {z})}
<1>1. SUFFICES ASSUME Bad # {} PROVE FALSE
  OBVIOUS
<1>2. \A s \in SUBSET S : IsFiniteSet(s)
  BY FS_Subset
<1>3. \A s \in SUBSET S : Sum(s) \in Nat
  BY <1>2, SumIsNat
<1>4. PICK s \in Bad : \A u \in Bad : ~ (Cardinality(u) < Cardinality(s))
  <2>1. \A t \in Bad : IsFiniteSet(t)
    BY <1>2
  <2>. HIDE DEF Bad
  <2>. QED
    BY <1>1, <2>1, Smallest
<1>5. PICK z \in s : Sum(s) # fun[z] + Sum(s \ {z})
  OBVIOUS
<1>. DEFINE x == First(s)
<1>6. x \in s /\ Sum(s) = fun[x] + Sum(s \ {x})
  BY <1>2, <1>5, FirstIn, SumUnfolds
<1>7. x # z
  BY <1>5, <1>6
<1>. HIDE DEF x
<1>8. Cardinality(s \ {x}) < Cardinality(s) /\ Cardinality(s \ {z}) < Cardinality(s)
  BY <1>2, <1>6, Without
<1>9. s \ {x} \notin Bad /\ s \ {z} \notin Bad
  <2>. HIDE DEF Bad
  <2>. QED
    BY <1>4, <1>8
<1>10. Sum(s \ {x}) = fun[z] + Sum((s \ {x}) \ {z})
  <2>. HIDE DEF Sum
  <2>. QED
    BY <1>7, <1>9
<1>11. Sum(s \ {z}) = fun[x] + Sum((s \ {z}) \ {x})
  <2>. HIDE DEF Sum
  <2>. QED
    BY <1>6, <1>7, <1>9
<1>12. (s \ {x}) \ {z} = (s \ {z}) \ {x} /\ (s \ {x}) \ {z} \in SUBSET S
  OBVIOUS
<1>. HIDE DEF Sum
<1>13. Sum((s \ {x}) \ {z}) \in Nat /\ fun[x] \in Nat /\ fun[z] \in Nat
  BY <1>3, <1>6, <1>12
<1>. QED
  BY <1>5, <1>6, <1>10, <1>11, <1>12, <1>13

\* Adding a member adds its value.
LEMMA SumWith ==
  ASSUME NEW fun, NEW S, IsFiniteSet(S), NEW y, y \notin S,
         \A x \in S \cup {y} : fun[x] \in Nat
  PROVE  SumFunctionOnSet(fun, S \cup {y}) = fun[y] + SumFunctionOnSet(fun, S)
<1>1. (S \cup {y}) \ {y} = S /\ y \in S \cup {y} /\ IsFiniteSet(S \cup {y})
  BY FS_AddElement
<1>. QED
  BY <1>1, SumWithout

\* A sum over fewer members is no larger.
LEMMA SumSubset ==
  ASSUME NEW fun, NEW S, IsFiniteSet(S), \A x \in S : fun[x] \in Nat, NEW T, T \subseteq S
  PROVE  SumFunctionOnSet(fun, T) <= SumFunctionOnSet(fun, S)
<1>. DEFINE Sum(s) == SumFunctionOnSet(fun, s)
            Bad == {s \in SUBSET S : T \subseteq s /\ ~ (Sum(T) <= Sum(s))}
<1>1. SUFFICES ASSUME Bad # {} PROVE FALSE
  OBVIOUS
<1>2. \A s \in SUBSET S : IsFiniteSet(s)
  BY FS_Subset
<1>3. \A s \in SUBSET S : Sum(s) \in Nat
  BY <1>2, SumIsNat
<1>4. PICK s \in Bad : \A u \in Bad : ~ (Cardinality(u) < Cardinality(s))
  <2>1. \A t \in Bad : IsFiniteSet(t)
    BY <1>2
  <2>. HIDE DEF Bad
  <2>. QED
    BY <1>1, <2>1, Smallest
<1>5. PICK z \in s : z \notin T
  <2>. HIDE DEF Sum
  <2>. QED
    BY <1>3
<1>6. Cardinality(s \ {z}) < Cardinality(s)
  BY <1>2, Without
<1>7. s \ {z} \notin Bad
  <2>. HIDE DEF Bad
  <2>. QED
    BY <1>4, <1>6
<1>8. Sum(s) = fun[z] + Sum(s \ {z})
  BY <1>2, SumWithout
<1>. HIDE DEF Sum
<1>9. Sum(T) <= Sum(s \ {z})
  BY <1>5, <1>7
<1>10. Sum(T) \in Nat /\ Sum(s \ {z}) \in Nat /\ fun[z] \in Nat /\ ~ (Sum(T) <= Sum(s))
  BY <1>3
<1>. QED
  BY <1>8, <1>9, <1>10

\* A sum depends on the values over its set only.
LEMMA SumSame ==
  ASSUME NEW f, NEW g, NEW S, IsFiniteSet(S), \A x \in S : f[x] = g[x]
  PROVE  SumFunctionOnSet(f, S) = SumFunctionOnSet(g, S)
<1>. DEFINE Bad == {s \in SUBSET S : SumFunctionOnSet(f, s) # SumFunctionOnSet(g, s)}
<1>1. SUFFICES ASSUME Bad # {} PROVE FALSE
  OBVIOUS
<1>2. \A s \in Bad : IsFiniteSet(s)
  BY FS_Subset
<1>3. PICK s \in Bad : \A u \in Bad : ~ (Cardinality(u) < Cardinality(s))
  <2>. HIDE DEF Bad
  <2>. QED
    BY <1>1, <1>2, Smallest
<1>4. /\ SumFunctionOnSet(f, s) =
           IF s = {} THEN 0 ELSE f[First(s)] + SumFunctionOnSet(f, s \ {First(s)})
      /\ SumFunctionOnSet(g, s) =
           IF s = {} THEN 0 ELSE g[First(s)] + SumFunctionOnSet(g, s \ {First(s)})
  BY <1>2, SumUnfolds
<1>5. s # {} /\ First(s) \in s
  BY <1>4, FirstIn
<1>6. Cardinality(s \ {First(s)}) < Cardinality(s)
  BY <1>2, <1>5, Without
<1>7. SumFunctionOnSet(f, s \ {First(s)}) = SumFunctionOnSet(g, s \ {First(s)})
  BY <1>3, <1>6
<1>. QED
  BY <1>4, <1>5, <1>7
=============================================================================
