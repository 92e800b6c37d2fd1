-------------------------- MODULE RecursionTheorems --------------------------
(***************************************************************************)
(* Facts about the two recursions of these modules.                        *)
(*                                                                         *)
(* SumFunction is the sum that every balance, allocation and report is     *)
(* computed with: the code adds rows up with a loop or with SUM(...), in   *)
(* the order in which it happens to read them.  The theorems to cite begin *)
(* at SumType.                                                             *)
(*                                                                         *)
(* Climb is the walk from a row to its parent, and from there on, by which *)
(* the services of accounts and categories look for a cycle.  The theorems *)
(* to cite are ClimbLeast, MovesKeepForest and MovesKeepRoots.             *)
(*                                                                         *)
(* Both are recursive functions: something CHOSEN among the solutions of   *)
(* an equation.  That a solution exists and that all agree is shown by     *)
(* induction, stated of sets in place of predicates.                       *)
(***************************************************************************)
EXTENDS Functions, FiniteSetTheorems, WellFoundedInduction, TLAPS

\* Induction over the natural numbers, for a set in place of a predicate.
LEMMA SetOfNaturals ==
  ASSUME NEW T, T \subseteq Nat, 0 \in T, \A n \in T : n + 1 \in T
  PROVE  T = Nat
<1> DEFINE U == Nat \ T
<1>1. SUFFICES ASSUME U # {} PROVE FALSE
  OBVIOUS
<1>2. PICK m \in U : \A n \in U : ~ (<<n, m>> \in OpToRel(<, Nat))
  BY <1>1, NatLessThanWellFounded, WFMin
<1>3. m \in Nat \ {0}
  OBVIOUS
<1>4. m - 1 \in Nat /\ m - 1 < m
  BY <1>3
<1>5. m - 1 \notin U
  BY <1>2, <1>3, <1>4 DEF OpToRel
<1>6. m - 1 \in T
  BY <1>4, <1>5
<1>7. (m - 1) + 1 \in T
  BY <1>6
<1>. QED
  BY <1>3, <1>7

\* Induction over the subsets of a finite set, by their cardinality.
LEMMA SubsetsBySize ==
  ASSUME NEW D, IsFiniteSet(D), NEW T, {} \in T,
         \A s \in SUBSET D : (\A x \in s : s \ {x} \in T) => s \in T
  PROVE  SUBSET D \subseteq T
<1> DEFINE N == {n \in Nat : \A s \in SUBSET D : Cardinality(s) = n => s \in T}
<1>1. ASSUME NEW s \in SUBSET D
      PROVE  /\ IsFiniteSet(s) /\ Cardinality(s) \in Nat
             /\ Cardinality(s) = 0 => s = {}
             /\ \A x \in s : Cardinality(s \ {x}) = Cardinality(s) - 1
  <2>1. IsFiniteSet(s)
    BY FS_Subset
  <2>. QED
    BY <2>1, FS_CardinalityType, FS_EmptySet, FS_RemoveElement
<1>2. 0 \in N
  BY <1>1
<1>3. ASSUME NEW n \in N PROVE n + 1 \in N
  <2>1. SUFFICES ASSUME NEW s \in SUBSET D, Cardinality(s) = n + 1
                 PROVE  s \in T
    OBVIOUS
  <2>2. ASSUME NEW x \in s PROVE s \ {x} \in T
    <3>1. s \ {x} \in SUBSET D /\ Cardinality(s \ {x}) = n
      BY <1>1, <2>1
    <3>. QED
      BY <3>1
  <2>. QED
    BY <2>2
<1>4. N = Nat
  <2>. HIDE DEF N
  <2>1. N \subseteq Nat
    BY DEF N
  <2>. QED
    BY <2>1, <1>2, <1>3, SetOfNaturals
<1>. QED
  BY <1>1, <1>4

-----------------------------------------------------------------------------
\* What has a sum: integers over a finite set.
Summable(f, D) == IsFiniteSet(D) /\ \A x \in D : f[x] \in Int

\* The element that a fold takes first, and the equation that it solves.
Pick(s) == CHOOSE x \in s : TRUE

Solves(g, f, D) ==
  g = [s \in SUBSET D |-> IF s = {} THEN 0 ELSE f[Pick(s)] + g[s \ {Pick(s)}]]

\* A sum is what the chosen solution of that equation gives.
LEMMA FoldIsChosen ==
  ASSUME NEW f, NEW D
  PROVE  SumFunctionOnSet(f, D) = (CHOOSE g : Solves(g, f, D))[D]
BY DEF SumFunctionOnSet, FoldFunctionOnSet, MapThenFoldSet, Solves, Pick

\* That element is one of the set.
LEMMA PickIn == ASSUME NEW s, s # {} PROVE Pick(s) \in s
BY DEF Pick

\* The equation has a solution: one for the parts of up to n elements can be
\* extended to those of n + 1.
LEMMA SolutionExists ==
  ASSUME NEW D, IsFiniteSet(D), NEW f, \A x \in D : f[x] \in Int
  PROVE  \E g \in [SUBSET D -> Int] : Solves(g, f, D)
<1> DEFINE Right(g, s) == IF s = {} THEN 0 ELSE f[Pick(s)] + g[s \ {Pick(s)}]
           N == {n \in Nat : \E g \in [SUBSET D -> Int] :
                   \A s \in SUBSET D : Cardinality(s) <= n => g[s] = Right(g, s)}
<1>1. ASSUME NEW s \in SUBSET D
      PROVE  /\ Cardinality(s) \in Nat
             /\ Cardinality(s) <= Cardinality(D)
             /\ Cardinality(s) = 0 <=> s = {}
             /\ s # {} => /\ Pick(s) \in D
                          /\ s \ {Pick(s)} \in SUBSET D
                          /\ Cardinality(s \ {Pick(s)}) = Cardinality(s) - 1
  <2>1. IsFiniteSet(s) /\ Cardinality(s) <= Cardinality(D)
    BY FS_Subset
  <2>. QED
    BY <2>1, FS_CardinalityType, FS_EmptySet, FS_RemoveElement, PickIn
<1>2. 0 \in N
  <2>1. [s \in SUBSET D |-> 0] \in [SUBSET D -> Int]
    OBVIOUS
  <2>2. ASSUME NEW s \in SUBSET D, Cardinality(s) <= 0 PROVE s = {}
    <3>1. Cardinality(s) \in Nat
      BY <1>1
    <3>2. Cardinality(s) = 0
      BY <2>2, <3>1
    <3>. QED
      BY <1>1, <3>2
  <2>. QED
    BY <2>1, <2>2
<1>3. ASSUME NEW n \in N PROVE n + 1 \in N
  <2>1. PICK g \in [SUBSET D -> Int] :
          \A s \in SUBSET D : Cardinality(s) <= n => g[s] = Right(g, s)
    OBVIOUS
  <2> DEFINE h == [s \in SUBSET D |-> IF Cardinality(s) <= n THEN g[s] ELSE Right(g, s)]
  <2>2. h \in [SUBSET D -> Int]
    <3>1. ASSUME NEW s \in SUBSET D PROVE Right(g, s) \in Int
      <4>1. CASE s = {}
        BY <4>1
      <4>2. CASE s # {}
        <5>1. f[Pick(s)] \in Int /\ g[s \ {Pick(s)}] \in Int
          BY <1>1, <4>2
        <5>. QED
          BY <4>2, <5>1
      <4>. QED
        BY <4>1, <4>2
    <3>. QED
      BY <3>1
  <2>3. ASSUME NEW s \in SUBSET D, Cardinality(s) <= n + 1 PROVE h[s] = Right(h, s)
    <3>1. h[s] = Right(g, s)
      <4>1. CASE Cardinality(s) <= n
        BY <2>1, <4>1
      <4>2. CASE ~(Cardinality(s) <= n)
        BY <4>2
      <4>. QED
        BY <4>1, <4>2
    <3>2. s # {} => h[s \ {Pick(s)}] = g[s \ {Pick(s)}]
      BY <1>1, <2>3
    <3>. QED
      BY <3>1, <3>2
  <2>4. \E k \in [SUBSET D -> Int] :
          \A s \in SUBSET D : Cardinality(s) <= n + 1 => k[s] = Right(k, s)
    <3>. HIDE DEF h
    <3>. QED
      BY <2>2, <2>3
  <2>5. n + 1 \in Nat
    OBVIOUS
  <2>. QED
    BY <2>4, <2>5
<1>4. Cardinality(D) \in N
  <2>. HIDE DEF N
  <2>1. N \subseteq Nat
    BY DEF N
  <2>2. N = Nat
    BY <2>1, <1>2, <1>3, SetOfNaturals
  <2>. QED
    BY <1>1, <2>2
<1>5. PICK g \in [SUBSET D -> Int] : \A s \in SUBSET D : g[s] = Right(g, s)
  BY <1>1, <1>4
<1>6. g = [s \in SUBSET D |-> Right(g, s)]
  BY <1>5
<1>. QED
  BY <1>6 DEF Solves

\* Solutions for two sets and functions agree where these do.
LEMMA SolutionsAgree ==
  ASSUME NEW D, NEW E, NEW C, IsFiniteSet(C), C \subseteq D, C \subseteq E,
         NEW f, NEW h, \A x \in C : f[x] = h[x],
         NEW g, Solves(g, f, D), NEW k, Solves(k, h, E)
  PROVE  g[C] = k[C]
<1> DEFINE T == {s \in SUBSET C : g[s] = k[s]}
<1>1. ASSUME NEW s \in SUBSET C
      PROVE  /\ g[s] = IF s = {} THEN 0 ELSE f[Pick(s)] + g[s \ {Pick(s)}]
             /\ k[s] = IF s = {} THEN 0 ELSE h[Pick(s)] + k[s \ {Pick(s)}]
  BY DEF Solves
<1>2. {} \in T
  BY <1>1
<1>3. ASSUME NEW s \in SUBSET C, \A x \in s : s \ {x} \in T PROVE s \in T
  <2>1. CASE s = {}
    BY <1>2, <2>1
  <2>2. CASE s # {}
    <3>1. Pick(s) \in s /\ Pick(s) \in C
      BY <2>2, PickIn
    <3>2. g[s \ {Pick(s)}] = k[s \ {Pick(s)}]
      BY <1>3, <3>1
    <3>3. f[Pick(s)] = h[Pick(s)]
      BY <3>1
    <3>. QED
      BY <1>1, <2>2, <3>2, <3>3
  <2>. QED
    BY <2>1, <2>2
<1>4. SUBSET C \subseteq T
  <2>. HIDE DEF T
  <2>. QED
    BY <1>2, <1>3, SubsetsBySize
<1>. QED
  BY <1>4

\* The sums of f over the subsets of D, as a function.
SumsOf(g, f, D) ==
  Solves(g, f, D) /\ \A s \in SUBSET D : SumFunctionOnSet(f, s) = g[s]

\* What SumFunctionOnSet computes is what any solution says.
LEMMA SumSolved ==
  ASSUME NEW D, NEW f, Summable(f, D)
  PROVE  \E g \in [SUBSET D -> Int] : SumsOf(g, f, D)
<1>1. PICK g \in [SUBSET D -> Int] : Solves(g, f, D)
  BY SolutionExists DEF Summable
<1>2. ASSUME NEW s \in SUBSET D PROVE SumFunctionOnSet(f, s) = g[s]
  <2>1. IsFiniteSet(s) /\ \A x \in s : f[x] \in Int
    BY FS_Subset DEF Summable
  <2>2. \E k \in [SUBSET s -> Int] : Solves(k, f, s)
    BY <2>1, SolutionExists
  <2> DEFINE k == CHOOSE k : Solves(k, f, s)
  <2>3. Solves(k, f, s)
    BY <2>2
  <2>4. SumFunctionOnSet(f, s) = k[s]
    BY FoldIsChosen
  <2>5. k[s] = g[s]
    <3>. HIDE DEF k
    <3>. QED
      BY <1>1, <2>1, <2>3, SolutionsAgree
  <2>. QED
    BY <2>4, <2>5
<1>. QED
  BY <1>1, <1>2 DEF SumsOf

\* Sums of integers over finite sets are integers.
LEMMA SumOnSetType ==
  ASSUME NEW D, NEW f, Summable(f, D)
  PROVE  SumFunctionOnSet(f, D) \in Int
<1>1. PICK g \in [SUBSET D -> Int] : SumsOf(g, f, D)
  BY SumSolved
<1>. QED
  BY <1>1 DEF SumsOf

\* A sum of nothing is zero.
LEMMA SumOnEmptySet == ASSUME NEW f PROVE SumFunctionOnSet(f, {}) = 0
<1>1. PICK g \in [SUBSET {} -> Int] : SumsOf(g, f, {})
  <2>1. Summable(f, {})
    BY FS_EmptySet DEF Summable
  <2>. QED
    BY <2>1, SumSolved
<1>. QED
  BY <1>1 DEF Solves, SumsOf

\* A sum is taken in any order.
LEMMA SumOnSetRemove ==
  ASSUME NEW D, NEW f, Summable(f, D), NEW z \in D
  PROVE  SumFunctionOnSet(f, D) = f[z] + SumFunctionOnSet(f, D \ {z})
<1>1. PICK g \in [SUBSET D -> Int] : SumsOf(g, f, D)
  BY SumSolved
<1> DEFINE T == {s \in SUBSET D : \A y \in s : g[s] = f[y] + g[s \ {y}]}
<1>2. {} \in T
  OBVIOUS
<1>3. ASSUME NEW s \in SUBSET D, \A x \in s : s \ {x} \in T PROVE s \in T
  <2>1. SUFFICES ASSUME NEW y \in s PROVE g[s] = f[y] + g[s \ {y}]
    OBVIOUS
  <2> DEFINE c == Pick(s)
             r == s \ {c, y}
  <2>2. c \in s /\ g[s] = f[c] + g[s \ {c}]
    BY <1>1, PickIn DEF Solves, SumsOf
  <2>3. CASE c = y
    BY <2>2, <2>3
  <2>4. CASE c # y
    <3>1. g[s \ {c}] = f[y] + g[r]
      <4>1. y \in s \ {c} /\ (s \ {c}) \ {y} = r
        BY <2>4
      <4>. QED
        BY <1>3, <2>2, <4>1
    <3>2. g[s \ {y}] = f[c] + g[r]
      <4>1. c \in s \ {y} /\ (s \ {y}) \ {c} = r
        BY <2>2, <2>4
      <4>. QED
        BY <1>3, <4>1
    <3>3. f[c] \in Int /\ f[y] \in Int /\ g[r] \in Int
      BY <2>2 DEF Summable
    <3>. QED
      BY <2>2, <3>1, <3>2, <3>3
  <2>. QED
    BY <2>3, <2>4
<1>4. SUBSET D \subseteq T
  <2>. HIDE DEF T
  <2>1. IsFiniteSet(D)
    BY DEF Summable
  <2>2. ASSUME NEW s \in SUBSET D, \A x \in s : s \ {x} \in T PROVE s \in T
    BY <1>3, <2>2
  <2>. QED
    BY <1>2, <2>1, <2>2, SubsetsBySize
<1>. QED
  BY <1>1, <1>4 DEF SumsOf

\* Only the values on the set count.
LEMMA SumOnSetAgree ==
  ASSUME NEW D, NEW f, Summable(f, D), NEW h, \A x \in D : f[x] = h[x]
  PROVE  SumFunctionOnSet(f, D) = SumFunctionOnSet(h, D)
<1>1. PICK g \in [SUBSET D -> Int] : SumsOf(g, f, D)
  BY SumSolved
<1>2. Summable(h, D)
  BY DEF Summable
<1>3. PICK k \in [SUBSET D -> Int] : SumsOf(k, h, D)
  BY <1>2, SumSolved
<1>. QED
  BY <1>1, <1>3, SolutionsAgree DEF Summable, SumsOf
-----------------------------------------------------------------------------
\* Sums of integers that a function gives.
THEOREM SumType ==
  ASSUME NEW D, IsFiniteSet(D), NEW f \in [D -> Int]
  PROVE  SumFunction(f) \in Int
<1>1. Summable(f, D) /\ DOMAIN f = D
  BY DEF Summable
<1>. QED
  BY <1>1, SumOnSetType DEF SumFunction

\* A sale without payments has been paid nothing.
THEOREM SumNothing ==
  ASSUME NEW f, DOMAIN f = {}
  PROVE  SumFunction(f) = 0
BY SumOnEmptySet DEF SumFunction

\* A row can be taken out of a sum first, wherever it is read.
THEOREM SumRemove ==
  ASSUME NEW D, IsFiniteSet(D), NEW f \in [D -> Int], NEW z \in D,
         NEW g \in [D \ {z} -> Int], \A x \in D \ {z} : g[x] = f[x]
  PROVE  SumFunction(f) = f[z] + SumFunction(g)
<1> DEFINE R == D \ {z}
<1>1. Summable(f, D) /\ DOMAIN f = D /\ DOMAIN g = R
  BY DEF Summable
<1>2. Summable(g, R)
  <2>1. IsFiniteSet(R)
    BY FS_Subset
  <2>. QED
    BY <2>1 DEF Summable
<1>3. SumFunctionOnSet(f, D) = f[z] + SumFunctionOnSet(f, R)
  BY <1>1, SumOnSetRemove
<1>4. SumFunctionOnSet(g, R) = SumFunctionOnSet(f, R)
  <2>1. \A x \in R : g[x] = f[x]
    OBVIOUS
  <2>. HIDE DEF R
  <2>. QED
    BY <1>2, <2>1, SumOnSetAgree
<1>. QED
  BY <1>1, <1>3, <1>4 DEF SumFunction

-----------------------------------------------------------------------------
\* What f gives for a part of its domain.
Part(f, s) == [x \in s |-> f[x]]

\* The sums of the parts of f are integers, and each is that of one element
\* less and the value of that element.
LEMMA PartSums ==
  ASSUME NEW D, IsFiniteSet(D), NEW f \in [D -> Int], NEW s \in SUBSET D
  PROVE  /\ SumFunction(Part(f, s)) \in Int
         /\ s = {} => SumFunction(Part(f, s)) = 0
         /\ \A z \in s : SumFunction(Part(f, s)) = f[z] + SumFunction(Part(f, s \ {z}))
<1>1. IsFiniteSet(s) /\ Part(f, s) \in [s -> Int]
  BY FS_Subset DEF Part
<1>2. SumFunction(Part(f, s)) \in Int
  BY <1>1, SumType
<1>3. ASSUME s = {} PROVE SumFunction(Part(f, s)) = 0
  BY <1>3, SumNothing DEF Part
<1>4. ASSUME NEW z \in s
      PROVE  SumFunction(Part(f, s)) = f[z] + SumFunction(Part(f, s \ {z}))
  <2> DEFINE F == Part(f, s)
             G == Part(f, s \ {z})
  <2>1. F \in [s -> Int] /\ F[z] = f[z]
    BY <1>1 DEF Part
  <2>2. G \in [s \ {z} -> Int] /\ \A x \in s \ {z} : G[x] = F[x]
    BY DEF Part
  <2>3. SumFunction(F) = F[z] + SumFunction(G)
    <3>. HIDE DEF F, G
    <3>. QED
      BY <1>1, <2>1, <2>2, SumRemove
  <2>. QED
    BY <2>1, <2>3
<1>. QED
  BY <1>2, <1>3, <1>4

\* The largest part is the function itself.
LEMMA WholePart ==
  ASSUME NEW D, NEW f \in [D -> Int]
  PROVE  Part(f, D) = f
BY DEF Part

\* Amounts that are not negative have a sum that is not negative.
THEOREM SumNat ==
  ASSUME NEW D, IsFiniteSet(D), NEW f \in [D -> Nat]
  PROVE  SumFunction(f) \in Nat
<1> DEFINE T == {s \in SUBSET D : SumFunction(Part(f, s)) \in Nat}
<1>0. f \in [D -> Int]
  OBVIOUS
<1>1. {} \in T
  BY <1>0, PartSums
<1>2. ASSUME NEW s \in SUBSET D, \A x \in s : s \ {x} \in T PROVE s \in T
  <2>1. CASE s = {}
    BY <1>1, <2>1
  <2>2. CASE s # {}
    <3>1. PICK z \in s : TRUE
      BY <2>2
    <3>2. SumFunction(Part(f, s)) = f[z] + SumFunction(Part(f, s \ {z}))
      BY <1>0, PartSums
    <3>3. SumFunction(Part(f, s \ {z})) \in Nat /\ f[z] \in Nat
      BY <1>2
    <3>. QED
      BY <3>2, <3>3
  <2>. QED
    BY <2>1, <2>2
<1>3. SUBSET D \subseteq T
  <2>. HIDE DEF T
  <2>. QED
    BY <1>1, <1>2, SubsetsBySize
<1>. QED
  BY <1>0, <1>3, WholePart

\* The sum of the sums is the sum of two functions.
THEOREM SumPlus ==
  ASSUME NEW D, IsFiniteSet(D), NEW f \in [D -> Int], NEW g \in [D -> Int],
         NEW h \in [D -> Int], \A x \in D : h[x] = f[x] + g[x]
  PROVE  SumFunction(h) = SumFunction(f) + SumFunction(g)
<1> DEFINE T == {s \in SUBSET D : SumFunction(Part(h, s)) = SumFunction(Part(f, s)) + SumFunction(Part(g, s))}
<1>1. {} \in T
  BY PartSums
<1>2. ASSUME NEW s \in SUBSET D, \A x \in s : s \ {x} \in T PROVE s \in T
  <2>1. CASE s = {}
    BY <1>1, <2>1
  <2>2. CASE s # {}
    <3>1. PICK z \in s : TRUE
      BY <2>2
    <3> DEFINE F == SumFunction(Part(f, s \ {z}))
               G == SumFunction(Part(g, s \ {z}))
               H == SumFunction(Part(h, s \ {z}))
    <3>2. /\ SumFunction(Part(f, s)) = f[z] + F
          /\ SumFunction(Part(g, s)) = g[z] + G
          /\ SumFunction(Part(h, s)) = h[z] + H
      BY PartSums
    <3>3. F \in Int /\ G \in Int
      BY PartSums
    <3>4. H = F + G /\ h[z] = f[z] + g[z] /\ f[z] \in Int /\ g[z] \in Int
      BY <1>2
    <3>5. SumFunction(Part(h, s)) = SumFunction(Part(f, s)) + SumFunction(Part(g, s))
      <4>. HIDE DEF F, G, H
      <4>. QED
        BY <3>2, <3>3, <3>4
    <3>. QED
      BY <3>5
  <2>. QED
    BY <2>1, <2>2
<1>3. SUBSET D \subseteq T
  <2>. HIDE DEF T
  <2>. QED
    BY <1>1, <1>2, SubsetsBySize
<1>. QED
  BY <1>3, WholePart

\* Integers to be added up, by what they are of.
Addends(f, D) == IsFiniteSet(D) /\ f \in [D -> Int]

\* g has all the addends of f that are not zero.
Supports(g, C, f, D) ==
  /\ Addends(g, C) /\ Addends(f, D) /\ C \subseteq D
  /\ \A x \in D \ C : f[x] = 0
  /\ \A x \in C : g[x] = f[x]

\* A sum over a set is that over the part of it where something is not zero.
THEOREM SumSupport ==
  ASSUME NEW g, NEW C, NEW f, NEW D, Supports(g, C, f, D)
  PROVE  SumFunction(g) = SumFunction(f)
<1>. /\ IsFiniteSet(D) /\ f \in [D -> Int] /\ g \in [C -> Int] /\ C \subseteq D
     /\ \A x \in D \ C : f[x] = 0
     /\ \A x \in C : g[x] = f[x]
  BY DEF Supports, Addends
<1> DEFINE T == {s \in SUBSET D : SumFunction(Part(f, s)) = SumFunction(Part(f, s \cap C))}
<1>1. {} \in T
  BY PartSums
<1>2. ASSUME NEW s \in SUBSET D, \A x \in s : s \ {x} \in T PROVE s \in T
  <2>1. CASE s = {}
    BY <1>1, <2>1
  <2>2. CASE s # {}
    <3>1. PICK z \in s : TRUE
      BY <2>2
    <3>2. SumFunction(Part(f, s)) = f[z] + SumFunction(Part(f, s \ {z}))
      BY PartSums
    <3>3. SumFunction(Part(f, s \ {z})) = SumFunction(Part(f, (s \ {z}) \cap C))
      BY <1>2
    <3>4. SumFunction(Part(f, s \ {z})) \in Int
      BY PartSums
    <3>5. CASE z \in C
      <4>1. (s \cap C) \in SUBSET D /\ z \in s \cap C /\ (s \cap C) \ {z} = (s \ {z}) \cap C
        BY <3>5
      <4>2. SumFunction(Part(f, s \cap C)) = f[z] + SumFunction(Part(f, (s \cap C) \ {z}))
        BY <4>1, PartSums
      <4>. QED
        BY <3>2, <3>3, <4>1, <4>2
    <3>6. CASE z \notin C
      <4>1. (s \ {z}) \cap C = s \cap C
        BY <3>6
      <4>2. f[z] = 0
        BY <3>6
      <4>3. SumFunction(Part(f, s)) = SumFunction(Part(f, s \ {z}))
        BY <3>2, <3>4, <4>2
      <4>. QED
        BY <3>3, <4>1, <4>3
    <3>. QED
      BY <3>5, <3>6
  <2>. QED
    BY <2>1, <2>2
<1>3. SUBSET D \subseteq T
  <2>. HIDE DEF T
  <2>. QED
    BY <1>1, <1>2, SubsetsBySize
<1>4. SumFunction(Part(f, D)) = SumFunction(Part(f, D \cap C))
  BY <1>3
<1>5. D \cap C = C /\ Part(f, C) = g
  BY DEF Part
<1>. QED
  BY <1>4, <1>5, WholePart

-----------------------------------------------------------------------------
\* What follows from these: values that are all zero have the sum zero.
THEOREM SumZero ==
  ASSUME NEW D, IsFiniteSet(D), NEW f \in [D -> Int], \A x \in D : f[x] = 0
  PROVE  SumFunction(f) = 0
<1>1. \A x \in D : f[x] = f[x] + f[x]
  OBVIOUS
<1>2. SumFunction(f) = SumFunction(f) + SumFunction(f)
  BY <1>1, SumPlus
<1>3. SumFunction(f) \in Int
  BY SumType
<1>4. \A n \in Int : n = n + n => n = 0
  OBVIOUS
<1>. QED
  BY <1>2, <1>3, <1>4, Zenon

\* g has the addends of f, and one more.
HasOneMore(g, E, f, D, z) ==
  /\ Addends(g, E) /\ Addends(f, D) /\ z \notin D /\ E = D \cup {z}
  /\ \A x \in D : g[x] = f[x]

\* One value more.
THEOREM SumAdd ==
  ASSUME NEW g, NEW E, NEW f, NEW D, NEW z, HasOneMore(g, E, f, D, z)
  PROVE  SumFunction(g) = g[z] + SumFunction(f)
<1>. /\ IsFiniteSet(E) /\ f \in [D -> Int] /\ g \in [E -> Int]
     /\ z \notin D /\ E = D \cup {z} /\ \A x \in D : g[x] = f[x]
  BY DEF HasOneMore, Addends
<1>1. E \ {z} = D /\ z \in E
  OBVIOUS
<1>2. f \in [E \ {z} -> Int] /\ \A x \in E \ {z} : f[x] = g[x]
  BY <1>1
<1>. QED
  BY <1>1, <1>2, SumRemove

\* The sum of one value is that value.
THEOREM SumOne ==
  ASSUME NEW x, NEW f \in [{x} -> Int]
  PROVE  SumFunction(f) = f[x]
<1>1. Summable(f, {x}) /\ x \in {x} /\ {x} \ {x} = {} /\ f[x] \in Int
  BY FS_Singleton DEF Summable
<1>2. SumFunctionOnSet(f, {x}) = f[x] + SumFunctionOnSet(f, {x} \ {x})
  BY <1>1, SumOnSetRemove
<1>3. SumFunctionOnSet(f, {x}) = f[x]
  BY <1>1, <1>2, SumOnEmptySet
<1>. QED
  BY <1>3 DEF SumFunction

\* One value changed.
THEOREM SumUpdate ==
  ASSUME NEW D, IsFiniteSet(D), NEW f \in [D -> Int], NEW z \in D,
         NEW g \in [D -> Int], \A x \in D \ {z} : g[x] = f[x]
  PROVE  SumFunction(g) = (SumFunction(f) - f[z]) + g[z]
<1> DEFINE r == [x \in D \ {z} |-> f[x]]
<1>1. r \in [D \ {z} -> Int] /\ \A x \in D \ {z} : r[x] = f[x] /\ r[x] = g[x]
  OBVIOUS
<1>2. IsFiniteSet(D \ {z})
  BY FS_Subset
<1> HIDE DEF r
<1>3. SumFunction(f) = f[z] + SumFunction(r)
  BY <1>1, SumRemove
<1>4. SumFunction(g) = g[z] + SumFunction(r)
  BY <1>1, SumRemove
<1>5. SumFunction(r) \in Int
  BY <1>1, <1>2, SumType
<1>6. f[z] \in Int /\ g[z] \in Int
  OBVIOUS
<1>. QED
  BY <1>3, <1>4, <1>5, <1>6

\* Greater values have a greater sum.
THEOREM SumLeq ==
  ASSUME NEW D, IsFiniteSet(D), NEW f \in [D -> Int], NEW g \in [D -> Int],
         \A x \in D : f[x] <= g[x]
  PROVE  SumFunction(f) <= SumFunction(g)
<1> DEFINE d == [x \in D |-> g[x] - f[x]]
<1>1. \A x \in D : f[x] \in Int /\ g[x] \in Int /\ f[x] <= g[x]
  OBVIOUS
<1>2. d \in [D -> Nat] /\ d \in [D -> Int] /\ \A x \in D : g[x] = f[x] + d[x]
  BY <1>1
<1> HIDE DEF d
<1>3. SumFunction(g) = SumFunction(f) + SumFunction(d)
  BY <1>2, SumPlus
<1>4. SumFunction(d) \in Nat /\ SumFunction(f) \in Int
  BY <1>2, SumNat, SumType
<1>. QED
  BY <1>3, <1>4

\* No value of a sum of natural numbers is greater than the sum.
THEOREM SumBounds ==
  ASSUME NEW D, IsFiniteSet(D), NEW f \in [D -> Nat], NEW z \in D
  PROVE  f[z] <= SumFunction(f)
<1> DEFINE r == [x \in D \ {z} |-> f[x]]
<1>1. r \in [D \ {z} -> Nat] /\ r \in [D \ {z} -> Int] /\ f \in [D -> Int] /\ \A x \in D \ {z} : r[x] = f[x]
  OBVIOUS
<1>2. IsFiniteSet(D \ {z})
  BY FS_Subset
<1> HIDE DEF r
<1>3. SumFunction(f) = f[z] + SumFunction(r)
  BY <1>1, SumRemove
<1>4. SumFunction(r) \in Nat
  BY <1>1, <1>2, SumNat
<1>5. f[z] \in Nat
  OBVIOUS
<1>. QED
  BY <1>3, <1>4, <1>5

\* The addends of f are those of g and those of h.
Shares(f, D, g, C, h, E) ==
  /\ Addends(f, D) /\ Addends(g, C) /\ Addends(h, E)
  /\ C \cup E = D /\ C \cap E = {}
  /\ \A x \in C : g[x] = f[x]
  /\ \A x \in E : h[x] = f[x]

\* A sum over a set is that over a part of it and that over the rest: what a
\* sale was paid is what it is still paid and what was given back.
THEOREM SumParts ==
  ASSUME NEW f, NEW D, NEW g, NEW C, NEW h, NEW E, Shares(f, D, g, C, h, E)
  PROVE  SumFunction(f) = SumFunction(g) + SumFunction(h)
<1> DEFINE u == [x \in D |-> IF x \in C THEN f[x] ELSE 0]
           v == [x \in D |-> IF x \in C THEN 0 ELSE f[x]]
<1>. /\ IsFiniteSet(D) /\ f \in [D -> Int] /\ Addends(g, C) /\ Addends(h, E)
     /\ C \cup E = D /\ C \cap E = {}
     /\ \A x \in C : g[x] = f[x]
     /\ \A x \in E : h[x] = f[x]
  BY DEF Shares, Addends
<1>1. u \in [D -> Int] /\ v \in [D -> Int] /\ Addends(u, D) /\ Addends(v, D)
  BY DEF Addends
<1>2. \A x \in D : f[x] = u[x] + v[x]
  OBVIOUS
<1>3. Supports(g, C, u, D) /\ Supports(h, E, v, D)
  BY <1>1 DEF Supports
<1> HIDE DEF u, v
<1>4. SumFunction(f) = SumFunction(u) + SumFunction(v)
  BY <1>1, <1>2, SumPlus
<1>. QED
  BY <1>3, <1>4, SumSupport

\* Each value negated: what a reversal gives back is what the original took.
THEOREM SumOpposite ==
  ASSUME NEW D, IsFiniteSet(D), NEW f \in [D -> Int], NEW g \in [D -> Int],
         \A x \in D : g[x] = -f[x]
  PROVE  SumFunction(g) = -SumFunction(f)
<1> DEFINE zero == [x \in D |-> 0]
<1>1. zero \in [D -> Int] /\ \A x \in D : zero[x] = f[x] + g[x]
  OBVIOUS
<1>2. SumFunction(zero) = 0
  BY SumZero
<1> HIDE DEF zero
<1>3. SumFunction(zero) = SumFunction(f) + SumFunction(g)
  BY <1>1, SumPlus
<1>4. SumFunction(f) \in Int /\ SumFunction(g) \in Int
  BY SumType
<1>. QED
  BY <1>2, <1>3, <1>4

\* g has the addends of f under other names, one for each.
Renames(g, E, f, D, name) ==
  /\ Addends(g, E) /\ Addends(f, D)
  /\ \A x \in D : name[x] \in E /\ g[name[x]] = f[x]
  /\ \A x, y \in D : name[x] = name[y] => x = y
  /\ \A e \in E : \E x \in D : name[x] = e

\* A sum does not depend on what its addends are called.
THEOREM SumRenamed ==
  ASSUME NEW g, NEW E, NEW f, NEW D, NEW name, Renames(g, E, f, D, name)
  PROVE  SumFunction(g) = SumFunction(f)
<1>. /\ IsFiniteSet(D) /\ f \in [D -> Int] /\ IsFiniteSet(E) /\ g \in [E -> Int]
     /\ \A x \in D : name[x] \in E /\ g[name[x]] = f[x]
     /\ \A x, y \in D : name[x] = name[y] => x = y
     /\ \A e \in E : \E x \in D : name[x] = e
  BY DEF Renames, Addends
<1> DEFINE Names(s) == {name[x] : x \in s}
           T == {s \in SUBSET D : SumFunction(Part(f, s)) = SumFunction(Part(g, Names(s)))}
<1>1. {} \in T
  <2>1. Names({}) = {} /\ {} \in SUBSET D /\ {} \in SUBSET E
    OBVIOUS
  <2>2. SumFunction(Part(f, {})) = 0 /\ SumFunction(Part(g, {})) = 0
    BY PartSums
  <2>. QED
    BY <2>1, <2>2
<1>2. ASSUME NEW s \in SUBSET D, \A x \in s : s \ {x} \in T PROVE s \in T
  <2>1. CASE s = {}
    BY <1>1, <2>1
  <2>2. CASE s # {}
    <3>1. PICK z \in s : TRUE
      BY <2>2
    <3>2. SumFunction(Part(f, s)) = f[z] + SumFunction(Part(f, s \ {z}))
      BY PartSums
    <3>3. SumFunction(Part(f, s \ {z})) = SumFunction(Part(g, Names(s \ {z})))
      BY <1>2
    <3>4. /\ Names(s) \in SUBSET E /\ name[z] \in Names(s)
          /\ Names(s \ {z}) = Names(s) \ {name[z]} /\ g[name[z]] = f[z]
      OBVIOUS
    <3> HIDE DEF Names
    <3>5. SumFunction(Part(g, Names(s))) = g[name[z]] + SumFunction(Part(g, Names(s) \ {name[z]}))
      BY <3>4, PartSums
    <3>6. SumFunction(Part(f, s)) = SumFunction(Part(g, Names(s)))
      BY <3>2, <3>3, <3>4, <3>5
    <3>. QED
      BY <3>6
  <2>. QED
    BY <2>1, <2>2
<1>3. SUBSET D \subseteq T
  <2>. HIDE DEF T
  <2>. QED
    BY <1>1, <1>2, SubsetsBySize
<1>4. SumFunction(Part(f, D)) = SumFunction(Part(g, Names(D)))
  BY <1>3
<1>5. Names(D) = E
  OBVIOUS
<1>. QED
  BY <1>4, <1>5, WholePart

\* g has some of the addends of f, none of which is negative.
Within(g, C, f, D) ==
  /\ IsFiniteSet(D) /\ f \in [D -> Nat] /\ C \subseteq D /\ g \in [C -> Nat]
  /\ \A x \in C : g[x] = f[x]

\* A part of what is not negative is no more than the whole.
THEOREM SumOfPart ==
  ASSUME NEW g, NEW C, NEW f, NEW D, Within(g, C, f, D)
  PROVE  SumFunction(g) <= SumFunction(f) /\ SumFunction(g) \in Nat /\ SumFunction(f) \in Nat
<1> DEFINE h == [x \in D \ C |-> f[x]]
<1>. /\ IsFiniteSet(D) /\ f \in [D -> Nat] /\ C \subseteq D /\ g \in [C -> Nat]
     /\ \A x \in C : g[x] = f[x]
  BY DEF Within
<1>1. IsFiniteSet(C) /\ IsFiniteSet(D \ C)
  BY FS_Subset
<1>2. h \in [D \ C -> Nat] /\ \A x \in D \ C : h[x] = f[x]
  OBVIOUS
<1> HIDE DEF h
<1>3. Shares(f, D, g, C, h, D \ C)
  BY <1>1, <1>2 DEF Shares, Addends
<1>4. SumFunction(f) = SumFunction(g) + SumFunction(h)
  BY <1>3, SumParts
<1>5. SumFunction(g) \in Nat /\ SumFunction(h) \in Nat /\ SumFunction(f) \in Nat
  BY <1>1, <1>2, SumNat
<1>. QED
  BY <1>4, <1>5

\* f takes back on E, by the names there, what it has on D.
TakesBack(f, D, E, name) ==
  /\ IsFiniteSet(D) /\ IsFiniteSet(E) /\ D \cap E = {}
  /\ f \in [D \cup E -> Int]
  /\ \A x \in D : name[x] \in E /\ f[name[x]] = -f[x]
  /\ \A x, y \in D : name[x] = name[y] => x = y
  /\ \A e \in E : \E x \in D : name[x] = e

\* What is taken back whole leaves nothing.
THEOREM SumTakenBack ==
  ASSUME NEW f, NEW D, NEW E, NEW name, TakesBack(f, D, E, name)
  PROVE  SumFunction(f) = 0
<1>. /\ IsFiniteSet(D) /\ IsFiniteSet(E) /\ D \cap E = {}
     /\ f \in [D \cup E -> Int]
     /\ \A x \in D : name[x] \in E /\ f[name[x]] = -f[x]
     /\ \A x, y \in D : name[x] = name[y] => x = y
     /\ \A e \in E : \E x \in D : name[x] = e
  BY DEF TakesBack
<1> DEFINE g == [x \in D |-> f[x]]
           h == [x \in E |-> f[x]]
           n == [x \in D |-> -f[x]]
<1>1. g \in [D -> Int] /\ h \in [E -> Int] /\ n \in [D -> Int] /\ IsFiniteSet(D \cup E)
  BY FS_Union
<1>2. /\ \A x \in D : g[x] = f[x] /\ n[x] = -g[x] /\ h[name[x]] = n[x]
      /\ \A x \in E : h[x] = f[x]
  OBVIOUS
<1> HIDE DEF g, h, n
<1>3. Shares(f, D \cup E, g, D, h, E)
  BY <1>1, <1>2 DEF Shares, Addends
<1>4. SumFunction(f) = SumFunction(g) + SumFunction(h)
  BY <1>3, SumParts
<1>5. SumFunction(n) = -SumFunction(g)
  BY <1>1, <1>2, SumOpposite
<1>6. Renames(h, E, n, D, name)
  BY <1>1, <1>2 DEF Renames, Addends
<1>7. SumFunction(h) = SumFunction(n)
  BY <1>6, SumRenamed
<1>8. SumFunction(g) \in Int
  BY <1>1, SumType
<1>. QED
  BY <1>4, <1>5, <1>7, <1>8

\* The addends of f by the group that key puts them in, and the sum of each.
GroupSums(f, D, key, B) == [b \in B |-> SumFunction(Part(f, {x \in D : key[x] = b}))]

Keyed(f, D, key, B) == Addends(f, D) /\ IsFiniteSet(B) /\ key \in [D -> B]

LEMMA GroupSumsTyped ==
  ASSUME NEW f, NEW D, NEW key, NEW B, Keyed(f, D, key, B), NEW s \in SUBSET D
  PROVE  Addends(GroupSums(f, s, key, B), B)
<1>1. ASSUME NEW b \in B PROVE SumFunction(Part(f, {x \in s : key[x] = b})) \in Int
  BY PartSums DEF Keyed, Addends
<1>. QED
  BY <1>1 DEF GroupSums, Keyed, Addends

\* A sum is that of the sums of its groups: what is owed in all is what each
\* account owes, and what each bucket of a report has.
THEOREM SumGrouped ==
  ASSUME NEW f, NEW D, NEW key, NEW B, Keyed(f, D, key, B)
  PROVE  SumFunction(GroupSums(f, D, key, B)) = SumFunction(f)
<1>. IsFiniteSet(D) /\ f \in [D -> Int] /\ IsFiniteSet(B) /\ key \in [D -> B]
  BY DEF Keyed, Addends
<1> DEFINE H(s) == GroupSums(f, s, key, B)
           T == {s \in SUBSET D : SumFunction(H(s)) = SumFunction(Part(f, s))}
<1>1. ASSUME NEW s \in SUBSET D PROVE H(s) \in [B -> Int] /\ SumFunction(H(s)) \in Int
  <2>1. Addends(H(s), B)
    BY GroupSumsTyped
  <2>. HIDE DEF H
  <2>. QED
    BY <2>1, SumType DEF Addends
<1>2. {} \in T
  <2>1. \A b \in B : H({})[b] = 0
    <3>1. \A b : {x \in {} : key[x] = b} = {}
      OBVIOUS
    <3>. QED
      BY <3>1, PartSums DEF GroupSums
  <2>2. SumFunction(H({})) = 0
    <3>. HIDE DEF H
    <3>. QED
      BY <1>1, <2>1, SumZero
  <2>. QED
    BY <2>2, PartSums
<1>3. ASSUME NEW s \in SUBSET D, \A x \in s : s \ {x} \in T PROVE s \in T
  <2>1. CASE s = {}
    BY <1>2, <2>1
  <2>2. CASE s # {}
    <3>1. PICK z \in s : TRUE
      BY <2>2
    <3> DEFINE k == key[z]
               r == s \ {z}
    <3>2. k \in B /\ r \in SUBSET D /\ f[z] \in Int
      OBVIOUS
    <3>3. SumFunction(Part(f, s)) = f[z] + SumFunction(Part(f, r)) /\ SumFunction(Part(f, r)) \in Int
      BY PartSums
    <3>4. ASSUME NEW b \in B \ {k} PROVE H(s)[b] = H(r)[b]
      <4>1. {x \in s : key[x] = b} = {x \in r : key[x] = b}
        OBVIOUS
      <4>. QED
        BY <4>1 DEF GroupSums
    <3>5. H(s)[k] = f[z] + H(r)[k]
      <4> DEFINE S == {x \in s : key[x] = k}
      <4>1. S \in SUBSET D /\ z \in S /\ S \ {z} = {x \in r : key[x] = k}
        OBVIOUS
      <4>2. H(s)[k] = SumFunction(Part(f, S)) /\ H(r)[k] = SumFunction(Part(f, S \ {z}))
        BY <3>2, <4>1 DEF GroupSums
      <4>. HIDE DEF S, H
      <4>. QED
        BY <4>1, <4>2, PartSums
    <3>6. SumFunction(H(s)) = (SumFunction(H(r)) - H(r)[k]) + H(s)[k]
      <4>1. H(s) \in [B -> Int] /\ H(r) \in [B -> Int]
        BY <1>1, <3>2
      <4>. HIDE DEF H, k, r
      <4>. QED
        BY <3>2, <3>4, <4>1, SumUpdate
    <3>7. SumFunction(H(r)) = SumFunction(Part(f, r))
      BY <1>3
    <3>8. H(r)[k] \in Int
      BY <1>1, <3>2
    <3>9. SumFunction(H(s)) = SumFunction(Part(f, s))
      <4>. HIDE DEF H, k, r
      <4>. QED
        BY <3>2, <3>3, <3>5, <3>6, <3>7, <3>8
    <3>. QED
      BY <3>9
  <2>. QED
    BY <2>1, <2>2
<1>4. SUBSET D \subseteq T
  <2>. HIDE DEF T
  <2>. QED
    BY <1>2, <1>3, SubsetsBySize
<1>. QED
  BY <1>4, WholePart

\* To count is to add up ones.
THEOREM SumOfOnes ==
  ASSUME NEW D, IsFiniteSet(D), NEW f \in [D -> Int], \A x \in D : f[x] = 1
  PROVE  SumFunction(f) = Cardinality(D)
<1> DEFINE T == {s \in SUBSET D : SumFunction(Part(f, s)) = Cardinality(s)}
<1>1. {} \in T
  BY PartSums, FS_EmptySet
<1>2. ASSUME NEW s \in SUBSET D, \A x \in s : s \ {x} \in T PROVE s \in T
  <2>1. CASE s = {}
    BY <1>1, <2>1
  <2>2. CASE s # {}
    <3>1. PICK z \in s : TRUE
      BY <2>2
    <3>2. SumFunction(Part(f, s)) = f[z] + SumFunction(Part(f, s \ {z}))
      BY PartSums
    <3>3. IsFiniteSet(s) /\ Cardinality(s) \in Nat /\ Cardinality(s \ {z}) = Cardinality(s) - 1
      BY FS_Subset, FS_CardinalityType, FS_RemoveElement
    <3>4. SumFunction(Part(f, s \ {z})) = Cardinality(s \ {z}) /\ f[z] = 1
      BY <1>2
    <3>. QED
      BY <3>2, <3>3, <3>4
  <2>. QED
    BY <2>1, <2>2
<1>3. SUBSET D \subseteq T
  <2>. HIDE DEF T
  <2>. QED
    BY <1>1, <1>2, SubsetsBySize
<1>. QED
  BY <1>3, WholePart

\* A factor that all addends have can be taken out of a sum.
THEOREM SumScaled ==
  ASSUME NEW D, IsFiniteSet(D), NEW f \in [D -> Int], NEW c \in Int,
         NEW g \in [D -> Int], \A x \in D : g[x] = c * f[x]
  PROVE  SumFunction(g) = c * SumFunction(f)
<1> DEFINE T == {s \in SUBSET D : SumFunction(Part(g, s)) = c * SumFunction(Part(f, s))}
<1>1. {} \in T
  BY PartSums
<1>2. ASSUME NEW s \in SUBSET D, \A x \in s : s \ {x} \in T PROVE s \in T
  <2>1. CASE s = {}
    BY <1>1, <2>1
  <2>2. CASE s # {}
    <3>1. PICK z \in s : TRUE
      BY <2>2
    <3>2. /\ SumFunction(Part(f, s)) = f[z] + SumFunction(Part(f, s \ {z}))
          /\ SumFunction(Part(g, s)) = g[z] + SumFunction(Part(g, s \ {z}))
          /\ SumFunction(Part(f, s \ {z})) \in Int
      BY PartSums
    <3>3. SumFunction(Part(g, s \ {z})) = c * SumFunction(Part(f, s \ {z})) /\ g[z] = c * f[z]
      BY <1>2
    <3>4. \A a, b \in Int : c * (a + b) = c * a + c * b
      OBVIOUS
    <3>5. f[z] \in Int
      OBVIOUS
    <3>. QED
      BY <3>2, <3>3, <3>4, <3>5
  <2>. QED
    BY <2>1, <2>2
<1>3. SUBSET D \subseteq T
  <2>. HIDE DEF T
  <2>. QED
    BY <1>1, <1>2, SubsetsBySize
<1>. QED
  BY <1>3, WholePart

-----------------------------------------------------------------------------
(* Walks up a hierarchy *)

\* The sets met on the way up from a: what is met in n steps.
Climbs(w, rows, none, a) ==
  w = [n \in Nat |-> IF n = 0 THEN {a}
                     ELSE w[n - 1] \cup {rows[b].parent : b \in w[n - 1] \ {none}}]

\* All that is met, when there are N rows.
Climb(rows, none, N, a) == (CHOOSE w : Climbs(w, rows, none, a))[N] \ {none}

\* A set that goes no further up.
ClosedUp(S, rows, none) == \A b \in S : rows[b].parent \in S \cup {none}

\* The equation of the walk has a solution.
LEMMA ClimbExists ==
  ASSUME NEW rows, NEW none, NEW a
  PROVE  \E w : Climbs(w, rows, none, a)
<1> DEFINE Next(s) == s \cup {rows[b].parent : b \in s \ {none}}
           Upto(w, n) == w[0] = {a} /\ \A m \in Nat : m < n => w[m + 1] = Next(w[m])
           Walk(n) == CHOOSE w : Upto(w, n)
           w == [n \in Nat |-> Walk(n)[n]]
<1>1. ASSUME NEW n \in Nat PROVE \E v : Upto(v, n)
  <2> DEFINE T == {m \in Nat : \E v : Upto(v, m)}
  <2>1. 0 \in T
    <3>1. Upto([m \in Nat |-> {a}], 0)
      OBVIOUS
    <3>. QED
      BY <3>1
  <2>2. ASSUME NEW m \in T PROVE m + 1 \in T
    <3>1. PICK v : Upto(v, m)
      OBVIOUS
    <3> DEFINE v2 == [k \in Nat |-> IF k = m + 1 THEN Next(v[m]) ELSE v[k]]
    <3>2. v2[0] = {a}
      BY <3>1
    <3>3. ASSUME NEW k \in Nat, k < m + 1 PROVE v2[k + 1] = Next(v2[k])
      <4>1. v2[k] = v[k]
        BY <3>3
      <4>2. CASE k = m
        <5>1. v2[k + 1] = Next(v[m])
          BY <4>2
        <5>. QED
          BY <5>1, <4>1, <4>2
      <4>3. CASE k # m
        <5>1. k < m /\ k + 1 # m + 1
          BY <4>3, <3>3
        <5>2. v2[k + 1] = v[k + 1]
          BY <5>1
        <5>3. v[k + 1] = Next(v[k])
          BY <5>1, <3>1
        <5>. QED
          BY <5>2, <5>3, <4>1
      <4>. QED
        BY <4>2, <4>3
    <3>4. Upto(v2, m + 1)
      BY <3>2, <3>3
    <3>5. m + 1 \in Nat
      OBVIOUS
    <3>. HIDE DEF Upto, v2
    <3>. QED
      BY <3>4, <3>5
  <2>3. T = Nat
    <3>. HIDE DEF T
    <3>1. T \subseteq Nat
      BY DEF T
    <3>. QED
      BY <3>1, <2>1, <2>2, SetOfNaturals
  <2>. QED
    BY <2>3
<1>2. ASSUME NEW n \in Nat PROVE Upto(Walk(n), n)
  BY <1>1
<1>3. ASSUME NEW n \in Nat, NEW v, NEW u, Upto(v, n), Upto(u, n)
      PROVE  \A m \in Nat : m <= n => v[m] = u[m]
  <2> DEFINE T == {m \in Nat : m <= n => v[m] = u[m]}
  <2>1. 0 \in T
    BY <1>3
  <2>2. ASSUME NEW m \in T PROVE m + 1 \in T
    <3>1. SUFFICES ASSUME m + 1 <= n PROVE v[m + 1] = u[m + 1]
      OBVIOUS
    <3>2. m < n /\ v[m] = u[m]
      BY <3>1
    <3>3. v[m + 1] = Next(v[m]) /\ u[m + 1] = Next(u[m])
      BY <3>2, <1>3
    <3>. QED
      BY <3>2, <3>3
  <2>3. T = Nat
    <3>. HIDE DEF T
    <3>1. T \subseteq Nat
      BY DEF T
    <3>. QED
      BY <3>1, <2>1, <2>2, SetOfNaturals
  <2>. QED
    BY <2>3
<1>4. w[0] = {a}
  BY <1>2
<1>5. ASSUME NEW n \in Nat PROVE w[n + 1] = Next(w[n])
  <2>. HIDE DEF Walk
  <2>1. Upto(Walk(n), n) /\ Upto(Walk(n + 1), n + 1)
    <3>1. n + 1 \in Nat
      OBVIOUS
    <3>. HIDE DEF Upto
    <3>. QED
      BY <3>1, <1>2
  <2>2. Upto(Walk(n + 1), n)
    BY <2>1
  <2>3. Walk(n + 1)[n] = Walk(n)[n]
    <3>. HIDE DEF Upto
    <3>. QED
      BY <2>1, <2>2, <1>3
  <2>4. Walk(n + 1)[n + 1] = Next(Walk(n + 1)[n])
    BY <2>1
  <2>. QED
    BY <2>3, <2>4
<1>6. ASSUME NEW n \in Nat
      PROVE  w[n] = IF n = 0 THEN {a} ELSE Next(w[n - 1])
  <2>. HIDE DEF w, Next
  <2>1. CASE n = 0
    BY <2>1, <1>4
  <2>2. CASE n # 0
    <3>1. n - 1 \in Nat /\ (n - 1) + 1 = n
      BY <2>2
    <3>2. w[(n - 1) + 1] = Next(w[n - 1])
      BY <3>1, <1>5
    <3>. QED
      BY <3>1, <3>2, <2>2
  <2>. QED
    BY <2>1, <2>2
<1>7. w = [n \in Nat |-> IF n = 0 THEN {a} ELSE Next(w[n - 1])]
  <2> DEFINE Right == [n \in Nat |-> IF n = 0 THEN {a} ELSE Next(w[n - 1])]
  <2>1. w = [n \in Nat |-> w[n]]
    OBVIOUS
  <2>2. \A n \in Nat : w[n] = Right[n]
    <3>. HIDE DEF w, Next
    <3>. QED
      BY <1>6
  <2>3. Right = [n \in Nat |-> Right[n]]
    OBVIOUS
  <2>4. w = Right
    <3>. HIDE DEF w, Right
    <3>. QED
      BY <2>1, <2>2, <2>3
  <2>. HIDE DEF w
  <2>. QED
    BY <2>4
<1>8. Climbs(w, rows, none, a)
  <2>. HIDE DEF w
  <2>. QED
    BY <1>7 DEF Climbs
<1>. QED
  <2>. HIDE DEF w
  <2>. QED
    BY <1>8

\* The walk never loses what it has met, and each step adds what is above it.
Walks(w, rows, none, a) ==
  /\ \A N \in Nat : Climb(rows, none, N, a) = w[N] \ {none}
  /\ w[0] = {a}
  /\ \A n \in Nat : w[n + 1] = w[n] \cup {rows[b].parent : b \in w[n] \ {none}}

LEMMA ClimbSteps ==
  ASSUME NEW rows, NEW none, NEW a
  PROVE  \E w : Walks(w, rows, none, a)
<1> DEFINE w == CHOOSE v : Climbs(v, rows, none, a)
<1>1. Climbs(w, rows, none, a)
  BY ClimbExists
<1>2. \A N \in Nat : Climb(rows, none, N, a) = w[N] \ {none}
  BY DEF Climb
<1> HIDE DEF w
<1>3. w[0] = {a}
  BY <1>1 DEF Climbs
<1>4. ASSUME NEW n \in Nat
      PROVE  w[n + 1] = w[n] \cup {rows[b].parent : b \in w[n] \ {none}}
  <2>1. n + 1 \in Nat /\ n + 1 # 0 /\ (n + 1) - 1 = n
    OBVIOUS
  <2>. QED
    BY <2>1, <1>1 DEF Climbs
<1>5. Walks(w, rows, none, a)
  BY <1>2, <1>3, <1>4 DEF Walks
<1>. QED
  BY <1>5

\* What is met starts with a.
LEMMA ClimbStarts ==
  ASSUME NEW rows, NEW none, NEW a, a # none, NEW N \in Nat
  PROVE  a \in Climb(rows, none, N, a)
<1>0. PICK w : Walks(w, rows, none, a)
  BY ClimbSteps
<1>1. /\ \A M \in Nat : Climb(rows, none, M, a) = w[M] \ {none}
      /\ w[0] = {a}
      /\ \A n \in Nat : w[n + 1] = w[n] \cup {rows[b].parent : b \in w[n] \ {none}}
  BY <1>0 DEF Walks
<1> DEFINE T == {n \in Nat : a \in w[n]}
<1>2. 0 \in T
  BY <1>1
<1>3. ASSUME NEW n \in T PROVE n + 1 \in T
  BY <1>1
<1>4. T = Nat
  <2>. HIDE DEF T
  <2>1. T \subseteq Nat
    BY DEF T
  <2>. QED
    BY <2>1, <1>2, <1>3, SetOfNaturals
<1>. QED
  BY <1>1, <1>4

\* It stays within every set that holds a and goes no further up.
LEMMA ClimbWithin ==
  ASSUME NEW rows, NEW none, NEW a, NEW N \in Nat,
         NEW S, a \in S, none \notin S, ClosedUp(S, rows, none)
  PROVE  Climb(rows, none, N, a) \subseteq S
<1>0. PICK w : Walks(w, rows, none, a)
  BY ClimbSteps
<1>1. /\ \A M \in Nat : Climb(rows, none, M, a) = w[M] \ {none}
      /\ w[0] = {a}
      /\ \A n \in Nat : w[n + 1] = w[n] \cup {rows[b].parent : b \in w[n] \ {none}}
  BY <1>0 DEF Walks
<1> DEFINE T == {n \in Nat : w[n] \subseteq S \cup {none}}
<1>2. 0 \in T
  BY <1>1
<1>3. ASSUME NEW n \in T PROVE n + 1 \in T
  <2>1. ASSUME NEW b \in w[n] \ {none} PROVE rows[b].parent \in S \cup {none}
    BY <1>3 DEF ClosedUp
  <2>2. w[n + 1] \subseteq S \cup {none}
    BY <2>1, <1>1, <1>3
  <2>. QED
    BY <2>2
<1>4. T = Nat
  <2>. HIDE DEF T
  <2>1. T \subseteq Nat
    BY DEF T
  <2>. QED
    BY <2>1, <1>2, <1>3, SetOfNaturals
<1>. QED
  BY <1>1, <1>4

\* Among finitely many rows the walk ends: every step that does not end it
\* meets another row.
LEMMA ClimbEnds ==
  ASSUME NEW rows, NEW none, NEW Nodes, IsFiniteSet(Nodes),
         NEW S \in SUBSET Nodes, none \notin S, ClosedUp(S, rows, none), NEW a \in S
  PROVE  ClosedUp(Climb(rows, none, Cardinality(Nodes), a), rows, none)
<1>0. PICK w : Walks(w, rows, none, a)
  BY ClimbSteps
<1>1. /\ \A M \in Nat : Climb(rows, none, M, a) = w[M] \ {none}
      /\ w[0] = {a}
      /\ \A n \in Nat : w[n + 1] = w[n] \cup {rows[b].parent : b \in w[n] \ {none}}
  BY <1>0 DEF Walks
<1> DEFINE Met(n) == w[n] \ {none}
<1>2. ASSUME NEW n \in Nat
      PROVE  /\ Met(n) \subseteq Nodes
             /\ IsFiniteSet(Met(n)) /\ Cardinality(Met(n)) \in Nat
             /\ Cardinality(Met(n)) <= Cardinality(Nodes)
  <2>1. Met(n) \subseteq S
    BY <1>1, ClimbWithin
  <2>2. Met(n) \subseteq Nodes
    BY <2>1
  <2>. QED
    BY <2>2, FS_Subset, FS_CardinalityType
<1>3. ASSUME NEW n \in Nat
      PROVE  Met(n + 1) = Met(n) \cup ({rows[b].parent : b \in Met(n)} \ {none})
  BY <1>1
<1> DEFINE T == {n \in Nat : ClosedUp(Met(n), rows, none) \/ Cardinality(Met(n)) > n}
<1>4. 0 \in T
  <2>1. Met(0) = {a}
    BY <1>1
  <2>2. Cardinality(Met(0)) = 1
    BY <2>1, FS_Singleton
  <2>. QED
    BY <2>2
<1>5. ASSUME NEW n \in T PROVE n + 1 \in T
  <2>0. n \in Nat /\ n + 1 \in Nat
    OBVIOUS
  <2>1. CASE ClosedUp(Met(n), rows, none)
    <3>1. Met(n + 1) = Met(n)
      <4>1. \A b \in Met(n) : rows[b].parent \in Met(n) \cup {none}
        BY <2>1 DEF ClosedUp
      <4>. HIDE DEF Met
      <4>2. {rows[b].parent : b \in Met(n)} \ {none} \subseteq Met(n)
        BY <4>1
      <4>3. Met(n + 1) = Met(n) \cup ({rows[b].parent : b \in Met(n)} \ {none})
        BY <2>0, <1>3
      <4>. QED
        BY <4>2, <4>3
    <3>2. ClosedUp(Met(n + 1), rows, none)
      BY <3>1, <2>1
    <3>. QED
      BY <3>2, <2>0
  <2>2. CASE ~ClosedUp(Met(n), rows, none)
    <3>1. Cardinality(Met(n)) > n
      BY <2>2
    <3>2. PICK b \in Met(n) : rows[b].parent \notin Met(n) \cup {none}
      BY <2>2 DEF ClosedUp
    <3>3. Met(n) \subseteq Met(n + 1) /\ rows[b].parent \in Met(n + 1) /\ rows[b].parent \notin Met(n)
      <4>. HIDE DEF Met
      <4>. QED
        BY <3>2, <2>0, <1>3
    <3>4. Cardinality(Met(n)) < Cardinality(Met(n + 1))
      <4>. HIDE DEF Met
      <4>1. Met(n) # Met(n + 1)
        BY <3>3
      <4>2. /\ IsFiniteSet(Met(n + 1))
            /\ Cardinality(Met(n)) \in Nat /\ Cardinality(Met(n + 1)) \in Nat
        BY <2>0, <1>2
      <4>3. Cardinality(Met(n)) <= Cardinality(Met(n + 1))
        BY <3>3, <4>2, FS_Subset
      <4>4. Cardinality(Met(n)) = Cardinality(Met(n + 1)) => Met(n) = Met(n + 1)
        BY <3>3, <4>2, FS_Subset
      <4>. QED
        BY <4>1, <4>2, <4>3, <4>4
    <3>5. Cardinality(Met(n)) \in Nat /\ Cardinality(Met(n + 1)) \in Nat
      <4>. HIDE DEF Met
      <4>. QED
        BY <2>0, <1>2
    <3>. HIDE DEF Met
    <3>6. Cardinality(Met(n + 1)) > n + 1
      BY <3>1, <3>4, <3>5, <2>0
    <3>. QED
      BY <3>6, <2>0
  <2>. QED
    BY <2>1, <2>2
<1>6. T = Nat
  <2>. HIDE DEF T
  <2>1. T \subseteq Nat
    BY DEF T
  <2>. QED
    BY <2>1, <1>4, <1>5, SetOfNaturals
<1>7. Cardinality(Nodes) \in Nat
  BY FS_CardinalityType
<1>8. ClosedUp(Met(Cardinality(Nodes)), rows, none)
  <2>1. Cardinality(Nodes) \in T
    BY <1>6, <1>7
  <2>2. ~(Cardinality(Met(Cardinality(Nodes))) > Cardinality(Nodes))
    <3>. HIDE DEF Met
    <3>. QED
      BY <1>2, <1>7
  <2>. QED
    BY <2>1, <2>2
<1>. QED
  BY <1>1, <1>7, <1>8

\* What is above an existing row is the least set with it that goes no further up.
LEMMA ClimbLeast ==
  ASSUME NEW rows, NEW none, NEW Nodes, IsFiniteSet(Nodes), none \notin Nodes,
         NEW E \in SUBSET Nodes, ClosedUp(E, rows, none), NEW a \in E
  PROVE  /\ a \in Climb(rows, none, Cardinality(Nodes), a)
         /\ Climb(rows, none, Cardinality(Nodes), a) \subseteq E
         /\ ClosedUp(Climb(rows, none, Cardinality(Nodes), a), rows, none)
         /\ \A S : a \in S /\ none \notin S /\ ClosedUp(S, rows, none)
                    => Climb(rows, none, Cardinality(Nodes), a) \subseteq S
<1>1. Cardinality(Nodes) \in Nat /\ a # none /\ none \notin E
  BY FS_CardinalityType
<1>2. a \in Climb(rows, none, Cardinality(Nodes), a)
  BY <1>1, ClimbStarts
<1>3. ClosedUp(Climb(rows, none, Cardinality(Nodes), a), rows, none)
  BY <1>1, ClimbEnds
<1>4. Climb(rows, none, Cardinality(Nodes), a) \subseteq E
  BY <1>1, ClimbWithin
<1>5. ASSUME NEW S, a \in S, none \notin S, ClosedUp(S, rows, none)
      PROVE  Climb(rows, none, Cardinality(Nodes), a) \subseteq S
  BY <1>1, <1>5, ClimbWithin
<1>. QED
  BY <1>2, <1>3, <1>4, <1>5

\* No row of E is above itself.
Forested(rows, none, N, E) ==
  \A x \in E : rows[x].parent # none => x \notin Climb(rows, none, N, rows[x].parent)

\* Going up from any row of E ends at a root.
Rooted(rows, none, N, E) ==
  \A x \in E : \E d \in Climb(rows, none, N, x) : rows[d].parent = none

\* One row that is created, or moved to where it is not above, keeps a forest.
LEMMA MovesKeepForest ==
  ASSUME NEW rows, NEW rows2, NEW none, NEW Nodes, IsFiniteSet(Nodes), none \notin Nodes,
         NEW E \in SUBSET Nodes, ClosedUp(E, rows, none), NEW a \in Nodes,
         Forested(rows, none, Cardinality(Nodes), E),
         \A x \in E \ {a} : rows2[x].parent = rows[x].parent,
         rows2[a].parent # none =>
           rows2[a].parent \in E /\ a \notin Climb(rows, none, Cardinality(Nodes), rows2[a].parent)
  PROVE  ClosedUp(E \cup {a}, rows2, none) /\ Forested(rows2, none, Cardinality(Nodes), E \cup {a})
<1> DEFINE Up(x) == Climb(rows, none, Cardinality(Nodes), x)
           Up2(x) == Climb(rows2, none, Cardinality(Nodes), x)
           p == rows2[a].parent
<1>1. ClosedUp(E \cup {a}, rows2, none)
  BY DEF ClosedUp
<1>2. ASSUME NEW x \in E
      PROVE  /\ x \in Up(x) /\ Up(x) \subseteq E /\ ClosedUp(Up(x), rows, none)
             /\ \A S : x \in S /\ none \notin S /\ ClosedUp(S, rows, none) => Up(x) \subseteq S
  BY ClimbLeast
<1>3. ASSUME NEW x \in E \cup {a}
      PROVE  \A S : x \in S /\ none \notin S /\ ClosedUp(S, rows2, none) => Up2(x) \subseteq S
  BY <1>1, ClimbLeast
<1>4. ASSUME NEW x \in E, a \notin Up(x) PROVE Up2(x) \subseteq Up(x)
  <2>1. ClosedUp(Up(x), rows2, none)
    BY <1>4, <1>2 DEF ClosedUp
  <2>2. x \in Up(x) /\ none \notin Up(x)
    BY <1>2
  <2>. HIDE DEF Up, Up2
  <2>. QED
    BY <2>1, <2>2, <1>3
<1>5. ASSUME NEW x \in E \cup {a}, rows2[x].parent # none
      PROVE  x \notin Up2(rows2[x].parent)
  <2>1. CASE x = a
    <3>1. p \in E /\ a \notin Up(p)
      BY <1>5, <2>1
    <3>2. Up2(p) \subseteq Up(p)
      BY <3>1, <1>4
    <3>. QED
      BY <2>1, <3>1, <3>2
  <2>2. CASE x # a
    <3> DEFINE q == rows[x].parent
    <3>1. x \in E /\ rows2[x].parent = q /\ q # none /\ q \in E
      BY <2>2, <1>5 DEF ClosedUp
    <3>2. x \notin Up(q)
      BY <3>1 DEF Forested
    <3>3. CASE a \notin Up(q)
      BY <3>1, <3>2, <3>3, <1>4
    <3>4. CASE a \in Up(q)
      <4>1. CASE p = none
        <5>1. ClosedUp(Up(q), rows2, none)
          BY <4>1, <1>2, <3>1 DEF ClosedUp
        <5>2. q \in Up(q) /\ none \notin Up(q)
          BY <1>2, <3>1
        <5>3. Up2(q) \subseteq Up(q)
          <6>. HIDE DEF Up, Up2, q
          <6>. QED
            BY <5>1, <5>2, <1>3, <3>1
        <5>. QED
          BY <5>3, <3>1, <3>2
      <4>2. CASE p # none
        <5>1. p \in E /\ a \notin Up(p)
          BY <4>2
        <5>2. /\ ClosedUp(Up(q), rows, none) /\ ClosedUp(Up(p), rows, none)
              /\ q \in Up(q) /\ p \in Up(p) /\ Up(q) \subseteq E /\ Up(p) \subseteq E
          BY <3>1, <5>1, <1>2
        <5>3. ClosedUp(Up(q) \cup Up(p), rows2, none)
          <6>1. ASSUME NEW b \in Up(q) \cup Up(p)
                PROVE  rows2[b].parent \in Up(q) \cup Up(p) \cup {none}
            <7>1. CASE b = a
              BY <7>1, <5>2
            <7>2. CASE b # a
              <8>1. rows2[b].parent = rows[b].parent
                BY <7>2, <5>2
              <8>. QED
                BY <8>1, <5>2 DEF ClosedUp
            <7>. QED
              BY <7>1, <7>2
          <6>. QED
            BY <6>1 DEF ClosedUp
        <5>4. Up2(q) \subseteq Up(q) \cup Up(p)
          <6>1. q \in Up(q) \cup Up(p) /\ none \notin Up(q) \cup Up(p)
            BY <5>2
          <6>. HIDE DEF Up, Up2, q, p
          <6>. QED
            BY <6>1, <5>3, <1>3, <3>1
        <5>5. ASSUME x \in Up(p) PROVE FALSE
          <6>1. q \in Up(p)
            BY <5>5, <5>2, <3>1 DEF ClosedUp
          <6>2. Up(q) \subseteq Up(p)
            <7>1. none \notin Up(p)
              BY <5>2
            <7>. HIDE DEF Up, q, p
            <7>. QED
              BY <6>1, <7>1, <5>2, <1>2, <3>1
          <6>. QED
            BY <6>2, <5>1, <3>4
        <5>. QED
          BY <5>4, <5>5, <3>1, <3>2
      <4>. QED
        BY <4>1, <4>2
    <3>. QED
      BY <3>3, <3>4
  <2>. QED
    BY <2>1, <2>2
<1>. QED
  BY <1>1, <1>5 DEF Forested

\* Nor does it take the root away from those that reach one.
LEMMA MovesKeepRoots ==
  ASSUME NEW rows, NEW rows2, NEW none, NEW Nodes, IsFiniteSet(Nodes), none \notin Nodes,
         NEW E \in SUBSET Nodes, ClosedUp(E, rows, none), NEW a \in Nodes,
         Rooted(rows, none, Cardinality(Nodes), E),
         \A x \in E \ {a} : rows2[x].parent = rows[x].parent,
         rows2[a].parent # none =>
           rows2[a].parent \in E /\ a \notin Climb(rows, none, Cardinality(Nodes), rows2[a].parent)
  PROVE  ClosedUp(E \cup {a}, rows2, none) /\ Rooted(rows2, none, Cardinality(Nodes), E \cup {a})
<1> DEFINE Up(x) == Climb(rows, none, Cardinality(Nodes), x)
           Up2(x) == Climb(rows2, none, Cardinality(Nodes), x)
           p == rows2[a].parent
<1>1. ClosedUp(E \cup {a}, rows2, none)
  BY DEF ClosedUp
<1>2. ASSUME NEW x \in E
      PROVE  /\ x \in Up(x) /\ Up(x) \subseteq E /\ ClosedUp(Up(x), rows, none)
             /\ \A S : x \in S /\ none \notin S /\ ClosedUp(S, rows, none) => Up(x) \subseteq S
  BY ClimbLeast
<1>3. ASSUME NEW x \in E \cup {a}
      PROVE  /\ x \in Up2(x) /\ Up2(x) \subseteq E \cup {a} /\ ClosedUp(Up2(x), rows2, none)
             /\ \A S : x \in S /\ none \notin S /\ ClosedUp(S, rows2, none) => Up2(x) \subseteq S
  BY <1>1, ClimbLeast
\* Above a row that the move leaves below nothing of a, there is a root as before.
<1>4. ASSUME NEW x \in E, a \notin Up2(x)
      PROVE  \E d \in Up2(x) : rows2[d].parent = none
  <2>1. x \in Up2(x) /\ Up2(x) \subseteq E /\ none \notin Up2(x)
    BY <1>3, <1>4
  <2>2. ClosedUp(Up2(x), rows, none)
    <3>1. ASSUME NEW b \in Up2(x) PROVE rows[b].parent \in Up2(x) \cup {none}
      <4>1. rows2[b].parent = rows[b].parent
        BY <2>1, <1>4
      <4>. QED
        BY <4>1, <1>3 DEF ClosedUp
    <3>. QED
      BY <3>1 DEF ClosedUp
  <2>3. Up(x) \subseteq Up2(x)
    <3>. HIDE DEF Up, Up2
    <3>. QED
      BY <2>1, <2>2, <1>2
  <2>4. PICK d \in Up(x) : rows[d].parent = none
    BY DEF Rooted
  <2>5. d \in Up2(x) /\ d \in E \ {a}
    BY <2>3, <2>1, <1>4
  <2>. QED
    BY <2>4, <2>5
<1>5. ASSUME NEW x \in E \cup {a}
      PROVE  \E d \in Up2(x) : rows2[d].parent = none
  <2>1. CASE a \notin Up2(x)
    <3>1. x \in E
      BY <2>1, <1>3
    <3>. QED
      BY <3>1, <2>1, <1>4
  <2>2. CASE a \in Up2(x) /\ p = none
    BY <2>2
  <2>3. CASE a \in Up2(x) /\ p # none
    <3>1. p \in E /\ a \notin Up(p)
      BY <2>3
    <3>2. p \in Up2(x)
      BY <2>3, <1>3 DEF ClosedUp
    <3>3. Up2(p) \subseteq Up2(x)
      <4>1. ClosedUp(Up2(x), rows2, none) /\ none \notin Up2(x)
        BY <1>3
      <4>. HIDE DEF Up2, p
      <4>. QED
        BY <3>1, <3>2, <4>1, <1>3
    <3>4. a \notin Up2(p)
      <4>1. ClosedUp(Up(p), rows2, none)
        BY <3>1, <1>2 DEF ClosedUp
      <4>2. p \in Up(p) /\ none \notin Up(p)
        BY <3>1, <1>2
      <4>3. Up2(p) \subseteq Up(p)
        <5>. HIDE DEF Up, Up2, p
        <5>. QED
          BY <3>1, <4>1, <4>2, <1>3
      <4>. QED
        BY <4>3, <3>1
    <3>5. \E d \in Up2(p) : rows2[d].parent = none
      BY <3>1, <3>4, <1>4
    <3>. QED
      BY <3>3, <3>5
  <2>. QED
    BY <2>1, <2>2, <2>3
<1>. QED
  BY <1>1, <1>5 DEF Rooted

=============================================================================
