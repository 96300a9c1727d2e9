--------------------------------- MODULE FiniteSums ---------------------------
(***************************************************************************)
(* Sums over finite sets, as MapThenSumSet of FiniteSetsExt defines them:  *)
(* they exist, are integers, do not depend on the order in which elements  *)
(* are taken, and grow by what a new element adds.                         *)
(*                                                                         *)
(* Each fact about all subsets of a finite set is shown by least           *)
(* counterexample: among the subsets that refute it one has the fewest     *)
(* elements, and without one of them it refutes no more.                   *)
(***************************************************************************)
EXTENDS Integers, FiniteSets, FiniteSetsExt, FiniteSetTheorems, WellFoundedInduction, TLAPS

\* A set of natural numbers that is not empty has a least one.
LEMMA LeastNumber ==
  ASSUME NEW T, T \subseteq Nat, T # {}
  PROVE  \E x \in T : \A y \in T : x <= y
  <1> DEFINE R == OpToRel(<, Nat)
  <1>1. R = {p \in Nat \X Nat : p[1] < p[2]}
    BY DEF OpToRel
  <1>2. IsWellFoundedOn(R, Nat)
    BY NatLessThanWellFounded
  <1> HIDE DEF R
  <1>3. PICK x \in T : \A y \in T : ~ (<<y, x>> \in R)
    BY <1>2, WFMin
  <1>4. ASSUME NEW y \in T PROVE x <= y
    <2>1. x \in Nat /\ y \in Nat /\ <<y, x>> \in Nat \X Nat
      OBVIOUS
    <2>2. ~(y < x)
      BY <1>1, <1>3, <2>1
    <2>3. QED BY <2>1, <2>2
  <1>5. QED BY <1>4

\* ...and if it is bounded a greatest one.
LEMMA GreatestNumber ==
  ASSUME NEW n \in Nat, NEW T, T \subseteq 0 .. n, T # {}
  PROVE  \E x \in T : \A y \in T : y <= x
  <1> DEFINE U == {n - y : y \in T}
  <1>1. ASSUME NEW y \in T PROVE n - y \in Nat
    OBVIOUS
  <1>2. U \subseteq Nat
    BY <1>1
  <1>3. U # {}
    OBVIOUS
  <1>4. \E u \in U : \A v \in U : u <= v
    <2> HIDE DEF U
    <2>1. QED BY <1>2, <1>3, LeastNumber
  <1>5. PICK x \in T : \A y \in T : n - x <= n - y
    BY <1>4
  <1>6. ASSUME NEW y \in T PROVE y <= x
    <2>1. x \in Int /\ y \in Int /\ n - x <= n - y
      BY <1>5
    <2>2. QED BY <2>1
  <1>7. QED BY <1>6

\* The element that a sum takes next, and the sums of the subsets of S by it.
TakenFirst(s) == CHOOSE x \in s : TRUE
SumsOf(v, S, g) ==
  g = [s \in SUBSET S |-> IF s = {} THEN 0 ELSE v[TakenFirst(s)] + g[s \ {TakenFirst(s)}]]

\* A set of subsets that is not empty has a smallest one.
LEMMA SmallestSubset ==
  ASSUME NEW S, IsFiniteSet(S), NEW F, F \subseteq SUBSET S, F # {}
  PROVE  \E s \in F : \A t \in F : Cardinality(s) <= Cardinality(t)
  <1> DEFINE T == {Cardinality(s) : s \in F}
  <1>1. \A s \in F : IsFiniteSet(s) /\ Cardinality(s) \in Nat
    BY FS_Subset, FS_CardinalityType
  <1>2. T \subseteq Nat /\ T # {}
    BY <1>1
  <1>3. \E n \in T : \A m \in T : n <= m
    <2> HIDE DEF T
    <2>1. QED BY <1>2, LeastNumber
  <1>4. QED BY <1>3

\* A finite set without one of its elements is smaller.
LEMMA SmallerWithout ==
  ASSUME NEW s, IsFiniteSet(s), NEW x \in s
  PROVE  Cardinality(s \ {x}) < Cardinality(s) /\ Cardinality(s) \in Nat /\ Cardinality(s \ {x}) \in Nat
  <1>1. Cardinality(s) \in Nat /\ Cardinality(s \ {x}) = Cardinality(s) - 1
    BY FS_RemoveElement, FS_CardinalityType
  <1>2. IsFiniteSet(s \ {x})
    BY FS_RemoveElement
  <1>3. Cardinality(s \ {x}) \in Nat
    BY <1>2, FS_CardinalityType
  <1>4. QED BY <1>1, <1>3

\* The element taken next is of the set.
LEMMA NextIn == ASSUME NEW s, s # {} PROVE TakenFirst(s) \in s
  BY DEF TakenFirst

\* Sums of one set are the sums of another where the two agree.
LEMMA SumsAgree ==
  ASSUME NEW S, IsFiniteSet(S), NEW T, NEW v, NEW w, NEW g, NEW h,
         SumsOf(v, S, g), SumsOf(w, T, h), \A x \in S \cap T : v[x] = w[x],
         NEW r, r \subseteq S \cap T
  PROVE  g[r] = h[r]
  <1> SUFFICES ASSUME g[r] # h[r] PROVE FALSE
    OBVIOUS
  <1> DEFINE F == {s \in SUBSET (S \cap T) : g[s] # h[s]}
  <1>1. F \subseteq SUBSET S /\ r \in F
    OBVIOUS
  <1>2. PICK s \in F : \A t \in F : Cardinality(s) <= Cardinality(t)
    <2> HIDE DEF F
    <2>1. QED BY <1>1, SmallestSubset
  <1>3. s # {}
    <2>1. g[{}] = 0 /\ h[{}] = 0
      BY DEF SumsOf
    <2>2. QED BY <2>1
  <1> DEFINE x == TakenFirst(s)
  <1>4. x \in s
    BY <1>3, NextIn
  <1>5. g[s] = v[x] + g[s \ {x}] /\ h[s] = w[x] + h[s \ {x}]
    BY <1>3 DEF SumsOf
  <1>6. IsFiniteSet(s)
    BY FS_Subset
  <1>7. ~(Cardinality(s) <= Cardinality(s \ {x}))
    <2> HIDE DEF x
    <2>1. QED BY <1>4, <1>6, SmallerWithout
  <1>8. s \ {x} \notin F
    <2> HIDE DEF x
    <2>1. QED BY <1>2, <1>7
  <1>9. g[s \ {x}] = h[s \ {x}] /\ v[x] = w[x]
    BY <1>4, <1>8
  <1>10. QED BY <1>5, <1>9

\* Whichever element is taken first, the sum is the same.
LEMMA SumsTake ==
  ASSUME NEW S, IsFiniteSet(S), NEW v, NEW g, SumsOf(v, S, g),
         \A x \in S : v[x] \in Int, \A s \in SUBSET S : g[s] \in Int,
         NEW r \in SUBSET S, NEW e \in r
  PROVE  g[r] = v[e] + g[r \ {e}]
  <1> SUFFICES ASSUME g[r] # v[e] + g[r \ {e}] PROVE FALSE
    OBVIOUS
  <1> DEFINE F == {s \in SUBSET S : \E d \in s : g[s] # v[d] + g[s \ {d}]}
  <1>1. F \subseteq SUBSET S /\ r \in F
    OBVIOUS
  <1>2. PICK s \in F : \A t \in F : Cardinality(s) <= Cardinality(t)
    <2> HIDE DEF F
    <2>1. QED BY <1>1, SmallestSubset
  <1>3. PICK d \in s : g[s] # v[d] + g[s \ {d}]
    OBVIOUS
  <1>4. PICK x \in s : x = TakenFirst(s)
    BY <1>3, NextIn
  <1>5. g[s] = v[x] + g[s \ {x}]
    BY <1>3, <1>4 DEF SumsOf
  <1>6. x # d
    BY <1>3, <1>5
  <1>7. IsFiniteSet(s)
    BY FS_Subset
  <1>8. \A y \in s : s \ {y} \in SUBSET S /\ s \ {y} \notin F
    <2>1. ASSUME NEW y \in s PROVE ~(Cardinality(s) <= Cardinality(s \ {y}))
      BY <1>7, SmallerWithout
    <2>2. \A y \in s : s \ {y} \in SUBSET S
      OBVIOUS
    <2> HIDE DEF F
    <2>3. QED BY <1>2, <2>1, <2>2
  <1>9. g[s \ {x}] = v[d] + g[(s \ {x}) \ {d}]
    BY <1>6, <1>8
  <1>10. g[s \ {d}] = v[x] + g[(s \ {d}) \ {x}]
    BY <1>6, <1>8
  <1>11. (s \ {x}) \ {d} = (s \ {d}) \ {x}
    OBVIOUS
  <1>12. v[x] \in Int /\ v[d] \in Int /\ g[(s \ {x}) \ {d}] \in Int
    OBVIOUS
  <1>13. \A a, b, c \in Int : a + (b + c) = b + (a + c)
    OBVIOUS
  <1>14. v[x] + (v[d] + g[(s \ {x}) \ {d}]) = v[d] + (v[x] + g[(s \ {x}) \ {d}])
    BY <1>12, <1>13
  <1>15. QED BY <1>3, <1>5, <1>9, <1>10, <1>11, <1>14

\* Sums of integers are integers.
LEMMA SumsInt ==
  ASSUME NEW S, IsFiniteSet(S), NEW v, NEW g, SumsOf(v, S, g), \A x \in S : v[x] \in Int,
         NEW r \in SUBSET S
  PROVE  g[r] \in Int
  <1> SUFFICES ASSUME g[r] \notin Int PROVE FALSE
    OBVIOUS
  <1> DEFINE F == {s \in SUBSET S : g[s] \notin Int}
  <1>1. F \subseteq SUBSET S /\ r \in F
    OBVIOUS
  <1>2. PICK s \in F : \A t \in F : Cardinality(s) <= Cardinality(t)
    <2> HIDE DEF F
    <2>1. QED BY <1>1, SmallestSubset
  <1>3. s # {}
    <2>1. g[{}] = 0
      BY DEF SumsOf
    <2>2. QED BY <2>1
  <1>4. PICK x \in s : x = TakenFirst(s)
    BY <1>3, NextIn
  <1>5. g[s] = v[x] + g[s \ {x}]
    BY <1>3, <1>4 DEF SumsOf
  <1>6. IsFiniteSet(s)
    BY FS_Subset
  <1>7. ~(Cardinality(s) <= Cardinality(s \ {x}))
    BY <1>6, SmallerWithout
  <1>8. s \ {x} \notin F
    <2> HIDE DEF F
    <2>1. QED BY <1>2, <1>7
  <1>9. g[s \ {x}] \in Int /\ v[x] \in Int
    BY <1>8
  <1>10. QED BY <1>5, <1>9

\* There are such sums: those of the subsets of n members give those of n + 1.
LEMMA SumsExist ==
  ASSUME NEW S, IsFiniteSet(S), NEW v
  PROVE  \E g : SumsOf(v, S, g)
  <1> DEFINE Step(g, s) == IF s = {} THEN 0 ELSE v[TakenFirst(s)] + g[s \ {TakenFirst(s)}]
             UpTo(n) == \E g : /\ g = [s \in SUBSET S |-> g[s]]
                               /\ \A s \in SUBSET S : Cardinality(s) <= n => g[s] = Step(g, s)
  <1>1. \A s \in SUBSET S : IsFiniteSet(s) /\ Cardinality(s) \in Nat
    BY FS_Subset, FS_CardinalityType
  <1>2. UpTo(0)
    <2> DEFINE g == [s \in SUBSET S |-> 0]
    <2>1. ASSUME NEW s \in SUBSET S, Cardinality(s) <= 0 PROVE s = {}
      <3>1. Cardinality(s) = 0
        BY <1>1, <2>1
      <3>2. QED BY <1>1, <3>1, FS_EmptySet
    <2>2. \A s \in SUBSET S : Cardinality(s) <= 0 => g[s] = Step(g, s)
      BY <2>1
    <2>3. g = [s \in SUBSET S |-> g[s]]
      OBVIOUS
    <2> HIDE DEF g
    <2>4. QED BY <2>2, <2>3
  <1>3. ASSUME NEW n \in Nat, UpTo(n) PROVE UpTo(n + 1)
    <2>1. PICK g : /\ g = [s \in SUBSET S |-> g[s]]
                   /\ \A s \in SUBSET S : Cardinality(s) <= n => g[s] = Step(g, s)
      BY <1>3
    <2> DEFINE h == [s \in SUBSET S |-> Step(g, s)]
    <2>2. ASSUME NEW s \in SUBSET S, Cardinality(s) <= n + 1, s # {}
          PROVE  h[s \ {TakenFirst(s)}] = g[s \ {TakenFirst(s)}]
      <3>1. PICK x \in s : x = TakenFirst(s)
        BY <2>2, NextIn
      <3>2. s \ {x} \in SUBSET S /\ Cardinality(s \ {x}) <= n
        BY <1>1, <2>2, SmallerWithout
      <3>3. g[s \ {x}] = Step(g, s \ {x})
        BY <2>1, <3>2
      <3>4. QED BY <3>1, <3>2, <3>3
    <2>3. \A s \in SUBSET S : Cardinality(s) <= n + 1 => h[s] = Step(h, s)
      BY <2>2
    <2>4. h = [s \in SUBSET S |-> h[s]]
      OBVIOUS
    <2> HIDE DEF h
    <2>5. QED BY <2>3, <2>4
  <1>4. PICK k \in Nat : k = Cardinality(S)
    BY FS_CardinalityType
  <1>5. UpTo(k)
    <2> SUFFICES ASSUME ~UpTo(k) PROVE FALSE
      OBVIOUS
    <2> DEFINE T == {n \in Nat : ~UpTo(n)}
    <2>1. T \subseteq Nat /\ T # {}
      OBVIOUS
    <2>2. PICK m \in T : \A n \in T : m <= n
      <3> HIDE DEF T
      <3>1. QED BY <2>1, LeastNumber
    <2>3. m # 0 /\ m \in Nat /\ ~UpTo(m)
      BY <1>2
    <2>4. m - 1 \in Nat /\ m - 1 \notin T
      <3>1. m - 1 \in Nat /\ ~(m <= m - 1)
        BY <2>3
      <3> HIDE DEF T
      <3>2. QED BY <2>2, <3>1
    <2>5. UpTo(m - 1)
      BY <2>4
    <2>6. (m - 1) + 1 = m
      BY <2>3
    <2> HIDE DEF UpTo
    <2>7. UpTo((m - 1) + 1)
      BY <1>3, <2>4, <2>5
    <2>8. QED BY <2>3, <2>6, <2>7
  <1>6. \A s \in SUBSET S : Cardinality(s) <= k
    BY <1>4, FS_Subset
  <1>7. PICK g : /\ g = [s \in SUBSET S |-> g[s]]
                 /\ \A s \in SUBSET S : Cardinality(s) <= k => g[s] = Step(g, s)
    BY <1>5
  <1>8. \A s \in SUBSET S : g[s] = Step(g, s)
    BY <1>6, <1>7
  <1>9. g = [s \in SUBSET S |-> Step(g, s)]
    BY <1>7, <1>8
  <1>10. QED BY <1>9 DEF SumsOf

\* The credits of the orders S, where p has the rows of the orders.
CreditsOf(p, S) == MapThenSumSet(LAMBDA o : p[o].credits, S)

\* The credits of a finite set of orders are a sum of this kind.
LEMMA CreditsAreSums ==
  ASSUME NEW p, NEW S, IsFiniteSet(S)
  PROVE  \E g : SumsOf([o \in S |-> p[o].credits], S, g) /\ CreditsOf(p, S) = g[S]
  <1> DEFINE v == [o \in S |-> p[o].credits]
             Sums(g) == g = [s \in SUBSET S |->
                               IF s = {} THEN 0
                               ELSE p[CHOOSE x \in s : TRUE].credits
                                    + g[s \ {CHOOSE x \in s : TRUE}]]
  <1>1. CreditsOf(p, S) = (CHOOSE g : Sums(g))[S]
    BY DEF CreditsOf, MapThenSumSet, MapThenFoldSet
  <1>2. ASSUME NEW g PROVE SumsOf(v, S, g) <=> Sums(g)
    <2>1. \A s \in SUBSET S : s # {} => v[TakenFirst(s)] = p[TakenFirst(s)].credits
      BY NextIn
    <2>2. [s \in SUBSET S |-> IF s = {} THEN 0 ELSE v[TakenFirst(s)] + g[s \ {TakenFirst(s)}]]
          = [s \in SUBSET S |-> IF s = {} THEN 0 ELSE p[TakenFirst(s)].credits + g[s \ {TakenFirst(s)}]]
      <3> HIDE DEF v
      <3>1. QED BY <2>1
    <2>3. [s \in SUBSET S |-> IF s = {} THEN 0 ELSE p[TakenFirst(s)].credits + g[s \ {TakenFirst(s)}]]
          = [s \in SUBSET S |-> IF s = {} THEN 0
                               ELSE p[CHOOSE x \in s : TRUE].credits
                                    + g[s \ {CHOOSE x \in s : TRUE}]]
      BY DEF TakenFirst
    <2> HIDE DEF v
    <2>4. QED BY <2>2, <2>3 DEF SumsOf
  <1>3. PICK h : SumsOf(v, S, h)
    BY SumsExist
  <1>4. Sums(h)
    <2> HIDE DEF v, Sums
    <2>1. QED BY <1>2, <1>3
  <1>5. Sums(CHOOSE g : Sums(g))
    <2> HIDE DEF Sums
    <2>1. QED BY <1>4
  <1>6. SumsOf(v, S, CHOOSE g : Sums(g))
    <2> HIDE DEF Sums, v
    <2>1. QED BY <1>2, <1>5
  <1>7. QED
    <2> HIDE DEF Sums
    <2>1. QED BY <1>1, <1>6

\* No orders have no credits.
LEMMA NoCredits == ASSUME NEW p PROVE CreditsOf(p, {}) = 0
  <1>1. IsFiniteSet({})
    BY FS_EmptySet
  <1>2. PICK g : SumsOf([o \in {} |-> p[o].credits], {}, g) /\ CreditsOf(p, {}) = g[{}]
    BY <1>1, CreditsAreSums
  <1>3. QED BY <1>2 DEF SumsOf

\* One more order adds its credits.
LEMMA CreditsAdd ==
  ASSUME NEW p, NEW q, NEW S, IsFiniteSet(S), NEW o, o \notin S,
         \A x \in S : p[x].credits = q[x].credits, \A x \in S \cup {o} : q[x].credits \in Int
  PROVE  CreditsOf(q, S \cup {o}) = CreditsOf(p, S) + q[o].credits /\ CreditsOf(p, S) \in Int
  <1> DEFINE T == S \cup {o}
             v == [x \in S |-> p[x].credits]
             w == [x \in T |-> q[x].credits]
  <1>1. IsFiniteSet(T)
    BY FS_AddElement
  <1>2. PICK g : SumsOf(v, S, g) /\ CreditsOf(p, S) = g[S]
    BY CreditsAreSums
  <1>3. PICK h : SumsOf(w, T, h) /\ CreditsOf(q, T) = h[T]
    BY <1>1, CreditsAreSums
  <1>4. \A x \in T : w[x] \in Int
    OBVIOUS
  <1>5. \A x \in S \cap T : v[x] = w[x]
    OBVIOUS
  <1>6. S \subseteq S \cap T /\ T \ {o} = S /\ w[o] = q[o].credits /\ o \in T /\ S \in SUBSET T
    OBVIOUS
  <1> HIDE DEF T, v, w
  <1>7. g[S] = h[S]
    BY <1>2, <1>3, <1>5, <1>6, SumsAgree
  <1>8. \A s \in SUBSET T : h[s] \in Int
    BY <1>1, <1>3, <1>4, SumsInt
  <1>9. h[T] = w[o] + h[S]
    BY <1>1, <1>3, <1>4, <1>6, <1>8, SumsTake
  <1>10. h[S] \in Int /\ w[o] \in Int
    BY <1>4, <1>6, <1>8
  <1>11. h[T] = h[S] + q[o].credits
    BY <1>6, <1>9, <1>10
  <1>12. QED BY <1>2, <1>3, <1>7, <1>10, <1>11 DEF T

\* Orders whose credits are as before have the same credits together.
LEMMA CreditsSame ==
  ASSUME NEW p, NEW q, NEW S, IsFiniteSet(S), \A x \in S : p[x].credits = q[x].credits
  PROVE  CreditsOf(p, S) = CreditsOf(q, S)
  <1> DEFINE v == [x \in S |-> p[x].credits]
             w == [x \in S |-> q[x].credits]
  <1>1. v = w
    OBVIOUS
  <1>2. PICK g : SumsOf(v, S, g) /\ CreditsOf(p, S) = g[S]
    BY CreditsAreSums
  <1>3. PICK h : SumsOf(w, S, h) /\ CreditsOf(q, S) = h[S]
    BY CreditsAreSums
  <1> HIDE DEF v, w
  <1>4. g[S] = h[S]
    BY <1>1, <1>2, <1>3, SumsAgree
  <1>5. QED BY <1>2, <1>3, <1>4

\* A finite set of numbers that is not empty has a greatest one.
LEMMA GreatestOfFinite ==
  ASSUME NEW S, IsFiniteSet(S), S \subseteq Int, S # {}
  PROVE  \E x \in S : \A y \in S : y <= x
  <1> DEFINE Topped(s) == \E x \in s : \A y \in s : y <= x
             F == {s \in SUBSET S : s # {} /\ ~Topped(s)}
  <1> SUFFICES ASSUME F # {} PROVE FALSE
    OBVIOUS
  <1>1. PICK s \in F : \A t \in F : Cardinality(s) <= Cardinality(t)
    <2>1. F \subseteq SUBSET S
      OBVIOUS
    <2> HIDE DEF F
    <2>2. QED BY <2>1, SmallestSubset
  <1>2. s \subseteq S /\ s # {} /\ ~Topped(s) /\ IsFiniteSet(s)
    BY FS_Subset
  <1>3. PICK x \in s : TRUE
    BY <1>2
  <1>4. /\ Cardinality(s \ {x}) < Cardinality(s)
        /\ Cardinality(s) \in Nat /\ Cardinality(s \ {x}) \in Nat
    BY <1>2, SmallerWithout
  <1>5. s \ {x} \notin F
    <2>1. SUFFICES ASSUME s \ {x} \in F PROVE FALSE
      OBVIOUS
    <2> HIDE DEF F
    <2>2. Cardinality(s) <= Cardinality(s \ {x})
      BY <1>1, <2>1
    <2>3. QED BY <1>4, <2>2
  <1>6. s \ {x} # {}
    <2>1. x <= x
      BY <1>2
    <2>2. s = {x} => Topped(s)
      BY <2>1
    <2>3. QED BY <1>2, <1>3, <2>2
  <1>7. PICK z \in s \ {x} : \A y \in s \ {x} : y <= z
    BY <1>2, <1>5, <1>6
  <1>8. x \in Int /\ z \in Int /\ \A y \in s : y \in Int
    BY <1>2
  <1>9. CASE x <= z
    <2>1. \A y \in s : y <= z
      BY <1>7, <1>9
    <2>2. QED BY <1>2, <2>1
  <1>10. CASE z <= x
    <2>1. \A y \in s : y <= x
      BY <1>7, <1>8, <1>10
    <2>2. QED BY <1>2, <2>1
  <1>11. QED BY <1>8, <1>9, <1>10

\* What the first n entries of h add up to.
SumUpTo(h, n) == MapThenSumSet(LAMBDA i : h[i], 1 .. n)

LEMMA SumsUpTo ==
  ASSUME NEW h, NEW n \in Nat
  PROVE  \E g : SumsOf(h, 1 .. n, g) /\ SumUpTo(h, n) = g[1 .. n]
  <1> DEFINE Sums(g) == g = [s \in SUBSET (1 .. n) |->
                               IF s = {} THEN 0
                               ELSE h[CHOOSE x \in s : TRUE]
                                    + g[s \ {CHOOSE x \in s : TRUE}]]
  <1>1. SumUpTo(h, n) = (CHOOSE g : Sums(g))[1 .. n]
    BY DEF SumUpTo, MapThenSumSet, MapThenFoldSet
  <1>2. ASSUME NEW g PROVE SumsOf(h, 1 .. n, g) <=> Sums(g)
    BY DEF SumsOf, TakenFirst
  <1>3. PICK k : SumsOf(h, 1 .. n, k)
    <2>1. IsFiniteSet(1 .. n)
      BY FS_Interval
    <2>2. QED BY <2>1, SumsExist
  <1>4. Sums(k)
    <2> HIDE DEF Sums
    <2>1. QED BY <1>2, <1>3
  <1>5. Sums(CHOOSE g : Sums(g))
    <2> HIDE DEF Sums
    <2>1. QED BY <1>4
  <1>6. SumsOf(h, 1 .. n, CHOOSE g : Sums(g))
    <2> HIDE DEF Sums
    <2>1. QED BY <1>2, <1>5
  <1>7. QED
    <2> HIDE DEF Sums
    <2>1. QED BY <1>1, <1>6

LEMMA SumUpToNone == ASSUME NEW h PROVE SumUpTo(h, 0) = 0
  <1>1. PICK g : SumsOf(h, 1 .. 0, g) /\ SumUpTo(h, 0) = g[1 .. 0]
    BY SumsUpTo
  <1>2. 1 .. 0 = {}
    OBVIOUS
  <1>3. QED BY <1>1, <1>2 DEF SumsOf

\* The next entry adds to it, and the entries after it do not matter.
LEMMA SumUpToNext ==
  ASSUME NEW n \in Nat, NEW h, NEW k, \A i \in 1 .. n : h[i] = k[i],
         \A i \in 1 .. n + 1 : k[i] \in Int
  PROVE  SumUpTo(k, n + 1) = SumUpTo(h, n) + k[n + 1] /\ SumUpTo(h, n) \in Int
  <1> DEFINE S == 1 .. n
             T == 1 .. n + 1
  <1>1. S \in SUBSET T /\ T \ {n + 1} = S /\ n + 1 \in T /\ S \subseteq S \cap T
    OBVIOUS
  <1>2. IsFiniteSet(S) /\ IsFiniteSet(T)
    BY FS_Interval
  <1>3. PICK g : SumsOf(h, S, g) /\ SumUpTo(h, n) = g[S]
    BY SumsUpTo
  <1>4. PICK f : SumsOf(k, T, f) /\ SumUpTo(k, n + 1) = f[T]
    <2>1. n + 1 \in Nat
      OBVIOUS
    <2>2. QED BY <2>1, SumsUpTo
  <1>5. \A i \in T : k[i] \in Int
    OBVIOUS
  <1>6. \A i \in S \cap T : h[i] = k[i]
    OBVIOUS
  <1> HIDE DEF S, T
  <1>7. g[S] = f[S]
    BY <1>1, <1>2, <1>3, <1>4, <1>6, SumsAgree
  <1>8. \A s \in SUBSET T : f[s] \in Int
    BY <1>2, <1>4, <1>5, SumsInt
  <1>9. f[T] = k[n + 1] + f[S]
    BY <1>1, <1>2, <1>4, <1>5, <1>8, SumsTake
  <1>10. f[S] \in Int /\ k[n + 1] \in Int
    BY <1>1, <1>5, <1>8
  <1>11. QED BY <1>3, <1>4, <1>7, <1>9, <1>10

\* Sums of natural numbers are natural numbers and grow.
LEMMA SumUpToGrows ==
  ASSUME NEW m \in Nat, NEW h \in [1 .. m -> Nat]
  PROVE  /\ \A n \in 0 .. m : SumUpTo(h, n) \in Nat
         /\ \A n \in 0 .. m : n < m =>
              SumUpTo(h, n + 1) = SumUpTo(h, n) + h[n + 1] /\ h[n + 1] \in Nat
         /\ \A i, j \in 0 .. m : i <= j => SumUpTo(h, i) <= SumUpTo(h, j)
  <1>1. ASSUME NEW n \in Nat, n < m
        PROVE  SumUpTo(h, n + 1) = SumUpTo(h, n) + h[n + 1] /\ h[n + 1] \in Nat
    <2>1. n + 1 \in 1 .. m /\ \A i \in 1 .. n + 1 : i \in 1 .. m
      BY <1>1
    <2>2. \A i \in 1 .. n + 1 : h[i] \in Int
      BY <2>1
    <2>3. SumUpTo(h, n + 1) = SumUpTo(h, n) + h[n + 1]
      BY <2>2, SumUpToNext
    <2>4. QED BY <2>1, <2>3
  <1>2. ASSUME NEW n \in 0 .. m PROVE SumUpTo(h, n) \in Nat
    <2> DEFINE T == {j \in 0 .. m : SumUpTo(h, j) \notin Nat}
    <2> SUFFICES ASSUME T # {} PROVE FALSE
      OBVIOUS
    <2>1. PICK j \in T : \A i \in T : j <= i
      <3>1. T \subseteq Nat
        OBVIOUS
      <3> HIDE DEF T
      <3>2. QED BY <3>1, LeastNumber
    <2>2. j \in 0 .. m /\ SumUpTo(h, j) \notin Nat
      OBVIOUS
    <2>3. j # 0
      BY <2>2, SumUpToNone
    <2>4. PICK i \in Nat : j = i + 1 /\ i < m /\ i \in 0 .. m
      <3>1. j - 1 \in Nat /\ j = (j - 1) + 1 /\ j - 1 < m /\ j - 1 \in 0 .. m
        BY <2>2, <2>3
      <3>2. QED BY <3>1
    <2>5. SumUpTo(h, i) \in Nat
      BY <2>1, <2>4
    <2>6. QED BY <1>1, <2>2, <2>4, <2>5
  <1>3. ASSUME NEW i \in 0 .. m, NEW j \in 0 .. m, i <= j
        PROVE  SumUpTo(h, i) <= SumUpTo(h, j)
    <2> DEFINE T == {n \in 0 .. m : i <= n /\ ~(SumUpTo(h, i) <= SumUpTo(h, n))}
    <2> SUFFICES ASSUME T # {} PROVE FALSE
      BY <1>3
    <2>1. PICK n \in T : \A l \in T : n <= l
      <3>1. T \subseteq Nat
        OBVIOUS
      <3> HIDE DEF T
      <3>2. QED BY <3>1, LeastNumber
    <2>2. n \in 0 .. m /\ i <= n /\ ~(SumUpTo(h, i) <= SumUpTo(h, n))
      OBVIOUS
    <2>3. SumUpTo(h, i) \in Nat /\ SumUpTo(h, n) \in Nat
      BY <1>2, <2>2
    <2>4. n # i
      BY <2>2, <2>3
    <2>5. PICK l \in Nat : n = l + 1 /\ l < m /\ l \in 0 .. m /\ i <= l
      <3>1. n - 1 \in Nat /\ n = (n - 1) + 1 /\ n - 1 < m /\ n - 1 \in 0 .. m /\ i <= n - 1
        BY <2>2, <2>4
      <3>2. QED BY <3>1
    <2>6. SumUpTo(h, i) <= SumUpTo(h, l) /\ SumUpTo(h, l) \in Nat
      BY <1>2, <2>1, <2>5
    <2>7. SumUpTo(h, n) = SumUpTo(h, l) + h[n] /\ h[n] \in Nat
      BY <1>1, <2>5
    <2>8. QED BY <2>2, <2>3, <2>6, <2>7
  <1>4. QED
    <2>1. \A n \in 0 .. m : n \in Nat
      OBVIOUS
    <2>2. QED BY <1>1, <1>2, <1>3, <2>1

\* A first entry that is one more makes every sum one more.
LEMMA SumUpToRaised ==
  ASSUME NEW m \in Nat, NEW h \in [1 .. m -> Nat], NEW k \in [1 .. m -> Nat], 1 <= m,
         k[1] = h[1] + 1, \A i \in 2 .. m : k[i] = h[i], NEW n \in 1 .. m
  PROVE  SumUpTo(k, n) = SumUpTo(h, n) + 1
  <1> DEFINE Raised(i) == SumUpTo(k, i) = SumUpTo(h, i) + 1
             T == {i \in 1 .. m : ~Raised(i)}
  <1> SUFFICES ASSUME T # {} PROVE FALSE
    OBVIOUS
  <1>1. Raised(1)
    <2>1. 0 \in 0 .. m /\ 0 < m /\ 0 + 1 = 1 /\ 1 \in 1 .. m
      OBVIOUS
    <2>2. SumUpTo(k, 0) = 0 /\ SumUpTo(h, 0) = 0
      BY SumUpToNone
    <2>3. /\ SumUpTo(k, 0 + 1) = SumUpTo(k, 0) + k[0 + 1]
          /\ SumUpTo(h, 0 + 1) = SumUpTo(h, 0) + h[0 + 1]
      BY <2>1, SumUpToGrows
    <2>4. h[1] \in Nat
      BY <2>1
    <2>5. QED BY <2>1, <2>2, <2>3, <2>4
  <1> HIDE DEF Raised
  <1>2. PICK i \in T : \A j \in T : i <= j
    <2>1. T \subseteq Nat
      OBVIOUS
    <2> HIDE DEF T
    <2>2. QED BY <2>1, LeastNumber
  <1>3. i \in 1 .. m /\ i # 1 /\ ~Raised(i)
    BY <1>1
  <1>4. PICK e \in Nat : i = e + 1 /\ e < m /\ e \in 0 .. m /\ e \in 1 .. m /\ i \in 2 .. m
    <2>1. /\ i - 1 \in Nat /\ i = (i - 1) + 1 /\ i - 1 < m /\ i - 1 \in 0 .. m
          /\ i - 1 \in 1 .. m /\ i \in 2 .. m
      BY <1>3
    <2>2. QED BY <2>1
  <1>5. Raised(e)
    BY <1>2, <1>4
  <1>6. SumUpTo(k, e + 1) = SumUpTo(k, e) + k[e + 1]
    BY <1>4, SumUpToGrows
  <1>7. /\ SumUpTo(h, e + 1) = SumUpTo(h, e) + h[e + 1] /\ h[e + 1] \in Nat
        /\ SumUpTo(h, e) \in Nat
    BY <1>4, SumUpToGrows
  <1>8. k[e + 1] = h[e + 1]
    BY <1>4
  <1>9. QED BY <1>3, <1>4, <1>5, <1>6, <1>7, <1>8 DEF Raised

\* Entries that all come one later give the same sums one later.
LEMMA SumUpToLater ==
  ASSUME NEW m \in Nat, NEW h \in [1 .. m -> Nat], NEW k \in [1 .. m -> Nat], 1 <= m,
         k[1] = 0, \A i \in 2 .. m : k[i] = h[i - 1], NEW n \in 0 .. m, n < m
  PROVE  SumUpTo(k, n + 1) = SumUpTo(h, n)
  <1> DEFINE Later(i) == SumUpTo(k, i + 1) = SumUpTo(h, i)
             T == {i \in 0 .. m : i < m /\ ~Later(i)}
  <1> SUFFICES ASSUME T # {} PROVE FALSE
    OBVIOUS
  <1>1. Later(0)
    <2>1. 0 \in 0 .. m /\ 0 < m /\ 0 + 1 = 1
      OBVIOUS
    <2>2. SumUpTo(k, 0) = 0 /\ SumUpTo(h, 0) = 0
      BY SumUpToNone
    <2>3. SumUpTo(k, 0 + 1) = SumUpTo(k, 0) + k[0 + 1]
      BY <2>1, SumUpToGrows
    <2>4. QED BY <2>1, <2>2, <2>3
  <1> HIDE DEF Later
  <1>2. PICK i \in T : \A j \in T : i <= j
    <2>1. T \subseteq Nat
      OBVIOUS
    <2> HIDE DEF T
    <2>2. QED BY <2>1, LeastNumber
  <1>3. i \in 0 .. m /\ i < m /\ i # 0 /\ ~Later(i)
    BY <1>1
  <1>4. PICK e \in Nat : i = e + 1 /\ e < m /\ e \in 0 .. m /\ i \in 1 .. m
    <2>1. i - 1 \in Nat /\ i = (i - 1) + 1 /\ i - 1 < m /\ i - 1 \in 0 .. m /\ i \in 1 .. m
      BY <1>3
    <2>2. QED BY <2>1
  <1>5. Later(e)
    BY <1>2, <1>3, <1>4
  <1>6. SumUpTo(k, i + 1) = SumUpTo(k, i) + k[i + 1]
    BY <1>3, SumUpToGrows
  <1>7. SumUpTo(h, e + 1) = SumUpTo(h, e) + h[e + 1]
    BY <1>4, SumUpToGrows
  <1>8. k[i + 1] = h[i]
    <2>1. PICK j \in 2 .. m : j = i + 1 /\ j - 1 = i
      <3>1. i + 1 \in 2 .. m /\ (i + 1) - 1 = i
        BY <1>3
      <3>2. QED BY <3>1
    <2>2. QED BY <2>1
  <1>9. QED BY <1>3, <1>4, <1>5, <1>6, <1>7, <1>8 DEF Later

LEMMA SumUpToZero ==
  ASSUME NEW m \in Nat, NEW n \in 0 .. m
  PROVE  SumUpTo([i \in 1 .. m |-> 0], n) = 0
  <1> DEFINE h == [i \in 1 .. m |-> 0]
             T == {j \in 0 .. m : SumUpTo(h, j) # 0}
  <1>1. h \in [1 .. m -> Nat] /\ \A i \in 1 .. m : h[i] = 0
    OBVIOUS
  <1> HIDE DEF h
  <1> SUFFICES ASSUME T # {} PROVE FALSE
    BY DEF h
  <1>2. PICK j \in T : \A i \in T : j <= i
    <2>1. T \subseteq Nat
      OBVIOUS
    <2> HIDE DEF T
    <2>2. QED BY <2>1, LeastNumber
  <1>3. j \in 0 .. m /\ SumUpTo(h, j) # 0 /\ j # 0
    BY SumUpToNone
  <1>4. PICK i \in Nat : j = i + 1 /\ i < m /\ i \in 0 .. m
    <2>1. j - 1 \in Nat /\ j = (j - 1) + 1 /\ j - 1 < m /\ j - 1 \in 0 .. m
      BY <1>3
    <2>2. QED BY <2>1
  <1>5. SumUpTo(h, i) = 0
    BY <1>2, <1>4
  <1>6. SumUpTo(h, j) = SumUpTo(h, i) + h[j] /\ j \in 1 .. m
    BY <1>1, <1>3, <1>4, SumUpToGrows
  <1>7. QED BY <1>1, <1>3, <1>5, <1>6
===============================================================================
