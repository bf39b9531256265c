--------------------------- MODULE OrderingProofs ---------------------------
(***************************************************************************)
(* Lemmas about what the models are built from: finite sets put in order,  *)
(* rankings and what is selected from them, and sums over finite sets,     *)
(* with the induction they rest on.                                        *)
(***************************************************************************)
EXTENDS Ordering, SequencesExt, SequenceTheorems, FiniteSetTheorems, FunctionTheorems,
        WellFoundedInduction, NaturalsInduction, TLAPS

-----------------------------------------------------------------------------
(***************************************************************************)
(* Induction over a finite set, by a least counterexample                  *)
(***************************************************************************)

\* A set of numbers that is not empty has a least one.
LEMMA LeastNumber ==
  ASSUME NEW T, T \subseteq Nat, T # {}
  PROVE  \E n \in T : \A m \in T : n <= m
<1> DEFINE R == OpToRel(<, Nat)
<1>1. R = {pair \in Nat \X Nat : pair[1] < pair[2]}
  BY DEF OpToRel
<1>2. IsWellFoundedOn(R, Nat)
  BY NatLessThanWellFounded
<1> HIDE DEF R
<1>3. \E n \in T : \A m \in T : <<m, n>> \notin R
  BY <1>2, WFMin
<1>4. \A m, n \in Nat : <<m, n>> \notin R => n <= m
  <2> SUFFICES ASSUME NEW m \in Nat, NEW n \in Nat, m < n PROVE <<m, n>> \in R
    OBVIOUS
  <2>1. <<m, n>> \in Nat \X Nat /\ <<m, n>>[1] < <<m, n>>[2]
    OBVIOUS
  <2> QED BY <1>1, <2>1
<1> QED BY <1>3, <1>4

Some(s) == CHOOSE x \in s : TRUE

Adds(g, w, S) ==
  g = [s \in SUBSET S |-> IF s = {} THEN 0 ELSE LET x == Some(s) IN w[x] + g[s \ {x}]]

LEMMA Unfolds ==
  ASSUME NEW w, NEW S
  PROVE  SumFunctionOnSet(w, S) = (CHOOSE g : Adds(g, w, S))[S]
BY DEF SumFunctionOnSet, FoldFunctionOnSet, MapThenFoldSet, Adds, Some

LEMMA SomeIsIn ==
  ASSUME NEW s, s # {}
  PROVE  Some(s) \in s
BY DEF Some

\* One set less is one element less.
LEMMA OneLess ==
  ASSUME NEW s, IsFiniteSet(s), NEW x \in s
  PROVE  /\ IsFiniteSet(s \ {x})
         /\ Cardinality(s) \in Nat /\ Cardinality(s \ {x}) = Cardinality(s) - 1
         /\ Cardinality(s \ {x}) \in Nat
<1> s # {}
  OBVIOUS
<1> QED BY FS_RemoveElement, FS_CardinalityType

\* Two ways to add up agree where they both do.
LEMMA AddsOneWay ==
  ASSUME NEW w, NEW g, NEW S, Adds(g, w, S), NEW h, NEW R, Adds(h, w, R),
         NEW s, s \subseteq S, s \subseteq R, IsFiniteSet(s)
  PROVE  g[s] = h[s]
<1> DEFINE T == {Cardinality(t) : t \in {t \in SUBSET s : g[t] # h[t]}}
<1>1. SUFFICES ASSUME T # {} PROVE FALSE
  OBVIOUS
<1>2. T \subseteq Nat
  BY FS_Subset, FS_CardinalityType
<1> HIDE DEF T
<1>3. PICK n \in T : \A m \in T : n <= m
  BY <1>1, <1>2, LeastNumber
<1>4. PICK t \in SUBSET s : g[t] # h[t] /\ n = Cardinality(t)
  BY DEF T
<1>5. t # {}
  BY <1>4 DEF Adds
<1> DEFINE x == Some(t)
<1>6. x \in t
  BY <1>5, SomeIsIn
<1>7. g[t] = w[x] + g[t \ {x}] /\ h[t] = w[x] + h[t \ {x}]
  BY <1>5 DEF Adds
<1>8. g[t \ {x}] # h[t \ {x}]
  BY <1>4, <1>7
<1>9. IsFiniteSet(t)
  BY FS_Subset
<1>10. n \in Nat /\ Cardinality(t \ {x}) = n - 1
  BY <1>2, <1>4, <1>6, <1>9, OneLess
<1>11. Cardinality(t \ {x}) \in T
  <2>1. t \ {x} \in SUBSET s
    OBVIOUS
  <2> QED BY <1>8, <2>1 DEF T
<1> QED BY <1>3, <1>10, <1>11

\* Some way to add up exists.
LEMMA AddsSomeWay ==
  ASSUME NEW w, NEW S, IsFiniteSet(S)
  PROVE  \E g : Adds(g, w, S)
<1> DEFINE T == {Cardinality(t) : t \in {t \in SUBSET S : ~ \E g : Adds(g, w, t)}}
<1>1. SUFFICES ASSUME T # {} PROVE FALSE
  OBVIOUS
<1>2. T \subseteq Nat
  BY FS_Subset, FS_CardinalityType
<1> HIDE DEF T
<1>3. PICK n \in T : \A m \in T : n <= m
  BY <1>1, <1>2, LeastNumber
<1>4. PICK R \in SUBSET S : (~ \E g : Adds(g, w, R)) /\ n = Cardinality(R)
  BY DEF T
<1>5. IsFiniteSet(R)
  BY FS_Subset
<1> DEFINE G(t) == CHOOSE g : Adds(g, w, t)
           V(t) == IF t = {} THEN 0 ELSE LET x == Some(t) IN w[x] + G(t \ {x})[t \ {x}]
           g == [t \in SUBSET R |-> V(t)]
<1>6. ASSUME NEW t \in SUBSET R, t # R PROVE Adds(G(t), w, t)
  <2>1. IsFiniteSet(t) /\ Cardinality(t) < Cardinality(R)
    BY <1>5, <1>6, FS_Subset, FS_CardinalityType
  <2>2. Cardinality(t) \notin T
    BY <1>2, <1>3, <1>4, <2>1, FS_CardinalityType
  <2>3. \E h : Adds(h, w, t)
    BY <2>2 DEF T
  <2> QED BY <2>3
<1>7. ASSUME NEW t \in SUBSET R, t # R PROVE G(t)[t] = V(t)
  <2>1. Adds(G(t), w, t)
    BY <1>6, <1>7
  <2>2. CASE t = {}
    BY <2>1, <2>2 DEF Adds
  <2>3. CASE t # {}
    <3> DEFINE x == Some(t)
    <3>1. x \in t
      BY <2>3, SomeIsIn
    <3>2. G(t)[t] = w[x] + G(t)[t \ {x}]
      BY <2>1, <2>3 DEF Adds
    <3>3. Adds(G(t \ {x}), w, t \ {x})
      BY <1>6, <3>1
    <3>4. IsFiniteSet(t \ {x})
      BY <1>5, FS_Subset
    <3> HIDE DEF G
    <3>5. G(t)[t \ {x}] = G(t \ {x})[t \ {x}]
      BY <2>1, <3>3, <3>4, AddsOneWay
    <3> QED BY <2>3, <3>2, <3>5
  <2> QED BY <2>2, <2>3
<1>8. ASSUME NEW t \in SUBSET R, t # {}
      PROVE  g[t] = w[Some(t)] + g[t \ {Some(t)}]
  <2> DEFINE x == Some(t)
  <2>1. x \in t
    BY <1>8, SomeIsIn
  <2>2. t \ {x} \in SUBSET R /\ t \ {x} # R
    BY <2>1
  <2> HIDE DEF G
  <2>3. g[t \ {x}] = G(t \ {x})[t \ {x}]
    <3> HIDE DEF V, x
    <3> QED BY <1>7, <2>2
  <2> QED BY <1>8, <2>3
<1>9. g[{}] = 0
  OBVIOUS
<1>10. Adds(g, w, R)
  <2> DEFINE W == [s \in SUBSET R |-> IF s = {} THEN 0 ELSE LET x == Some(s) IN w[x] + g[s \ {x}]]
  <2>1. \A s \in SUBSET R : g[s] = W[s]
    <3> HIDE DEF g
    <3> QED BY <1>8, <1>9
  <2>2. g = [s \in SUBSET R |-> g[s]] /\ W = [s \in SUBSET R |-> W[s]]
    OBVIOUS
  <2>3. g = W
    <3> HIDE DEF g, W
    <3> QED BY <2>1, <2>2
  <2> HIDE DEF g
  <2> QED BY <2>3 DEF Adds
<1> QED BY <1>4, <1>10

\* Adding up takes one number after the other.
LEMMA SumUnfolds ==
  ASSUME NEW w, NEW S, IsFiniteSet(S)
  PROVE  /\ SumFunctionOnSet(w, {}) = 0
         /\ S # {} => SumFunctionOnSet(w, S) = w[Some(S)] + SumFunctionOnSet(w, S \ {Some(S)})
<1> DEFINE G(t) == CHOOSE g : Adds(g, w, t)
<1>1. \A t : SumFunctionOnSet(w, t) = G(t)[t]
  BY Unfolds
<1>2. ASSUME NEW t, IsFiniteSet(t) PROVE Adds(G(t), w, t)
  <2>1. \E g : Adds(g, w, t)
    BY <1>2, AddsSomeWay
  <2> QED BY <2>1
<1> HIDE DEF G
<1>3. SumFunctionOnSet(w, {}) = 0
  <2>1. Adds(G({}), w, {})
    BY <1>2, FS_EmptySet
  <2> QED BY <1>1, <2>1 DEF Adds
<1>4. ASSUME S # {}
      PROVE  SumFunctionOnSet(w, S) = w[Some(S)] + SumFunctionOnSet(w, S \ {Some(S)})
  <2> DEFINE x == Some(S)
             R == S \ {x}
  <2>1. IsFiniteSet(R)
    BY FS_Subset
  <2>2. Adds(G(S), w, S) /\ Adds(G(R), w, R)
    BY <1>2, <2>1
  <2>3. G(S)[S] = w[x] + G(S)[R]
    BY <1>4, <2>2 DEF Adds
  <2>4. G(S)[R] = G(R)[R]
    BY <2>1, <2>2, AddsOneWay
  <2> QED BY <1>1, <2>3, <2>4
<1> QED BY <1>3, <1>4

\* Induction over a finite set: what holds of the empty set, and of a set when
\* it holds of it without some element, holds of all of it.
LEMMA SetInduction ==
  ASSUME NEW S, IsFiniteSet(S), NEW F, {} \in F,
         \A t \in SUBSET S : t # {} /\ t \ {Some(t)} \in F => t \in F
  PROVE  S \in F
<1> DEFINE T == {Cardinality(t) : t \in (SUBSET S) \ F}
<1>1. SUFFICES ASSUME S \notin F PROVE FALSE
  OBVIOUS
<1>2. T \subseteq Nat /\ T # {}
  BY <1>1, FS_Subset, FS_CardinalityType
<1> HIDE DEF T
<1>3. PICK n \in T : \A m \in T : n <= m
  BY <1>2, LeastNumber
<1>4. PICK t \in (SUBSET S) \ F : n = Cardinality(t)
  BY DEF T
<1> DEFINE x == Some(t)
<1>5. x \in t /\ IsFiniteSet(t)
  BY <1>4, SomeIsIn, FS_Subset
<1>6. n \in Nat /\ Cardinality(t \ {x}) = n - 1
  BY <1>2, <1>4, <1>5, OneLess
<1>7. t \ {x} \in (SUBSET S) \ F
  BY <1>4, <1>5
<1>8. Cardinality(t \ {x}) \in T
  BY <1>7 DEF T
<1> QED BY <1>3, <1>6, <1>8

\* A sum of whole numbers is one.
LEMMA SumType ==
  ASSUME NEW w, NEW S, IsFiniteSet(S), \A x \in S : w[x] \in Int
  PROVE  SumFunctionOnSet(w, S) \in Int
<1> DEFINE F == {t \in SUBSET S : SumFunctionOnSet(w, t) \in Int}
<1>1. {} \in F
  <2>1. SumFunctionOnSet(w, {}) = 0
    BY SumUnfolds
  <2> QED BY <2>1
<1>2. ASSUME NEW t \in SUBSET S, t # {}, t \ {Some(t)} \in F PROVE t \in F
  <2>1. w[Some(t)] \in Int
    BY <1>2, SomeIsIn
  <2>2. SumFunctionOnSet(w, t) = w[Some(t)] + SumFunctionOnSet(w, t \ {Some(t)})
    BY <1>2, SumUnfolds, FS_Subset
  <2> QED BY <1>2, <2>1, <2>2
<1> HIDE DEF F
<1>3. S \in F
  BY <1>1, <1>2, SetInduction
<1> QED BY <1>3 DEF F

\* Any of the numbers can be taken first.
LEMMA SumStep ==
  ASSUME NEW w, NEW S, IsFiniteSet(S), \A x \in S : w[x] \in Int, NEW y \in S
  PROVE  SumFunctionOnSet(w, S) = w[y] + SumFunctionOnSet(w, S \ {y})
<1> DEFINE Off(t) == {z \in t : SumFunctionOnSet(w, t) # w[z] + SumFunctionOnSet(w, t \ {z})}
           T == {Cardinality(t) : t \in {t \in SUBSET S : Off(t) # {}}}
<1>1. SUFFICES ASSUME T # {} PROVE FALSE
  BY DEF Off
<1>2. T \subseteq Nat
  BY FS_Subset, FS_CardinalityType
<1> HIDE DEF T
<1>3. PICK n \in T : \A m \in T : n <= m
  BY <1>1, <1>2, LeastNumber
<1>4. PICK t \in SUBSET S : Off(t) # {} /\ n = Cardinality(t)
  BY DEF T
<1>5. PICK z \in t : SumFunctionOnSet(w, t) # w[z] + SumFunctionOnSet(w, t \ {z})
  BY <1>4
<1> DEFINE x == Some(t)
<1>6. x \in t /\ IsFiniteSet(t)
  BY SomeIsIn, FS_Subset
<1>7. SumFunctionOnSet(w, t) = w[x] + SumFunctionOnSet(w, t \ {x})
  BY <1>6, SumUnfolds
<1>8. x # z
  BY <1>5, <1>7
<1>9. ASSUME NEW a \in t PROVE Off(t \ {a}) = {}
  <2>1. n \in Nat /\ Cardinality(t \ {a}) = n - 1
    BY <1>2, <1>4, <1>6, OneLess
  <2>2. Cardinality(t \ {a}) \notin T
    BY <1>3, <2>1
  <2>3. t \ {a} \in SUBSET S
    OBVIOUS
  <2> HIDE DEF Off
  <2> QED BY <2>2, <2>3 DEF T
<1>10. SumFunctionOnSet(w, t \ {x}) = w[z] + SumFunctionOnSet(w, (t \ {x}) \ {z})
  BY <1>6, <1>8, <1>9
<1>11. SumFunctionOnSet(w, t \ {z}) = w[x] + SumFunctionOnSet(w, (t \ {z}) \ {x})
  BY <1>6, <1>8, <1>9
<1>12. (t \ {x}) \ {z} = (t \ {z}) \ {x}
  OBVIOUS
<1>13. SumFunctionOnSet(w, (t \ {x}) \ {z}) \in Int /\ w[x] \in Int /\ w[z] \in Int
  <2>1. IsFiniteSet((t \ {x}) \ {z})
    BY <1>6, FS_Subset
  <2> QED BY <1>6, <2>1, SumType
<1>14. w[x] + (w[z] + SumFunctionOnSet(w, (t \ {x}) \ {z})) = w[z] + (w[x] + SumFunctionOnSet(w, (t \ {x}) \ {z}))
  BY <1>13
<1> HIDE DEF x
<1> QED BY <1>5, <1>7, <1>10, <1>11, <1>12, <1>14

\* A set and one of its sums, without the element its adding up takes first.
LEMMA SumFirst ==
  ASSUME NEW S, IsFiniteSet(S), NEW t \in SUBSET S, t # {}
  PROVE  /\ Some(t) \in t
         /\ \A w : SumFunctionOnSet(w, t) = w[Some(t)] + SumFunctionOnSet(w, t \ {Some(t)})
<1>1. IsFiniteSet(t)
  BY FS_Subset
<1> QED BY <1>1, SomeIsIn, SumUnfolds

LEMMA SumOfNone == \A w : SumFunctionOnSet(w, {}) = 0
  BY SumUnfolds, FS_EmptySet

\* Sums are linear, and grow with what is added up.
LEMMA SumLinear ==
  ASSUME NEW S, IsFiniteSet(S), NEW u, NEW v, NEW w, NEW p \in Int, NEW q \in Int,
         \A x \in S : u[x] \in Int /\ v[x] \in Int /\ w[x] = p * u[x] + q * v[x]
  PROVE  SumFunctionOnSet(w, S) = p * SumFunctionOnSet(u, S) + q * SumFunctionOnSet(v, S)
<1> DEFINE F == {t \in SUBSET S : SumFunctionOnSet(w, t) = p * SumFunctionOnSet(u, t) + q * SumFunctionOnSet(v, t)}
<1>1. {} \in F
  BY SumOfNone
<1>2. ASSUME NEW t \in SUBSET S, t # {}, t \ {Some(t)} \in F PROVE t \in F
  <2> DEFINE x == Some(t)
             r == t \ {x}
  <2>1. x \in S /\ r \in SUBSET S
    BY <1>2, SumFirst
  <2>2. SumFunctionOnSet(u, r) \in Int /\ SumFunctionOnSet(v, r) \in Int
    BY <2>1, SumType, FS_Subset
  <2>3. /\ SumFunctionOnSet(u, t) = u[x] + SumFunctionOnSet(u, r)
        /\ SumFunctionOnSet(v, t) = v[x] + SumFunctionOnSet(v, r)
        /\ SumFunctionOnSet(w, t) = w[x] + SumFunctionOnSet(w, r)
    BY <1>2, SumFirst
  <2>4. SumFunctionOnSet(w, r) = p * SumFunctionOnSet(u, r) + q * SumFunctionOnSet(v, r)
    BY <1>2
  <2>5. \A a, b, c, d \in Int : p * a + q * b + (p * c + q * d) = p * (a + c) + q * (b + d)
    OBVIOUS
  <2> QED BY <2>1, <2>2, <2>3, <2>4, <2>5
<1> HIDE DEF F
<1>3. S \in F
  BY <1>1, <1>2, SetInduction
<1> QED BY <1>3 DEF F

LEMMA SumOrder ==
  ASSUME NEW S, IsFiniteSet(S), NEW u, NEW v,
         \A x \in S : u[x] \in Int /\ v[x] \in Int /\ u[x] <= v[x]
  PROVE  SumFunctionOnSet(u, S) <= SumFunctionOnSet(v, S)
<1> DEFINE F == {t \in SUBSET S : SumFunctionOnSet(u, t) <= SumFunctionOnSet(v, t)}
<1>1. {} \in F
  BY SumOfNone
<1>2. ASSUME NEW t \in SUBSET S, t # {}, t \ {Some(t)} \in F PROVE t \in F
  <2> DEFINE x == Some(t)
             r == t \ {x}
  <2>1. x \in S /\ r \in SUBSET S
    BY <1>2, SumFirst
  <2>2. SumFunctionOnSet(u, r) \in Int /\ SumFunctionOnSet(v, r) \in Int
    BY <2>1, SumType, FS_Subset
  <2>3. /\ SumFunctionOnSet(u, t) = u[x] + SumFunctionOnSet(u, r)
        /\ SumFunctionOnSet(v, t) = v[x] + SumFunctionOnSet(v, r)
    BY <1>2, SumFirst
  <2> QED BY <1>2, <2>1, <2>2, <2>3
<1> HIDE DEF F
<1>3. S \in F
  BY <1>1, <1>2, SetInduction
<1> QED BY <1>3 DEF F

\* The same number for every element.
LEMMA SumOfSame ==
  ASSUME NEW S, IsFiniteSet(S), NEW w, NEW c \in Int, \A x \in S : w[x] = c
  PROVE  SumFunctionOnSet(w, S) = c * Cardinality(S)
<1> DEFINE F == {t \in SUBSET S : SumFunctionOnSet(w, t) = c * Cardinality(t)}
<1>1. {} \in F
  BY SumOfNone, FS_EmptySet
<1>2. ASSUME NEW t \in SUBSET S, t # {}, t \ {Some(t)} \in F PROVE t \in F
  <2> DEFINE x == Some(t)
             r == t \ {x}
  <2>1. x \in t /\ w[x] = c /\ SumFunctionOnSet(w, t) = c + SumFunctionOnSet(w, r)
    BY <1>2, SumFirst
  <2>2. Cardinality(r) \in Nat /\ Cardinality(t) = Cardinality(r) + 1
    BY <2>1, OneLess, FS_Subset
  <2>3. SumFunctionOnSet(w, r) = c * Cardinality(r)
    BY <1>2
  <2>4. \A n \in Nat : c + c * n = c * (n + 1)
    OBVIOUS
  <2> QED BY <2>1, <2>2, <2>3, <2>4
<1> HIDE DEF F
<1>3. S \in F
  BY <1>1, <1>2, SetInduction
<1> QED BY <1>3 DEF F

\* A sum of natural numbers is not below any of them, and is above 0 only if
\* one of them is.
LEMMA SumOfNaturals ==
  ASSUME NEW S, IsFiniteSet(S), NEW w, \A x \in S : w[x] \in Nat
  PROVE  /\ SumFunctionOnSet(w, S) \in Nat
         /\ \A x \in S : w[x] <= SumFunctionOnSet(w, S)
         /\ SumFunctionOnSet(w, S) > 0 => \E x \in S : w[x] > 0
<1> DEFINE zero == [x \in S |-> 0]
<1>1. ASSUME NEW t \in SUBSET S PROVE SumFunctionOnSet(w, t) \in Nat
  <2>1. IsFiniteSet(t)
    BY FS_Subset
  <2>2. SumFunctionOnSet(zero, t) = 0 * Cardinality(t) /\ Cardinality(t) \in Nat
    BY <2>1, SumOfSame, FS_CardinalityType
  <2>3. SumFunctionOnSet(zero, t) <= SumFunctionOnSet(w, t)
    BY <2>1, SumOrder
  <2>4. SumFunctionOnSet(w, t) \in Int
    BY <2>1, SumType
  <2> QED BY <2>2, <2>3, <2>4
<1>2. ASSUME NEW x \in S PROVE w[x] <= SumFunctionOnSet(w, S)
  <2>1. SumFunctionOnSet(w, S) = w[x] + SumFunctionOnSet(w, S \ {x})
    BY SumStep
  <2>2. SumFunctionOnSet(w, S \ {x}) \in Nat
    BY <1>1
  <2> QED BY <2>1, <2>2
<1>3. ASSUME \A x \in S : ~(w[x] > 0) PROVE SumFunctionOnSet(w, S) = 0
  <2>1. \A x \in S : w[x] = 0
    BY <1>3
  <2>2. SumFunctionOnSet(w, S) = 0 * Cardinality(S) /\ Cardinality(S) \in Nat
    BY <2>1, SumOfSame, FS_CardinalityType
  <2> QED BY <2>2
<1> QED BY <1>1, <1>2, <1>3

-----------------------------------------------------------------------------
(***************************************************************************)
(* What is put in order                                                    *)
(***************************************************************************)

\* The number of those before an element is its place: no two have the same,
\* and every place is taken.
LEMMA PlacesInOrder ==
  ASSUME NEW S, IsFiniteSet(S), NEW R,
         \A x \in S : <<x, x>> \notin R,
         \A x, y, z \in S : <<x, y>> \in R /\ <<y, z>> \in R => <<x, z>> \in R,
         \A x, y \in S : x # y => <<x, y>> \in R \/ <<y, x>> \in R
  PROVE  /\ Cardinality(S) \in Nat
         /\ \A x \in S : Cardinality({y \in S : <<y, x>> \in R}) \in 0..(Cardinality(S) - 1)
         /\ \A x, y \in S : <<x, y>> \in R =>
              Cardinality({z \in S : <<z, x>> \in R}) < Cardinality({z \in S : <<z, y>> \in R})
         /\ \A k \in 1..Cardinality(S) :
              \E x \in S : Cardinality({y \in S : <<y, x>> \in R}) = k - 1
<1> DEFINE n == Cardinality(S)
           below(x) == {y \in S : <<y, x>> \in R}
<1>1. n \in Nat
  BY FS_CardinalityType
<1>2. \A x \in S : Cardinality(below(x)) \in 0..(n - 1)
  <2> TAKE x \in S
  <2>1. below(x) \in SUBSET S /\ x \notin below(x)
    OBVIOUS
  <2>2. IsFiniteSet(below(x)) /\ Cardinality(below(x)) <= n /\ Cardinality(below(x)) # n
    BY <2>1, FS_Subset
  <2>3. Cardinality(below(x)) \in Nat
    BY <2>2, FS_CardinalityType
  <2> HIDE DEF below, n
  <2> QED BY <1>1, <2>2, <2>3
<1>3. \A x, y \in S : <<x, y>> \in R => Cardinality(below(x)) < Cardinality(below(y))
  <2> SUFFICES ASSUME NEW x \in S, NEW y \in S, <<x, y>> \in R
               PROVE  Cardinality(below(x)) < Cardinality(below(y))
    OBVIOUS
  <2>1. below(x) \in SUBSET below(y) /\ x \in below(y) /\ x \notin below(x)
    OBVIOUS
  <2>2. below(y) \in SUBSET S
    OBVIOUS
  <2>3. IsFiniteSet(below(y))
    BY <2>2, FS_Subset
  <2>4. Cardinality(below(x)) <= Cardinality(below(y)) /\ Cardinality(below(x)) # Cardinality(below(y))
    BY <2>1, <2>3, FS_Subset
  <2>5. Cardinality(below(x)) \in Int /\ Cardinality(below(y)) \in Int
    BY <1>2
  <2> HIDE DEF below
  <2> QED BY <2>4, <2>5
<1>4. \A k \in 1..n : \E x \in S : Cardinality(below(x)) = k - 1
  <2> DEFINE place == [x \in S |-> Cardinality(below(x)) + 1]
  <2>1. place \in [S -> 1..n]
    BY <1>1, <1>2
  <2>2. \A x, y \in S : place[x] = place[y] => x = y
    <3> SUFFICES ASSUME NEW x \in S, NEW y \in S, place[x] = place[y], x # y PROVE FALSE
      OBVIOUS
    <3>1. Cardinality(below(x)) \in Int /\ Cardinality(below(y)) \in Int
      BY <1>2
    <3>2. Cardinality(below(x)) = Cardinality(below(y))
      BY <3>1
    <3>3. Cardinality(below(x)) < Cardinality(below(y)) \/ Cardinality(below(y)) < Cardinality(below(x))
      BY <1>3
    <3> HIDE DEF place
    <3> QED BY <3>1, <3>2, <3>3, SMTT(30)
  <2>3. place \in Injection(S, 1..n)
    BY <2>1, <2>2, Fun_IsInj
  <2>4. IsFiniteSet(1..n) /\ Cardinality(1..n) = n
    BY <1>1, FS_Interval
  <2>5. place \in Surjection(S, 1..n)
    BY <2>3, <2>4, FS_Injection
  <2>6. \A k \in 1..n : \E x \in S : place[x] = k
    <3> HIDE DEF place, n
    <3> QED BY <2>5, Fun_SurjectionProperties
  <2> QED
    <3> SUFFICES ASSUME NEW k \in 1..n PROVE \E x \in S : Cardinality(below(x)) = k - 1
      OBVIOUS
    <3>1. PICK x \in S : place[x] = k
      BY <2>6
    <3>2. Cardinality(below(x)) \in Int /\ Cardinality(below(x)) + 1 = k
      BY <1>2, <3>1
    <3> HIDE DEF below, place
    <3> QED BY <3>2
<1> QED BY <1>1, <1>2, <1>3, <1>4

\* A finite set in a total order is a sequence of all of it in that order.
LEMMA OrderFacts ==
  ASSUME NEW S, IsFiniteSet(S), NEW R,
         \A x \in S : <<x, x>> \notin R,
         \A x, y, z \in S : <<x, y>> \in R /\ <<y, z>> \in R => <<x, z>> \in R,
         \A x, y \in S : x # y => <<x, y>> \in R \/ <<y, x>> \in R
  PROVE  /\ InOrder(S, R) \in Seq(S)
         /\ DOMAIN InOrder(S, R) = 1..Cardinality(S)
         /\ ToSet(InOrder(S, R)) = S
         /\ \A i, j \in DOMAIN InOrder(S, R) :
              <<InOrder(S, R)[i], InOrder(S, R)[j]>> \in R <=> i < j
<1> DEFINE n == Cardinality(S)
           below(x) == Cardinality({y \in S : <<y, x>> \in R})
           pick(k) == CHOOSE x \in S : below(x) = k - 1
           s == [k \in 1..n |-> pick(k)]
<1>1. /\ n \in Nat
      /\ \A x \in S : below(x) \in 0..(n - 1)
      /\ \A x, y \in S : <<x, y>> \in R => below(x) < below(y)
      /\ \A k \in 1..n : \E x \in S : below(x) = k - 1
  BY PlacesInOrder, ZenonT(30)
<1> HIDE DEF n, below
<1>2. \A k \in 1..n : pick(k) \in S /\ below(pick(k)) = k - 1
  <2> TAKE k \in 1..n
  <2> QED BY <1>1, Zenon
<1>3. s \in [1..n -> S] /\ s \in Seq(S)
  BY <1>1, <1>2
<1>4. \A x \in S : \E k \in 1..n : s[k] = x
  <2> TAKE x \in S
  <2>1. below(x) + 1 \in 1..n /\ (below(x) + 1) - 1 = below(x)
    BY <1>1
  <2> DEFINE k == below(x) + 1
  <2>2. s[k] \in S /\ below(s[k]) = below(x)
    BY <1>2, <2>1
  <2>3. s[k] = x
    <3> HIDE DEF s, k
    <3>1. below(x) \in Int /\ below(s[k]) \in Int
      BY <1>1, <2>2
    <3>2. ~(below(x) < below(s[k])) /\ ~(below(s[k]) < below(x))
      BY <2>2, <3>1
    <3>3. <<x, s[k]>> \notin R /\ <<s[k], x>> \notin R
      BY <1>1, <2>2, <3>2
    <3> QED BY <2>2, <3>3
  <2> QED BY <2>1, <2>3
<1>5. \A i, j \in 1..n : <<s[i], s[j]>> \in R => i < j
  <2> SUFFICES ASSUME NEW i \in 1..n, NEW j \in 1..n, <<s[i], s[j]>> \in R PROVE i < j
    OBVIOUS
  <2>1. below(s[i]) = i - 1 /\ below(s[j]) = j - 1 /\ below(s[i]) < below(s[j])
    BY <1>1, <1>2
  <2> HIDE DEF s
  <2> QED BY <1>1, <2>1
<1>6. \A i, j \in 1..n : i < j => <<s[i], s[j]>> \in R
  <2> SUFFICES ASSUME NEW i \in 1..n, NEW j \in 1..n, i < j PROVE <<s[i], s[j]>> \in R
    OBVIOUS
  <2>1. below(s[i]) = i - 1 /\ below(s[j]) = j - 1 /\ s[i] \in S /\ s[j] \in S
    BY <1>2
  <2> HIDE DEF s
  <2>2. s[i] # s[j]
    BY <1>1, <2>1
  <2>3. <<s[j], s[i]>> \notin R
    BY <1>1, <1>5
  <2> QED BY <2>1, <2>2, <2>3
<1>7. InOrder(S, R) = s
  BY DEF InOrder, n, below
<1>8. DOMAIN s = 1..n
  OBVIOUS
<1>9. ToSet(s) = S
  <2> HIDE DEF s, pick
  <2> QED BY <1>3, <1>4, <1>8 DEF ToSet
<1> HIDE DEF s, pick
<1> QED BY <1>3, <1>5, <1>6, <1>7, <1>8, <1>9 DEF n

LEMMA AscendingFacts ==
  ASSUME NEW S \in SUBSET Int, IsFiniteSet(S)
  PROVE  /\ Ascending(S) \in Seq(S) /\ Len(Ascending(S)) = Cardinality(S)
         /\ ToSet(Ascending(S)) = S
         /\ \A i, j \in DOMAIN Ascending(S) : i < j => Ascending(S)[i] < Ascending(S)[j]
<1> DEFINE R == {pair \in S \X S : pair[1] < pair[2]}
<1>1. \A x, y \in S : <<x, y>> \in R <=> x < y
  OBVIOUS
<1>2. /\ \A x \in S : <<x, x>> \notin R
      /\ \A x, y, z \in S : <<x, y>> \in R /\ <<y, z>> \in R => <<x, z>> \in R
      /\ \A x, y \in S : x # y => <<x, y>> \in R \/ <<y, x>> \in R
  <2> HIDE DEF R
  <2> QED BY <1>1
<1>3. Ascending(S) = InOrder(S, R)
  BY DEF Ascending
<1> HIDE DEF R
<1>4. InOrder(S, R) \in Seq(S) /\ DOMAIN InOrder(S, R) = 1..Cardinality(S) /\ ToSet(InOrder(S, R)) = S
  BY <1>2, OrderFacts
<1>5. ASSUME NEW i \in DOMAIN InOrder(S, R), NEW j \in DOMAIN InOrder(S, R), i < j
      PROVE  InOrder(S, R)[i] < InOrder(S, R)[j]
  <2>1. <<InOrder(S, R)[i], InOrder(S, R)[j]>> \in R
    BY <1>2, <1>5, OrderFacts
  <2> DEFINE s == InOrder(S, R)
  <2>2. s[i] \in S /\ s[j] \in S
    <3>1. s \in Seq(S) /\ i \in DOMAIN s /\ j \in DOMAIN s
      BY <1>4
    <3> HIDE DEF s
    <3> QED BY <3>1
  <2> QED BY <1>1, <2>1, <2>2
<1> QED BY <1>3, <1>4, <1>5, FS_CardinalityType

\* What a ranking has of a set is found at ever higher places of the ranking.
LEMMA ThosePlaces ==
  ASSUME NEW D, NEW ranking \in Seq(D), NEW set
  PROVE  \E places \in Seq(DOMAIN ranking) :
           /\ Those(ranking, set) = [k \in DOMAIN places |-> ranking[places[k]]]
           /\ \A i, j \in DOMAIN places : i < j => places[i] < places[j]
           /\ ToSet(places) = {i \in DOMAIN ranking : ranking[i] \in set}
<1> DEFINE kept == {i \in DOMAIN ranking : ranking[i] \in set}
           places == Ascending(kept)
<1>1. Len(ranking) \in Nat /\ DOMAIN ranking = 1..Len(ranking)
  OBVIOUS
<1>2. IsFiniteSet(1..Len(ranking)) /\ kept \in SUBSET (1..Len(ranking)) /\ kept \in SUBSET Int
  BY <1>1, FS_Interval
<1>3. IsFiniteSet(kept)
  BY <1>2, FS_Subset
<1>4. Those(ranking, set) = [k \in DOMAIN places |-> ranking[places[k]]]
  BY DEF Those
<1>5. /\ places \in Seq(kept) /\ ToSet(places) = kept
      /\ \A i, j \in DOMAIN places : i < j => places[i] < places[j]
  <2> HIDE DEF kept
  <2> QED BY <1>2, <1>3, AscendingFacts
<1>6. kept \subseteq DOMAIN ranking
  OBVIOUS
<1>7. places \in Seq(DOMAIN ranking)
  <2> HIDE DEF kept, places
  <2> QED BY <1>5, <1>6
<1> HIDE DEF places
<1> QED BY <1>4, <1>5, <1>7

\* Nothing is selected twice, and what precedes in the ranking precedes in the
\* selection.
LEMMA SelectedInOrder ==
  ASSUME NEW D, NEW ranking \in Seq(D), NEW set,
         \A i, j \in DOMAIN ranking : ranking[i] = ranking[j] => i = j
  PROVE  /\ Those(ranking, set) \in Seq(D)
         /\ ToSet(Those(ranking, set)) = ToSet(ranking) \cap set
         /\ \A i, j \in DOMAIN Those(ranking, set) :
              /\ Those(ranking, set)[i] = Those(ranking, set)[j] => i = j
              /\ i < j => \E m, n \in DOMAIN ranking :
                   m < n /\ ranking[m] = Those(ranking, set)[i] /\ ranking[n] = Those(ranking, set)[j]
         /\ \A m, n \in DOMAIN ranking : m < n /\ ranking[m] \in set =>
              \A j \in DOMAIN Those(ranking, set) : Those(ranking, set)[j] = ranking[n] =>
                \E i \in 1..(j - 1) : Those(ranking, set)[i] = ranking[m]
<1>1. PICK places \in Seq(DOMAIN ranking) :
        /\ Those(ranking, set) = [k \in DOMAIN places |-> ranking[places[k]]]
        /\ \A i, j \in DOMAIN places : i < j => places[i] < places[j]
        /\ ToSet(places) = {i \in DOMAIN ranking : ranking[i] \in set}
  BY ThosePlaces
<1> DEFINE those == [k \in DOMAIN places |-> ranking[places[k]]]
<1>2. DOMAIN places = 1..Len(places) /\ Len(places) \in Nat /\ DOMAIN ranking = 1..Len(ranking)
  OBVIOUS
<1>3. \A k \in DOMAIN places : places[k] \in DOMAIN ranking /\ ranking[places[k]] \in set
  BY <1>1 DEF ToSet
<1>4. \A i \in DOMAIN ranking : ranking[i] \in set => \E k \in DOMAIN places : places[k] = i
  BY <1>1 DEF ToSet
<1>5. those \in Seq(D)
  BY <1>2, <1>3
<1>6. ToSet(those) = ToSet(ranking) \cap set
  <2>1. ASSUME NEW x \in ToSet(those) PROVE x \in ToSet(ranking) \cap set
    BY <1>3, <2>1 DEF ToSet
  <2>2. ASSUME NEW x \in ToSet(ranking) \cap set PROVE x \in ToSet(those)
    <3>1. PICK i \in DOMAIN ranking : ranking[i] = x
      BY DEF ToSet
    <3>2. PICK k \in DOMAIN places : places[k] = i
      BY <1>4, <3>1
    <3> QED BY <3>1, <3>2 DEF ToSet
  <2> QED BY <2>1, <2>2
<1>7. \A i, j \in DOMAIN those :
        /\ those[i] = those[j] => i = j
        /\ i < j => \E m, n \in DOMAIN ranking : m < n /\ ranking[m] = those[i] /\ ranking[n] = those[j]
  <2> TAKE i, j \in DOMAIN those
  <2>1. /\ places[i] \in DOMAIN ranking /\ places[j] \in DOMAIN ranking
        /\ those[i] = ranking[places[i]] /\ those[j] = ranking[places[j]]
        /\ i \in 1..Len(places) /\ j \in 1..Len(places)
    BY <1>2, <1>3
  <2>2. (i < j => places[i] < places[j]) /\ (j < i => places[j] < places[i])
    BY <1>1
  <2>3. those[i] = those[j] => places[i] = places[j]
    BY <2>1
  <2> HIDE DEF those
  <2>4. those[i] = those[j] => i = j
    BY <1>2, <2>1, <2>2, <2>3
  <2> QED BY <2>1, <2>2, <2>4
<1>8. ASSUME NEW m \in DOMAIN ranking, NEW n \in DOMAIN ranking, m < n, ranking[m] \in set,
             NEW j \in DOMAIN those, those[j] = ranking[n]
      PROVE  \E i \in 1..(j - 1) : those[i] = ranking[m]
  <2>1. PICK i \in DOMAIN places : places[i] = m
    BY <1>4, <1>8
  <2>2. places[j] = n
    BY <1>3, <1>8
  <2>3. ~(j < i) /\ j # i
    BY <1>1, <1>2, <1>8, <2>1, <2>2
  <2>4. i \in 1..(j - 1)
    BY <1>2, <2>3
  <2> QED BY <2>1, <2>4
<1> HIDE DEF those
<1>9. Those(ranking, set) = those
  BY <1>1 DEF those
<1> QED BY <1>5, <1>6, <1>7, <1>8, <1>9

\* What a ranking has of a set is a ranking of that, and empty only without any.
LEMMA ThoseFacts ==
  ASSUME NEW D, NEW ranking \in Seq(D), NEW set
  PROVE  /\ Those(ranking, set) \in Seq(D)
         /\ Those(ranking, set) = <<>> => \A i \in DOMAIN ranking : ranking[i] \notin set
<1> DEFINE kept == {i \in DOMAIN ranking : ranking[i] \in set}
           places == Ascending(kept)
<1>1. Len(ranking) \in Nat /\ DOMAIN ranking = 1..Len(ranking)
  OBVIOUS
<1>2. IsFiniteSet(1..Len(ranking)) /\ kept \in SUBSET (1..Len(ranking)) /\ kept \in SUBSET Int
  BY <1>1, FS_Interval
<1>3. IsFiniteSet(kept)
  BY <1>2, FS_Subset
<1>4. places \in Seq(kept) /\ Len(places) = Cardinality(kept)
  <2> HIDE DEF kept
  <2> QED BY <1>2, <1>3, AscendingFacts
<1>5. DOMAIN places = 1..Len(places) /\ Len(places) \in Nat /\ \A k \in 1..Len(places) : places[k] \in kept
  <2> HIDE DEF places, kept
  <2> QED BY <1>4
<1> DEFINE those == [k \in DOMAIN places |-> ranking[places[k]]]
<1>6. those \in Seq(D) /\ Len(those) = Cardinality(kept)
  <2>1. \A k \in 1..Len(places) : ranking[places[k]] \in D
    BY <1>5
  <2> HIDE DEF places, kept
  <2> QED BY <1>4, <1>5, <2>1
<1>7. Those(ranking, set) = those
  BY DEF Those
<1>8. those = <<>> => kept = {}
  <2> HIDE DEF those, kept
  <2> QED BY <1>3, <1>6, FS_EmptySet
<1> HIDE DEF those
<1> QED BY <1>6, <1>7, <1>8
=============================================================================
