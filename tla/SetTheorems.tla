------------------------------ MODULE SetTheorems ------------------------------
(***************************************************************************)
(* Facts about finite sets and the sums over them that the proofs of        *)
(* several components share: what is the least of a set, what one element   *)
(* adds to a sum, when a sum is positive.                                   *)
(*                                                                          *)
(* Induction is by a least counterexample.  The sum the models take with    *)
(* MapThenSumSet is Total, in which the weights are a function: MapIsTotal  *)
(* and TotalSame carry a result from one to the other.                      *)
(***************************************************************************)
EXTENDS Integers, FiniteSets, FiniteSetsExt, FiniteSetTheorems, WellFoundedInduction,
        NaturalsInduction, TLAPS

Pick(s) == CHOOSE x \in s : TRUE

\* g is the sum of the weights w over each subset of S, taken one element at a time
Weighs(w, S, g) ==
    g = [s \in SUBSET S |-> IF s = {} THEN 0 ELSE w[Pick(s)] + g[s \ {Pick(s)}]]

Total(w, S) == (CHOOSE g : Weighs(w, S, g))[S]

----------------------------------------------------------------------------
\* The least of a set

\* Of any subsets of a finite set, one has none of the others within it.
LEMMA Smallest ==
    ASSUME NEW S, IsFiniteSet(S), NEW T, T \subseteq SUBSET S, T # {}
    PROVE  \E s \in T : \A t \in T : ~ (t \subseteq s /\ t # s)
<1>1. IsWellFoundedOn(StrictSubsetOrdering(S), SUBSET S)
  BY FS_StrictSubsetOrderingWellFounded, FS_FiniteSubsetsOfFinite
<1>2. PICK s \in T : \A t \in T : ~ (<<t, s>> \in StrictSubsetOrdering(S))
  BY <1>1, WFMin
<1>3. ASSUME NEW t \in T, t \subseteq s, t # s PROVE FALSE
  <2>1. <<t, s>> \in (SUBSET S) \X (SUBSET S)
    OBVIOUS
  <2>2. <<t, s>> \in StrictSubsetOrdering(S)
    BY <2>1, <1>3 DEF StrictSubsetOrdering
  <2> QED BY <2>2, <1>2
<1> QED BY <1>3

\* A set of natural numbers that is not empty has its Min.
LEMMA MinIs ==
    ASSUME NEW S, S \subseteq Nat, S # {}
    PROVE  Min(S) \in S /\ \A y \in S : Min(S) <= y
<1>1. PICK x \in S : \A y \in S : ~ (<<y, x>> \in OpToRel(<, Nat))
  BY NatLessThanWellFounded, WFMin
<1>2. \A y \in S : x <= y
  <2> SUFFICES ASSUME NEW y \in S, y < x PROVE FALSE
    OBVIOUS
  <2>1. <<y, x>> \in OpToRel(<, Nat)
    BY DEF OpToRel
  <2> QED BY <1>1, <2>1
<1> QED BY <1>2 DEF Min

\* So has one that has a bound its Max.
LEMMA MaxIs ==
    ASSUME NEW S, S \subseteq Nat, S # {}, NEW n \in Nat, \A x \in S : x <= n
    PROVE  Max(S) \in S /\ \A y \in S : Max(S) >= y
<1> DEFINE T == {n - x : x \in S}
<1>1. T \subseteq Nat /\ T # {}
  OBVIOUS
<1>2. Min(T) \in T /\ \A y \in T : Min(T) <= y
  <2> HIDE DEF T
  <2> QED BY <1>1, MinIs
<1>3. PICK x \in S : Min(T) = n - x
  BY <1>2
<1>4. \A y \in S : x >= y
  <2> TAKE y \in S
  <2>1. n - y \in T
    OBVIOUS
  <2>2. n - x <= n - y
    BY <1>2, <1>3, <2>1
  <2> QED BY <2>2
<1> QED BY <1>4 DEF Max

\* The images of the elements of a finite set are finitely many.
LEMMA ImageFinite ==
    ASSUME NEW S, NEW f, IsFiniteSet(S)
    PROVE  IsFiniteSet({f[x] : x \in S})
<1> DEFINE T == {f[x] : x \in S}
           g == [x \in S |-> f[x]]
<1>1. g \in Surjection(S, T)
  BY DEF Surjection
<1> HIDE DEF g
<1> QED BY <1>1, FS_Surjection

----------------------------------------------------------------------------
\* Sums

LEMMA PickIn == ASSUME NEW s, s # {} PROVE Pick(s) \in s
BY DEF Pick

\* Two ways of weighing agree on what both weigh.
LEMMA WeighsOnce ==
    ASSUME NEW w, NEW S, NEW U, NEW g, NEW h, Weighs(w, S, g), Weighs(w, U, h),
           NEW s, IsFiniteSet(s), s \subseteq S, s \subseteq U
    PROVE  g[s] = h[s]
<1> DEFINE T == {t \in SUBSET s : g[t] # h[t]}
<1>1. SUFFICES ASSUME T # {} PROVE FALSE
  OBVIOUS
<1>2. PICK t \in T : \A u \in T : ~ (u \subseteq t /\ u # t)
  <2> HIDE DEF T
  <2>1. T \subseteq SUBSET s
    BY DEF T
  <2> QED BY <1>1, <2>1, Smallest
<1>3. /\ g[t] = IF t = {} THEN 0 ELSE w[Pick(t)] + g[t \ {Pick(t)}]
      /\ h[t] = IF t = {} THEN 0 ELSE w[Pick(t)] + h[t \ {Pick(t)}]
  BY DEF Weighs
<1>4. CASE t = {}
  BY <1>3, <1>4
<1>5. CASE t # {}
  <2>1. t \ {Pick(t)} \subseteq t /\ t \ {Pick(t)} # t
    BY <1>5, PickIn
  <2>2. g[t \ {Pick(t)}] = h[t \ {Pick(t)}]
    BY <2>1, <1>2
  <2> QED BY <2>2, <1>3, <1>5
<1> QED BY <1>4, <1>5

\* Every finite set can be weighed: the recursion of the fold has a solution.
LEMMA WeighsSomehow ==
    ASSUME NEW w, NEW S, IsFiniteSet(S)
    PROVE  \E g : Weighs(w, S, g)
<1> DEFINE T == {s \in SUBSET S : ~ \E g : Weighs(w, s, g)}
<1>1. SUFFICES ASSUME T # {} PROVE FALSE
  OBVIOUS
<1>2. PICK s \in T : \A u \in T : ~ (u \subseteq s /\ u # s)
  <2> HIDE DEF T
  <2>1. T \subseteq SUBSET S
    BY DEF T
  <2> QED BY <1>1, <2>1, Smallest
<1>3. ASSUME NEW u \in SUBSET s, u # s PROVE Weighs(w, u, CHOOSE g : Weighs(w, u, g))
  BY <1>2, <1>3
<1> DEFINE g == [t \in SUBSET s |-> IF t = {} THEN 0
                                    ELSE w[Pick(t)] + Total(w, t \ {Pick(t)})]
<1>4. ASSUME NEW v \in SUBSET s, v # s PROVE g[v] = Total(w, v)
  <2> DEFINE h == CHOOSE i : Weighs(w, v, i)
  <2>1. Weighs(w, v, h)
    BY <1>3, <1>4
  <2> HIDE DEF h
  <2>2. h[v] = IF v = {} THEN 0 ELSE w[Pick(v)] + h[v \ {Pick(v)}]
    BY <2>1 DEF Weighs
  <2>3. h[v] = Total(w, v)
    BY DEF Total, h
  <2>4. CASE v # {}
    <3> DEFINE r == v \ {Pick(v)}
    <3>1. r \in SUBSET s /\ r # s /\ r \subseteq v
      BY <1>4
    <3> HIDE DEF r
    <3>2. Weighs(w, r, CHOOSE i : Weighs(w, r, i))
      BY <3>1, <1>3
    <3>3. IsFiniteSet(r)
      BY <3>1, FS_Subset
    <3>4. h[r] = (CHOOSE i : Weighs(w, r, i))[r]
      BY <2>1, <3>2, <3>3, <3>1, WeighsOnce
    <3> QED BY <3>4, <2>2, <2>3, <2>4 DEF Total, r
  <2> QED BY <2>2, <2>3, <2>4
<1>5. ASSUME NEW t \in SUBSET s, t # {}
      PROVE  g[t] = w[Pick(t)] + g[t \ {Pick(t)}]
  <2> DEFINE r == t \ {Pick(t)}
  <2>1. r \in SUBSET s /\ r # s
    BY <1>5, PickIn
  <2>2. g[t] = w[Pick(t)] + Total(w, r)
    BY <1>5
  <2> HIDE DEF r, g
  <2>3. g[r] = Total(w, r)
    BY <1>4, <2>1
  <2> QED BY <2>2, <2>3 DEF r
<1>6. Weighs(w, s, g)
  <2>1. \A t \in SUBSET s : g[t] = IF t = {} THEN 0 ELSE w[Pick(t)] + g[t \ {Pick(t)}]
    BY <1>5
  <2>2. DOMAIN g = SUBSET s /\ g = [t \in SUBSET s |-> g[t]]
    OBVIOUS
  <2> HIDE DEF g
  <2> QED BY <2>1, <2>2 DEF Weighs
<1> QED BY <1>6, <1>2

\* The equation of a sum.
LEMMA TotalIs ==
    ASSUME NEW w, NEW S, IsFiniteSet(S)
    PROVE  Total(w, S) = IF S = {} THEN 0 ELSE w[Pick(S)] + Total(w, S \ {Pick(S)})
<1> DEFINE g == CHOOSE i : Weighs(w, S, i)
           r == S \ {Pick(S)}
           h == CHOOSE i : Weighs(w, r, i)
<1>1. IsFiniteSet(r)
  BY FS_Subset
<1> HIDE DEF r
<1>2. Weighs(w, S, g)
  BY WeighsSomehow
<1>3. Weighs(w, r, h)
  BY <1>1, WeighsSomehow
<1> HIDE DEF g, h
<1>4. g[S] = IF S = {} THEN 0 ELSE w[Pick(S)] + g[r]
  BY <1>2 DEF Weighs, r
<1>5. g[r] = h[r]
  <2>1. r \subseteq S
    BY DEF r
  <2> QED BY <2>1, <1>1, <1>2, <1>3, WeighsOnce
<1>6. Total(w, S) = g[S] /\ Total(w, r) = h[r]
  BY DEF Total, g, h
<1> QED BY <1>4, <1>5, <1>6 DEF r

\* Only the weights of the elements count.
LEMMA TotalSame ==
    ASSUME NEW w, NEW v, NEW S, IsFiniteSet(S), \A x \in S : w[x] = v[x]
    PROVE  Total(w, S) = Total(v, S)
<1> DEFINE T == {s \in SUBSET S : Total(w, s) # Total(v, s)}
<1>1. SUFFICES ASSUME T # {} PROVE FALSE
  OBVIOUS
<1>2. PICK s \in T : \A u \in T : ~ (u \subseteq s /\ u # s)
  <2> HIDE DEF T
  <2>1. T \subseteq SUBSET S
    BY DEF T
  <2> QED BY <1>1, <2>1, Smallest
<1>3. IsFiniteSet(s)
  BY FS_Subset
<1>4. /\ Total(w, s) = IF s = {} THEN 0 ELSE w[Pick(s)] + Total(w, s \ {Pick(s)})
      /\ Total(v, s) = IF s = {} THEN 0 ELSE v[Pick(s)] + Total(v, s \ {Pick(s)})
  BY <1>3, TotalIs
<1>5. CASE s # {}
  <2>1. Pick(s) \in s
    BY <1>5, PickIn
  <2>2. Total(w, s \ {Pick(s)}) = Total(v, s \ {Pick(s)})
    BY <2>1, <1>2
  <2> QED BY <1>4, <2>1, <2>2
<1> QED BY <1>4, <1>5

\* A sum of integers is one, and of naturals a natural.
LEMMA TotalType ==
    ASSUME NEW w, NEW S, IsFiniteSet(S), \A x \in S : w[x] \in Int
    PROVE  /\ Total(w, S) \in Int
           /\ (\A x \in S : w[x] \in Nat) => Total(w, S) \in Nat
<1> DEFINE T == {s \in SUBSET S : ~ /\ Total(w, s) \in Int
                                    /\ (\A x \in s : w[x] \in Nat) => Total(w, s) \in Nat}
<1>1. SUFFICES ASSUME T # {} PROVE FALSE
  OBVIOUS
<1>2. PICK s \in T : \A u \in T : ~ (u \subseteq s /\ u # s)
  <2> HIDE DEF T
  <2>1. T \subseteq SUBSET S
    BY DEF T
  <2> QED BY <1>1, <2>1, Smallest
<1>3. Total(w, s) = IF s = {} THEN 0 ELSE w[Pick(s)] + Total(w, s \ {Pick(s)})
  BY FS_Subset, TotalIs
<1>4. CASE s # {}
  <2> DEFINE r == s \ {Pick(s)}
  <2>1. Pick(s) \in s
    BY <1>4, PickIn
  <2>2. r \in SUBSET S /\ r \subseteq s /\ r # s
    BY <2>1
  <2>3. Total(w, r) \in Int /\ ((\A x \in r : w[x] \in Nat) => Total(w, r) \in Nat)
    <3> HIDE DEF r
    <3> QED BY <2>2, <1>2
  <2>4. (\A x \in s : w[x] \in Nat) => (\A x \in r : w[x] \in Nat)
    OBVIOUS
  <2>5. Total(w, s) = w[Pick(s)] + Total(w, r)
    BY <1>3, <1>4
  <2> HIDE DEF r
  <2> QED BY <2>1, <2>3, <2>4, <2>5
<1> QED BY <1>3, <1>4

\* Whichever element is taken out, it adds its weight to the rest.
LEMMA TotalSplit ==
    ASSUME NEW w, NEW S, IsFiniteSet(S), \A y \in S : w[y] \in Int, NEW x \in S
    PROVE  Total(w, S) = w[x] + Total(w, S \ {x})
<1> DEFINE T == {s \in SUBSET S : \E y \in s : Total(w, s) # w[y] + Total(w, s \ {y})}
<1>1. SUFFICES ASSUME T # {} PROVE FALSE
  OBVIOUS
<1>2. PICK s \in T : \A u \in T : ~ (u \subseteq s /\ u # s)
  <2> HIDE DEF T
  <2>1. T \subseteq SUBSET S
    BY DEF T
  <2> QED BY <1>1, <2>1, Smallest
<1>3. PICK y \in s : Total(w, s) # w[y] + Total(w, s \ {y})
  OBVIOUS
<1> DEFINE p == Pick(s)
<1>4. p \in s /\ Total(w, s) = w[p] + Total(w, s \ {p})
  BY FS_Subset, TotalIs, PickIn
<1> HIDE DEF p
<1>5. p # y
  BY <1>3, <1>4
<1>6. Total(w, s \ {p}) = w[y] + Total(w, (s \ {p}) \ {y})
  BY <1>2, <1>4, <1>5
<1>7. Total(w, s \ {y}) = w[p] + Total(w, (s \ {y}) \ {p})
  BY <1>2, <1>4, <1>5
<1>8. (s \ {p}) \ {y} = (s \ {y}) \ {p}
  OBVIOUS
<1>9. Total(w, (s \ {p}) \ {y}) \in Int /\ w[p] \in Int /\ w[y] \in Int
  <2>1. (s \ {p}) \ {y} \subseteq S /\ p \in S /\ y \in S
    BY <1>4
  <2>2. IsFiniteSet((s \ {p}) \ {y})
    BY <2>1, FS_Subset
  <2> QED BY <2>1, <2>2, TotalType
<1> QED BY <1>3, <1>4, <1>6, <1>7, <1>8, <1>9

\* One element more adds its weight.
LEMMA TotalAdd ==
    ASSUME NEW w, NEW S, IsFiniteSet(S), NEW x, x \notin S, \A y \in S \cup {x} : w[y] \in Int
    PROVE  Total(w, S \cup {x}) = w[x] + Total(w, S)
<1>1. IsFiniteSet(S \cup {x})
  BY FS_AddElement
<1>2. Total(w, S \cup {x}) = w[x] + Total(w, (S \cup {x}) \ {x})
  BY <1>1, TotalSplit
<1>3. (S \cup {x}) \ {x} = S
  OBVIOUS
<1> QED BY <1>2, <1>3

\* A sum of naturals is positive exactly when one of them is.
LEMMA TotalPositive ==
    ASSUME NEW w, NEW S, IsFiniteSet(S), \A y \in S : w[y] \in Nat
    PROVE  Total(w, S) > 0 <=> \E y \in S : w[y] > 0
<1>1. ASSUME NEW y \in S, w[y] > 0 PROVE Total(w, S) > 0
  <2>1. Total(w, S \ {y}) \in Nat
    BY FS_Subset, TotalType
  <2>2. Total(w, S) = w[y] + Total(w, S \ {y})
    BY TotalSplit
  <2> QED BY <1>1, <2>1, <2>2
<1>2. ASSUME \A y \in S : w[y] = 0 PROVE Total(w, S) = 0
  <2> DEFINE T == {s \in SUBSET S : Total(w, s) # 0}
  <2>1. SUFFICES ASSUME T # {} PROVE FALSE
    OBVIOUS
  <2>2. PICK s \in T : \A u \in T : ~ (u \subseteq s /\ u # s)
    <3> HIDE DEF T
    <3>1. T \subseteq SUBSET S
      BY DEF T
    <3> QED BY <2>1, <3>1, Smallest
  <2>3. s # {} /\ Total(w, s) = w[Pick(s)] + Total(w, s \ {Pick(s)})
    BY FS_Subset, TotalIs
  <2>4. Pick(s) \in s
    BY <2>3, PickIn
  <2>5. Total(w, s \ {Pick(s)}) = 0
    BY <2>2, <2>4
  <2> QED BY <1>2, <2>3, <2>4, <2>5
<1>3. Total(w, S) \in Nat
  BY TotalType
<1> QED BY <1>1, <1>2, <1>3

\* The fold that the models use is this sum.
LEMMA MapIsTotal ==
    ASSUME NEW w, NEW S, IsFiniteSet(S)
    PROVE  MapThenSumSet(LAMBDA x : w[x], S) = Total(w, S)
BY DEF MapThenSumSet, MapThenFoldSet, Total, Weighs, Pick

-----------------------------------------------------------------------------
\* Parts of a set

\* Two sets without a common element have as many elements as both together.
LEMMA ApartAdd ==
    ASSUME NEW S, IsFiniteSet(S), NEW T, IsFiniteSet(T), S \cap T = {}
    PROVE  IsFiniteSet(S \cup T) /\ Cardinality(S \cup T) = Cardinality(S) + Cardinality(T)
<1>1. /\ IsFiniteSet(S \cup T)
      /\ Cardinality(S \cup T) = Cardinality(S) + Cardinality(T) - Cardinality(S \cap T)
  BY FS_Union
<1>2. Cardinality(S \cap T) = 0 /\ Cardinality(S) \in Nat /\ Cardinality(T) \in Nat
  BY FS_EmptySet, FS_CardinalityType
<1> QED BY <1>1, <1>2

\* Without one of its elements a set has one fewer.
LEMMA LessOne ==
    ASSUME NEW S, IsFiniteSet(S), NEW x \in S
    PROVE  IsFiniteSet(S \ {x}) /\ Cardinality(S) = Cardinality(S \ {x}) + 1
<1>1. Cardinality(S) \in Nat
  BY FS_CardinalityType
<1> QED BY <1>1, FS_RemoveElement

\* A set is counted by counting, for each value of f, the elements that have it.
LEMMA FibresAddUp ==
    ASSUME NEW f, NEW L, IsFiniteSet(L), NEW S, IsFiniteSet(S), \A x \in S : f[x] \in L
    PROVE  Total([l \in L |-> Cardinality({x \in S : f[x] = l})], L) = Cardinality(S)
<1> DEFINE Fibre(s, l) == {x \in s : f[x] = l}
           Fibres(s) == [l \in L |-> Cardinality(Fibre(s, l))]
           T == {s \in SUBSET S : Total(Fibres(s), L) # Cardinality(s)}
<1>1. SUFFICES ASSUME T # {} PROVE FALSE
  OBVIOUS
<1>2. PICK s \in T : \A u \in T : ~ (u \subseteq s /\ u # s)
  <2> HIDE DEF T
  <2>1. T \subseteq SUBSET S
    BY DEF T
  <2> QED BY <1>1, <2>1, Smallest
<1>3. s \subseteq S /\ IsFiniteSet(s) /\ Total(Fibres(s), L) # Cardinality(s)
  BY <1>2, FS_Subset
<1>4. ASSUME NEW t \in SUBSET S, NEW l \in L
      PROVE  IsFiniteSet(Fibre(t, l)) /\ Fibres(t)[l] = Cardinality(Fibre(t, l))
             /\ Fibres(t)[l] \in Nat
  <2>1. IsFiniteSet(Fibre(t, l))
    BY FS_Subset
  <2> QED BY <2>1, FS_CardinalityType
<1>5. CASE s = {}
  <2> DEFINE w == Fibres({})
  <2>1. \A l \in L : Fibre({}, l) = {}
    OBVIOUS
  <2>2. \A l \in L : w[l] = 0
    BY <2>1, FS_EmptySet
  <2> HIDE DEF w
  <2>3. Total(w, L) \in Nat /\ ~ (Total(w, L) > 0)
    BY <2>2, TotalType, TotalPositive
  <2>4. Total(Fibres({}), L) = 0
    BY <2>3 DEF w
  <2> QED BY <1>3, <1>5, <2>4, FS_EmptySet
<1>6. CASE s # {}
  <2>1. PICK x \in s : TRUE
    BY <1>6
  <2> DEFINE r == s \ {x}
             k == f[x]
  <2>2. r \in SUBSET S /\ r \subseteq s /\ r # s /\ k \in L /\ s \in SUBSET S
    BY <1>3, <2>1
  <2>3. Total(Fibres(r), L) = Cardinality(r)
    BY <1>2, <2>2
  <2>4. IsFiniteSet(r) /\ Cardinality(s) = Cardinality(r) + 1
    BY <1>3, <2>1, LessOne
  <2>5. \A l \in L : l # k => Fibre(s, l) = Fibre(r, l)
    OBVIOUS
  <2>6. Fibre(r, k) = Fibre(s, k) \ {x} /\ x \in Fibre(s, k)
    BY <2>1
  <2>7. Cardinality(Fibre(s, k)) = Cardinality(Fibre(r, k)) + 1
    <3>1. ASSUME NEW U, NEW R, IsFiniteSet(U), x \in U, R = U \ {x}
          PROVE  Cardinality(U) = Cardinality(R) + 1
      BY <3>1, LessOne
    <3> QED BY <1>4, <2>2, <2>6, <3>1
  <2>8. Fibres(s)[k] = Fibres(r)[k] + 1
    BY <1>4, <2>2, <2>7
  <2>9. \A l \in L \ {k} : Fibres(s)[l] = Fibres(r)[l]
    BY <2>5
  <2> DEFINE v == Fibres(s)
             w == Fibres(r)
  <2>10. (\A l \in L : v[l] \in Int /\ w[l] \in Int) /\ v[k] = w[k] + 1
         /\ (\A l \in L \ {k} : v[l] = w[l])
    <3> HIDE DEF Fibres, Fibre, r
    <3>1. \A l \in L : Fibres(s)[l] \in Int /\ Fibres(r)[l] \in Int
      BY <1>4, <2>2
    <3> QED BY <2>8, <2>9, <3>1
  <2>11. Total(w, L) = Cardinality(r) /\ Total(v, L) # Cardinality(s)
    BY <1>3, <2>3
  <2> HIDE DEF v, w, r, k
  <2>12. IsFiniteSet(L \ {k})
    BY FS_Subset
  <2>13. Total(v, L) = v[k] + Total(v, L \ {k}) /\ Total(w, L) = w[k] + Total(w, L \ {k})
    BY <2>2, <2>10, TotalSplit
  <2>14. Total(v, L \ {k}) = Total(w, L \ {k})
    BY <2>10, <2>12, TotalSame
  <2>15. Total(w, L \ {k}) \in Int /\ w[k] \in Int
    BY <2>2, <2>10, <2>12, TotalType
  <2> QED BY <2>4, <2>10, <2>11, <2>13, <2>14, <2>15
<1> QED BY <1>5, <1>6
================================================================================
