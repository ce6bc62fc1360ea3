----------------------------- MODULE FoldLemmas -----------------------------
(***************************************************************************)
(* Sums over finite sets (SumFunctionOnSet of the community modules).      *)
(*                                                                         *)
(* A sum of naturals counts the units its summands are made of: x weighs   *)
(* as many units <<x, 0>>, <<x, 1>>, ... as w[x] says.  Once that is shown *)
(* (SumIsCount), the other lemmas are facts about cardinalities.  It is    *)
(* shown by a smallest counterexample: that no descending chain of finite  *)
(* sets is endless (WFMin) takes a set of counterexamples, no predicate.   *)
(***************************************************************************)
EXTENDS Functions, FiniteSetTheorems, TLAPS

\* The units the elements of T weigh by w.
Units(w, T) == {p \in T \X Nat : p[2] < w[p[1]]}

\* One element has as many units as it weighs.
LEMMA ColumnCount ==
  ASSUME NEW x, NEW w, w[x] \in Nat
  PROVE  IsFiniteSet(Units(w, {x})) /\ Cardinality(Units(w, {x})) = w[x]
<1> DEFINE f == [i \in 1 .. w[x] |-> <<x, i - 1>>]
<1>1. IsFiniteSet(1 .. w[x]) /\ Cardinality(1 .. w[x]) = w[x]
  BY FS_Interval
<1>2. \A i \in 1 .. w[x] : i - 1 \in Nat /\ i - 1 < w[x]
  OBVIOUS
<1>3. f \in [1 .. w[x] -> Units(w, {x})]
  BY <1>2 DEF Units
<1>4. IsInjective(f)
  BY DEF IsInjective
<1>5. \A p \in Units(w, {x}) : p = f[p[2] + 1] /\ p[2] + 1 \in 1 .. w[x]
  BY DEF Units
<1>6. f \in Bijection(1 .. w[x], Units(w, {x}))
  BY <1>3, <1>4, <1>5 DEF Bijection, Injection, Surjection
<1> QED BY <1>1, <1>6, FS_Bijection DEF ExistsBijection

\* Finitely many elements have finitely many units.
LEMMA UnitsFinite ==
  ASSUME NEW T, IsFiniteSet(T), NEW w, \A x \in T : w[x] \in Nat
  PROVE  IsFiniteSet(Units(w, T))
<1> DEFINE cols == {Units(w, {x}) : x \in T}
           f == [x \in T |-> Units(w, {x})]
<1>1. Units(w, T) = UNION cols
  BY DEF Units
<1>2. f \in Surjection(T, cols)
  BY DEF Surjection
<1>3. IsFiniteSet(cols)
  BY <1>2, FS_Surjection
<1>4. \A U \in cols : IsFiniteSet(U)
  BY ColumnCount
<1> QED BY <1>1, <1>3, <1>4, FS_UNION

\* An element taken away takes its own units and no others.
LEMMA OneColumnLess ==
  ASSUME NEW T, IsFiniteSet(T), NEW w, \A y \in T : w[y] \in Nat, NEW x \in T
  PROVE  Cardinality(Units(w, T)) = w[x] + Cardinality(Units(w, T \ {x}))
<1>1. Units(w, T) = Units(w, {x}) \cup Units(w, T \ {x})
  BY DEF Units
<1>2. Units(w, {x}) \cap Units(w, T \ {x}) = {}
  BY DEF Units
<1>3. IsFiniteSet(T \ {x})
  BY FS_RemoveElement
<1>4. IsFiniteSet(Units(w, {x})) /\ Cardinality(Units(w, {x})) = w[x]
  BY ColumnCount
<1>5. IsFiniteSet(Units(w, T \ {x})) /\ Cardinality(Units(w, T \ {x})) \in Nat
  BY <1>3, UnitsFinite, FS_CardinalityType
<1> DEFINE col == Units(w, {x})  rest == Units(w, T \ {x})
<1> HIDE DEF col, rest
<1>6. Cardinality(col \cup rest) = Cardinality(col) + Cardinality(rest) - Cardinality({})
  <2>1. IsFiniteSet(col) /\ IsFiniteSet(rest) /\ col \cap rest = {}
    BY <1>2, <1>4, <1>5 DEF col, rest
  <2> QED BY <2>1, FS_Union
<1>7. Cardinality({}) = 0 /\ w[x] \in Nat
  BY FS_EmptySet
<1> QED BY <1>1, <1>4, <1>5, <1>6, <1>7 DEF col, rest

\* Of the bad subsets of a finite set, one has no bad subset with one element less.
LEMMA SmallestSubset ==
  ASSUME NEW S, IsFiniteSet(S), NEW Bad \in SUBSET SUBSET S, Bad # {}
  PROVE  \E T \in Bad : \A x \in T : T \ {x} \notin Bad
<1> DEFINE R == StrictSubsetOrdering(S)
<1>1. IsWellFoundedOn(R, SUBSET S)
  BY FS_StrictSubsetOrderingWellFounded, FS_FiniteSubsetsOfFinite
<1> HIDE DEF R
<1>2. PICK T \in Bad : \A U \in Bad : ~(<<U, T>> \in R)
  BY <1>1, WFMin
<1>3. ASSUME NEW x \in T PROVE T \ {x} \notin Bad
  <2>1. T \in SUBSET S /\ T \ {x} \in SUBSET S /\ T \ {x} # T /\ T \ {x} \subseteq T
    OBVIOUS
  <2>2. <<T \ {x}, T>> \in R
    BY <2>1 DEF R, StrictSubsetOrdering
  <2> QED BY <1>2, <2>2
<1> QED BY <1>3

\* The sum of natural weights is the number of their units.
LEMMA SumIsCount ==
  ASSUME NEW S, IsFiniteSet(S), NEW w, \A x \in S : w[x] \in Nat
  PROVE  SumFunctionOnSet(w, S) = Cardinality(Units(w, S))
<1> DEFINE Body(g) == [s \in SUBSET S |->
             IF s = {} THEN 0
             ELSE w[CHOOSE x \in s : TRUE] + g[s \ {CHOOSE x \in s : TRUE}]]
           count == [s \in SUBSET S |-> Cardinality(Units(w, s))]
           iter == CHOOSE g : g = Body(g)
<1>1. SumFunctionOnSet(w, S) = iter[S]
  BY DEF SumFunctionOnSet, FoldFunctionOnSet, MapThenFoldSet
<1>2. ASSUME NEW s \in SUBSET S, s # {}, NEW x \in s
      PROVE  count[s] = w[x] + count[s \ {x}] /\ s \ {x} \in SUBSET S
  <2>1. IsFiniteSet(s)
    BY FS_Subset
  <2> QED BY <1>2, <2>1, OneColumnLess
<1>3. count[{}] = 0
  <2>1. Units(w, {}) = {}
    BY DEF Units
  <2> QED BY <2>1, FS_EmptySet
<1>4. count = Body(count)
  <2> SUFFICES ASSUME NEW s \in SUBSET S PROVE count[s] = Body(count)[s]
    OBVIOUS
  <2> DEFINE x == CHOOSE x \in s : TRUE
  <2>1. CASE s = {}
    BY <1>3, <2>1
  <2>2. CASE s # {}
    <3>1. x \in s
      BY <2>2
    <3> HIDE DEF count
    <3>2. count[s] = w[x] + count[s \ {x}]
      BY <2>2, <3>1, <1>2
    <3> QED BY <2>2, <3>2
  <2> QED BY <2>1, <2>2
<1> HIDE DEF count
<1>5. iter = Body(iter)
  BY <1>4
<1> HIDE DEF iter
<1> DEFINE Bad == {s \in SUBSET S : iter[s] # count[s]}
<1>6. Bad = {}
  <2> SUFFICES ASSUME Bad # {} PROVE FALSE
    OBVIOUS
  <2>1. Bad \in SUBSET SUBSET S
    OBVIOUS
  <2> HIDE DEF Bad
  <2>2. PICK s \in Bad : \A y \in s : s \ {y} \notin Bad
    BY <2>1, SmallestSubset
  <2> USE DEF Bad
  <2> DEFINE x == CHOOSE x \in s : TRUE
  <2>3. s # {}
    BY <1>3, <1>5
  <2>4. x \in s
    BY <2>3
  <2>5. iter[s] = w[x] + iter[s \ {x}]
    BY <1>5, <2>3
  <2>6. count[s] = w[x] + count[s \ {x}] /\ s \ {x} \in SUBSET S
    BY <1>2, <2>3, <2>4
  <2> HIDE DEF x
  <2>8. s \ {x} \notin Bad
    BY <2>2, <2>4
  <2> QED BY <2>5, <2>6, <2>8
<1> QED BY <1>1, <1>6 DEF count

\* A sum of naturals is a natural.
LEMMA SumType ==
  ASSUME NEW S, IsFiniteSet(S), NEW w, \A x \in S : w[x] \in Nat
  PROVE  SumFunctionOnSet(w, S) \in Nat
  BY SumIsCount, UnitsFinite, FS_CardinalityType

\* Nothing adds up to 0.
LEMMA SumEmpty ==
  ASSUME NEW w
  PROVE  SumFunctionOnSet(w, {}) = 0
<1>1. Units(w, {}) = {}
  BY DEF Units
<1>2. SumFunctionOnSet(w, {}) = Cardinality(Units(w, {}))
  BY FS_EmptySet, SumIsCount
<1> QED BY <1>1, <1>2, FS_EmptySet

\* A sum is any one of its summands and the sum of the others.

\* One more element adds at most its weight.
LEMMA SumWithout ==
  ASSUME NEW S, IsFiniteSet(S), NEW w, \A y \in S : w[y] \in Nat, NEW x \in S
  PROVE  SumFunctionOnSet(w, S) = w[x] + SumFunctionOnSet(w, S \ {x})
<1>1. IsFiniteSet(S \ {x})
  BY FS_RemoveElement
<1>2. SumFunctionOnSet(w, S \ {x}) = Cardinality(Units(w, S \ {x}))
  BY <1>1, SumIsCount
<1> QED BY <1>2, SumIsCount, OneColumnLess

\* Fewer and smaller summands make no larger sum.
LEMMA SumGrows ==
  ASSUME NEW S, IsFiniteSet(S), NEW T \in SUBSET S,
         NEW v, \A x \in T : v[x] \in Nat, NEW w, \A x \in S : w[x] \in Nat,
         \A x \in T : v[x] <= w[x]
  PROVE  SumFunctionOnSet(v, T) <= SumFunctionOnSet(w, S)
<1>1. IsFiniteSet(T)
  BY FS_Subset
<1>2. Units(v, T) \subseteq Units(w, S)
  BY DEF Units
<1>3. IsFiniteSet(Units(w, S))
  BY UnitsFinite
<1>4. Cardinality(Units(v, T)) <= Cardinality(Units(w, S))
  BY <1>2, <1>3, FS_Subset
<1> QED BY <1>1, <1>4, SumIsCount

\* One more element adds at most its weight.
LEMMA SumWith ==
  ASSUME NEW S, IsFiniteSet(S), NEW x, NEW w, \A y \in S \cup {x} : w[y] \in Nat
  PROVE  SumFunctionOnSet(w, S \cup {x}) <= SumFunctionOnSet(w, S) + w[x]
<1>1. IsFiniteSet(S \cup {x})
  BY FS_AddElement
<1>2. SumFunctionOnSet(w, S \cup {x}) = w[x] + SumFunctionOnSet(w, (S \cup {x}) \ {x})
  BY <1>1, SumWithout
<1>3. SumFunctionOnSet(w, (S \cup {x}) \ {x}) <= SumFunctionOnSet(w, S)
  <2>1. (S \cup {x}) \ {x} \in SUBSET S
    OBVIOUS
  <2> QED BY <2>1, SumGrows
<1>4. /\ SumFunctionOnSet(w, S) \in Nat
      /\ SumFunctionOnSet(w, (S \cup {x}) \ {x}) \in Nat
  <2>1. IsFiniteSet((S \cup {x}) \ {x})
    BY <1>1, FS_RemoveElement
  <2> QED BY <2>1, SumType
<1> QED BY <1>2, <1>3, <1>4

\* What two sets weigh together is at most what they weigh apart.
LEMMA SumUnion ==
  ASSUME NEW S, IsFiniteSet(S), NEW T, IsFiniteSet(T),
         NEW w, \A x \in S \cup T : w[x] \in Nat
  PROVE  SumFunctionOnSet(w, S \cup T) <= SumFunctionOnSet(w, S) + SumFunctionOnSet(w, T)
<1> DEFINE us == Units(w, S)  ut == Units(w, T)
<1>1. Units(w, S \cup T) = us \cup ut /\ IsFiniteSet(S \cup T)
  BY FS_Union DEF Units
<1>2. IsFiniteSet(us) /\ IsFiniteSet(ut)
  BY UnitsFinite
<1>3. /\ SumFunctionOnSet(w, S) = Cardinality(us)
      /\ SumFunctionOnSet(w, T) = Cardinality(ut)
      /\ SumFunctionOnSet(w, S \cup T) = Cardinality(us \cup ut)
  BY <1>1, SumIsCount
<1> HIDE DEF us, ut
<1>4. Cardinality(us \cup ut) = Cardinality(us) + Cardinality(ut) - Cardinality(us \cap ut)
  BY <1>2, FS_Union
<1>5. /\ Cardinality(us) \in Nat /\ Cardinality(ut) \in Nat
      /\ Cardinality(us \cap ut) \in Nat
  BY <1>2, FS_Intersection, FS_CardinalityType
<1> QED BY <1>3, <1>4, <1>5

\* What holds of each summand up to a multiple of w holds of the sums.
LEMMA SumLinear ==
  ASSUME NEW S, IsFiniteSet(S), NEW c \in Nat,
         NEW u, \A x \in S : u[x] \in Nat,
         NEW v, \A x \in S : v[x] \in Nat,
         NEW w, \A x \in S : w[x] \in Nat,
         \A x \in S : u[x] <= v[x] + c * w[x]
  PROVE  SumFunctionOnSet(u, S) <= SumFunctionOnSet(v, S) + c * SumFunctionOnSet(w, S)
<1> DEFINE Good(T) ==
      SumFunctionOnSet(u, T) <= SumFunctionOnSet(v, T) + c * SumFunctionOnSet(w, T)
           Bad == {T \in SUBSET S : ~Good(T)}
<1> SUFFICES ASSUME Bad # {} PROVE FALSE
  OBVIOUS
<1>1. PICK T \in Bad : \A x \in T : T \ {x} \notin Bad
  <2>1. Bad \in SUBSET SUBSET S
    OBVIOUS
  <2> HIDE DEF Bad
  <2> QED BY <2>1, SmallestSubset
<1>2. T \in SUBSET S /\ IsFiniteSet(T) /\ ~Good(T)
  BY FS_Subset
<1>3. T # {}
  <2> SUFFICES ASSUME T = {} PROVE FALSE
    OBVIOUS
  <2>1. /\ SumFunctionOnSet(u, T) = 0 /\ SumFunctionOnSet(v, T) = 0
        /\ SumFunctionOnSet(w, T) = 0
    BY SumEmpty
  <2> QED BY <1>2, <2>1
<1>4. PICK x \in T : TRUE
  BY <1>3
<1>5. Good(T \ {x})
  <2>1. T \ {x} \in SUBSET S /\ T \ {x} \notin Bad
    BY <1>1, <1>2
  <2> QED BY <2>1
<1> DEFINE su == SumFunctionOnSet(u, T \ {x})
           sv == SumFunctionOnSet(v, T \ {x})
           sw == SumFunctionOnSet(w, T \ {x})
<1>6. /\ SumFunctionOnSet(u, T) = u[x] + su
      /\ SumFunctionOnSet(v, T) = v[x] + sv
      /\ SumFunctionOnSet(w, T) = w[x] + sw
  BY <1>2, SumWithout
<1>7. su \in Nat /\ sv \in Nat /\ sw \in Nat
  <2>1. IsFiniteSet(T \ {x})
    BY <1>2, FS_RemoveElement
  <2> QED BY <1>2, <2>1, SumType
<1>8. u[x] \in Nat /\ v[x] \in Nat /\ w[x] \in Nat /\ u[x] <= v[x] + c * w[x]
  BY <1>2
<1>9. su <= sv + c * sw
  BY <1>5
<1> HIDE DEF su, sv, sw
<1>10. c * (w[x] + sw) = c * w[x] + c * sw
  BY <1>7, <1>8
<1>11. c * w[x] \in Nat /\ c * sw \in Nat
  BY <1>7, <1>8
<1>12. u[x] + su <= (v[x] + sv) + (c * w[x] + c * sw)
  BY <1>7, <1>8, <1>9, <1>11
<1> QED BY <1>2, <1>6, <1>10, <1>12

\* Ones add up to the number of elements.
LEMMA SumOfOnes ==
  ASSUME NEW S, IsFiniteSet(S), NEW w, \A x \in S : w[x] = 1
  PROVE  SumFunctionOnSet(w, S) = Cardinality(S)
<1>1. Units(w, S) = S \X {0}
  BY DEF Units
<1>2. IsFiniteSet({0}) /\ Cardinality({0}) = 1
  BY FS_Singleton
<1>3. Cardinality(S \X {0}) = Cardinality(S) * 1 /\ Cardinality(S) \in Nat
  BY <1>2, FS_Product, FS_CardinalityType
<1>4. SumFunctionOnSet(w, S) = Cardinality(Units(w, S))
  BY SumIsCount
<1> QED BY <1>1, <1>3, <1>4

\* Summands within a multiple of w make a sum within that multiple.
LEMMA SumScaled ==
  ASSUME NEW S, IsFiniteSet(S), NEW c \in Nat,
         NEW u, \A x \in S : u[x] \in Nat,
         NEW w, \A x \in S : w[x] \in Nat,
         \A x \in S : u[x] <= c * w[x]
  PROVE  SumFunctionOnSet(u, S) <= c * SumFunctionOnSet(w, S)
<1> DEFINE zero == [x \in S |-> 0]
<1>1. \A x \in S : c * w[x] \in Nat
  OBVIOUS
<1>2. \A x \in S : zero[x] \in Nat /\ u[x] <= zero[x] + c * w[x]
  BY <1>1
<1>3. Units(zero, S) = {}
  BY DEF Units
<1>4. SumFunctionOnSet(zero, S) = 0
  BY <1>2, <1>3, SumIsCount, FS_EmptySet
<1>5. SumFunctionOnSet(w, S) \in Nat
  BY SumType
<1> HIDE DEF zero
<1>6. SumFunctionOnSet(u, S) <= SumFunctionOnSet(zero, S) + c * SumFunctionOnSet(w, S)
  BY <1>2, SumLinear
<1>7. c * SumFunctionOnSet(w, S) \in Nat
  BY <1>5
<1> QED BY <1>4, <1>6, <1>7
=============================================================================
