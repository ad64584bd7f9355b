--------------------------- MODULE FiniteTheorems ---------------------------
(***************************************************************************)
(* Sums and maxima over finite sets: what the accounting invariants of the   *)
(* ledger and of the validators, the heights of events and the heights of    *)
(* checkpoints need.  The library defines a sum (SumFunctionOnSet) by        *)
(* recursion over subsets with an arbitrary choice of the next element; the  *)
(* lemmas are proved by taking a smallest set that refutes them.             *)
(***************************************************************************)
EXTENDS Integers, FiniteSets, Functions, FiniteSetTheorems, WellFoundedInduction, TLAPS

(* The element the library takes out next, and one step of its recursion.   *)
Taken(s) == CHOOSE x \in s : TRUE
SumStep(f, g, s) == IF s = {} THEN 0 ELSE f[Taken(s)] + g[s \ {Taken(s)}]
IsSum(f, g, S) == g = [s \in SUBSET S |-> SumStep(f, g, s)]

(* Of a non-empty set of finite sets one has no proper subset in it.        *)
LEMMA SmallestSet ==
    ASSUME NEW S, IsFiniteSet(S), NEW T \in SUBSET (SUBSET S), T # {}
    PROVE  \E x \in T : \A y \in T : y \subseteq x => y = x
<1>1. T \subseteq FiniteSubsetsOf(S)
  BY FS_FiniteSubsetsOfFinite
<1>2. PICK x \in T : \A y \in T : ~(<<y, x>> \in StrictSubsetOrdering(S))
  BY <1>1, WFMin, FS_StrictSubsetOrderingWellFounded
<1> QED BY <1>2 DEF StrictSubsetOrdering

(* The recursion determines its values.                                     *)
LEMMA SumsAgree ==
    ASSUME NEW f, NEW S, NEW T, NEW g, NEW h, IsFiniteSet(S), IsSum(f, g, S), IsSum(f, h, T)
    PROVE  \A s \in SUBSET S : s \in SUBSET T => g[s] = h[s]
<1> DEFINE Bad == {s \in SUBSET S : s \in SUBSET T /\ g[s] # h[s]}
<1> SUFFICES ASSUME Bad # {} PROVE FALSE
  OBVIOUS
<1>1. PICK x \in Bad : \A y \in Bad : y \subseteq x => y = x
  <2>1. Bad \in SUBSET (SUBSET S)
    OBVIOUS
  <2> HIDE DEF Bad
  <2> QED BY <2>1, SmallestSet
<1>2. /\ x \in SUBSET S /\ x \in SUBSET T
      /\ g[x] = SumStep(f, g, x) /\ h[x] = SumStep(f, h, x)
  BY DEF IsSum
<1>3. CASE x = {}
  BY <1>2, <1>3 DEF SumStep
<1>4. CASE x # {}
  <2> DEFINE y == x \ {Taken(x)}
  <2>1. Taken(x) \in x
    BY <1>4 DEF Taken
  <2>2. y \subseteq x /\ y # x /\ y \in SUBSET S /\ y \in SUBSET T
    BY <1>2, <2>1
  <2>3. g[y] = h[y]
    BY <1>1, <2>2
  <2> QED BY <1>2, <1>4, <2>3 DEF SumStep
<1> QED BY <1>3, <1>4

(* The recursion has a solution.                                            *)
LEMMA SumExists ==
    ASSUME NEW f, NEW S, IsFiniteSet(S)
    PROVE  \E g : IsSum(f, g, S)
<1> DEFINE Bad == {s \in SUBSET S : ~\E g : IsSum(f, g, s)}
<1> SUFFICES ASSUME Bad # {} PROVE FALSE
  <2>1. S \in SUBSET S
    OBVIOUS
  <2> QED BY <2>1
<1>1. PICK U \in Bad : \A y \in Bad : y \subseteq U => y = U
  <2>1. Bad \in SUBSET (SUBSET S)
    OBVIOUS
  <2> HIDE DEF Bad
  <2> QED BY <2>1, SmallestSet
<1> DEFINE G(t) == CHOOSE g : IsSum(f, g, t)
           rest(s) == s \ {Taken(s)}
           h == [s \in SUBSET U |-> IF s = {} THEN 0 ELSE f[Taken(s)] + G(rest(s))[rest(s)]]
<1>2. \A t \in SUBSET U : t # U => IsSum(f, G(t), t)
  <2> SUFFICES ASSUME NEW t \in SUBSET U, t # U PROVE IsSum(f, G(t), t)
    OBVIOUS
  <2>1. t \in SUBSET S /\ t \notin Bad
    BY <1>1
  <2>2. \E g : IsSum(f, g, t)
    BY <2>1
  <2> QED BY <2>2
<1>3. \A s \in SUBSET U : s # {} => rest(s) \in SUBSET U /\ rest(s) # U
  BY DEF Taken
<1>4. \A t \in SUBSET U : t # U => h[t] = G(t)[t]
  <2> SUFFICES ASSUME NEW t \in SUBSET U, t # U PROVE h[t] = G(t)[t]
    OBVIOUS
  <2>1. IsSum(f, G(t), t) /\ IsFiniteSet(t)
    BY <1>2, FS_Subset
  <2>2. G(t)[t] = SumStep(f, G(t), t)
    <3> HIDE DEF G
    <3> QED BY <2>1 DEF IsSum
  <2>3. CASE t = {}
    <3> HIDE DEF G
    <3> QED BY <2>2, <2>3 DEF SumStep
  <2>4. CASE t # {}
    <3>1. rest(t) \in SUBSET U /\ rest(t) # U /\ rest(t) \in SUBSET t
      BY <1>3, <2>4
    <3>2. IsSum(f, G(rest(t)), rest(t))
      BY <1>2, <3>1
    <3>3. G(t)[rest(t)] = G(rest(t))[rest(t)]
      <4> HIDE DEF G, rest
      <4> QED BY <2>1, <3>1, <3>2, SumsAgree
    <3>4. G(t)[t] = f[Taken(t)] + G(t)[rest(t)]
      <4> HIDE DEF G
      <4> QED BY <2>2, <2>4 DEF SumStep
    <3>5. h[t] = f[Taken(t)] + G(rest(t))[rest(t)]
      <4> HIDE DEF G, rest
      <4> QED BY <2>4
    <3> HIDE DEF G, rest, h
    <3> QED BY <3>3, <3>4, <3>5
  <2> QED BY <2>3, <2>4
<1>5. \A s \in SUBSET U : h[s] = SumStep(f, h, s)
  <2> SUFFICES ASSUME NEW s \in SUBSET U PROVE h[s] = SumStep(f, h, s)
    OBVIOUS
  <2>1. CASE s = {}
    <3> HIDE DEF G, rest
    <3> QED BY <2>1 DEF SumStep
  <2>2. CASE s # {}
    <3>1. h[rest(s)] = G(rest(s))[rest(s)]
      <4>1. rest(s) \in SUBSET U /\ rest(s) # U
        BY <1>3, <2>2
      <4> HIDE DEF G, rest, h
      <4> QED BY <1>4, <4>1
    <3>2. h[s] = f[Taken(s)] + G(rest(s))[rest(s)]
      <4> HIDE DEF G, rest
      <4> QED BY <2>2
    <3>3. SumStep(f, h, s) = f[Taken(s)] + h[rest(s)]
      <4> HIDE DEF h
      <4> QED BY <2>2 DEF SumStep
    <3> HIDE DEF G, rest, h
    <3> QED BY <3>1, <3>2, <3>3
  <2> QED BY <2>1, <2>2
<1>6. IsSum(f, h, U)
  <2>1. h = [s \in SUBSET U |-> h[s]]
    OBVIOUS
  <2> HIDE DEF h
  <2> QED BY <1>5, <2>1 DEF IsSum
<1> QED BY <1>1, <1>6

(* What SumFunctionOnSet returns is a value of the recursion.               *)
LEMMA SumIsFold ==
    ASSUME NEW f, NEW S, IsFiniteSet(S)
    PROVE  \E g : IsSum(f, g, S) /\ SumFunctionOnSet(f, S) = g[S]
<1> DEFINE g == CHOOSE h : IsSum(f, h, S)
<1>1. IsSum(f, g, S)
  BY SumExists
<1>2. SumFunctionOnSet(f, S) = g[S]
  BY DEF SumFunctionOnSet, FoldFunctionOnSet, MapThenFoldSet, IsSum, SumStep, Taken
<1> QED BY <1>1, <1>2

(* The sum over nothing.                                                    *)
LEMMA SumEmpty ==
    ASSUME NEW f
    PROVE  SumFunctionOnSet(f, {}) = 0
<1>1. IsFiniteSet({})
  BY FS_EmptySet
<1>2. PICK g : IsSum(f, g, {}) /\ SumFunctionOnSet(f, {}) = g[{}]
  BY <1>1, SumIsFold
<1>3. {} \in SUBSET {}
  OBVIOUS
<1> QED BY <1>2, <1>3 DEF IsSum, SumStep

(* The element the library takes first.                                     *)
LEMMA SumTaken ==
    ASSUME NEW f, NEW S, IsFiniteSet(S), S # {}
    PROVE  /\ Taken(S) \in S
           /\ SumFunctionOnSet(f, S) = f[Taken(S)] + SumFunctionOnSet(f, S \ {Taken(S)})
<1> DEFINE R == S \ {Taken(S)}
<1>1. Taken(S) \in S
  BY DEF Taken
<1>2. R \in SUBSET S /\ IsFiniteSet(R) /\ R \in SUBSET R
  BY FS_Subset
<1>3. PICK g : IsSum(f, g, S) /\ SumFunctionOnSet(f, S) = g[S]
  BY SumIsFold
<1>4. PICK h : IsSum(f, h, R) /\ SumFunctionOnSet(f, R) = h[R]
  <2> HIDE DEF R
  <2> QED BY <1>2, SumIsFold
<1>5. g[R] = h[R]
  <2> HIDE DEF R
  <2> QED BY <1>2, <1>3, <1>4, SumsAgree
<1>6. g[S] = f[Taken(S)] + g[R]
  <2>1. S \in SUBSET S
    OBVIOUS
  <2>2. g[S] = SumStep(f, g, S)
    BY <1>3, <2>1 DEF IsSum
  <2> QED BY <2>2 DEF SumStep
<1> HIDE DEF R
<1>7. SumFunctionOnSet(f, S) = f[Taken(S)] + SumFunctionOnSet(f, R)
  BY <1>3, <1>4, <1>5, <1>6
<1> QED BY <1>1, <1>7 DEF R

(* A sum of integers is an integer.                                         *)
LEMMA SumInt ==
    ASSUME NEW f, NEW S, IsFiniteSet(S), \A x \in S : f[x] \in Int
    PROVE  SumFunctionOnSet(f, S) \in Int
<1> DEFINE Bad == {s \in SUBSET S : SumFunctionOnSet(f, s) \notin Int}
<1> SUFFICES ASSUME Bad # {} PROVE FALSE
  <2>1. S \in SUBSET S
    OBVIOUS
  <2> QED BY <2>1
<1>1. PICK U \in Bad : \A y \in Bad : y \subseteq U => y = U
  <2>1. Bad \in SUBSET (SUBSET S)
    OBVIOUS
  <2> HIDE DEF Bad
  <2> QED BY <2>1, SmallestSet
<1>2. U \in SUBSET S /\ SumFunctionOnSet(f, U) \notin Int /\ IsFiniteSet(U)
  BY FS_Subset
<1>3. U # {}
  BY <1>2, SumEmpty
<1> DEFINE t == Taken(U)
<1>4. t \in U /\ SumFunctionOnSet(f, U) = f[t] + SumFunctionOnSet(f, U \ {t})
  BY <1>2, <1>3, SumTaken
<1> HIDE DEF t
<1>5. U \ {t} \notin Bad /\ U \ {t} \in SUBSET S
  BY <1>1, <1>2, <1>4
<1>6. SumFunctionOnSet(f, U \ {t}) \in Int
  BY <1>5
<1>7. f[t] \in Int
  BY <1>2, <1>4
<1> QED BY <1>2, <1>4, <1>6, <1>7

(* Any element may be taken first.                                          *)
LEMMA SumSplit ==
    ASSUME NEW f, NEW S, IsFiniteSet(S), \A x \in S : f[x] \in Int, NEW e \in S
    PROVE  SumFunctionOnSet(f, S) = f[e] + SumFunctionOnSet(f, S \ {e})
<1> DEFINE Splits(s) == \A x \in s : SumFunctionOnSet(f, s) = f[x] + SumFunctionOnSet(f, s \ {x})
           Bad == {s \in SUBSET S : ~Splits(s)}
<1> SUFFICES ASSUME Bad # {} PROVE FALSE
  <2>1. S \in SUBSET S
    OBVIOUS
  <2> QED BY <2>1
<1>1. PICK U \in Bad : \A y \in Bad : y \subseteq U => y = U
  <2>1. Bad \in SUBSET (SUBSET S)
    OBVIOUS
  <2> HIDE DEF Bad
  <2> QED BY <2>1, SmallestSet
<1>2. U \in SUBSET S /\ ~Splits(U) /\ IsFiniteSet(U)
  BY FS_Subset
<1>3. PICK x \in U : SumFunctionOnSet(f, U) # f[x] + SumFunctionOnSet(f, U \ {x})
  BY <1>2
<1> DEFINE t == Taken(U)
<1>4. t \in U /\ SumFunctionOnSet(f, U) = f[t] + SumFunctionOnSet(f, U \ {t})
  BY <1>2, <1>3, SumTaken
<1> HIDE DEF t
<1>5. t # x
  BY <1>3, <1>4
<1>6. \A y \in SUBSET U : y # U => Splits(y)
  <2> HIDE DEF Splits
  <2> QED BY <1>1, <1>2
<1> DEFINE rest == (U \ {t}) \ {x}
<1>7. SumFunctionOnSet(f, U \ {t}) = f[x] + SumFunctionOnSet(f, rest)
  <2>1. U \ {t} \in SUBSET U /\ U \ {t} # U /\ x \in U \ {t}
    BY <1>4, <1>5
  <2> QED BY <1>6, <2>1
<1>8. SumFunctionOnSet(f, U \ {x}) = f[t] + SumFunctionOnSet(f, rest)
  <2>1. U \ {x} \in SUBSET U /\ U \ {x} # U /\ t \in U \ {x}
    BY <1>4, <1>5
  <2>2. (U \ {x}) \ {t} = rest
    OBVIOUS
  <2>3. SumFunctionOnSet(f, U \ {x}) = f[t] + SumFunctionOnSet(f, (U \ {x}) \ {t})
    BY <1>6, <2>1
  <2> QED BY <2>2, <2>3
<1>9. f[x] \in Int /\ f[t] \in Int /\ SumFunctionOnSet(f, rest) \in Int
  <2>1. f[x] \in Int /\ f[t] \in Int
    BY <1>2, <1>4
  <2>2. rest \in SUBSET U
    OBVIOUS
  <2> HIDE DEF rest
  <2>3. IsFiniteSet(rest) /\ \A y \in rest : f[y] \in Int
    BY <1>2, <2>2, FS_Subset
  <2> QED BY <2>1, <2>3, SumInt
<1> HIDE DEF rest
<1> QED BY <1>3, <1>4, <1>7, <1>8, <1>9

(* A sum depends on the values over the set only.                           *)
LEMMA SumSame ==
    ASSUME NEW f, NEW g, NEW S, IsFiniteSet(S), \A x \in S : f[x] = g[x]
    PROVE  SumFunctionOnSet(f, S) = SumFunctionOnSet(g, S)
<1> DEFINE Bad == {s \in SUBSET S : SumFunctionOnSet(f, s) # SumFunctionOnSet(g, s)}
<1> SUFFICES ASSUME Bad # {} PROVE FALSE
  <2>1. S \in SUBSET S
    OBVIOUS
  <2> QED BY <2>1
<1>1. PICK U \in Bad : \A y \in Bad : y \subseteq U => y = U
  <2>1. Bad \in SUBSET (SUBSET S)
    OBVIOUS
  <2> HIDE DEF Bad
  <2> QED BY <2>1, SmallestSet
<1>2. U \in SUBSET S /\ SumFunctionOnSet(f, U) # SumFunctionOnSet(g, U) /\ IsFiniteSet(U)
  BY FS_Subset
<1>3. U # {}
  BY <1>2, SumEmpty
<1> DEFINE t == Taken(U)
<1>4. /\ t \in U /\ SumFunctionOnSet(f, U) = f[t] + SumFunctionOnSet(f, U \ {t})
      /\ SumFunctionOnSet(g, U) = g[t] + SumFunctionOnSet(g, U \ {t})
  BY <1>2, <1>3, SumTaken
<1> HIDE DEF t
<1>5. U \ {t} \notin Bad /\ U \ {t} \in SUBSET S
  BY <1>1, <1>2, <1>4
<1>6. SumFunctionOnSet(f, U \ {t}) = SumFunctionOnSet(g, U \ {t})
  BY <1>5
<1> QED BY <1>2, <1>4, <1>6

(* A new element adds its value.                                            *)
LEMMA SumAdd ==
    ASSUME NEW f, NEW S, IsFiniteSet(S), NEW e, e \notin S, \A x \in S \cup {e} : f[x] \in Int
    PROVE  SumFunctionOnSet(f, S \cup {e}) = SumFunctionOnSet(f, S) + f[e]
<1> DEFINE A == S \cup {e}
<1>1. IsFiniteSet(A) /\ e \in A /\ A \ {e} = S
  BY FS_AddElement
<1>2. SumFunctionOnSet(f, S) \in Int /\ f[e] \in Int
  <2>1. \A x \in S : f[x] \in Int
    OBVIOUS
  <2> QED BY <2>1, SumInt
<1> HIDE DEF A
<1>3. SumFunctionOnSet(f, A) = f[e] + SumFunctionOnSet(f, A \ {e})
  BY <1>1, SumSplit DEF A
<1>4. SumFunctionOnSet(f, A) = SumFunctionOnSet(f, S) + f[e]
  <2>1. SumFunctionOnSet(f, A) = f[e] + SumFunctionOnSet(f, S)
    BY <1>1, <1>3, Zenon
  <2> QED BY <1>2, <2>1
<1> QED BY <1>4 DEF A

(* Changing one value changes the sum by as much.                           *)
LEMMA SumChange ==
    ASSUME NEW f, NEW g, NEW S, IsFiniteSet(S), NEW e \in S,
           \A x \in S : f[x] \in Int, g[e] \in Int, \A x \in S \ {e} : g[x] = f[x]
    PROVE  SumFunctionOnSet(g, S) = SumFunctionOnSet(f, S) + g[e] - f[e]
<1> DEFINE R == S \ {e}
<1>1. IsFiniteSet(R) /\ (\A x \in S : g[x] \in Int) /\ (\A x \in R : f[x] \in Int)
  <2>1. R \in SUBSET S
    OBVIOUS
  <2> QED BY <2>1, FS_Subset
<1>2. /\ SumFunctionOnSet(f, S) = f[e] + SumFunctionOnSet(f, R)
      /\ SumFunctionOnSet(g, S) = g[e] + SumFunctionOnSet(g, R)
  BY <1>1, SumSplit
<1>3. SumFunctionOnSet(g, R) = SumFunctionOnSet(f, R)
  BY <1>1, SumSame
<1>4. SumFunctionOnSet(f, R) \in Int /\ f[e] \in Int
  BY <1>1, SumInt
<1> HIDE DEF R
<1> QED BY <1>2, <1>3, <1>4

(* A function on a finite, non-empty set takes a highest value.             *)
LEMMA HighestOf ==
    ASSUME NEW f, NEW S, IsFiniteSet(S), S # {}, \A x \in S : f[x] \in Int
    PROVE  \E x \in S : \A y \in S : f[y] <= f[x]
<1> DEFINE Above(x) == {y \in S : f[y] > f[x]}
           T == {Above(x) : x \in S}
<1>1. T \in SUBSET (SUBSET S) /\ T # {}
  OBVIOUS
<1>2. PICK a \in T : \A b \in T : b \subseteq a => b = a
  <2> HIDE DEF T
  <2> QED BY <1>1, SmallestSet
<1>3. PICK x \in S : a = Above(x)
  OBVIOUS
<1>4. ASSUME NEW y \in S, f[y] > f[x] PROVE FALSE
  <2>1. \A z \in S : f[z] > f[y] => f[z] > f[x]
    BY <1>4
  <2>2. y \in Above(x)
    BY <1>4
  <2>3. ~(f[y] > f[y])
    OBVIOUS
  <2>4. y \notin Above(y)
    BY <2>3
  <2>5. Above(y) \subseteq Above(x)
    BY <2>1
  <2>6. Above(y) \in T
    OBVIOUS
  <2> HIDE DEF Above, T
  <2> QED BY <1>2, <1>3, <2>2, <2>4, <2>5, <2>6
<1> QED BY <1>4

(* A sum of naturals is a natural.                                          *)
LEMMA SumNat ==
    ASSUME NEW f, NEW S, IsFiniteSet(S), \A x \in S : f[x] \in Nat
    PROVE  SumFunctionOnSet(f, S) \in Nat
<1> DEFINE Bad == {s \in SUBSET S : SumFunctionOnSet(f, s) \notin Nat}
<1> SUFFICES ASSUME Bad # {} PROVE FALSE
  <2>1. S \in SUBSET S
    OBVIOUS
  <2> QED BY <2>1
<1>1. PICK U \in Bad : \A y \in Bad : y \subseteq U => y = U
  <2>1. Bad \in SUBSET (SUBSET S)
    OBVIOUS
  <2> HIDE DEF Bad
  <2> QED BY <2>1, SmallestSet
<1>2. U \in SUBSET S /\ SumFunctionOnSet(f, U) \notin Nat /\ IsFiniteSet(U)
  BY FS_Subset
<1>3. U # {}
  BY <1>2, SumEmpty
<1> DEFINE t == Taken(U)
<1>4. t \in U /\ SumFunctionOnSet(f, U) = f[t] + SumFunctionOnSet(f, U \ {t})
  BY <1>2, <1>3, SumTaken
<1> HIDE DEF t
<1>5. U \ {t} \notin Bad /\ U \ {t} \in SUBSET S
  BY <1>1, <1>2, <1>4
<1>6. SumFunctionOnSet(f, U \ {t}) \in Nat
  BY <1>5
<1> QED BY <1>2, <1>4, <1>6

(* The sum of pointwise sums.                                               *)
LEMMA SumPlus ==
    ASSUME NEW f, NEW g, NEW h, NEW S, IsFiniteSet(S),
           \A x \in S : f[x] \in Int /\ g[x] \in Int /\ h[x] = f[x] + g[x]
    PROVE  SumFunctionOnSet(h, S) = SumFunctionOnSet(f, S) + SumFunctionOnSet(g, S)
<1> DEFINE Adds(s) == SumFunctionOnSet(h, s) = SumFunctionOnSet(f, s) + SumFunctionOnSet(g, s)
           Bad == {s \in SUBSET S : ~Adds(s)}
<1> SUFFICES ASSUME Bad # {} PROVE FALSE
  <2>1. S \in SUBSET S
    OBVIOUS
  <2> QED BY <2>1
<1>1. PICK U \in Bad : \A y \in Bad : y \subseteq U => y = U
  <2>1. Bad \in SUBSET (SUBSET S)
    OBVIOUS
  <2> HIDE DEF Bad
  <2> QED BY <2>1, SmallestSet
<1>2. U \in SUBSET S /\ ~Adds(U) /\ IsFiniteSet(U)
  BY FS_Subset
<1>3. U # {}
  <2>1. SumFunctionOnSet(f, {}) = 0 /\ SumFunctionOnSet(g, {}) = 0 /\ SumFunctionOnSet(h, {}) = 0
    BY SumEmpty
  <2>2. Adds({})
    BY <2>1
  <2> QED BY <1>2, <2>2
<1> DEFINE t == Taken(U)
           R == U \ {t}
<1>4. /\ t \in U
      /\ SumFunctionOnSet(f, U) = f[t] + SumFunctionOnSet(f, R)
      /\ SumFunctionOnSet(g, U) = g[t] + SumFunctionOnSet(g, R)
      /\ SumFunctionOnSet(h, U) = h[t] + SumFunctionOnSet(h, R)
  BY <1>2, <1>3, SumTaken
<1> HIDE DEF t
<1>5. R \notin Bad /\ R \in SUBSET S /\ IsFiniteSet(R)
  <2>1. R \in SUBSET U /\ R # U
    BY <1>4
  <2> QED BY <1>1, <1>2, <2>1, FS_Subset
<1> HIDE DEF R
<1>6. SumFunctionOnSet(h, R) = SumFunctionOnSet(f, R) + SumFunctionOnSet(g, R)
  BY <1>5
<1>7. SumFunctionOnSet(f, R) \in Int /\ SumFunctionOnSet(g, R) \in Int
  BY <1>5, SumInt
<1>8. f[t] \in Int /\ g[t] \in Int /\ h[t] = f[t] + g[t]
  BY <1>2, <1>4
<1> QED BY <1>2, <1>4, <1>6, <1>7, <1>8

(* Elements without a value do not count.                                   *)
LEMMA SumSupport ==
    ASSUME NEW f, NEW S, NEW T, IsFiniteSet(S), T \in SUBSET S,
           \A x \in S : f[x] \in Int, \A x \in S \ T : f[x] = 0
    PROVE  SumFunctionOnSet(f, S) = SumFunctionOnSet(f, T)
<1> DEFINE Mid == {s \in SUBSET S : T \subseteq s}
           Bad == {s \in Mid : SumFunctionOnSet(f, s) # SumFunctionOnSet(f, T)}
<1> SUFFICES ASSUME Bad # {} PROVE FALSE
  <2>1. S \in Mid
    OBVIOUS
  <2> QED BY <2>1
<1>1. PICK U \in Bad : \A y \in Bad : y \subseteq U => y = U
  <2>1. Bad \in SUBSET (SUBSET S)
    OBVIOUS
  <2> HIDE DEF Bad
  <2> QED BY <2>1, SmallestSet
<1>2. U \in SUBSET S /\ T \subseteq U /\ SumFunctionOnSet(f, U) # SumFunctionOnSet(f, T) /\ IsFiniteSet(U)
  BY FS_Subset
<1>3. PICK e \in U : e \notin T
  <2>1. U # T
    BY <1>2
  <2> QED BY <1>2, <2>1
<1>4. SumFunctionOnSet(f, U) = f[e] + SumFunctionOnSet(f, U \ {e})
  <2>1. \A x \in U : f[x] \in Int
    BY <1>2
  <2> QED BY <1>2, <2>1, SumSplit
<1>5. f[e] = 0
  BY <1>2, <1>3
<1> DEFINE R == U \ {e}
<1>6. R \in SUBSET S /\ R \in SUBSET U /\ R # U /\ T \subseteq R
  BY <1>2, <1>3
<1>7. SumFunctionOnSet(f, R) = SumFunctionOnSet(f, T)
  <2> HIDE DEF R
  <2> QED BY <1>1, <1>6
<1>8. SumFunctionOnSet(f, R) \in Int
  <2> HIDE DEF R
  <2>1. IsFiniteSet(R) /\ \A x \in R : f[x] \in Int
    BY <1>6, FS_Subset
  <2> QED BY <2>1, SumInt
<1> QED BY <1>2, <1>4, <1>5, <1>7, <1>8

(* The first number of a set of numbers up to a bound.                      *)
LEMMA FirstOf ==
    ASSUME NEW N \in Nat, NEW B \in SUBSET (0..N), B # {}
    PROVE  \E m \in B : \A k \in B : m <= k
<1> DEFINE f == [k \in 0..N |-> 0 - k]
<1>1. IsFiniteSet(B)
  <2>1. IsFiniteSet(0..N)
    BY FS_Interval
  <2> QED BY <2>1, FS_Subset
<1>2. \A k \in B : f[k] = 0 - k /\ f[k] \in Int
  OBVIOUS
<1> HIDE DEF f
<1>3. PICK m \in B : \A k \in B : f[k] <= f[m]
  BY <1>1, <1>2, HighestOf
<1>4. ASSUME NEW k \in B PROVE m <= k
  <2>1. 0 - k <= 0 - m
    BY <1>2, <1>3
  <2> QED BY <2>1
<1> QED BY <1>4
=============================================================================
