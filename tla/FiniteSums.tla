----------------------------- MODULE FiniteSums -----------------------------
(***************************************************************************)
(* What adding up a function over a finite set (SumFunctionOnSet of module *)
(* Functions) gives.  The definition takes the elements in an order of its *)
(* own; the lemmas show that the order does not matter.  They stand on an  *)
(* induction over the subsets of a finite set that speaks of the set of    *)
(* the subsets with a property instead of the property itself.             *)
(***************************************************************************)
EXTENDS Integers, FiniteSets, Functions, FiniteSetTheorems, WellFoundedInduction, TLAPS

-----------------------------------------------------------------------------
(* Induction over the subsets of a finite set *)

LEMMA SmallerSubsets ==
  ASSUME NEW S, IsFiniteSet(S), NEW G \in SUBSET SUBSET S,
         \A T \in SUBSET S : (\A U \in SUBSET T : U # T => U \in G) => T \in G
  PROVE  G = SUBSET S
<1> DEFINE R == StrictSubsetOrdering(S)
           bad == (SUBSET S) \ G
<1> SUFFICES ASSUME bad # {} PROVE FALSE
  OBVIOUS
<1>1. IsWellFoundedOn(R, SUBSET S) /\ bad \subseteq SUBSET S
  <2>1. IsWellFoundedOn(StrictSubsetOrdering(S), SUBSET S)
    <3>1. FiniteSubsetsOf(S) = SUBSET S
      BY FS_FiniteSubsetsOfFinite
    <3>2. IsWellFoundedOn(StrictSubsetOrdering(S), FiniteSubsetsOf(S))
      BY FS_StrictSubsetOrderingWellFounded
    <3> QED BY <3>1, <3>2
  <2> QED BY <2>1
<1>2. PICK T \in bad : \A U \in bad : <<U, T>> \notin R
  <2> HIDE DEF R, bad
  <2> QED BY <1>1, WFMin
<1>3. ASSUME NEW U \in SUBSET T, U # T PROVE U \in G
  <2>1. <<U, T>> \in R
    BY <1>3 DEF StrictSubsetOrdering
  <2> QED BY <1>2, <2>1
<1> QED BY <1>2, <1>3

LEMMA OneMoreElement ==
  ASSUME NEW S, IsFiniteSet(S), NEW G \in SUBSET SUBSET S, {} \in G,
         \A T \in G : \A x \in S \ T : T \cup {x} \in G
  PROVE  G = SUBSET S
<1>1. ASSUME NEW T \in SUBSET S, \A U \in SUBSET T : U # T => U \in G PROVE T \in G
  <2>1. CASE T # {}
    <3>1. PICK x \in T : TRUE
      BY <2>1
    <3>2. T \ {x} \in G /\ x \in S \ (T \ {x})
      BY <1>1, <3>1
    <3>3. (T \ {x}) \cup {x} \in G
      BY <3>2
    <3> QED BY <3>1, <3>3
  <2> QED BY <2>1
<1> QED BY <1>1, SmallerSubsets

-----------------------------------------------------------------------------
(* The definition takes out one chosen element after the other *)

Chosen(s) == CHOOSE x \in s : TRUE

AddsUp(f, S, it) ==
    it = [s \in SUBSET S |-> IF s = {} THEN 0 ELSE f[Chosen(s)] + it[s \ {Chosen(s)}]]

LEMMA SumUnfolded ==
  ASSUME NEW f, NEW S
  PROVE  SumFunctionOnSet(f, S) = (CHOOSE it : AddsUp(f, S, it))[S]
BY DEF SumFunctionOnSet, FoldFunctionOnSet, MapThenFoldSet, AddsUp, Chosen

\* Functions that add up agree where both do.
LEMMA AddsUnique ==
  ASSUME NEW f, NEW S, NEW T, NEW i, NEW j, IsFiniteSet(T), T \subseteq S,
         AddsUp(f, S, i), AddsUp(f, T, j)
  PROVE  i[T] = j[T]
<1> DEFINE G == {U \in SUBSET T : i[U] = j[U]}
<1>1. ASSUME NEW U \in SUBSET T, \A V \in SUBSET U : V # U => V \in G PROVE U \in G
  <2>1. CASE U = {}
    BY <2>1 DEF AddsUp
  <2>2. CASE U # {}
    <3>1. Chosen(U) \in U
      BY <2>2 DEF Chosen
    <3>2. i[U \ {Chosen(U)}] = j[U \ {Chosen(U)}]
      BY <1>1, <3>1
    <3> QED BY <2>2, <3>2 DEF AddsUp
  <2> QED BY <2>1, <2>2
<1> HIDE DEF G
<1>2. G = SUBSET T
  <2>1. G \in SUBSET SUBSET T
    BY DEF G
  <2> QED BY <1>1, <2>1, SmallerSubsets
<1> QED BY <1>2 DEF G

LEMMA AddsExists ==
  ASSUME NEW f, NEW S, IsFiniteSet(S)
  PROVE  \E it : AddsUp(f, S, it)
<1> DEFINE G == {T \in SUBSET S : \E it : AddsUp(f, T, it)}
           sum(T) == (CHOOSE it : AddsUp(f, T, it))[T]
           next(T) == IF T = {} THEN 0 ELSE f[Chosen(T)] + sum(T \ {Chosen(T)})
<1>1. ASSUME NEW T \in SUBSET S, \A U \in SUBSET T : U # T => U \in G PROVE T \in G
  <2>1. ASSUME NEW U \in SUBSET T, U # T PROVE sum(U) = next(U)
    <3>1. PICK i : i = (CHOOSE it : AddsUp(f, U, it)) /\ AddsUp(f, U, i)
      BY <1>1, <2>1
    <3>2. i[U] = IF U = {} THEN 0 ELSE f[Chosen(U)] + i[U \ {Chosen(U)}]
      BY <3>1 DEF AddsUp
    <3>3. CASE U # {}
      <4> DEFINE V == U \ {Chosen(U)}
      <4>1. V \in SUBSET T /\ V # T /\ V \subseteq U
        BY <2>1
      <4>2. PICK j : j = (CHOOSE it : AddsUp(f, V, it)) /\ AddsUp(f, V, j)
        BY <1>1, <4>1
      <4>3. IsFiniteSet(V)
        BY <4>1, FS_Subset
      <4> HIDE DEF V
      <4>4. i[V] = j[V]
        BY <3>1, <4>1, <4>2, <4>3, AddsUnique
      <4> QED BY <3>1, <3>2, <3>3, <4>2, <4>4 DEF V
    <3> QED BY <3>1, <3>2, <3>3
  <2> DEFINE it == [U \in SUBSET T |-> next(U)]
  <2>2. ASSUME NEW U \in SUBSET T, U # {} PROVE it[U \ {Chosen(U)}] = sum(U \ {Chosen(U)})
    <3>1. Chosen(U) \in U
      BY <2>2 DEF Chosen
    <3>2. U \ {Chosen(U)} \in SUBSET T /\ U \ {Chosen(U)} # T
      BY <3>1
    <3> QED BY <2>1, <3>2
  <2>3. AddsUp(f, T, it)
    <3> HIDE DEF sum
    <3>1. \A U \in SUBSET T : it[U] = IF U = {} THEN 0 ELSE f[Chosen(U)] + it[U \ {Chosen(U)}]
      BY <2>2
    <3>2. it = [U \in SUBSET T |-> it[U]]
      OBVIOUS
    <3> HIDE DEF it
    <3> QED BY <3>1, <3>2 DEF AddsUp
  <2> HIDE DEF it, next, sum
  <2> QED BY <2>3
<1> HIDE DEF G
<1>2. G = SUBSET S
  <2>1. G \in SUBSET SUBSET S
    BY DEF G
  <2> QED BY <1>1, <2>1, SmallerSubsets
<1> QED BY <1>2 DEF G

LEMMA SumChosen ==
  ASSUME NEW f, NEW S, IsFiniteSet(S)
  PROVE  SumFunctionOnSet(f, S) =
            IF S = {} THEN 0 ELSE f[Chosen(S)] + SumFunctionOnSet(f, S \ {Chosen(S)})
<1> DEFINE T == S \ {Chosen(S)}
           i == CHOOSE it : AddsUp(f, S, it)
           j == CHOOSE it : AddsUp(f, T, it)
<1>1. IsFiniteSet(T) /\ T \subseteq S
  BY FS_Subset
<1>2. AddsUp(f, S, i) /\ AddsUp(f, T, j)
  <2> HIDE DEF T
  <2> QED BY <1>1, AddsExists
<1> HIDE DEF i, j
<1>3. i[T] = j[T]
  <2> HIDE DEF T
  <2> QED BY <1>1, <1>2, AddsUnique
<1>4. i[S] = IF S = {} THEN 0 ELSE f[Chosen(S)] + i[T]
  BY <1>2 DEF AddsUp
<1>5. SumFunctionOnSet(f, S) = i[S] /\ SumFunctionOnSet(f, T) = j[T]
  BY SumUnfolded DEF i, j
<1> QED BY <1>3, <1>4, <1>5
-----------------------------------------------------------------------------
(* What proofs need of it *)

LEMMA SumEmpty == ASSUME NEW f PROVE SumFunctionOnSet(f, {}) = 0
<1>1. IsFiniteSet({})
  BY FS_EmptySet
<1> QED BY <1>1, SumChosen

\* A sum depends on the values at its elements alone.
LEMMA SumCongruence ==
  ASSUME NEW S, IsFiniteSet(S), NEW f, NEW g, \A x \in S : f[x] = g[x]
  PROVE  SumFunctionOnSet(f, S) = SumFunctionOnSet(g, S)
<1> DEFINE G == {T \in SUBSET S : SumFunctionOnSet(f, T) = SumFunctionOnSet(g, T)}
<1>1. ASSUME NEW T \in SUBSET S, \A U \in SUBSET T : U # T => U \in G PROVE T \in G
  <2>0. IsFiniteSet(T)
    BY FS_Subset
  <2>1. CASE T # {}
    <3>1. Chosen(T) \in T
      BY <2>1 DEF Chosen
    <3>2. SumFunctionOnSet(f, T \ {Chosen(T)}) = SumFunctionOnSet(g, T \ {Chosen(T)})
      BY <1>1, <3>1
    <3> QED BY <2>0, <2>1, <3>1, <3>2, SumChosen
  <2>2. CASE T = {}
    BY <2>2, SumEmpty
  <2> QED BY <2>1, <2>2
<1> HIDE DEF G
<1>2. G = SUBSET S
  <2>1. G \in SUBSET SUBSET S
    BY DEF G
  <2> QED BY <1>1, <2>1, SmallerSubsets
<1> QED BY <1>2 DEF G

LEMMA SumInt ==
  ASSUME NEW S, IsFiniteSet(S), NEW f, \A x \in S : f[x] \in Int
  PROVE  SumFunctionOnSet(f, S) \in Int
<1> DEFINE G == {T \in SUBSET S : SumFunctionOnSet(f, T) \in Int}
<1>1. ASSUME NEW T \in SUBSET S, \A U \in SUBSET T : U # T => U \in G PROVE T \in G
  <2>0. IsFiniteSet(T)
    BY FS_Subset
  <2>1. CASE T # {}
    <3>1. Chosen(T) \in T
      BY <2>1 DEF Chosen
    <3>2. SumFunctionOnSet(f, T \ {Chosen(T)}) \in Int
      BY <1>1, <3>1
    <3> QED BY <2>0, <2>1, <3>1, <3>2, SumChosen
  <2>2. CASE T = {}
    BY <2>2, SumEmpty
  <2> QED BY <2>1, <2>2
<1> HIDE DEF G
<1>2. G = SUBSET S
  <2>1. G \in SUBSET SUBSET S
    BY DEF G
  <2> QED BY <1>1, <2>1, SmallerSubsets
<1> QED BY <1>2 DEF G

\* Any element can be taken out.
LEMMA SumRemove ==
  ASSUME NEW S, IsFiniteSet(S), NEW f, \A x \in S : f[x] \in Int, NEW x \in S
  PROVE  SumFunctionOnSet(f, S) = f[x] + SumFunctionOnSet(f, S \ {x})
<1> DEFINE G == {T \in SUBSET S :
                   \A y \in T : SumFunctionOnSet(f, T) = f[y] + SumFunctionOnSet(f, T \ {y})}
<1>1. ASSUME NEW T \in SUBSET S, \A U \in SUBSET T : U # T => U \in G PROVE T \in G
  <2>1. ASSUME NEW y \in T PROVE SumFunctionOnSet(f, T) = f[y] + SumFunctionOnSet(f, T \ {y})
    <3> DEFINE p == Chosen(T)
    <3>0. IsFiniteSet(T)
      BY FS_Subset
    <3>1. p \in T
      BY <2>1 DEF Chosen
    <3>2. SumFunctionOnSet(f, T) = f[p] + SumFunctionOnSet(f, T \ {p})
      BY <2>1, <3>0, SumChosen
    <3> HIDE DEF p
    <3>3. CASE p = y
      BY <3>2, <3>3
    <3>4. CASE p # y
      <4> DEFINE rest == (T \ {p}) \ {y}
      <4>1. SumFunctionOnSet(f, T \ {p}) = f[y] + SumFunctionOnSet(f, rest)
        <5>1. T \ {p} \in SUBSET T /\ T \ {p} # T /\ y \in T \ {p}
          BY <3>1, <3>4
        <5> QED BY <1>1, <5>1
      <4>2. SumFunctionOnSet(f, T \ {y}) = f[p] + SumFunctionOnSet(f, rest)
        <5>1. T \ {y} \in SUBSET T /\ T \ {y} # T /\ p \in T \ {y} /\ (T \ {y}) \ {p} = rest
          BY <3>1, <3>4
        <5> HIDE DEF rest
        <5> QED BY <1>1, <5>1
      <4>3. SumFunctionOnSet(f, rest) \in Int
        <5>1. IsFiniteSet(rest) /\ \A z \in rest : f[z] \in Int
          BY FS_Subset
        <5> HIDE DEF rest
        <5> QED BY <5>1, SumInt
      <4>4. f[p] \in Int /\ f[y] \in Int
        BY <3>1
      <4> HIDE DEF rest
      <4> QED BY <3>2, <4>1, <4>2, <4>3, <4>4
    <3> QED BY <3>3, <3>4
  <2> QED BY <2>1
<1> HIDE DEF G
<1>2. G = SUBSET S
  <2>1. G \in SUBSET SUBSET S
    BY DEF G
  <2> QED BY <1>1, <2>1, SmallerSubsets
<1> QED BY <1>2 DEF G

LEMMA SumAdd ==
  ASSUME NEW S, IsFiniteSet(S), NEW x, x \notin S, NEW f, \A y \in S \cup {x} : f[y] \in Int
  PROVE  SumFunctionOnSet(f, S \cup {x}) = f[x] + SumFunctionOnSet(f, S)
<1>1. IsFiniteSet(S \cup {x}) /\ (S \cup {x}) \ {x} = S
  BY FS_AddElement
<1>2. SumFunctionOnSet(f, S \cup {x}) = f[x] + SumFunctionOnSet(f, (S \cup {x}) \ {x})
  BY <1>1, SumRemove
<1> QED BY <1>1, <1>2

\* What changing one value does to a sum.
LEMMA SumChange ==
  ASSUME NEW S, IsFiniteSet(S), NEW x \in S, NEW f, NEW g,
         \A y \in S : f[y] \in Int, g[x] \in Int, \A y \in S \ {x} : g[y] = f[y]
  PROVE  SumFunctionOnSet(g, S) = SumFunctionOnSet(f, S) - f[x] + g[x]
<1> DEFINE rest == S \ {x}
<1>1. IsFiniteSet(rest) /\ \A y \in rest : f[y] \in Int /\ f[y] = g[y]
  BY FS_Subset
<1>2. SumFunctionOnSet(f, S) = f[x] + SumFunctionOnSet(f, rest)
  BY SumRemove
<1>3. SumFunctionOnSet(g, S) = g[x] + SumFunctionOnSet(g, rest)
  <2>1. \A y \in S : g[y] \in Int
    OBVIOUS
  <2> QED BY <2>1, SumRemove
<1> HIDE DEF rest
<1>4. SumFunctionOnSet(f, rest) = SumFunctionOnSet(g, rest) /\ SumFunctionOnSet(f, rest) \in Int
  BY <1>1, SumCongruence, SumInt
<1> QED BY <1>2, <1>3, <1>4

LEMMA SumMonotone ==
  ASSUME NEW S, IsFiniteSet(S), NEW f, NEW g,
         \A x \in S : f[x] \in Int /\ g[x] \in Int /\ f[x] <= g[x]
  PROVE  SumFunctionOnSet(f, S) <= SumFunctionOnSet(g, S)
<1> DEFINE G == {T \in SUBSET S : SumFunctionOnSet(f, T) <= SumFunctionOnSet(g, T)}
<1>1. {} \in G
  BY SumEmpty
<1>2. ASSUME NEW T \in G, NEW x \in S \ T PROVE T \cup {x} \in G
  <2>1. IsFiniteSet(T) /\ T \subseteq S
    BY FS_Subset
  <2>2. /\ SumFunctionOnSet(f, T \cup {x}) = f[x] + SumFunctionOnSet(f, T)
        /\ SumFunctionOnSet(g, T \cup {x}) = g[x] + SumFunctionOnSet(g, T)
    <3>1. \A y \in T \cup {x} : f[y] \in Int /\ g[y] \in Int
      BY <2>1
    <3> HIDE DEF G
    <3> QED BY <2>1, <3>1, SumAdd
  <2>3. SumFunctionOnSet(f, T) \in Int /\ SumFunctionOnSet(g, T) \in Int
    BY <2>1, SumInt
  <2> QED BY <2>2, <2>3
<1> HIDE DEF G
<1>3. G = SUBSET S
  <2>1. G \in SUBSET SUBSET S
    BY DEF G
  <2> QED BY <1>1, <1>2, <2>1, OneMoreElement
<1> QED BY <1>3 DEF G

\* Disjoint sets are added up apart.
LEMMA SumUnion ==
  ASSUME NEW S, IsFiniteSet(S), NEW T, IsFiniteSet(T), S \cap T = {},
         NEW f, \A x \in S \cup T : f[x] \in Int
  PROVE  SumFunctionOnSet(f, S \cup T) = SumFunctionOnSet(f, S) + SumFunctionOnSet(f, T)
<1> DEFINE G == {U \in SUBSET T :
                   SumFunctionOnSet(f, S \cup U) = SumFunctionOnSet(f, S) + SumFunctionOnSet(f, U)}
<1>0. SumFunctionOnSet(f, S) \in Int
  BY SumInt
<1>1. {} \in G
  <2>1. S \cup {} = S
    OBVIOUS
  <2> QED BY <1>0, <2>1, SumEmpty
<1>2. ASSUME NEW U \in G, NEW x \in T \ U PROVE U \cup {x} \in G
  <2>1. IsFiniteSet(U) /\ U \subseteq T
    BY FS_Subset
  <2>2. IsFiniteSet(S \cup U) /\ x \notin S \cup U /\ S \cup (U \cup {x}) = (S \cup U) \cup {x}
    BY <2>1, FS_Union
  <2>3. \A y \in (S \cup U) \cup {x} : f[y] \in Int
    BY <2>1
  <2>4. SumFunctionOnSet(f, S \cup U) = SumFunctionOnSet(f, S) + SumFunctionOnSet(f, U)
    OBVIOUS
  <2> HIDE DEF G
  <2>5. /\ SumFunctionOnSet(f, (S \cup U) \cup {x}) = f[x] + SumFunctionOnSet(f, S \cup U)
        /\ SumFunctionOnSet(f, U \cup {x}) = f[x] + SumFunctionOnSet(f, U)
    BY <2>1, <2>2, <2>3, SumAdd
  <2>6. SumFunctionOnSet(f, U) \in Int /\ f[x] \in Int
    BY <2>1, <2>3, SumInt
  <2>7. SumFunctionOnSet(f, S \cup (U \cup {x})) = SumFunctionOnSet(f, S) + SumFunctionOnSet(f, U \cup {x})
    <3>1. SumFunctionOnSet(f, S \cup (U \cup {x})) = SumFunctionOnSet(f, (S \cup U) \cup {x})
      BY <2>2, Zenon
    <3> QED BY <1>0, <2>4, <2>5, <2>6, <3>1
  <2> QED BY <2>1, <2>7 DEF G
<1> HIDE DEF G
<1>3. G = SUBSET T
  <2>1. G \in SUBSET SUBSET T
    BY DEF G
  <2> QED BY <1>1, <1>2, <2>1, OneMoreElement
<1> QED BY <1>3 DEF G

LEMMA SumOfZeros ==
  ASSUME NEW S, IsFiniteSet(S), NEW f, \A x \in S : f[x] = 0
  PROVE  SumFunctionOnSet(f, S) = 0
<1> DEFINE G == {T \in SUBSET S : SumFunctionOnSet(f, T) = 0}
<1>1. {} \in G
  BY SumEmpty
<1>2. ASSUME NEW T \in G, NEW x \in S \ T PROVE T \cup {x} \in G
  <2>1. IsFiniteSet(T) /\ \A y \in T \cup {x} : f[y] \in Int
    BY FS_Subset
  <2>2. SumFunctionOnSet(f, T \cup {x}) = f[x] + SumFunctionOnSet(f, T)
    <3> HIDE DEF G
    <3> QED BY <2>1, SumAdd
  <2> QED BY <2>2
<1> HIDE DEF G
<1>3. G = SUBSET S
  <2>1. G \in SUBSET SUBSET S
    BY DEF G
  <2> QED BY <1>1, <1>2, <2>1, OneMoreElement
<1> QED BY <1>3 DEF G

LEMMA SumNat ==
  ASSUME NEW S, IsFiniteSet(S), NEW f, \A x \in S : f[x] \in Nat
  PROVE  SumFunctionOnSet(f, S) \in Nat
<1> DEFINE zero == [x \in S |-> 0]
<1>1. SumFunctionOnSet(zero, S) = 0 /\ \A x \in S : zero[x] = 0
  BY SumOfZeros
<1> HIDE DEF zero
<1>2. SumFunctionOnSet(zero, S) <= SumFunctionOnSet(f, S) /\ SumFunctionOnSet(f, S) \in Int
  BY <1>1, SumMonotone, SumInt
<1> QED BY <1>1, <1>2

\* Of natural numbers, part of a sum is at most the whole.
LEMMA SumPart ==
  ASSUME NEW S, IsFiniteSet(S), NEW T \in SUBSET S, NEW f, \A x \in S : f[x] \in Nat
  PROVE  SumFunctionOnSet(f, T) <= SumFunctionOnSet(f, S)
<1>1. /\ IsFiniteSet(T) /\ IsFiniteSet(S \ T) /\ T \cap (S \ T) = {} /\ T \cup (S \ T) = S
      /\ \A x \in T \cup (S \ T) : f[x] \in Int
  BY FS_Subset
<1>2. SumFunctionOnSet(f, T) \in Nat /\ SumFunctionOnSet(f, S \ T) \in Nat
  BY <1>1, SumNat
<1>3. SumFunctionOnSet(f, T \cup (S \ T)) = SumFunctionOnSet(f, T) + SumFunctionOnSet(f, S \ T)
  BY <1>1, SumUnion
<1>4. SumFunctionOnSet(f, S) = SumFunctionOnSet(f, T) + SumFunctionOnSet(f, S \ T)
  BY <1>1, <1>3, Zenon
<1> QED BY <1>2, <1>4

\* Elements that count nothing can be left out.
LEMMA SumSupport ==
  ASSUME NEW S, IsFiniteSet(S), NEW T \in SUBSET S, NEW f, \A x \in S : f[x] \in Int,
         \A x \in S \ T : f[x] = 0
  PROVE  SumFunctionOnSet(f, T) = SumFunctionOnSet(f, S)
<1>1. /\ IsFiniteSet(T) /\ IsFiniteSet(S \ T) /\ T \cap (S \ T) = {} /\ T \cup (S \ T) = S
      /\ \A x \in T \cup (S \ T) : f[x] \in Int
  BY FS_Subset
<1>2. SumFunctionOnSet(f, T) \in Int /\ SumFunctionOnSet(f, S \ T) = 0
  BY <1>1, SumInt, SumOfZeros
<1>3. SumFunctionOnSet(f, T \cup (S \ T)) = SumFunctionOnSet(f, T) + SumFunctionOnSet(f, S \ T)
  BY <1>1, SumUnion
<1>4. SumFunctionOnSet(f, S) = SumFunctionOnSet(f, T) + SumFunctionOnSet(f, S \ T)
  BY <1>1, <1>3, Zenon
<1> QED BY <1>2, <1>4

\* A sum of natural numbers is zero when each of them is.
LEMMA SumZero ==
  ASSUME NEW S, IsFiniteSet(S), NEW f, \A x \in S : f[x] \in Nat, SumFunctionOnSet(f, S) = 0
  PROVE  \A x \in S : f[x] = 0
<1> SUFFICES ASSUME NEW x \in S PROVE f[x] = 0
  OBVIOUS
<1>1. IsFiniteSet(S \ {x}) /\ \A y \in S \ {x} : f[y] \in Nat
  BY FS_Subset
<1>2. SumFunctionOnSet(f, S \ {x}) \in Nat
  BY <1>1, SumNat
<1>3. SumFunctionOnSet(f, S) = f[x] + SumFunctionOnSet(f, S \ {x})
  BY SumRemove
<1> QED BY <1>2, <1>3

\* Sums of differences.
LEMMA SumMinus ==
  ASSUME NEW S, IsFiniteSet(S), NEW f, NEW g, NEW h,
         \A x \in S : f[x] \in Int /\ g[x] \in Int /\ h[x] = f[x] - g[x]
  PROVE  SumFunctionOnSet(h, S) = SumFunctionOnSet(f, S) - SumFunctionOnSet(g, S)
<1> DEFINE G == {T \in SUBSET S :
              SumFunctionOnSet(h, T) = SumFunctionOnSet(f, T) - SumFunctionOnSet(g, T)}
<1>1. {} \in G
  BY SumEmpty
<1>2. ASSUME NEW T \in G, NEW x \in S \ T PROVE T \cup {x} \in G
  <2>1. IsFiniteSet(T) /\ T \subseteq S
    BY FS_Subset
  <2>2. /\ SumFunctionOnSet(f, T \cup {x}) = f[x] + SumFunctionOnSet(f, T)
        /\ SumFunctionOnSet(g, T \cup {x}) = g[x] + SumFunctionOnSet(g, T)
        /\ SumFunctionOnSet(h, T \cup {x}) = h[x] + SumFunctionOnSet(h, T)
    <3>1. \A y \in T \cup {x} : f[y] \in Int /\ g[y] \in Int /\ h[y] \in Int
      BY <2>1
    <3> HIDE DEF G
    <3> QED BY <2>1, <3>1, SumAdd
  <2>3. SumFunctionOnSet(f, T) \in Int /\ SumFunctionOnSet(g, T) \in Int
    BY <2>1, SumInt
  <2>4. SumFunctionOnSet(h, T) = SumFunctionOnSet(f, T) - SumFunctionOnSet(g, T)
    OBVIOUS
  <2> QED BY <2>2, <2>3, <2>4
<1> HIDE DEF G
<1>3. G = SUBSET S
  <2>1. G \in SUBSET SUBSET S
    BY DEF G
  <2> QED BY <1>1, <1>2, <2>1, OneMoreElement
<1> QED BY <1>3 DEF G

\* A sum over part of a set, when the value of one element changes, or whether it counts.
LEMMA SumOfPartChanges ==
  ASSUME NEW S, IsFiniteSet(S), NEW x \in S, NEW f, NEW g,
         \A y \in S : f[y] \in Int /\ g[y] \in Int, \A y \in S \ {x} : g[y] = f[y],
         NEW T \in SUBSET S, NEW U \in SUBSET S, \A y \in S \ {x} : y \in T <=> y \in U
  PROVE  SumFunctionOnSet(g, U) = SumFunctionOnSet(f, T) - (IF x \in T THEN f[x] ELSE 0)
                                                       + (IF x \in U THEN g[x] ELSE 0)
<1> DEFINE R == T \ {x}
<1>1. /\ IsFiniteSet(R) /\ IsFiniteSet(T) /\ IsFiniteSet(U) /\ U \ {x} = R /\ R \in SUBSET S
      /\ x \notin U => U = R
      /\ x \notin T => T = R
  BY FS_Subset
<1> HIDE DEF R
<1>2. SumFunctionOnSet(f, R) = SumFunctionOnSet(g, R) /\ SumFunctionOnSet(f, R) \in Int
  <2>1. \A y \in R : f[y] \in Int /\ f[y] = g[y]
    BY DEF R
  <2> QED BY <1>1, <2>1, SumCongruence, SumInt
<1>3. ASSUME x \in T PROVE SumFunctionOnSet(f, T) = f[x] + SumFunctionOnSet(f, R)
  BY <1>1, <1>3, SumRemove DEF R
<1>4. ASSUME x \in U PROVE SumFunctionOnSet(g, U) = g[x] + SumFunctionOnSet(g, R)
  <2>1. SumFunctionOnSet(g, U) = g[x] + SumFunctionOnSet(g, U \ {x})
    BY <1>1, <1>4, SumRemove
  <2> QED BY <1>1, <2>1, Zenon
<1>5. x \notin T => SumFunctionOnSet(f, T) = SumFunctionOnSet(f, R)
  BY <1>1, Zenon
<1>6. x \notin U => SumFunctionOnSet(g, U) = SumFunctionOnSet(g, R)
  BY <1>1, Zenon
<1> QED BY <1>2, <1>3, <1>4, <1>5, <1>6

-----------------------------------------------------------------------------

\* A finite set of integers with an element has a largest one.
LEMMA LargestElement ==
  ASSUME NEW S \in SUBSET Int, IsFiniteSet(S), S # {}
  PROVE  \E m \in S : \A x \in S : x <= m
<1> DEFINE G == {T \in SUBSET S : T # {} => \E m \in T : \A x \in T : x <= m}
<1>1. {} \in G
  OBVIOUS
<1>2. ASSUME NEW T \in G, NEW x \in S \ T PROVE T \cup {x} \in G
  <2>1. CASE T = {}
    BY <2>1
  <2>2. CASE T # {}
    <3>1. PICK m \in T : \A y \in T : y <= m
      BY <2>2
    <3>2. CASE x <= m
      BY <3>1, <3>2
    <3>3. CASE ~(x <= m)
      <4>1. \A y \in T \cup {x} : y <= x
        BY <3>1, <3>3
      <4> QED BY <4>1
    <3> QED BY <3>2, <3>3
  <2> QED BY <2>1, <2>2
<1> HIDE DEF G
<1>3. G = SUBSET S
  <2>1. G \in SUBSET SUBSET S
    BY DEF G
  <2> QED BY <1>1, <1>2, <2>1, OneMoreElement
<1> QED BY <1>3 DEF G
=============================================================================
