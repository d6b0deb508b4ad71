----------------------------- MODULE SumProofs ------------------------------
(***************************************************************************)
(* Sums over finite sets: what SumFunctionOnSet, which folds over a set in *)
(* the order CHOOSE picks, computes, and how a sum changes when its set or *)
(* its function does.  The facts are stated about functions and sets, not  *)
(* operators, and each is proved by looking at a smallest set that would   *)
(* violate it (WFMin over the strict-subset ordering).                     *)
(*                                                                         *)
(* At the end, what rounding a quotient gives.                             *)
(***************************************************************************)
EXTENDS Rounding, FiniteSets, Functions, FiniteSetTheorems, TLAPS

\* Every nonempty collection of subsets of a finite set has a member none of
\* whose strict subsets is in it.
LEMMA SmallestSubset ==
    ASSUME NEW S, IsFiniteSet(S), NEW C \in SUBSET SUBSET S, C # {}
    PROVE  \E T \in C : \A U \in C : U \subseteq T => U = T
<1>1. IsWellFoundedOn(StrictSubsetOrdering(S), SUBSET S)
  BY FS_StrictSubsetOrderingWellFounded, FS_FiniteSubsetsOfFinite
<1>2. PICK T \in C : \A U \in C : <<U, T>> \notin StrictSubsetOrdering(S)
  BY <1>1, WFMin
<1> QED  BY <1>2 DEF StrictSubsetOrdering

\* Induction over the subsets of a finite set, for the sets of a given G.
LEMMA SubsetInduction ==
    ASSUME NEW S, IsFiniteSet(S), NEW G,
           {} \in G,
           \A T \in SUBSET S : \A x \in T : T \ {x} \in G => T \in G
    PROVE  S \in G
<1> DEFINE Bad == {T \in SUBSET S : T \notin G}
<1>1. SUFFICES ASSUME Bad # {} PROVE FALSE
  BY <1>1
<1>2. PICK T \in Bad : \A U \in Bad : U \subseteq T => U = T
  <2>1. Bad \in SUBSET SUBSET S
    OBVIOUS
  <2> HIDE DEF Bad
  <2> QED  BY <1>1, <2>1, SmallestSubset
<1>3. PICK x \in T : TRUE
  BY <1>2
<1>4. T \ {x} \notin Bad
  BY <1>2, <1>3
<1> QED  BY <1>2, <1>3, <1>4

-----------------------------------------------------------------------------
(* The fold of SumFunctionOnSet is the recursion it is written as.          *)

Some(s) == CHOOSE x \in s : TRUE

SumStep(f, g, s) == IF s = {} THEN 0 ELSE f[Some(s)] + g[s \ {Some(s)}]

Iterates(f, S, iter) == iter = [s \in SUBSET S |-> SumStep(f, iter, s)]

LEMMA SomeIsIn ==
    ASSUME NEW s, s # {}
    PROVE  Some(s) \in s
BY DEF Some

LEMMA SumUnfolds ==
    ASSUME NEW f, NEW S
    PROVE  SumFunctionOnSet(f, S) = (CHOOSE iter : Iterates(f, S, iter))[S]
BY Zenon DEF SumFunctionOnSet, FoldFunctionOnSet, MapThenFoldSet, Iterates, SumStep, Some

\* The sum of a finite set is that of the rest and one element's value.
LEMMA SumRecursion ==
    ASSUME NEW f, NEW S, IsFiniteSet(S)
    PROVE  SumFunctionOnSet(f, S) =
              IF S = {} THEN 0
              ELSE f[Some(S)] + SumFunctionOnSet(f, S \ {Some(S)})
<1> DEFINE V == [s \in SUBSET S |-> SumFunctionOnSet(f, s)]
           Bad == {s \in SUBSET S : V[s] # SumStep(f, V, s)}
<1>1. SUFFICES ASSUME Bad # {} PROVE FALSE
  <2>1. S \notin Bad
    BY <1>1
  <2>2. V[S] = SumStep(f, V, S)
    BY <2>1
  <2>3. S \ {Some(S)} \in SUBSET S
    OBVIOUS
  <2> QED  BY <2>2, <2>3 DEF SumStep
<1>2. PICK T \in Bad : \A U \in Bad : U \subseteq T => U = T
  <2>1. Bad \in SUBSET SUBSET S
    OBVIOUS
  <2> HIDE DEF Bad
  <2> QED  BY <1>1, <2>1, SmallestSubset
<1> DEFINE h == [s \in SUBSET T |-> IF s = T THEN SumStep(f, V, T) ELSE V[s]]
<1> HIDE DEF V
<1>3. ASSUME NEW s \in SUBSET T, s # T
      PROVE  V[s] = SumStep(f, V, s)
  BY <1>2, <1>3
<1>4. \A s \in SUBSET T : h[s] = SumStep(f, h, s)
  <2> TAKE s \in SUBSET T
  <2>1. CASE s = {}
    BY <2>1, <1>3 DEF SumStep
  <2>2. CASE s # {}
    <3>1. /\ s \ {Some(s)} \in SUBSET T
          /\ s \ {Some(s)} # T
      BY <2>2, SomeIsIn
    <3>2. h[s] = SumStep(f, V, s)
      BY <1>3
    <3>3. h[s \ {Some(s)}] = V[s \ {Some(s)}]
      BY <3>1
    <3> QED  BY <3>2, <3>3, <2>2 DEF SumStep
  <2> QED  BY <2>1, <2>2
<1>5. Iterates(f, T, h)
  <2>1. h = [s \in SUBSET T |-> h[s]]
    OBVIOUS
  <2> HIDE DEF h
  <2> QED  BY <1>4, <2>1 DEF Iterates
<1> DEFINE g == CHOOSE iter : Iterates(f, T, iter)
<1>6. Iterates(f, T, g)
  BY <1>5, Zenon
<1> HIDE DEF g, h
<1>7. \A s \in SUBSET T : g[s] = SumStep(f, g, s)
  BY <1>6 DEF Iterates
<1>8. \A s \in SUBSET T : s # T => g[s] = V[s]
  <2> DEFINE Differ == {s \in SUBSET T : s # T /\ g[s] # V[s]}
  <2>1. SUFFICES ASSUME Differ # {} PROVE FALSE
    BY <2>1
  <2>2. IsFiniteSet(T)
    BY <1>2, FS_Subset
  <2>3. PICK s \in Differ : \A U \in Differ : U \subseteq s => U = s
    <3>1. Differ \in SUBSET SUBSET T
      OBVIOUS
    <3> HIDE DEF Differ
    <3> QED  BY <2>1, <2>2, <3>1, SmallestSubset
  <2>4. g[s] = SumStep(f, g, s) /\ V[s] = SumStep(f, V, s)
    BY <2>3, <1>3, <1>7
  <2>5. s # {} => g[s \ {Some(s)}] = V[s \ {Some(s)}]
    <3>1. SUFFICES ASSUME s # {} PROVE s \ {Some(s)} \notin Differ
      BY <3>1, <2>3
    <3> QED  BY <3>1, <2>3, SomeIsIn
  <2> QED  BY <2>3, <2>4, <2>5 DEF SumStep
<1>9. V[T] = g[T]
  BY <1>2, SumUnfolds DEF V, g
<1>10. T # {} => g[T \ {Some(T)}] = V[T \ {Some(T)}]
  <2>1. T # {} => T \ {Some(T)} # T
    BY SomeIsIn
  <2> QED  BY <2>1, <1>8
<1>11. V[T] = SumStep(f, V, T)
  BY <1>7, <1>9, <1>10 DEF SumStep
<1> QED  BY <1>2, <1>11

LEMMA SumOfNone ==
    ASSUME NEW f
    PROVE  SumFunctionOnSet(f, {}) = 0
BY SumRecursion, FS_EmptySet

-----------------------------------------------------------------------------
(* Sums of integers.                                                        *)

\* Any element can be taken out first.
LEMMA SumTakeOut ==
    ASSUME NEW f, NEW S, IsFiniteSet(S), \A x \in S : f[x] \in Int
    PROVE  /\ SumFunctionOnSet(f, S) \in Int
           /\ \A x \in S : SumFunctionOnSet(f, S) = f[x] + SumFunctionOnSet(f, S \ {x})
<1> DEFINE Sum(s) == SumFunctionOnSet(f, s)
           Good(s) == Sum(s) \in Int /\ \A x \in s : Sum(s) = f[x] + Sum(s \ {x})
           Bad == {s \in SUBSET S : ~Good(s)}
<1>1. SUFFICES ASSUME Bad # {} PROVE FALSE
  <2>1. S \notin Bad
    BY <1>1
  <2> QED  BY <2>1
<1>2. PICK T \in Bad : \A U \in Bad : U \subseteq T => U = T
  <2>1. Bad \in SUBSET SUBSET S
    OBVIOUS
  <2> HIDE DEF Bad
  <2> QED  BY <1>1, <2>1, SmallestSubset
<1>3. \A s \in SUBSET T : s # T => Good(s)
  BY <1>2
<1>4. IsFiniteSet(T)
  BY <1>2, FS_Subset
<1>5. T # {}
  <2>1. Good({})
    BY SumOfNone
  <2> QED  BY <2>1, <1>2
<1> DEFINE y == Some(T)
<1>6. y \in T /\ f[y] \in Int /\ Sum(T) = f[y] + Sum(T \ {y})
  BY <1>2, <1>4, <1>5, SomeIsIn, SumRecursion
<1> HIDE DEF y, Sum
<1>7. Sum(T \ {y}) \in Int
  BY <1>3, <1>6
<1>8. ASSUME NEW x \in T, x # y PROVE Sum(T) = f[x] + Sum(T \ {x})
  <2>1. Good(T \ {y}) /\ Good(T \ {x})
    BY <1>3, <1>6, <1>8
  <2>2. x \in T \ {y} /\ y \in T \ {x}
    BY <1>6, <1>8
  <2>3. Sum(T \ {y}) = f[x] + Sum((T \ {y}) \ {x})
    BY <2>1, <2>2
  <2>4. Sum(T \ {x}) = f[y] + Sum((T \ {x}) \ {y})
    BY <2>1, <2>2
  <2>5. (T \ {y}) \ {x} = (T \ {x}) \ {y}
    OBVIOUS
  <2>6. f[x] \in Int /\ Sum((T \ {x}) \ {y}) \in Int
    <3>1. Good((T \ {x}) \ {y})
      BY <1>3, <1>6
    <3> QED  BY <3>1, <1>2, <1>8
  <2>7. \A a, b, c \in Int : a + (b + c) = b + (a + c)
    OBVIOUS
  <2>8. Sum(T) = f[y] + (f[x] + Sum((T \ {x}) \ {y}))
    BY <1>6, <2>3, <2>5
  <2>9. Sum(T) = f[x] + (f[y] + Sum((T \ {x}) \ {y}))
    BY <1>6, <2>6, <2>7, <2>8, Zenon
  <2> QED  BY <2>4, <2>9
<1>9. Good(T)
  <2>1. Sum(T) \in Int
    BY <1>6, <1>7
  <2>2. \A x \in T : Sum(T) = f[x] + Sum(T \ {x})
    BY <1>6, <1>8, Zenon
  <2> QED  BY <2>1, <2>2
<1> QED  BY <1>2, <1>9

LEMMA SumAdd ==
    ASSUME NEW f, NEW S, IsFiniteSet(S), NEW x, x \notin S,
           \A y \in S \cup {x} : f[y] \in Int
    PROVE  SumFunctionOnSet(f, S \cup {x}) = SumFunctionOnSet(f, S) + f[x]
<1> DEFINE T == S \cup {x}
           sum == SumFunctionOnSet(f, S)
<1>1. IsFiniteSet(T) /\ T \ {x} = S
  BY FS_AddElement
<1>2. SumFunctionOnSet(f, T) = f[x] + sum
  <2>1. SumFunctionOnSet(f, T) = f[x] + SumFunctionOnSet(f, T \ {x})
    BY <1>1, SumTakeOut
  <2> QED  BY <1>1, <2>1
<1>3. sum \in Int /\ f[x] \in Int
  BY SumTakeOut
<1> HIDE DEF sum
<1>4. f[x] + sum = sum + f[x]
  BY <1>3
<1> USE DEF sum
<1> QED  BY <1>2, <1>4, Zenon

\* Only the values at the elements of the set count.
LEMMA SumSame ==
    ASSUME NEW f, NEW g, NEW S, IsFiniteSet(S),
           \A x \in S : f[x] \in Int /\ g[x] = f[x]
    PROVE  SumFunctionOnSet(g, S) = SumFunctionOnSet(f, S)
<1> DEFINE G == {T \in SUBSET S : SumFunctionOnSet(g, T) = SumFunctionOnSet(f, T)}
<1>1. {} \in G
  BY SumOfNone
<1>2. ASSUME NEW T \in SUBSET S, NEW x \in T, T \ {x} \in G PROVE T \in G
  <2>1. IsFiniteSet(T)
    BY FS_Subset
  <2>2. SumFunctionOnSet(f, T) = f[x] + SumFunctionOnSet(f, T \ {x})
    BY <2>1, SumTakeOut
  <2>3. SumFunctionOnSet(g, T) = g[x] + SumFunctionOnSet(g, T \ {x})
    BY <2>1, SumTakeOut
  <2> QED  BY <1>2, <2>2, <2>3
<1> HIDE DEF G
<1>3. S \in G
  BY <1>1, <1>2, SubsetInduction
<1> QED  BY <1>3 DEF G

LEMMA SumZero ==
    ASSUME NEW f, NEW S, IsFiniteSet(S), \A x \in S : f[x] = 0
    PROVE  SumFunctionOnSet(f, S) = 0
<1> DEFINE G == {T \in SUBSET S : SumFunctionOnSet(f, T) = 0}
<1>1. {} \in G
  BY SumOfNone
<1>2. ASSUME NEW T \in SUBSET S, NEW x \in T, T \ {x} \in G PROVE T \in G
  <2>1. IsFiniteSet(T) /\ \A y \in T : f[y] \in Int
    BY FS_Subset
  <2>2. SumFunctionOnSet(f, T) = f[x] + SumFunctionOnSet(f, T \ {x})
    BY <2>1, SumTakeOut
  <2> QED  BY <1>2, <2>2
<1> HIDE DEF G
<1>3. S \in G
  BY <1>1, <1>2, SubsetInduction
<1> QED  BY <1>3 DEF G

\* A value that changes changes the sum by as much.
LEMMA SumChange ==
    ASSUME NEW f, NEW g, NEW S, IsFiniteSet(S), NEW x \in S,
           \A y \in S : f[y] \in Int /\ g[y] \in Int,
           \A y \in S \ {x} : g[y] = f[y]
    PROVE  SumFunctionOnSet(g, S) = SumFunctionOnSet(f, S) + (g[x] - f[x])
<1>1. IsFiniteSet(S \ {x})
  BY FS_RemoveElement
<1>2. SumFunctionOnSet(g, S \ {x}) = SumFunctionOnSet(f, S \ {x})
  BY <1>1, SumSame
<1> DEFINE rest == SumFunctionOnSet(f, S \ {x})
<1>3. SumFunctionOnSet(f, S) = f[x] + rest
  BY SumTakeOut
<1>4. SumFunctionOnSet(g, S) = g[x] + rest
  <2>1. SumFunctionOnSet(g, S) = g[x] + SumFunctionOnSet(g, S \ {x})
    BY SumTakeOut
  <2> QED  BY <1>2, <2>1
<1>5. rest \in Int /\ f[x] \in Int /\ g[x] \in Int
  BY <1>1, SumTakeOut
<1> HIDE DEF rest
<1>6. g[x] + rest = (f[x] + rest) + (g[x] - f[x])
  BY <1>5
<1> QED  BY <1>3, <1>4, <1>6

\* A sum over some of the elements is one over all of them, the others nothing.
LEMMA SumFilter ==
    ASSUME NEW f, NEW S, IsFiniteSet(S), NEW F \in SUBSET S, NEW g,
           \A x \in F : f[x] \in Int,
           \A x \in S : g[x] = IF x \in F THEN f[x] ELSE 0
    PROVE  SumFunctionOnSet(g, S) = SumFunctionOnSet(f, F)
<1> DEFINE G == {T \in SUBSET S :
                   SumFunctionOnSet(g, T) = SumFunctionOnSet(f, T \cap F)}
<1>1. {} \in G
  BY SumOfNone
<1>2. ASSUME NEW T \in SUBSET S, NEW x \in T, T \ {x} \in G PROVE T \in G
  <2>1. IsFiniteSet(T) /\ IsFiniteSet(T \cap F) /\ IsFiniteSet(T \ {x})
    BY FS_Subset
  <2>2. \A y \in S : g[y] \in Int
    OBVIOUS
  <2>3. SumFunctionOnSet(g, T) = g[x] + SumFunctionOnSet(g, T \ {x})
    BY <2>1, <2>2, SumTakeOut
  <2>4. SumFunctionOnSet(g, T \ {x}) = SumFunctionOnSet(f, (T \ {x}) \cap F)
    BY <1>2
  <2>5. CASE x \in F
    <3>1. SumFunctionOnSet(f, T \cap F)
             = f[x] + SumFunctionOnSet(f, (T \cap F) \ {x})
      BY <2>1, <2>5, SumTakeOut
    <3>2. (T \cap F) \ {x} = (T \ {x}) \cap F
      OBVIOUS
    <3>3. g[x] = f[x]
      BY <2>5
    <3> QED  BY <2>3, <2>4, <3>1, <3>2, <3>3
  <2>6. CASE x \notin F
    <3>1. (T \ {x}) \cap F = T \cap F
      BY <2>6
    <3>2. g[x] = 0
      BY <2>6
    <3>3. SumFunctionOnSet(g, T \ {x}) \in Int
      BY <2>1, <2>2, SumTakeOut
    <3>4. SumFunctionOnSet(g, T) = SumFunctionOnSet(g, T \ {x})
      BY <2>3, <3>2, <3>3
    <3> QED  BY <2>4, <3>1, <3>4
  <2> QED  BY <2>5, <2>6
<1> HIDE DEF G
<1>3. S \in G
  BY <1>1, <1>2, SubsetInduction
<1>4. S \cap F = F
  OBVIOUS
<1> QED  BY <1>3, <1>4 DEF G

\* The sum of two functions.
LEMMA SumPlus ==
    ASSUME NEW f, NEW g, NEW h, NEW S, IsFiniteSet(S),
           \A x \in S : f[x] \in Int /\ g[x] \in Int /\ h[x] = f[x] + g[x]
    PROVE  SumFunctionOnSet(h, S) = SumFunctionOnSet(f, S) + SumFunctionOnSet(g, S)
<1> DEFINE G == {T \in SUBSET S : SumFunctionOnSet(h, T)
                                     = SumFunctionOnSet(f, T) + SumFunctionOnSet(g, T)}
<1>1. {} \in G
  BY SumOfNone
<1>2. ASSUME NEW T \in SUBSET S, NEW x \in T, T \ {x} \in G PROVE T \in G
  <2> DEFINE F == SumFunctionOnSet(f, T \ {x})
             H == SumFunctionOnSet(g, T \ {x})
  <2>1. IsFiniteSet(T) /\ IsFiniteSet(T \ {x})
    BY FS_Subset
  <2>2. SumFunctionOnSet(f, T) = f[x] + F
    BY <2>1, SumTakeOut
  <2>3. SumFunctionOnSet(g, T) = g[x] + H
    BY <2>1, SumTakeOut
  <2>4. SumFunctionOnSet(h, T) = h[x] + SumFunctionOnSet(h, T \ {x})
    BY <2>1, SumTakeOut
  <2>5. F \in Int /\ H \in Int
    BY <2>1, SumTakeOut
  <2>6. SumFunctionOnSet(h, T \ {x}) = F + H
    BY <1>2
  <2>7. h[x] = f[x] + g[x] /\ f[x] \in Int /\ g[x] \in Int
    OBVIOUS
  <2> HIDE DEF F, H
  <2>8. (f[x] + g[x]) + (F + H) = (f[x] + F) + (g[x] + H)
    BY <2>5, <2>7
  <2>9. SumFunctionOnSet(h, T) = SumFunctionOnSet(f, T) + SumFunctionOnSet(g, T)
    BY <2>2, <2>3, <2>4, <2>6, <2>7, <2>8, Zenon
  <2> QED  BY <2>9
<1> HIDE DEF G
<1>3. S \in G
  BY <1>1, <1>2, SubsetInduction
<1> QED  BY <1>3 DEF G

\* A sum of nothing but naturals is one, and none of them is larger.
LEMMA SumNat ==
    ASSUME NEW f, NEW S, IsFiniteSet(S), \A x \in S : f[x] \in Nat
    PROVE  /\ SumFunctionOnSet(f, S) \in Nat
           /\ \A x \in S : f[x] <= SumFunctionOnSet(f, S)
<1> DEFINE G == {T \in SUBSET S : SumFunctionOnSet(f, T) \in Nat}
<1>1. {} \in G
  BY SumOfNone
<1>2. ASSUME NEW T \in SUBSET S, NEW x \in T, T \ {x} \in G PROVE T \in G
  <2>1. IsFiniteSet(T)
    BY FS_Subset
  <2>2. SumFunctionOnSet(f, T) = f[x] + SumFunctionOnSet(f, T \ {x})
    BY <2>1, SumTakeOut
  <2> QED  BY <1>2, <2>2
<1>3. ASSUME NEW T \in SUBSET S PROVE SumFunctionOnSet(f, T) \in Nat
  <2>1. IsFiniteSet(T)
    BY FS_Subset
  <2>2. \A U \in SUBSET T : \A x \in U : U \ {x} \in G => U \in G
    BY <1>2
  <2> HIDE DEF G
  <2>3. T \in G
    BY <1>1, <2>1, <2>2, SubsetInduction
  <2> QED  BY <2>3 DEF G
<1>4. ASSUME NEW x \in S PROVE f[x] <= SumFunctionOnSet(f, S)
  <2>1. SumFunctionOnSet(f, S) = f[x] + SumFunctionOnSet(f, S \ {x})
    BY SumTakeOut
  <2>2. SumFunctionOnSet(f, S \ {x}) \in Nat
    BY <1>3
  <2> QED  BY <2>1, <2>2
<1> QED  BY <1>3, <1>4

\* Leaving elements out makes a sum of naturals no larger.
LEMMA SumSmaller ==
    ASSUME NEW f, NEW g, NEW S, IsFiniteSet(S), NEW T \in SUBSET S,
           \A x \in S : f[x] \in Nat, \A x \in T : g[x] = f[x]
    PROVE  SumFunctionOnSet(g, T) <= SumFunctionOnSet(f, S)
<1> DEFINE in == [x \in S |-> IF x \in T THEN f[x] ELSE 0]
           out == [x \in S |-> IF x \in T THEN 0 ELSE f[x]]
<1>1. IsFiniteSet(T)
  BY FS_Subset
<1>2. \A x \in S : in[x] \in Int /\ out[x] \in Nat /\ f[x] = in[x] + out[x]
  OBVIOUS
<1>3. \A x \in S : in[x] = IF x \in T THEN f[x] ELSE 0
  OBVIOUS
<1> HIDE DEF in, out
<1>4. SumFunctionOnSet(in, S) = SumFunctionOnSet(f, T)
  BY <1>3, SumFilter
<1>5. SumFunctionOnSet(f, S) = SumFunctionOnSet(in, S) + SumFunctionOnSet(out, S)
  BY <1>2, SumPlus
<1>6. SumFunctionOnSet(out, S) \in Nat
  BY <1>2, SumNat
<1>7. SumFunctionOnSet(g, T) = SumFunctionOnSet(f, T)
  BY <1>1, SumSame
<1>8. SumFunctionOnSet(f, T) \in Int
  BY <1>1, SumTakeOut
<1> DEFINE a == SumFunctionOnSet(g, T)
           b == SumFunctionOnSet(f, S)
           c == SumFunctionOnSet(out, S)
<1>9. a \in Int /\ c \in Nat /\ b = a + c
  BY <1>4, <1>5, <1>6, <1>7, <1>8
<1> HIDE DEF a, b, c
<1>10. a <= b
  BY <1>9
<1> QED
  BY <1>10 DEF a, b

-----------------------------------------------------------------------------
(* Rounded quotients. *)

\* Multiplying keeps the order.
LEMMA TimesKeepsOrder ==
    ASSUME NEW d \in Nat, NEW m \in Int, NEW n \in Int, m <= n
    PROVE  d * m <= d * n
OBVIOUS

\* A quotient is rounded down.
LEMMA DivBounds ==
    ASSUME NEW x \in Int, NEW d \in Nat \ {0}
    PROVE  /\ x \div d \in Int
           /\ d * (x \div d) <= x
           /\ x < d * (x \div d) + d
OBVIOUS

\* ... and is the only whole number that fits.
LEMMA DivIs ==
    ASSUME NEW x \in Int, NEW d \in Nat \ {0}, NEW q \in Int, d * q <= x, x < d * q + d
    PROVE  x \div d = q
<1> DEFINE p == x \div d
<1>1. p \in Int /\ d * p <= x /\ x < d * p + d
  BY DivBounds
<1> HIDE DEF p
<1>2. ~(p + 1 <= q)
  <2> SUFFICES ASSUME p + 1 <= q
               PROVE  FALSE
    OBVIOUS
  <2>1. d * (p + 1) <= d * q
    BY <1>1, TimesKeepsOrder
  <2>2. d * (p + 1) = d * p + d
    BY <1>1
  <2> QED
    BY <1>1, <2>1, <2>2
<1>3. ~(q + 1 <= p)
  <2> SUFFICES ASSUME q + 1 <= p
               PROVE  FALSE
    OBVIOUS
  <2>1. d * (q + 1) <= d * p
    BY <1>1, TimesKeepsOrder
  <2>2. d * (q + 1) = d * q + d
    BY <1>1
  <2> QED
    BY <1>1, <2>1, <2>2
<1>4. p = q
  BY <1>1, <1>2, <1>3
<1> QED
  BY <1>4 DEF p

\* A quotient that is not negative is rounded to the nearest, halves up.
LEMMA NearestPositive ==
    ASSUME NEW n \in Nat, NEW d \in Nat \ {0}
    PROVE  /\ Nearest(n, d) \in Nat
           /\ 2 * d * Nearest(n, d) <= 2 * n + d
           /\ 2 * n + d < 2 * d * Nearest(n, d) + 2 * d
<1>1. Nearest(n, d) = (2 * n + d) \div (2 * d)
  BY DEF Nearest
<1> DEFINE e == 2 * d
           q == (2 * n + d) \div e
<1>2. e \in Nat \ {0}
  OBVIOUS
<1> HIDE DEF e
<1>3. q \in Int /\ e * q <= 2 * n + d /\ 2 * n + d < e * q + e
  BY <1>2, DivBounds
<1> HIDE DEF q
<1>4. ~(q + 1 <= 0)
  <2> SUFFICES ASSUME q + 1 <= 0
               PROVE  FALSE
    OBVIOUS
  <2>1. e * (q + 1) <= e * 0
    BY <1>2, <1>3, TimesKeepsOrder
  <2>2. e * (q + 1) = e * q + e /\ e * 0 = 0 /\ e * q \in Int
    BY <1>2, <1>3
  <2> QED
    BY <1>2, <1>3, <2>1, <2>2
<1>5. q \in Nat
  BY <1>3, <1>4
<1> QED
  BY <1>1, <1>3, <1>5 DEF q, e
=============================================================================
