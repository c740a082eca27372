------------------------------ MODULE Cw20Proofs ------------------------------
(***************************************************************************)
(* Proofs about Cw20Base for any set of accounts, amounts and deadlines.   *)
(* The lemmas about sums that the supply needs come first.                 *)
(***************************************************************************)
EXTENDS Cw20Base, FiniteSetTheorems, WellFoundedInduction, TLAPS

-----------------------------------------------------------------------------
(***************************************************************************)
(* Induction, over a set of the numbers or sets for which the claim holds. *)
(***************************************************************************)
LEMMA NumberInduction ==
  ASSUME NEW G, 0 \in G, \A n \in Nat : n \in G => n + 1 \in G
  PROVE  Nat \subseteq G
<1>. SUFFICES ASSUME Nat \ G # {} PROVE FALSE
  OBVIOUS
<1>1. PICK m \in Nat \ G : \A k \in Nat \ G : ~ (<<k, m>> \in OpToRel(<, Nat))
  BY NatLessThanWellFounded, WFMin, Zenon
<1>2. m \in Nat /\ m \notin G /\ m # 0
  OBVIOUS
<1>3. m - 1 \in Nat /\ (m - 1) + 1 = m /\ m - 1 < m
  BY <1>2
<1>4. m - 1 \notin G
  BY <1>2, <1>3
<1>. QED  BY <1>1, <1>2, <1>3, <1>4 DEF OpToRel

LEMMA SubsetInduction ==
  ASSUME NEW S, IsFiniteSet(S), NEW G, {} \in G,
         \A T \in SUBSET S : T # {} /\ (\A x \in T : T \ {x} \in G) => T \in G
  PROVE  SUBSET S \subseteq G
<1>. DEFINE N == {n \in Nat : \A T \in SUBSET S : Cardinality(T) = n => T \in G}
<1>1. \A T \in SUBSET S : IsFiniteSet(T) /\ Cardinality(T) \in Nat
  BY FS_Subset, FS_CardinalityType
<1>2. 0 \in N
  BY <1>1, FS_EmptySet
<1>3. ASSUME NEW n \in Nat, n \in N PROVE n + 1 \in N
  <2>. SUFFICES ASSUME NEW T \in SUBSET S, Cardinality(T) = n + 1 PROVE T \in G
    BY <1>3
  <2>1. T # {}
    <3>1. Cardinality({}) = 0 /\ n + 1 # 0
      BY FS_EmptySet
    <3>. QED  BY <3>1
  <2>2. \A x \in T : T \ {x} \in SUBSET S /\ Cardinality(T \ {x}) = n
    BY <1>1, FS_RemoveElement
  <2>. QED  BY <1>3, <2>1, <2>2
<1>4. Nat \subseteq N
  <2>. HIDE DEF N
  <2>. QED  BY <1>2, <1>3, NumberInduction
<1>. QED  BY <1>1, <1>4

-----------------------------------------------------------------------------
(***************************************************************************)
(* Functions defines a sum over a set by a recursive function on its       *)
(* subsets, which takes out the elements in an order of its own.           *)
(***************************************************************************)
Pick(s) == CHOOSE x \in s : TRUE

Adds(f, g, s) == g[s] = IF s = {} THEN 0 ELSE f[Pick(s)] + g[s \ {Pick(s)}]

SumRec(f, S, g) ==
  g = [s \in SUBSET S |-> IF s = {} THEN 0 ELSE f[Pick(s)] + g[s \ {Pick(s)}]]

\* There is such a function: as much of it as concerns sets of n elements can
\* be extended to those of n + 1.
LEMMA SumExists ==
  ASSUME NEW f, NEW S, IsFiniteSet(S)
  PROVE  \E g : SumRec(f, S, g)
<1>. DEFINE Upto(n, g) == /\ g = [s \in SUBSET S |-> g[s]]
                         /\ \A s \in SUBSET S : Cardinality(s) <= n => Adds(f, g, s)
           N == {n \in Nat : \E g : Upto(n, g)}
<1>1. \A s \in SUBSET S : IsFiniteSet(s) /\ Cardinality(s) \in Nat /\ Cardinality(s) <= Cardinality(S)
  BY FS_Subset, FS_CardinalityType
<1>2. 0 \in N
  <2>. DEFINE g == [s \in SUBSET S |-> 0]
  <2>1. \A s \in SUBSET S : Cardinality(s) <= 0 => s = {}
    BY <1>1, FS_EmptySet
  <2>2. Upto(0, g)
    BY <2>1 DEF Adds
  <2>. QED  BY <2>2
<1>3. ASSUME NEW n \in Nat, n \in N PROVE n + 1 \in N
  <2>1. PICK g : Upto(n, g)
    BY <1>3
  <2>. DEFINE h == [s \in SUBSET S |-> IF s = {} THEN 0 ELSE f[Pick(s)] + g[s \ {Pick(s)}]]
  <2>2. \A s \in SUBSET S : Cardinality(s) <= n => h[s] = g[s]
    BY <2>1 DEF Adds
  <2>3. ASSUME NEW s \in SUBSET S, s # {}, Cardinality(s) <= n + 1
        PROVE  s \ {Pick(s)} \in SUBSET S /\ Cardinality(s \ {Pick(s)}) <= n
    <3>1. Pick(s) \in s
      BY <2>3 DEF Pick
    <3>2. Cardinality(s \ {Pick(s)}) = Cardinality(s) - 1
      BY <1>1, <3>1, FS_RemoveElement
    <3>. QED  BY <1>1, <2>3, <3>2
  <2>4. Upto(n + 1, h)
    <3>1. ASSUME NEW s \in SUBSET S, Cardinality(s) <= n + 1
          PROVE  Adds(f, h, s)
      <4>1. CASE s = {}
        BY <4>1 DEF Adds
      <4>2. CASE s # {}
        <5>1. h[s \ {Pick(s)}] = g[s \ {Pick(s)}]
          BY <2>2, <2>3, <3>1, <4>2
        <5>. QED  BY <4>2, <5>1 DEF Adds
      <4>. QED  BY <4>1, <4>2
    <3>2. h = [s \in SUBSET S |-> h[s]]
      OBVIOUS
    <3>. QED  BY <3>1, <3>2
  <2>. HIDE DEF h, Upto
  <2>. QED  BY <2>4
<1>4. Nat \subseteq N
  <2>. HIDE DEF N
  <2>. QED  BY <1>2, <1>3, NumberInduction
<1>5. PICK g : Upto(Cardinality(S), g)
  BY <1>1, <1>4
<1>. QED  BY <1>1, <1>5 DEF Adds, SumRec

LEMMA SumUnfolds ==
  ASSUME NEW f, NEW S, IsFiniteSet(S)
  PROVE  \E g : g[S] = SumFunctionOnSet(f, S) /\ \A s \in SUBSET S : Adds(f, g, s)
<1>. DEFINE sum == CHOOSE g : SumRec(f, S, g)
<1>1. SumRec(f, S, sum)
  BY SumExists
<1>2. SumFunctionOnSet(f, S) = sum[S]
  BY DEF SumFunctionOnSet, FoldFunctionOnSet, MapThenFoldSet, SumRec, Pick
<1>. HIDE DEF sum
<1>3. \A s \in SUBSET S : Adds(f, sum, s)
  BY <1>1 DEF Adds, SumRec
<1>. QED  BY <1>2, <1>3

LEMMA AddsOneWay ==
  ASSUME NEW f, NEW S, IsFiniteSet(S),
         NEW g, \A s \in SUBSET S : Adds(f, g, s),
         NEW h, \A s \in SUBSET S : Adds(f, h, s)
  PROVE  \A s \in SUBSET S : g[s] = h[s]
<1>. DEFINE G == {s \in SUBSET S : g[s] = h[s]}
<1>1. {} \in G
  BY DEF Adds
<1>2. ASSUME NEW T \in SUBSET S, T # {}, \A x \in T : T \ {x} \in G
      PROVE  T \in G
  <2>1. Pick(T) \in T
    BY <1>2 DEF Pick
  <2>. QED  BY <1>2, <2>1 DEF Adds
<1>3. SUBSET S \subseteq G
  <2>. HIDE DEF G
  <2>. QED  BY <1>1, <1>2, SubsetInduction
<1>. QED  BY <1>3

\* The sum over nothing, and over one element and the rest.
LEMMA SumEmpty == ASSUME NEW f PROVE SumFunctionOnSet(f, {}) = 0
  BY SumUnfolds, FS_EmptySet DEF Adds

LEMMA SumPicks ==
  ASSUME NEW f, NEW S, IsFiniteSet(S), S # {}
  PROVE  SumFunctionOnSet(f, S) = f[Pick(S)] + SumFunctionOnSet(f, S \ {Pick(S)})
<1>. DEFINE R == S \ {Pick(S)}
<1>1. IsFiniteSet(R) /\ R \in SUBSET S
  BY FS_Subset
<1>2. PICK g : g[S] = SumFunctionOnSet(f, S) /\ \A s \in SUBSET S : Adds(f, g, s)
  BY SumUnfolds
<1>3. PICK h : h[R] = SumFunctionOnSet(f, R) /\ \A s \in SUBSET R : Adds(f, h, s)
  <2>. HIDE DEF R
  <2>. QED  BY <1>1, SumUnfolds
<1>4. \A s \in SUBSET R : g[s] = h[s]
  <2>1. \A s \in SUBSET R : Adds(f, g, s)
    BY <1>2
  <2>. HIDE DEF R
  <2>. QED  BY <1>1, <1>3, <2>1, AddsOneWay
<1>. QED  BY <1>2, <1>3, <1>4 DEF Adds

\* For numbers the order does not matter.
LEMMA SumIsNat ==
  ASSUME NEW S, IsFiniteSet(S), NEW f, \A x \in S : f[x] \in Nat
  PROVE  SumFunctionOnSet(f, S) \in Nat
<1>. DEFINE G == {T \in SUBSET S : SumFunctionOnSet(f, T) \in Nat}
<1>1. {} \in G
  BY SumEmpty
<1>2. ASSUME NEW T \in SUBSET S, T # {}, \A x \in T : T \ {x} \in G
      PROVE  T \in G
  <2>1. Pick(T) \in T /\ IsFiniteSet(T)
    BY <1>2, FS_Subset DEF Pick
  <2>2. SumFunctionOnSet(f, T) = f[Pick(T)] + SumFunctionOnSet(f, T \ {Pick(T)})
    BY <1>2, <2>1, SumPicks
  <2>. QED  BY <1>2, <2>1, <2>2
<1>3. SUBSET S \subseteq G
  <2>. HIDE DEF G
  <2>. QED  BY <1>1, <1>2, SubsetInduction
<1>. QED  BY <1>3

LEMMA SumTakesOut ==
  ASSUME NEW S, IsFiniteSet(S), NEW f, \A x \in S : f[x] \in Nat, NEW a \in S
  PROVE  /\ SumFunctionOnSet(f, S) = f[a] + SumFunctionOnSet(f, S \ {a})
         /\ SumFunctionOnSet(f, S \ {a}) \in Nat /\ f[a] \in Nat
<1>. DEFINE G == {T \in SUBSET S : \A x \in T :
                   SumFunctionOnSet(f, T) = f[x] + SumFunctionOnSet(f, T \ {x})}
<1>1. \A T \in SUBSET S : IsFiniteSet(T) /\ SumFunctionOnSet(f, T) \in Nat
  <2>. SUFFICES ASSUME NEW T \in SUBSET S
               PROVE  IsFiniteSet(T) /\ SumFunctionOnSet(f, T) \in Nat
    OBVIOUS
  <2>1. IsFiniteSet(T)
    BY FS_Subset
  <2>. QED  BY <2>1, SumIsNat
<1>2. ASSUME NEW T \in SUBSET S, T # {}, \A x \in T : T \ {x} \in G
      PROVE  T \in G
  <2>. SUFFICES ASSUME NEW x \in T
               PROVE  SumFunctionOnSet(f, T) = f[x] + SumFunctionOnSet(f, T \ {x})
    OBVIOUS
  <2>. DEFINE y == Pick(T)
  <2>1. y \in T
    BY DEF Pick
  <2>2. SumFunctionOnSet(f, T) = f[y] + SumFunctionOnSet(f, T \ {y})
    BY <1>1, <1>2, SumPicks
  <2>. HIDE DEF y
  <2>3. CASE x = y
    BY <2>2, <2>3
  <2>4. CASE x # y
    <3>1. SumFunctionOnSet(f, T \ {y}) = f[x] + SumFunctionOnSet(f, (T \ {y}) \ {x})
      BY <1>2, <2>1, <2>4
    <3>2. SumFunctionOnSet(f, T \ {x}) = f[y] + SumFunctionOnSet(f, (T \ {x}) \ {y})
      BY <1>2, <2>1, <2>4
    <3>3. (T \ {y}) \ {x} = (T \ {x}) \ {y} /\ (T \ {x}) \ {y} \in SUBSET S
      OBVIOUS
    <3>4. f[x] \in Nat /\ f[y] \in Nat /\ SumFunctionOnSet(f, (T \ {x}) \ {y}) \in Nat
      BY <1>1, <2>1, <3>3
    <3>. DEFINE rest == SumFunctionOnSet(f, (T \ {x}) \ {y})
    <3>5. /\ SumFunctionOnSet(f, T \ {y}) = f[x] + rest
          /\ SumFunctionOnSet(f, T \ {x}) = f[y] + rest
          /\ rest \in Nat
      BY <3>1, <3>2, <3>3, <3>4
    <3>. HIDE DEF rest
    <3>. QED  BY <2>2, <3>4, <3>5
  <2>. QED  BY <2>3, <2>4
<1>3. SUBSET S \subseteq G
  <2>1. {} \in G
    OBVIOUS
  <2>. HIDE DEF G
  <2>. QED  BY <1>2, <2>1, SubsetInduction
<1>. QED  BY <1>1, <1>3

\* Functions that agree on a set have the same sum over it, and a smaller one
\* has a smaller sum.
LEMMA SumOfSame ==
  ASSUME NEW S, IsFiniteSet(S), NEW f, NEW g, \A x \in S : f[x] = g[x]
  PROVE  SumFunctionOnSet(f, S) = SumFunctionOnSet(g, S)
<1>. DEFINE G == {T \in SUBSET S : SumFunctionOnSet(f, T) = SumFunctionOnSet(g, T)}
<1>1. {} \in G
  BY SumEmpty
<1>2. ASSUME NEW T \in SUBSET S, T # {}, \A x \in T : T \ {x} \in G
      PROVE  T \in G
  <2>1. Pick(T) \in T /\ IsFiniteSet(T)
    BY <1>2, FS_Subset DEF Pick
  <2>2. /\ SumFunctionOnSet(f, T) = f[Pick(T)] + SumFunctionOnSet(f, T \ {Pick(T)})
        /\ SumFunctionOnSet(g, T) = g[Pick(T)] + SumFunctionOnSet(g, T \ {Pick(T)})
    BY <1>2, <2>1, SumPicks
  <2>. QED  BY <1>2, <2>1, <2>2
<1>3. SUBSET S \subseteq G
  <2>. HIDE DEF G
  <2>. QED  BY <1>1, <1>2, SubsetInduction
<1>. QED  BY <1>3

LEMMA SumOfSmaller ==
  ASSUME NEW S, IsFiniteSet(S), NEW f, NEW g,
         \A x \in S : f[x] \in Nat /\ g[x] \in Nat /\ f[x] <= g[x]
  PROVE  SumFunctionOnSet(f, S) <= SumFunctionOnSet(g, S)
<1>. DEFINE G == {T \in SUBSET S : SumFunctionOnSet(f, T) <= SumFunctionOnSet(g, T)}
<1>1. {} \in G
  BY SumEmpty
<1>2. ASSUME NEW T \in SUBSET S, T # {}, \A x \in T : T \ {x} \in G
      PROVE  T \in G
  <2>. DEFINE y == Pick(T)
             U == T \ {y}
  <2>1. y \in T /\ y \in S /\ U \in SUBSET S /\ IsFiniteSet(T) /\ IsFiniteSet(U)
    BY <1>2, FS_Subset DEF Pick
  <2>2. /\ SumFunctionOnSet(f, T) = f[y] + SumFunctionOnSet(f, U)
        /\ SumFunctionOnSet(g, T) = g[y] + SumFunctionOnSet(g, U)
    BY <1>2, <2>1, SumPicks
  <2>3. SumFunctionOnSet(f, U) <= SumFunctionOnSet(g, U)
    BY <1>2, <2>1
  <2>. HIDE DEF y, U
  <2>4. SumFunctionOnSet(f, U) \in Nat /\ SumFunctionOnSet(g, U) \in Nat
    BY <2>1, SumIsNat
  <2>. QED  BY <2>1, <2>2, <2>3, <2>4
<1>3. SUBSET S \subseteq G
  <2>. HIDE DEF G
  <2>. QED  BY <1>1, <1>2, SubsetInduction
<1>. QED  BY <1>3

\* What changes in one place changes the sum by as much.
LEMMA SumOfUpdate ==
  ASSUME NEW S, IsFiniteSet(S), NEW f, NEW g, NEW a \in S,
         \A x \in S : f[x] \in Nat /\ g[x] \in Nat /\ (x # a => g[x] = f[x])
  PROVE  /\ SumFunctionOnSet(g, S) = SumFunctionOnSet(f, S) - f[a] + g[a]
         /\ SumFunctionOnSet(f, S) \in Nat /\ SumFunctionOnSet(g, S) \in Nat
         /\ f[a] <= SumFunctionOnSet(f, S)
<1>1. /\ SumFunctionOnSet(f, S) = f[a] + SumFunctionOnSet(f, S \ {a})
      /\ SumFunctionOnSet(f, S \ {a}) \in Nat /\ f[a] \in Nat
      /\ SumFunctionOnSet(g, S) = g[a] + SumFunctionOnSet(g, S \ {a})
      /\ SumFunctionOnSet(g, S \ {a}) \in Nat /\ g[a] \in Nat
  BY SumTakesOut
<1>2. SumFunctionOnSet(f, S \ {a}) = SumFunctionOnSet(g, S \ {a})
  <2>1. IsFiniteSet(S \ {a})
    BY FS_Subset
  <2>. QED  BY <2>1, SumOfSame
<1>. QED  BY <1>1, <1>2

\* No summand exceeds the sum, and neither do two together.
LEMMA SumBoundsOne ==
  ASSUME NEW S, IsFiniteSet(S), NEW f, \A x \in S : f[x] \in Nat, NEW a \in S
  PROVE  f[a] <= SumFunctionOnSet(f, S)
<1>1. /\ SumFunctionOnSet(f, S) = f[a] + SumFunctionOnSet(f, S \ {a})
      /\ SumFunctionOnSet(f, S \ {a}) \in Nat /\ f[a] \in Nat
  BY SumTakesOut
<1>. QED  BY <1>1

LEMMA SumBoundsTwo ==
  ASSUME NEW S, IsFiniteSet(S), NEW f, \A x \in S : f[x] \in Nat,
         NEW a \in S, NEW b \in S, a # b
  PROVE  f[a] + f[b] <= SumFunctionOnSet(f, S)
<1>1. /\ SumFunctionOnSet(f, S) = f[a] + SumFunctionOnSet(f, S \ {a})
      /\ SumFunctionOnSet(f, S \ {a}) \in Nat /\ f[a] \in Nat /\ f[b] \in Nat
  BY SumTakesOut
<1>2. f[b] <= SumFunctionOnSet(f, S \ {a})
  <2>1. IsFiniteSet(S \ {a}) /\ b \in S \ {a} /\ \A x \in S \ {a} : f[x] \in Nat
    BY FS_Subset
  <2>. QED  BY <2>1, SumBoundsOne
<1>. QED  BY <1>1, <1>2

\* Summands that are zero may be left out.
LEMMA SumOfZeros ==
  ASSUME NEW S, IsFiniteSet(S), NEW f, \A x \in S : f[x] = 0
  PROVE  SumFunctionOnSet(f, S) = 0
<1>. DEFINE G == {T \in SUBSET S : SumFunctionOnSet(f, T) = 0}
<1>1. {} \in G
  BY SumEmpty
<1>2. ASSUME NEW T \in SUBSET S, T # {}, \A x \in T : T \ {x} \in G
      PROVE  T \in G
  <2>1. Pick(T) \in T /\ IsFiniteSet(T)
    BY <1>2, FS_Subset DEF Pick
  <2>2. SumFunctionOnSet(f, T) = f[Pick(T)] + SumFunctionOnSet(f, T \ {Pick(T)})
    BY <1>2, <2>1, SumPicks
  <2>. QED  BY <1>2, <2>1, <2>2
<1>3. SUBSET S \subseteq G
  <2>. HIDE DEF G
  <2>. QED  BY <1>1, <1>2, SubsetInduction
<1>. QED  BY <1>3

\* A sum may be taken over other names of the summands: name takes each
\* element of S to another one of T, and the rest of T has nothing.
LEMMA SumRenames ==
  ASSUME NEW S, IsFiniteSet(S), NEW T, IsFiniteSet(T), NEW f, NEW g, NEW name,
         \A x \in S : name[x] \in T /\ f[x] \in Nat /\ g[name[x]] = f[x],
         \A x, y \in S : name[x] = name[y] => x = y,
         \A t \in T : (\A x \in S : name[x] # t) => g[t] = 0
  PROVE  SumFunctionOnSet(f, S) = SumFunctionOnSet(g, T)
<1>. DEFINE Rest(U) == {t \in T : \A x \in U : name[x] # t}
           G == {U \in SUBSET S :
                   SumFunctionOnSet(g, T) = SumFunctionOnSet(f, U) + SumFunctionOnSet(g, Rest(U))}
<1>1. \A t \in T : g[t] \in Nat
  <2>. SUFFICES ASSUME NEW t \in T PROVE g[t] \in Nat
    OBVIOUS
  <2>1. CASE \A x \in S : name[x] # t
    BY <2>1
  <2>2. CASE \E x \in S : name[x] = t
    BY <2>2
  <2>. QED  BY <2>1, <2>2
<1>2. {} \in G
  <2>1. Rest({}) = T
    OBVIOUS
  <2>2. SumFunctionOnSet(g, T) \in Nat
    BY <1>1, SumIsNat
  <2>3. SumFunctionOnSet(g, T) = SumFunctionOnSet(f, {}) + SumFunctionOnSet(g, Rest({}))
    <3>. HIDE DEF Rest
    <3>. QED  BY <2>1, <2>2, SumEmpty
  <2>. QED  BY <2>3
<1>3. ASSUME NEW U \in SUBSET S, U # {}, \A x \in U : U \ {x} \in G
      PROVE  U \in G
  <2>1. PICK x \in U : TRUE
    BY <1>3
  <2>. DEFINE W == U \ {x}
             t == name[x]
  <2>2. /\ IsFiniteSet(U) /\ IsFiniteSet(W) /\ IsFiniteSet(Rest(W))
        /\ t \in T /\ x \in S /\ g[t] = f[x] /\ f[x] \in Nat
    <3>1. Rest(W) \in SUBSET T
      OBVIOUS
    <3>. QED  BY <3>1, FS_Subset
  <2>3. SumFunctionOnSet(g, T) = SumFunctionOnSet(f, W) + SumFunctionOnSet(g, Rest(W))
    BY <1>3
  <2>4. SumFunctionOnSet(f, U) = f[x] + SumFunctionOnSet(f, W) /\ SumFunctionOnSet(f, W) \in Nat
    <3>. HIDE DEF W
    <3>1. \A z \in U : f[z] \in Nat
      OBVIOUS
    <3>. QED  BY <2>2, <3>1, SumTakesOut DEF W
  <2>5. t \in Rest(W) /\ Rest(W) \ {t} = Rest(U)
    <3>1. \A z \in W : name[z] # t
      OBVIOUS
    <3>. QED  BY <2>2, <3>1
  <2>6. /\ SumFunctionOnSet(g, Rest(W)) = g[t] + SumFunctionOnSet(g, Rest(W) \ {t})
        /\ SumFunctionOnSet(g, Rest(W) \ {t}) \in Nat
    <3>1. \A z \in Rest(W) : g[z] \in Nat
      BY <1>1
    <3>. HIDE DEF W, t, Rest
    <3>. QED  BY <2>2, <2>5, <3>1, SumTakesOut
  <2>7. SumFunctionOnSet(g, T) = SumFunctionOnSet(f, U) + SumFunctionOnSet(g, Rest(U))
    <3>. HIDE DEF W, t, Rest
    <3>. QED  BY <2>2, <2>3, <2>4, <2>5, <2>6
  <2>. QED  BY <2>7
<1>4. SUBSET S \subseteq G
  <2>. HIDE DEF G
  <2>. QED  BY <1>2, <1>3, SubsetInduction
<1>5. SumFunctionOnSet(g, Rest(S)) = 0
  <2>1. IsFiniteSet(Rest(S)) /\ \A t \in Rest(S) : g[t] = 0
    BY FS_Subset
  <2>. HIDE DEF Rest
  <2>. QED  BY <2>1, SumOfZeros
<1>6. SumFunctionOnSet(f, S) \in Nat
  BY SumIsNat
<1>. QED  BY <1>4, <1>5, <1>6

-----------------------------------------------------------------------------
(***************************************************************************)
(* The parts of the invariant.                                             *)
(***************************************************************************)

\* An instance that has a version has token_info, and before that there are
\* neither tokens nor balances.
InstanceHasToken ==
  /\ contract_version # None => token_info # None
  /\ contract_version = None => token_info = None /\ \A a \in Addr : balances[a] = None

MirrorIsComplete == \A o, s \in Addr : allowances_spender[s][o] = allowances[o][s]

\* What allowances_spender holds agrees with allowances, though it may hold
\* less; it is complete before instantiation, when both are empty, from
\* MirrorVersion on, and once this code runs.
MirrorAgrees ==
  /\ \A o, s \in Addr : allowances_spender[s][o] \in {None, allowances[o][s]}
  /\ contract_version = None => MirrorIsComplete
  /\ contract_version # None /\ contract_version >= MirrorVersion => MirrorIsComplete
  /\ MirrorIsConverse

\* The part of the invariant about token_info and balances.
TokenInv ==
  /\ token_info \in TokenInfo \cup {None}
  /\ balances \in [Addr -> Uint128 \cup {None}]
  /\ InstanceHasToken
  /\ SupplyWithinCap

\* The part about the two maps of approvals.
ApprovalInv ==
  /\ allowances \in [Addr -> [Addr -> Allowance \cup {None}]]
  /\ allowances_spender \in [Addr -> [Addr -> Allowance \cup {None}]]
  /\ NoSelfApproval
  /\ MirrorAgrees

\* The balances, those that are absent as zero.
Funds == [a \in Addr |-> Balance(a)]

IInv == TypeOK /\ InstanceHasToken /\ SupplyWithinCap /\ NoSelfApproval /\ MirrorAgrees

-----------------------------------------------------------------------------
(***************************************************************************)
(* The writes that the handlers share.                                     *)
(***************************************************************************)
\* The code runs only where it was instantiated, or where it replaced other
\* code.
LEMMA RunningHasToken ==
  ASSUME IInv, Running
  PROVE  token_info \in TokenInfo /\ token_info # None
BY Cw20Assumption DEF IInv, TypeOK, Running, InstanceHasToken

LEMMA RunningStays ==
  ASSUME Running, UNCHANGED contract_version
  PROVE  contract_version # None /\ contract_version' # None
BY Cw20Assumption DEF Running

LEMMA BalanceType ==
  ASSUME TypeOK, NEW a \in Addr
  PROVE  Balance(a) \in Uint128
BY Cw20Assumption DEF TypeOK, Balance, Amount, Uint128

LEMMA MoveTokensType ==
  ASSUME TypeOK, NEW from \in Addr, NEW to \in Addr, NEW amount \in Amounts,
         MoveTokens(from, to, amount)
  PROVE  balances' \in [Addr -> Uint128 \cup {None}]
<1>. DEFINE debited == [balances EXCEPT ![from] = Balance(from) - amount]
<1>1. amount \in Nat /\ Balance(from) - amount \in Uint128
  BY BalanceType, Cw20Assumption DEF MoveTokens, Uint128
<1>2. debited \in [Addr -> Uint128 \cup {None}]
  BY <1>1 DEF TypeOK
<1>3. Amount(debited[to]) \in Uint128
  BY <1>2, Cw20Assumption DEF Amount, Uint128
<1>4. Amount(debited[to]) + amount \in Uint128
  BY <1>1, <1>3, Cw20Assumption DEF MoveTokens, Uint128
<1>5. balances' = [debited EXCEPT ![to] = Amount(debited[to]) + amount]
  BY DEF MoveTokens
<1>. QED  BY <1>2, <1>4, <1>5

\* A move takes the tokens from one account and gives them to another, which
\* may be the same.
LEMMA MoveTokensFunds ==
  ASSUME IInv, NEW from \in Addr, NEW to \in Addr, NEW amount \in Amounts,
         MoveTokens(from, to, amount)
  PROVE  /\ amount \in Nat /\ amount <= Funds[from] /\ Funds[from] \in Nat
         /\ Funds' = [[Funds EXCEPT ![from] = @ - amount] EXCEPT ![to] = @ + amount]
<1>. DEFINE debited == [balances EXCEPT ![from] = Balance(from) - amount]
            taken   == [Funds EXCEPT ![from] = @ - amount]
<1>1. amount \in Nat /\ amount <= Balance(from) /\ \A o \in Addr : Balance(o) \in Nat
  BY BalanceType, Cw20Assumption DEF IInv, Uint128, MoveTokens
<1>2. \A o \in Addr : Amount(debited[o]) = taken[o] /\ taken[o] \in Nat
  <2>1. Balance(from) - amount # None /\ Balance(from) - amount \in Nat
    BY <1>1, Cw20Assumption
  <2>2. \A o \in Addr : taken[o] = IF o = from THEN Balance(from) - amount ELSE Balance(o)
    BY DEF Funds
  <2>3. \A o \in Addr : debited[o] = IF o = from THEN Balance(from) - amount ELSE balances[o]
    BY DEF IInv, TypeOK
  <2>. HIDE DEF debited, taken
  <2>4. \A o \in Addr : Amount(balances[o]) = Balance(o)
    BY DEF Balance
  <2>5. Amount(debited[from]) = Balance(from) - amount
    BY <2>1, <2>3 DEF Amount
  <2>6. \A o \in Addr : o # from => Amount(debited[o]) = Balance(o)
    BY <2>3, <2>4
  <2>7. ASSUME NEW o \in Addr
        PROVE  Amount(debited[o]) = taken[o] /\ taken[o] \in Nat
    <3>1. Balance(o) \in Nat
      BY <1>1
    <3>2. CASE o = from
      BY <2>1, <2>2, <2>5, <3>2
    <3>3. CASE o # from
      BY <2>2, <2>6, <3>1, <3>3
    <3>. QED  BY <3>2, <3>3
  <2>. QED  BY <2>7
<1>3. \A o \in Addr : Balance(o)' = IF o = to THEN taken[to] + amount ELSE taken[o]
  <2>1. balances' = [debited EXCEPT ![to] = Amount(debited[to]) + amount]
    BY DEF MoveTokens
  <2>2. taken[to] + amount \in Nat /\ taken[to] + amount # None
    BY <1>1, <1>2, Cw20Assumption
  <2>3. debited \in [Addr -> Nat \cup {None}]
    BY <1>1, Cw20Assumption DEF IInv, TypeOK, Uint128
  <2>. HIDE DEF debited, taken
  <2>4. \A o \in Addr :
          balances'[o] = IF o = to THEN Amount(debited[to]) + amount ELSE debited[o]
    BY <2>1, <2>3
  <2>5. \A o \in Addr : Balance(o)' = Amount(balances'[o])
    BY DEF Balance, Amount
  <2>6. ASSUME NEW o \in Addr
        PROVE  Balance(o)' = IF o = to THEN taken[to] + amount ELSE taken[o]
    <3>1. CASE o = to
      BY <1>2, <2>2, <2>4, <2>5, <3>1 DEF Amount
    <3>2. CASE o # to
      BY <1>2, <2>4, <2>5, <3>2
    <3>. QED  BY <3>1, <3>2
  <2>. QED  BY <2>6
<1>4. Funds' = [a \in Addr |-> Balance(a)']
  BY DEF Funds
<1>5. [taken EXCEPT ![to] = @ + amount] = [a \in Addr |-> IF a = to THEN taken[to] + amount ELSE taken[a]]
  <2>1. taken = [a \in Addr |-> taken[a]]
    BY DEF Funds
  <2>. HIDE DEF taken
  <2>. QED  BY <2>1
<1>6. Funds' = [taken EXCEPT ![to] = @ + amount]
  <2>. HIDE DEF taken
  <2>. QED  BY <1>3, <1>4, <1>5
<1>. QED  BY <1>1, <1>6 DEF Funds

LEMMA BurnTokensFunds ==
  ASSUME IInv, NEW from \in Addr, NEW amount \in Amounts, BurnTokens(from, amount)
  PROVE  /\ amount \in Nat /\ amount <= Funds[from] /\ Funds[from] \in Nat
         /\ Funds' = [Funds EXCEPT ![from] = @ - amount]
<1>1. amount \in Nat /\ amount <= Balance(from) /\ \A o \in Addr : Balance(o) \in Nat
  BY BalanceType, Cw20Assumption DEF IInv, Uint128, BurnTokens
<1>2. Balance(from) - amount # None
  BY <1>1, Cw20Assumption
<1>3. \A o \in Addr : Balance(o)' = IF o = from THEN Balance(from) - amount ELSE Balance(o)
  BY <1>2 DEF BurnTokens, Balance, Amount, IInv, TypeOK
<1>. QED  BY <1>1, <1>3 DEF Funds

LEMMA MintFunds ==
  ASSUME IInv, NEW from \in Addr, NEW to \in Addr, NEW amount \in Amounts,
         Mint(from, to, amount)
  PROVE  /\ amount \in Nat /\ Funds[to] \in Nat
         /\ Funds' = [Funds EXCEPT ![to] = @ + amount]
<1>1. amount \in Nat /\ \A o \in Addr : Balance(o) \in Nat
  BY BalanceType, Cw20Assumption DEF IInv, Uint128, Mint
<1>2. Balance(to) + amount # None
  BY <1>1, Cw20Assumption
<1>3. \A o \in Addr : Balance(o)' = IF o = to THEN Balance(to) + amount ELSE Balance(o)
  BY <1>2 DEF Mint, Balance, Amount, IInv, TypeOK
<1>4. Funds' = [a \in Addr |-> Balance(a)']
  BY DEF Funds
<1>. QED  BY <1>1, <1>3, <1>4 DEF Funds

LEMMA BurnTokensInv ==
  ASSUME IInv, Running, NEW from \in Addr, NEW amount \in Amounts,
         BurnTokens(from, amount), UNCHANGED contract_version
  PROVE  TokenInv'
<1>1. amount \in Nat /\ Balance(from) - amount \in Uint128
  BY BalanceType, Cw20Assumption DEF BurnTokens, IInv, Uint128
<1>2. token_info \in TokenInfo /\ token_info # None
  BY RunningHasToken
<1>3. token_info'.total_supply = token_info.total_supply - amount
      /\ token_info'.mint = token_info.mint
      /\ token_info' \in TokenInfo
  BY <1>1, <1>2, Cw20Assumption DEF BurnTokens, TokenInfo, Uint128
<1>4. SupplyWithinCap'
  <2>1. cap' = cap
    BY <1>3 DEF cap
  <2>2. cap \in Uint128 \cup {None}
    BY <1>2 DEF cap, TokenInfo, MinterData
  <2>. QED
    BY <1>1, <1>2, <1>3, <2>1, <2>2, Cw20Assumption
       DEF IInv, SupplyWithinCap, TokenInfo, Uint128
<1>. QED
  BY <1>1, <1>3, <1>4, RunningStays, NoneAssumption
     DEF BurnTokens, IInv, TypeOK, TokenInv, InstanceHasToken

-----------------------------------------------------------------------------
(***************************************************************************)
(* The approvals.                                                          *)
(***************************************************************************)
\* Writing one approval to both maps keeps them well-formed and equal.
LEMMA ApprovalWrite ==
  ASSUME IInv, Running, NEW owner \in Addr, NEW spender \in Addr, owner # spender,
         NEW v \in Allowance \cup {None},
         allowances' = [allowances EXCEPT ![owner][spender] = v],
         allowances_spender' = [allowances_spender EXCEPT ![spender][owner] = v],
         contract_version' = contract_version
  PROVE  ApprovalInv'
<1>. USE DEF IInv, TypeOK
<1>1. \A o, s \in Addr : allowances_spender[s][o] = allowances[o][s]
  BY DEF MirrorAgrees, MirrorIsConverse
<1>2. \A o, s \in Addr :
        allowances'[o][s] = IF o = owner /\ s = spender THEN v ELSE allowances[o][s]
  OBVIOUS
<1>3. \A o, s \in Addr :
        allowances_spender'[s][o] =
          IF o = owner /\ s = spender THEN v ELSE allowances_spender[s][o]
  OBVIOUS
<1>4. \A o, s \in Addr : allowances_spender'[s][o] = allowances'[o][s]
  BY <1>1, <1>2, <1>3
<1>5. MirrorAgrees'
  BY <1>4 DEF MirrorAgrees, MirrorIsConverse, MirrorIsComplete
<1>6. NoSelfApproval'
  BY <1>2 DEF NoSelfApproval
<1>7. /\ allowances' \in [Addr -> [Addr -> Allowance \cup {None}]]
      /\ allowances_spender' \in [Addr -> [Addr -> Allowance \cup {None}]]
  OBVIOUS
<1>. QED  BY <1>5, <1>6, <1>7 DEF ApprovalInv

LEMMA ApprovalUnchanged ==
  ASSUME IInv, UNCHANGED allowanceVars, UNCHANGED contract_version
  PROVE  ApprovalInv'
BY DEF IInv, TypeOK, ApprovalInv, allowanceVars, NoSelfApproval, MirrorAgrees,
   MirrorIsConverse, MirrorIsComplete, Running

LEMMA DeductAllowanceInv ==
  ASSUME IInv, Running, NEW owner \in Addr, NEW spender \in Addr, NEW amount \in Amounts,
         DeductAllowance(owner, spender, amount), UNCHANGED contract_version
  PROVE  ApprovalInv'
<1>. DEFINE old == allowances[owner][spender]
            v   == [old EXCEPT !.allowance = @ - amount]
<1>1. old \in Allowance /\ owner # spender
  BY DEF DeductAllowance, Deductible, IInv, TypeOK, NoSelfApproval
<1>2. allowances_spender[spender][owner] = old
  BY DEF IInv, MirrorAgrees, MirrorIsConverse
<1>3. v \in Allowance
  BY <1>1, Cw20Assumption DEF DeductAllowance, Deductible, Allowance, Uint128
<1>4. /\ allowances' = [allowances EXCEPT ![owner][spender] = v]
      /\ allowances_spender' = [allowances_spender EXCEPT ![spender][owner] = v]
  BY <1>2 DEF DeductAllowance
<1>. QED  BY <1>1, <1>3, <1>4, ApprovalWrite

LEMMA IncreaseAllowanceInv ==
  ASSUME IInv, Running, NEW from \in Addr, NEW spender \in Addr, NEW amount \in Amounts,
         NEW expires \in Expirations \cup {None},
         IncreaseAllowance(from, spender, amount, expires), UNCHANGED contract_version
  PROVE  ApprovalInv'
<1>. DEFINE old == allowances[from][spender]
            v   == Increased(old, amount, expires)
<1>1. allowances_spender[spender][from] = old
  BY DEF IInv, MirrorAgrees, MirrorIsConverse
<1>2. AllowanceOf(old) \in Allowance
  BY Cw20Assumption DEF IInv, TypeOK, AllowanceOf, NoAllowance, Allowance, Uint128
<1>3. v \in Allowance
  BY <1>2, Cw20Assumption
     DEF IncreaseAllowance, CanIncrease, Increased, Allowance, Uint128
<1>4. /\ allowances' = [allowances EXCEPT ![from][spender] = v]
      /\ allowances_spender' = [allowances_spender EXCEPT ![spender][from] = v]
  BY <1>1 DEF IncreaseAllowance
<1>. QED  BY <1>3, <1>4, ApprovalWrite DEF IncreaseAllowance

LEMMA DecreaseAllowanceInv ==
  ASSUME IInv, Running, NEW from \in Addr, NEW spender \in Addr, NEW amount \in Amounts,
         NEW expires \in Expirations \cup {None},
         DecreaseAllowance(from, spender, amount, expires), UNCHANGED contract_version
  PROVE  ApprovalInv'
<1>1. from # spender /\ allowances[from][spender] \in Allowance
  BY DEF DecreaseAllowance, IInv, TypeOK
<1>2. CASE LowerAllowance(from, spender, amount, expires)
  <2>. DEFINE old == allowances[from][spender]
              v   == [allowance |-> old.allowance - amount,
                      expires |-> IF expires = None THEN old.expires ELSE expires]
  <2>1. v \in Allowance
    BY <1>1, <1>2, Cw20Assumption DEF LowerAllowance, Allowance, Uint128
  <2>. QED  BY <1>1, <1>2, <2>1, ApprovalWrite DEF LowerAllowance
<1>3. CASE RemoveAllowance(from, spender, amount)
  BY <1>1, <1>3, ApprovalWrite DEF RemoveAllowance
<1>. QED  BY <1>2, <1>3 DEF DecreaseAllowance

LEMMA MigrateInv ==
  ASSUME IInv, Migrate
  PROVE  ApprovalInv'
<1>. USE DEF IInv, TypeOK
<1>1. \A o, s \in Addr : allowances_spender'[s][o] = allowances[o][s]
  <2>1. CASE contract_version < MirrorVersion
    <3>1. \A o, s \in Addr : allowances_spender'[s][o] =
             IF allowances[o][s] # None THEN allowances[o][s] ELSE allowances_spender[s][o]
      BY <2>1 DEF Migrate, Mirrored
    <3>. QED  BY <3>1 DEF MirrorAgrees
  <2>2. CASE ~(contract_version < MirrorVersion)
    BY <2>2, Cw20Assumption DEF Migrate, MirrorAgrees, MirrorIsComplete
  <2>. QED  BY <2>1, <2>2
<1>2. allowances_spender' \in [Addr -> [Addr -> Allowance \cup {None}]]
  BY DEF Migrate, Mirrored
<1>. QED
  BY <1>1, <1>2 DEF Migrate, ApprovalInv, NoSelfApproval, MirrorAgrees, MirrorIsConverse,
     MirrorIsComplete

-----------------------------------------------------------------------------
(***************************************************************************)
(* The messages, by interface.                                             *)
(***************************************************************************)
LEMMA TokenUnchanged ==
  ASSUME IInv, UNCHANGED tokenVars,
         contract_version' = None <=> contract_version = None
  PROVE  TokenInv'
BY DEF IInv, TypeOK, TokenInv, InstanceHasToken, tokenVars, SupplyWithinCap, cap

LEMMA MovesInv ==
  ASSUME IInv, NEW from \in Addr, NEW to \in Addr, NEW amount \in Amounts,
         Running, MoveTokens(from, to, amount), UNCHANGED <<token_info, contract_version>>
  PROVE  TokenInv'
BY MoveTokensType, RunningStays DEF IInv, TypeOK, TokenInv, InstanceHasToken, SupplyWithinCap, cap

LEMMA MintInv ==
  ASSUME IInv, Running, NEW from \in Addr, NEW to \in Addr, NEW amount \in Amounts,
         Mint(from, to, amount), UNCHANGED contract_version
  PROVE  TokenInv'
<1>1. amount \in Nat /\ Balance(to) + amount \in Uint128
  BY BalanceType, Cw20Assumption DEF IInv, Mint, Uint128
<1>2. balances' \in [Addr -> Uint128 \cup {None}]
  BY <1>1 DEF Mint, IInv, TypeOK
<1>3. /\ token_info'.total_supply = token_info.total_supply + amount
      /\ token_info'.mint = token_info.mint
      /\ token_info' \in TokenInfo
  BY <1>1, RunningHasToken, Cw20Assumption DEF Mint, WithinCap, TokenInfo, Uint128
<1>4. cap' = cap
  BY <1>3 DEF cap
<1>5. SupplyWithinCap'
  BY <1>3, <1>4 DEF SupplyWithinCap, Mint, WithinCap
<1>. QED  BY <1>2, <1>3, <1>5, RunningStays, NoneAssumption DEF TokenInv, InstanceHasToken

LEMMA UpdateMinterInv ==
  ASSUME IInv, Running, NEW from \in Addr, NEW new_minter \in Addr \cup {None},
         UpdateMinter(from, new_minter), UNCHANGED contract_version
  PROVE  TokenInv'
<1>1. token_info \in TokenInfo /\ token_info # None /\ token_info.mint \in MinterData
  BY RunningHasToken DEF UpdateMinter, IsMinter, TokenInfo
<1>2. cap \in Uint128 \cup {None}
  BY <1>1 DEF cap, MinterData, UpdateMinter, IsMinter
<1>3. /\ token_info'.total_supply = token_info.total_supply
      /\ token_info'.mint = IF new_minter = None THEN None
                                               ELSE [minter |-> new_minter, cap |-> cap]
      /\ token_info' \in TokenInfo
  BY <1>1, <1>2 DEF UpdateMinter, TokenInfo, MinterData
<1>4. cap' \in {None, cap}
  BY <1>3 DEF cap
<1>5. SupplyWithinCap'
  BY <1>1, <1>3, <1>4 DEF SupplyWithinCap, IInv
<1>. QED
  BY <1>3, <1>5, RunningStays, NoneAssumption
     DEF TokenInv, InstanceHasToken, UpdateMinter, IInv, TypeOK

LEMMA TokenExecuteInv ==
  ASSUME IInv, Running, NEW s \in Addr, TokenExecute(s), UNCHANGED contract_version
  PROVE  TokenInv' /\ ApprovalInv'
<1>1. CASE BaseExecute(s)
  <2>1. ASSUME NEW to \in Addr, NEW amount \in Amounts, Transfer(s, to, amount)
        PROVE  TokenInv' /\ ApprovalInv'
    BY <2>1, MovesInv, ApprovalUnchanged DEF Transfer
  <2>2. ASSUME NEW to \in Addr, NEW amount \in Amounts, Send(s, to, amount)
        PROVE  TokenInv' /\ ApprovalInv'
    BY <2>2, MovesInv, ApprovalUnchanged DEF Send
  <2>3. ASSUME NEW amount \in Amounts, Burn(s, amount)
        PROVE  TokenInv' /\ ApprovalInv'
    BY <2>3, BurnTokensInv, RunningHasToken, ApprovalUnchanged DEF Burn, IInv
  <2>. QED  BY <1>1, <2>1, <2>2, <2>3 DEF BaseExecute
<1>2. CASE AllowancesExecute(s)
  <2>1. ASSUME NEW spender \in Addr, NEW amount \in Amounts,
               NEW expires \in Expirations \cup {None},
               IncreaseAllowance(s, spender, amount, expires)
        PROVE  TokenInv' /\ ApprovalInv'
    BY <2>1, IncreaseAllowanceInv, TokenUnchanged DEF IncreaseAllowance
  <2>2. ASSUME NEW spender \in Addr, NEW amount \in Amounts,
               NEW expires \in Expirations \cup {None},
               DecreaseAllowance(s, spender, amount, expires)
        PROVE  TokenInv' /\ ApprovalInv'
    BY <2>2, DecreaseAllowanceInv, TokenUnchanged DEF DecreaseAllowance
  <2>3. ASSUME NEW owner \in Addr, NEW to \in Addr, NEW amount \in Amounts,
               TransferFrom(s, owner, to, amount)
        PROVE  TokenInv' /\ ApprovalInv'
    <3>1. CASE to = owner
      BY <2>3, <3>1, TokenUnchanged, ApprovalUnchanged DEF TransferFrom
    <3>2. CASE to # owner
      <4>1. TokenInv'
        BY <2>3, <3>2, MovesInv DEF TransferFrom
      <4>2. ApprovalInv'
        BY <2>3, <3>2, ApprovalUnchanged, DeductAllowanceInv DEF TransferFrom
      <4>. QED  BY <4>1, <4>2
    <3>. QED  BY <3>1, <3>2
  <2>4. ASSUME NEW owner \in Addr, NEW to \in Addr, NEW amount \in Amounts,
               SendFrom(s, owner, to, amount)
        PROVE  TokenInv' /\ ApprovalInv'
    BY <2>4, MovesInv, DeductAllowanceInv DEF SendFrom
  <2>5. ASSUME NEW owner \in Addr, NEW amount \in Amounts, BurnFrom(s, owner, amount)
        PROVE  TokenInv' /\ ApprovalInv'
    BY <2>5, BurnTokensInv, RunningHasToken, DeductAllowanceInv DEF BurnFrom, IInv
  <2>. QED  BY <1>2, <2>1, <2>2, <2>3, <2>4, <2>5 DEF AllowancesExecute
<1>3. CASE MintingExecute(s)
  <2>1. ASSUME NEW to \in Addr, NEW amount \in Amounts, Mint(s, to, amount)
        PROVE  TokenInv' /\ ApprovalInv'
    BY <2>1, MintInv, ApprovalUnchanged DEF Mint
  <2>2. ASSUME NEW new_minter \in Addr \cup {None}, UpdateMinter(s, new_minter)
        PROVE  TokenInv' /\ ApprovalInv'
    BY <2>2, UpdateMinterInv, ApprovalUnchanged DEF UpdateMinter
  <2>. QED  BY <1>3, <2>1, <2>2 DEF MintingExecute
<1>. QED  BY <1>1, <1>2, <1>3 DEF TokenExecute

\* The marketing messages leave the token alone and write values of the
\* types of marketing_info and logo.
LEMMA MarketingExecuteInv ==
  ASSUME IInv, NEW s \in Addr, MarketingExecute(s)
  PROVE  /\ UNCHANGED <<tokenVars, allowanceVars>>
         /\ marketing_info' \in MarketingInfo \cup {None}
         /\ logo' \in Logos \cup {None}
<1>1. ASSUME NEW project \in Texts \cup {Blank, None},
             NEW description \in Texts \cup {Blank, None},
             NEW marketing \in Addr \cup {Blank, None},
             UpdateMarketing(s, project, description, marketing)
      PROVE  /\ UNCHANGED <<tokenVars, allowanceVars, logo>>
             /\ marketing_info' \in MarketingInfo \cup {None}
  <2>1. marketing_info \in MarketingInfo
    BY <1>1 DEF UpdateMarketing, HasMarketingRole, IInv, TypeOK
  <2>. DEFINE info == [marketing_info EXCEPT !.project     = Updated(@, project),
                                             !.description = Updated(@, description),
                                             !.marketing   = Updated(@, marketing)]
  <2>2. /\ Updated(marketing_info.project, project) \in Texts \cup {Blank, None}
        /\ Updated(marketing_info.description, description) \in Texts \cup {Blank, None}
        /\ Updated(marketing_info.marketing, marketing) \in Addr \cup {None}
    BY <2>1 DEF MarketingInfo, Updated
  <2>3. info \in MarketingInfo
    BY <2>1, <2>2 DEF MarketingInfo
  <2>4. marketing_info' \in {info, None}
    BY <1>1 DEF UpdateMarketing
  <2>. HIDE DEF info
  <2>. QED  BY <1>1, <2>3, <2>4 DEF UpdateMarketing
<1>2. ASSUME NEW l \in Logos, UploadLogo(s, l)
      PROVE  /\ UNCHANGED <<tokenVars, allowanceVars>>
             /\ marketing_info' \in MarketingInfo \cup {None}
             /\ logo' \in Logos \cup {None}
  <2>1. marketing_info \in MarketingInfo
    BY <1>2 DEF UploadLogo, HasMarketingRole, IInv, TypeOK
  <2>. QED  BY <1>2, <2>1 DEF UploadLogo, MarketingInfo, LogoInfo
<1>. QED  BY <1>1, <1>2 DEF MarketingExecute, IInv, TypeOK

-----------------------------------------------------------------------------
(***************************************************************************)
(* The invariant.                                                          *)
(***************************************************************************)
LEMMA InstantiateInv ==
  ASSUME IInv, NEW rows \in InitialBalances, NEW mint \in MintOptions,
         NEW marketing \in MarketingOptions, Instantiate(rows, mint, marketing)
  PROVE  /\ TokenInv' /\ ApprovalInv'
         /\ logo' \in Logos \cup {None}
         /\ marketing_info' \in MarketingInfo \cup {None}
<1>. USE DEF IInv, TypeOK
<1>1. balances' \in [Addr -> Uint128 \cup {None}]
  <2>1. ASSUME NEW a \in Addr PROVE CreatedBalances(rows)[a] \in Uint128 \cup {None}
    BY Cw20BaseAssumption DEF CreatedBalances
  <2>2. CreatedBalances(rows) = [a \in Addr |-> CreatedBalances(rows)[a]]
    BY DEF CreatedBalances
  <2>. QED  BY <2>1, <2>2 DEF Instantiate
<1>2. /\ token_info'.total_supply = CreatedSupply(rows)
      /\ token_info'.mint = mint
      /\ token_info' \in TokenInfo
  BY Cw20BaseAssumption DEF Instantiate, FitsCap, TokenInfo
<1>3. SupplyWithinCap'
  BY <1>2 DEF Instantiate, FitsCap, SupplyWithinCap, cap
<1>4. logo' \in Logos \cup {None} /\ marketing_info' \in MarketingInfo \cup {None}
  <2>1. marketing # None => marketing \in MarketingInfo /\ marketing.logo \in Logos \cup {None}
    BY Cw20BaseAssumption
  <2>. QED  BY <2>1 DEF Instantiate, MarketingInfo, LogoInfo
<1>5. ApprovalInv'
  BY Cw20Assumption
     DEF Instantiate, allowanceVars, ApprovalInv, NoSelfApproval, MirrorAgrees,
         MirrorIsConverse, MirrorIsComplete
<1>6. contract_version' # None
  BY Cw20Assumption DEF Instantiate
<1>. QED
  BY <1>1, <1>2, <1>3, <1>4, <1>5, <1>6, NoneAssumption DEF TokenInv, InstanceHasToken

\* The state before instantiation, and the state older code leaves behind.
LEMMA InitInv == Init => IInv
<1>. SUFFICES ASSUME Init PROVE IInv
  OBVIOUS
<1>1. /\ marketing_info = None /\ logo = None
      /\ height \in Nat
      /\ sender = None
  BY DEF Init
<1>2. CASE Fresh
  <2>1. balances \in [Addr -> Uint128 \cup {None}]
    BY <1>2 DEF Fresh
  <2>2. ApprovalInv
    BY <1>2, Cw20Assumption
       DEF Fresh, NoApprovals, ApprovalInv, NoSelfApproval, MirrorAgrees,
           MirrorIsConverse, MirrorIsComplete, Running
  <2>. QED
    BY <1>1, <1>2, <2>1, <2>2
       DEF Fresh, IInv, TypeOK, InstanceHasToken, SupplyWithinCap, ApprovalInv
<1>3. CASE Legacy
  <2>1. contract_version \in Nat /\ contract_version # ContractVersion
    BY <1>3, Cw20BaseAssumption DEF Legacy
  <2>2. balances \in [Addr -> Uint128 \cup {None}]
    BY <1>3, Cw20Assumption DEF Legacy
  <2>3. token_info \in TokenInfo /\ token_info # None /\ SupplyWithinCap
    <3>1. PICK mint \in MintOptions :
            LET supply == SumFunction([a \in Addr |-> Balance(a)])
            IN  /\ supply \in Uint128
                /\ mint # None /\ mint.cap # None => supply <= mint.cap
                /\ token_info = [total_supply |-> supply, mint |-> mint]
      BY <1>3 DEF Legacy
    <3>2. mint \in MinterData \cup {None}
      BY Cw20BaseAssumption
    <3>. HIDE DEF Balance
    <3>3. token_info \in TokenInfo
      BY <3>1, <3>2 DEF TokenInfo
    <3>. QED  BY <3>1, <3>2, <3>3, NoneAssumption DEF SupplyWithinCap, cap
  <2>4. ApprovalInv
    <3>1. allowances \in [Addr -> [Addr -> Allowance \cup {None}]]
      BY <1>3, Cw20BaseAssumption DEF Legacy
    <3>2. /\ Converse(allowances) \in [Addr -> [Addr -> Allowance \cup {None}]]
          /\ \A o, s \in Addr : Converse(allowances)[s][o] = allowances[o][s]
      BY <3>1 DEF Converse
    <3>3. /\ NoApprovals \in [Addr -> [Addr -> Allowance \cup {None}]]
          /\ \A o, s \in Addr : NoApprovals[s][o] = None
      BY DEF NoApprovals
    <3>4. /\ allowances_spender \in {NoApprovals, Converse(allowances)}
          /\ contract_version >= MirrorVersion => allowances_spender = Converse(allowances)
          /\ NoSelfApproval
      BY <1>3 DEF Legacy, NoSelfApproval
    <3>5. MirrorAgrees
      BY <2>1, <3>2, <3>3, <3>4, Cw20Assumption
         DEF MirrorAgrees, MirrorIsConverse, MirrorIsComplete, Running
    <3>. QED  BY <3>1, <3>2, <3>3, <3>4, <3>5 DEF ApprovalInv
  <2>. QED
    BY <1>1, <2>1, <2>2, <2>3, <2>4, Cw20Assumption
       DEF IInv, TypeOK, InstanceHasToken, ApprovalInv
<1>. QED  BY <1>2, <1>3 DEF Init

\* Every message, a migration and the passing of time preserve the invariant.
LEMMA NextInv == IInv /\ [Next]_vars => IInv'
<1>. SUFFICES ASSUME IInv, [Next]_vars PROVE IInv'
  OBVIOUS
<1>1. ASSUME NEW s \in Senders, Create(s)
      PROVE  IInv'
  <2>1. PICK rows \in InitialBalances, mint \in MintOptions,
             marketing \in MarketingOptions : Instantiate(rows, mint, marketing)
    BY <1>1 DEF Create
  <2>2. /\ contract_version' = ContractVersion
        /\ height' = height
        /\ sender' = s
    BY <1>1, <2>1 DEF Create, Instantiate
  <2>. QED
    BY <2>1, <2>2, InstantiateInv, Cw20Assumption
       DEF IInv, TypeOK, TokenInv, ApprovalInv
<1>2. ASSUME NEW s \in Senders, Execute(s)
      PROVE  IInv'
  <2>. s \in Addr
    BY Cw20Assumption
  <2>1. Running /\ sender' = s /\ UNCHANGED envVars
    BY <1>2 DEF Execute
  <2>2. /\ TokenInv' /\ ApprovalInv'
        /\ marketing_info' \in MarketingInfo \cup {None}
        /\ logo' \in Logos \cup {None}
    <3>1. CASE TokenExecute(s) /\ UNCHANGED marketingVars
      BY <2>1, <3>1, TokenExecuteInv DEF envVars, marketingVars, IInv, TypeOK
    <3>2. CASE MarketingExecute(s)
      BY <2>1, <3>2, MarketingExecuteInv, TokenUnchanged, ApprovalUnchanged DEF envVars
    <3>. QED  BY <1>2, <3>1, <3>2 DEF Execute
  <2>. QED
    BY <2>1, <2>2 DEF IInv, TypeOK, TokenInv, ApprovalInv, envVars
<1>3. ASSUME Migrate
      PROVE  IInv'
  <2>1. TokenInv' /\ ApprovalInv'
    BY <1>3, MigrateInv, TokenUnchanged, Cw20Assumption DEF Migrate
  <2>. QED
    BY <1>3, <2>1, Cw20Assumption
       DEF Migrate, IInv, TypeOK, TokenInv, ApprovalInv, tokenVars,
           marketingVars
<1>4. ASSUME NextBlock
      PROVE  IInv'
  <2>1. TokenInv' /\ ApprovalInv'
    BY <1>4, TokenUnchanged, ApprovalUnchanged DEF NextBlock
  <2>. QED
    BY <1>4, <2>1
       DEF NextBlock, IInv, TypeOK, TokenInv, ApprovalInv, tokenVars,
           marketingVars
<1>5. ASSUME UNCHANGED vars
      PROVE  IInv'
  <2>1. TokenInv' /\ ApprovalInv'
    BY <1>5, TokenUnchanged, ApprovalUnchanged DEF vars, envVars
  <2>. QED
    BY <1>5, <2>1
       DEF vars, IInv, TypeOK, TokenInv, ApprovalInv, tokenVars,
           marketingVars, envVars
<1>. QED  BY <1>1, <1>2, <1>3, <1>4, <1>5 DEF Next

LEMMA Invariance == Spec => []IInv
BY InitInv, NextInv, PTL DEF Spec

-----------------------------------------------------------------------------
(***************************************************************************)
(* The supply.  No other invariant needs it, so that it is proved on top   *)
(* of IInv.                                                                *)
(***************************************************************************)
\* The balances add up to a number, and the invariant says to which.
LEMMA FundsAdd ==
  ASSUME IInv
  PROVE  /\ IsFiniteSet(Addr)
         /\ \A a \in Addr : Funds[a] \in Nat
         /\ SumFunctionOnSet(Funds, Addr) \in Nat
         /\ SupplyIsSumOfBalances <=>
              (token_info # None => token_info.total_supply = SumFunctionOnSet(Funds, Addr))
<1>1. \A a \in Addr : Funds[a] \in Nat
  BY BalanceType DEF IInv, Funds, Uint128
<1>2. IsFiniteSet(Addr)
  BY FiniteAddr
<1>3. SumFunctionOnSet(Funds, Addr) \in Nat
  BY <1>1, <1>2, SumIsNat
<1>. QED  BY <1>1, <1>2, <1>3 DEF SupplyIsSumOfBalances, SumFunction, Funds

\* What changes in one account changes the sum by as much.
LEMMA AddrSumOfUpdate ==
  ASSUME NEW f, NEW g, NEW a \in Addr,
         \A x \in Addr : f[x] \in Nat /\ g[x] \in Nat /\ (x # a => g[x] = f[x])
  PROVE  /\ SumFunctionOnSet(g, Addr) = SumFunctionOnSet(f, Addr) - f[a] + g[a]
         /\ SumFunctionOnSet(f, Addr) \in Nat
BY FiniteAddr, SumOfUpdate

\* A move leaves the sum as it is, a move to oneself too.
LEMMA MoveTokensSum ==
  ASSUME IInv, NEW from \in Addr, NEW to \in Addr, NEW amount \in Amounts,
         MoveTokens(from, to, amount)
  PROVE  SumFunctionOnSet(Funds', Addr) = SumFunctionOnSet(Funds, Addr)
<1>. DEFINE taken == [Funds EXCEPT ![from] = @ - amount]
<1>1. /\ amount \in Nat /\ amount <= Funds[from] /\ Funds[from] \in Nat
      /\ Funds' = [taken EXCEPT ![to] = @ + amount]
  BY MoveTokensFunds
<1>2. /\ \A a \in Addr : taken[a] \in Nat /\ (a # from => taken[a] = Funds[a])
      /\ taken[from] = Funds[from] - amount
  BY <1>1, FundsAdd DEF Funds
<1>3. /\ \A a \in Addr : Funds'[a] \in Nat /\ (a # to => Funds'[a] = taken[a])
      /\ Funds'[to] = taken[to] + amount
  <2>1. \A a \in Addr : Funds'[a] = IF a = to THEN taken[to] + amount ELSE taken[a]
    BY <1>1 DEF Funds
  <2>. HIDE DEF taken
  <2>. QED  BY <1>1, <1>2, <2>1
<1>. HIDE DEF taken
<1>4. /\ SumFunctionOnSet(taken, Addr) = SumFunctionOnSet(Funds, Addr) - Funds[from] + taken[from]
      /\ SumFunctionOnSet(Funds, Addr) \in Nat /\ SumFunctionOnSet(taken, Addr) \in Nat
  BY <1>2, FundsAdd, AddrSumOfUpdate
<1>5. SumFunctionOnSet(Funds', Addr) = SumFunctionOnSet(taken, Addr) - taken[to] + Funds'[to]
  BY <1>2, <1>3, AddrSumOfUpdate
<1>. QED  BY <1>1, <1>2, <1>3, <1>4, <1>5

\* What is burnt is taken from the sum and from the supply.
LEMMA BurnTokensSupply ==
  ASSUME IInv, Running, SupplyIsSumOfBalances, NEW from \in Addr, NEW amount \in Amounts,
         BurnTokens(from, amount)
  PROVE  SupplyIsSumOfBalances'
<1>1. /\ amount \in Nat /\ amount <= Funds[from] /\ Funds[from] \in Nat
      /\ Funds' = [Funds EXCEPT ![from] = @ - amount]
  BY BurnTokensFunds
<1>2. /\ \A a \in Addr : Funds'[a] \in Nat /\ (a # from => Funds'[a] = Funds[a])
      /\ Funds'[from] = Funds[from] - amount
  BY <1>1, FundsAdd DEF Funds
<1>3. /\ SumFunctionOnSet(Funds', Addr) = SumFunctionOnSet(Funds, Addr) - Funds[from] + Funds'[from]
      /\ SumFunctionOnSet(Funds, Addr) \in Nat
  BY <1>2, FundsAdd, AddrSumOfUpdate
<1>4. token_info'.total_supply = token_info.total_supply - amount
  BY RunningHasToken DEF BurnTokens, TokenInfo
<1>5. token_info.total_supply = SumFunctionOnSet(Funds, Addr)
  BY RunningHasToken, FundsAdd
<1>6. token_info'.total_supply = SumFunctionOnSet(Funds', Addr)
  BY <1>1, <1>2, <1>3, <1>4, <1>5
<1>. QED  BY <1>6 DEF SupplyIsSumOfBalances, SumFunction, Funds

\* What is minted is added to both.
LEMMA MintSupply ==
  ASSUME IInv, Running, SupplyIsSumOfBalances, NEW from \in Addr, NEW to \in Addr,
         NEW amount \in Amounts, Mint(from, to, amount)
  PROVE  SupplyIsSumOfBalances'
<1>1. /\ amount \in Nat /\ Funds[to] \in Nat
      /\ Funds' = [Funds EXCEPT ![to] = @ + amount]
  BY MintFunds
<1>2. /\ \A a \in Addr : Funds'[a] \in Nat /\ (a # to => Funds'[a] = Funds[a])
      /\ Funds'[to] = Funds[to] + amount
  BY <1>1, FundsAdd DEF Funds
<1>3. /\ SumFunctionOnSet(Funds', Addr) = SumFunctionOnSet(Funds, Addr) - Funds[to] + Funds'[to]
      /\ SumFunctionOnSet(Funds, Addr) \in Nat
  BY <1>2, FundsAdd, AddrSumOfUpdate
<1>4. token_info'.total_supply = token_info.total_supply + amount
  BY RunningHasToken DEF Mint, TokenInfo
<1>5. token_info.total_supply = SumFunctionOnSet(Funds, Addr)
  BY RunningHasToken, FundsAdd
<1>6. token_info'.total_supply = SumFunctionOnSet(Funds', Addr)
  BY <1>1, <1>2, <1>3, <1>4, <1>5
<1>. QED  BY <1>6 DEF SupplyIsSumOfBalances, SumFunction, Funds

LEMMA SupplyKept ==
  ASSUME SupplyIsSumOfBalances, UNCHANGED token_info,
         SumFunctionOnSet(Funds', Addr) = SumFunctionOnSet(Funds, Addr)
  PROVE  SupplyIsSumOfBalances'
BY DEF SupplyIsSumOfBalances, SumFunction, Funds

LEMMA SupplyUntouched ==
  ASSUME SupplyIsSumOfBalances, UNCHANGED tokenVars
  PROVE  SupplyIsSumOfBalances'
BY DEF SupplyIsSumOfBalances, Balance, tokenVars

LEMMA TokenExecuteSupply ==
  ASSUME IInv, Running, SupplyIsSumOfBalances, NEW s \in Addr, TokenExecute(s)
  PROVE  SupplyIsSumOfBalances'
<1>1. CASE BaseExecute(s)
  BY <1>1, MoveTokensSum, SupplyKept, BurnTokensSupply DEF BaseExecute, Transfer, Send, Burn
<1>2. CASE AllowancesExecute(s)
  <2>1. ASSUME NEW owner \in Addr, NEW to \in Addr, NEW amount \in Amounts,
               TransferFrom(s, owner, to, amount) \/ SendFrom(s, owner, to, amount)
        PROVE  SupplyIsSumOfBalances'
    BY <2>1, MoveTokensSum, SupplyKept, SupplyUntouched DEF TransferFrom, SendFrom
  <2>2. ASSUME NEW owner \in Addr, NEW amount \in Amounts, BurnFrom(s, owner, amount)
        PROVE  SupplyIsSumOfBalances'
    BY <2>2, BurnTokensSupply DEF BurnFrom
  <2>. QED
    BY <1>2, <2>1, <2>2, SupplyUntouched DEF AllowancesExecute, IncreaseAllowance, DecreaseAllowance
<1>3. CASE MintingExecute(s)
  <2>1. ASSUME NEW new_minter \in Addr \cup {None}, UpdateMinter(s, new_minter)
        PROVE  SupplyIsSumOfBalances'
    <3>1. token_info'.total_supply = token_info.total_supply /\ UNCHANGED balances
      BY <2>1, RunningHasToken DEF UpdateMinter, TokenInfo
    <3>. QED  BY <3>1, RunningHasToken DEF SupplyIsSumOfBalances, Balance
  <2>. QED  BY <1>3, <2>1, MintSupply DEF MintingExecute
<1>. QED  BY <1>1, <1>2, <1>3 DEF TokenExecute

\* The rows of instantiate name different accounts, so that each is stored
\* and counted once.
LEMMA InstantiateSupply ==
  ASSUME NEW rows \in InitialBalances, NEW mint \in MintOptions,
         NEW marketing \in MarketingOptions, Instantiate(rows, mint, marketing)
  PROVE  SupplyIsSumOfBalances'
<1>. DEFINE amounts == [i \in DOMAIN rows |-> rows[i].amount]
            name == [i \in DOMAIN rows |-> rows[i].address]
            created == CreatedBalances(rows)
            funds == [a \in Addr |-> Amount(created[a])]
<1>1. IsFiniteSet(DOMAIN rows) /\ \A i \in DOMAIN rows : name[i] \in Addr /\ amounts[i] \in Nat
  BY Cw20BaseAssumption DEF Uint128
<1>2. \A i, j \in DOMAIN rows : name[i] = name[j] => i = j
  BY DEF Instantiate, ValidateAccounts
<1>3. \A i \in DOMAIN rows : funds[name[i]] = amounts[i]
  <2>1. ASSUME NEW i \in DOMAIN rows
        PROVE  created[name[i]] = amounts[i]
    <3>1. {j \in DOMAIN rows : rows[j].address = rows[i].address} = {i}
      BY <1>2
    <3>. QED  BY <1>1, <3>1 DEF CreatedBalances
  <2>2. \A i \in DOMAIN rows : amounts[i] # None
    BY <1>1, Cw20Assumption
  <2>. HIDE DEF created, name, amounts
  <2>. QED  BY <1>1, <2>1, <2>2 DEF Amount
<1>4. \A a \in Addr : (\A i \in DOMAIN rows : name[i] # a) => funds[a] = 0
  BY DEF CreatedBalances, Amount
<1>5. SumFunctionOnSet(amounts, DOMAIN rows) = SumFunctionOnSet(funds, Addr)
  <2>. HIDE DEF created, name, amounts, funds
  <2>. QED  BY <1>1, <1>2, <1>3, <1>4, FiniteAddr, SumRenames
<1>6. /\ token_info'.total_supply = SumFunctionOnSet(amounts, DOMAIN rows)
      /\ Funds' = funds
  BY DEF Instantiate, CreatedSupply, SumFunction, Funds, Balance
<1>. HIDE DEF funds, amounts
<1>. QED  BY <1>5, <1>6 DEF SupplyIsSumOfBalances, SumFunction, Funds

LEMMA InitSupply == Init => SupplyIsSumOfBalances
BY DEF Init, Fresh, Legacy, SupplyIsSumOfBalances

LEMMA NextSupply == IInv /\ SupplyIsSumOfBalances /\ [Next]_vars => SupplyIsSumOfBalances'
<1>. SUFFICES ASSUME IInv, SupplyIsSumOfBalances, [Next]_vars PROVE SupplyIsSumOfBalances'
  OBVIOUS
<1>1. ASSUME NEW s \in Senders, Create(s)
      PROVE  SupplyIsSumOfBalances'
  BY <1>1, InstantiateSupply DEF Create
<1>2. ASSUME NEW s \in Senders, Execute(s)
      PROVE  SupplyIsSumOfBalances'
  <2>1. s \in Addr /\ Running
    BY <1>2, Cw20Assumption DEF Execute
  <2>2. CASE TokenExecute(s)
    BY <2>1, <2>2, TokenExecuteSupply
  <2>3. CASE MarketingExecute(s)
    BY <2>1, <2>3, MarketingExecuteInv, SupplyUntouched
  <2>. QED  BY <1>2, <2>2, <2>3 DEF Execute
<1>3. CASE Migrate \/ NextBlock \/ UNCHANGED vars
  BY <1>3, SupplyUntouched DEF Migrate, NextBlock, vars
<1>. QED  BY <1>1, <1>2, <1>3 DEF Next

LEMMA SupplyInvariance == Spec => [](IInv /\ SupplyIsSumOfBalances)
BY InitInv, NextInv, InitSupply, NextSupply, PTL DEF Spec

\* Two balances are a part of the supply, which is a Uint128.
LEMMA SupplyBoundsTwo ==
  ASSUME IInv, SupplyIsSumOfBalances
  PROVE  CreditsNeverOverflow
<1>. SUFFICES ASSUME NEW a \in Addr, NEW b \in Addr, a # b
              PROVE  Balance(a) + Balance(b) <= MaxUint128
  BY DEF CreditsNeverOverflow
<1>1. CASE token_info = None
  <2>1. contract_version = None
    BY <1>1 DEF IInv, InstanceHasToken
  <2>2. Balance(a) = 0 /\ Balance(b) = 0
    BY <2>1 DEF IInv, InstanceHasToken, Balance, Amount
  <2>. QED  BY <2>2, Cw20Assumption
<1>2. CASE token_info # None
  <2>1. SumFunctionOnSet(Funds, Addr) <= MaxUint128
    BY <1>2, FundsAdd DEF IInv, TypeOK, TokenInfo, Uint128
  <2>2. /\ Funds[a] + Funds[b] <= SumFunctionOnSet(Funds, Addr)
        /\ Funds[a] \in Nat /\ Funds[b] \in Nat /\ SumFunctionOnSet(Funds, Addr) \in Nat
    BY FundsAdd, SumBoundsTwo
  <2>3. Funds[a] = Balance(a) /\ Funds[b] = Balance(b)
    BY DEF Funds
  <2>. QED  BY <2>1, <2>2, <2>3, Cw20Assumption
<1>. QED  BY <1>1, <1>2

-----------------------------------------------------------------------------
(***************************************************************************)
(* Theorems.                                                               *)
(***************************************************************************)
\* Every item and map of the storage holds values of its Rust type: no sum
\* of Uint128 leaves its range.
THEOREM TypeCorrect == Spec => []TypeOK
<1>1. IInv => TypeOK
  BY DEF IInv
<1>. QED  BY <1>1, Invariance, PTL

\* The two maps of approvals agree while this code runs, whatever the
\* messages, and whatever version of the code the contract was migrated from.
THEOREM MirrorIsConverseCorrect == Spec => []MirrorIsConverse
<1>1. IInv => MirrorIsConverse
  BY DEF IInv, MirrorAgrees
<1>. QED  BY <1>1, Invariance, PTL

\* The supply stays within the cap of the minter.
THEOREM SupplyWithinCapCorrect == Spec => []SupplyWithinCap
<1>1. IInv => SupplyWithinCap
  BY DEF IInv
<1>. QED  BY <1>1, Invariance, PTL

\* Nobody is approved to spend from its own account.
THEOREM NoSelfApprovalCorrect == Spec => []NoSelfApproval
<1>1. IInv => NoSelfApproval
  BY DEF IInv
<1>. QED  BY <1>1, Invariance, PTL

\* The total supply is the sum of all balances, through every message,
\* instantiation, migration and block.
THEOREM SupplyIsSumCorrect == Spec => []SupplyIsSumOfBalances
BY SupplyInvariance, PTL

\* No account holds more than there is, so that the subtraction from the
\* supply in burn and burn_from cannot fail once that from the balance has
\* succeeded: the two writes of a burn do not come apart.
THEOREM BalancesWithinSupply ==
  Spec => [](token_info # None => \A a \in Addr : Balance(a) <= token_info.total_supply)
<1>1. IInv /\ SupplyIsSumOfBalances =>
        (token_info # None => \A a \in Addr : Balance(a) <= token_info.total_supply)
  BY FundsAdd, SumBoundsOne DEF Funds
<1>. QED  BY <1>1, SupplyInvariance, PTL

\* Two balances never overflow together: the unchecked additions to the
\* balance of a recipient are safe.
THEOREM CreditsNeverOverflowCorrect == Spec => []CreditsNeverOverflow
BY SupplyInvariance, SupplyBoundsTwo, PTL
=============================================================================
