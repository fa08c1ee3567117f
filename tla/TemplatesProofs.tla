---------------------------- MODULE TemplatesProofs --------------------------
(***************************************************************************)
(* Machine-checked proofs about the five contract templates, for any       *)
(* markets, traders, stakes, fees and times, for any notes, roots and      *)
(* nullifiers, and for any holders, tokens, amounts and batches.           *)
(*                                                                         *)
(* The escrow's and the tokens' properties compare sums over traders,      *)
(* markets and holders.  A sum over a finite set is a fold of the          *)
(* community modules; that it is any element's value plus the sum over the *)
(* others (SumElement) is proved by induction on the size of the set,      *)
(* along the order of the naturals, and from it how a sum changes with one *)
(* value and how two compare.                                              *)
(*                                                                         *)
(* The escrow's invariant (EscrowIInv) says of a resolved market that its  *)
(* fee, withdrawn or not, stays what it was, and that a paid winner has    *)
(* his share of what is there to share now, but for a fraction of a unit.  *)
(* The registry's (RegistryIInv) says that no claim by proof is there      *)
(* before a market's first resolution, the pool's (PoolIInv) counts what   *)
(* it received, owes and paid, the ERC-20's (TokenIInv) the permits of a   *)
(* holder by its nonce, and the editions' (EditionIInv) sums of balances,  *)
(* which the rounds of a batch keep one by one.                            *)
(***************************************************************************)
EXTENDS Templates, Sequences, FiniteSetTheorems, WellFoundedInduction, TLAPS

\* The order of the natural numbers, and induction along it.
Less == {p \in Nat \X Nat : p[1] < p[2]}

\* The naturals have no endless descent.
LEMMA LessWellFounded == IsWellFoundedOn(Less, Nat)
<1>1. OpToRel(<, Nat) = Less
  BY DEF OpToRel, Less
<1> QED
  BY <1>1, NatLessThanWellFounded

\* What holds of 0 and of each successor holds of every natural.
LEMMA Induction ==
  ASSUME NEW S \in SUBSET Nat, 0 \in S, \A n \in S : n + 1 \in S
  PROVE  S = Nat
<1> SUFFICES ASSUME S # Nat PROVE FALSE
  OBVIOUS
<1> DEFINE Rest == Nat \ S
<1>1. Rest # {} /\ Rest \subseteq Nat
  OBVIOUS
<1> HIDE DEF Rest
<1>2. PICK m \in Rest : \A y \in Rest : ~(<<y, m>> \in Less)
  BY LessWellFounded, <1>1, WFMin
<1>3. m \in Nat /\ m # 0
  BY <1>1 DEF Rest
<1>4. m - 1 \in Rest
  BY <1>3 DEF Rest
<1>5. <<m - 1, m>> \in Less
  BY <1>3 DEF Less
<1> QED
  BY <1>2, <1>4, <1>5

\* What a sum over a set is made of: an element, and the sum over the others.
Chosen(T) == CHOOSE x \in T : TRUE
SumsOf(f, S, g) ==
  g = [T \in SUBSET S |-> IF T = {} THEN 0 ELSE f[Chosen(T)] + g[T \ {Chosen(T)}]]

\* The sum of the community modules, unfolded to the recursive function it is.
LEMMA SumIsFold ==
  ASSUME NEW f, NEW S
  PROVE  SumFunctionOnSet(f, S) = (CHOOSE g : SumsOf(f, S, g))[S]
BY Zenon DEF SumFunctionOnSet, FoldFunctionOnSet, MapThenFoldSet, SumsOf, Chosen

\* One element less.
LEMMA OneLess ==
  ASSUME NEW T, IsFiniteSet(T), NEW x \in T
  PROVE  /\ IsFiniteSet(T \ {x}) /\ Cardinality(T) \in Nat \ {0}
         /\ Cardinality(T \ {x}) = Cardinality(T) - 1
         /\ Cardinality(T) - 1 \in Nat
<1>1. Cardinality(T) \in Nat /\ IsFiniteSet(T \ {x}) /\ Cardinality(T \ {x}) = Cardinality(T) - 1
  BY FS_CardinalityType, FS_RemoveElement
<1>2. Cardinality(T \ {x}) \in Nat
  BY <1>1, FS_CardinalityType
<1> QED
  BY <1>1, <1>2

\* The element a fold takes first is one of the set.
LEMMA ChosenIn ==
  ASSUME NEW T, T # {} PROVE Chosen(T) \in T
BY DEF Chosen

\* Sums over all subsets of a finite set.
LEMMA SumsExist ==
  ASSUME NEW S, IsFiniteSet(S), NEW f, \A x \in S : f[x] \in Int
  PROVE  \E g \in [SUBSET S -> Int] : SumsOf(f, S, g)
<1> DEFINE Small(k) == {T \in SUBSET S : Cardinality(T) <= k}
           Value(g, T) == IF T = {} THEN 0 ELSE f[Chosen(T)] + g[T \ {Chosen(T)}]
           Upto(k) == \E g \in [Small(k) -> Int] : \A T \in Small(k) : g[T] = Value(g, T)
           N == {k \in Nat : Upto(k)}
<1>1. ASSUME NEW T \in SUBSET S
      PROVE  IsFiniteSet(T) /\ Cardinality(T) \in Nat /\ Cardinality(T) <= Cardinality(S)
  BY FS_Subset, FS_CardinalityType
<1>2. 0 \in N
  <2>1. \A T \in Small(0) : T = {}
    BY <1>1, FS_EmptySet
  <2> DEFINE g == [T \in Small(0) |-> 0]
  <2>2. g \in [Small(0) -> Int]
    OBVIOUS
  <2>3. \A T \in Small(0) : g[T] = Value(g, T)
    BY <2>1
  <2> QED
    BY <2>2, <2>3
<1>3. ASSUME NEW k \in N PROVE k + 1 \in N
  <2>1. k \in Nat /\ k + 1 \in Nat /\ Upto(k)
    <3> HIDE DEF Upto
    <3> QED
      OBVIOUS
  <2>2. PICK g \in [Small(k) -> Int] : \A T \in Small(k) : g[T] = Value(g, T)
    BY <2>1
  <2> DEFINE h == [T \in Small(k + 1) |-> Value(g, T)]
  <2>3. ASSUME NEW T \in Small(k + 1), T # {}
        PROVE  Chosen(T) \in S /\ T \ {Chosen(T)} \in Small(k)
    <3>1. Chosen(T) \in T /\ IsFiniteSet(T)
      BY <2>3, ChosenIn, <1>1
    <3>2. Cardinality(T \ {Chosen(T)}) = Cardinality(T) - 1 /\ Cardinality(T) \in Nat
      BY <3>1, OneLess
    <3>3. Cardinality(T) - 1 <= k
      BY <3>2, <2>1
    <3> QED
      BY <3>1, <3>2, <3>3
  <2>4. \A T \in Small(k + 1) : Value(g, T) \in Int
    BY <2>2, <2>3
  <2>5. \A T \in Small(k) : h[T] = g[T]
    <3>1. \A T \in Small(k) : T \in Small(k + 1)
      BY <2>1, <1>1
    <3> QED
      BY <2>2, <3>1
  <2>6. \A T \in Small(k + 1) : h[T] = Value(h, T)
    BY <2>3, <2>5
  <2> QED
    BY <2>1, <2>4, <2>6
<1>4. N = Nat
  <2>1. N \in SUBSET Nat
    OBVIOUS
  <2> HIDE DEF N
  <2> QED
    BY ONLY <1>2, <1>3, <2>1, Induction
<1>5. Cardinality(S) \in Nat /\ Small(Cardinality(S)) = SUBSET S
  BY <1>1, FS_CardinalityType
<1>6. PICK g \in [SUBSET S -> Int] : \A T \in SUBSET S : g[T] = Value(g, T)
  <2>1. Upto(Cardinality(S))
    BY <1>4, <1>5
  <2> QED
    BY <2>1, <1>5
<1>7. SumsOf(f, S, g)
  BY <1>6 DEF SumsOf
<1> QED
  BY <1>7

\* They do not depend on the set around them.
LEMMA SumsAgree ==
  ASSUME NEW S, IsFiniteSet(S), NEW f, NEW R \in SUBSET S, NEW g, NEW h,
         SumsOf(f, S, g), SumsOf(f, R, h)
  PROVE  g[R] = h[R]
<1> DEFINE N == {k \in Nat : \A T \in SUBSET R : Cardinality(T) = k => g[T] = h[T]}
<1>1. ASSUME NEW T \in SUBSET R
      PROVE  /\ IsFiniteSet(T) /\ Cardinality(T) \in Nat
             /\ g[T] = IF T = {} THEN 0 ELSE f[Chosen(T)] + g[T \ {Chosen(T)}]
             /\ h[T] = IF T = {} THEN 0 ELSE f[Chosen(T)] + h[T \ {Chosen(T)}]
  <2>1. T \in SUBSET S /\ IsFiniteSet(T) /\ Cardinality(T) \in Nat
    BY FS_Subset, FS_CardinalityType
  <2>2. g[T] = IF T = {} THEN 0 ELSE f[Chosen(T)] + g[T \ {Chosen(T)}]
    BY <2>1 DEF SumsOf
  <2>3. h[T] = IF T = {} THEN 0 ELSE f[Chosen(T)] + h[T \ {Chosen(T)}]
    BY <2>1 DEF SumsOf
  <2> QED
    BY <2>1, <2>2, <2>3
<1>2. 0 \in N
  BY <1>1, FS_EmptySet
<1>3. ASSUME NEW k \in N PROVE k + 1 \in N
  <2>1. k + 1 \in Nat /\ k \in Nat
    OBVIOUS
  <2> SUFFICES ASSUME NEW T \in SUBSET R, Cardinality(T) = k + 1 PROVE g[T] = h[T]
    BY <2>1
  <2>2. T # {} /\ IsFiniteSet(T)
    <3>1. T = {} => Cardinality(T) = 0
      BY FS_EmptySet
    <3>2. Cardinality(T) # 0
      BY <2>1
    <3> QED
      BY <1>1, <3>1, <3>2
  <2>3. Chosen(T) \in T
    BY <2>2, ChosenIn
  <2>4. Cardinality(T \ {Chosen(T)}) = k
    BY <2>1, <2>2, <2>3, OneLess
  <2>5. g[T \ {Chosen(T)}] = h[T \ {Chosen(T)}]
    BY <2>4
  <2> QED
    BY <1>1, <2>2, <2>5
<1>4. N = Nat
  <2>1. N \in SUBSET Nat
    OBVIOUS
  <2> HIDE DEF N
  <2> QED
    BY ONLY <1>2, <1>3, <2>1, Induction
<1> QED
  BY <1>1, <1>4

\* A sum by the element that is chosen first, before it is by any.
LEMMA SumChosen ==
  ASSUME NEW S, IsFiniteSet(S), NEW f, \A x \in S : f[x] \in Int
  PROVE  /\ SumFunctionOnSet(f, S) \in Int
         /\ S = {} => SumFunctionOnSet(f, S) = 0
         /\ S # {} => SumFunctionOnSet(f, S)
                        = f[Chosen(S)] + SumFunctionOnSet(f, S \ {Chosen(S)})
<1> DEFINE G(T) == CHOOSE g : SumsOf(f, T, g)
<1>1. PICK g \in [SUBSET S -> Int] : SumsOf(f, S, g)
  BY SumsExist
<1>2. ASSUME NEW T \in SUBSET S PROVE SumFunctionOnSet(f, T) = g[T]
  <2>1. IsFiniteSet(T) /\ \A x \in T : f[x] \in Int
    BY FS_Subset
  <2>2. \E h : SumsOf(f, T, h)
    BY <2>1, SumsExist
  <2>3. SumsOf(f, T, G(T))
    BY <2>2, Zenon
  <2> HIDE DEF G
  <2>4. g[T] = G(T)[T]
    BY ONLY <1>1, <2>3, SumsAgree, IsFiniteSet(S), T \in SUBSET S
  <2> QED
    BY <2>4, SumIsFold DEF G
<1>3. g[S] = IF S = {} THEN 0 ELSE f[Chosen(S)] + g[S \ {Chosen(S)}]
  BY <1>1 DEF SumsOf
<1> QED
  BY <1>1, <1>2, <1>3

\* A sum over a finite set: any of its elements, and the sum over the others.
LEMMA SumElement ==
  ASSUME NEW S, IsFiniteSet(S), NEW f, \A x \in S : f[x] \in Int, NEW x \in S
  PROVE  /\ SumFunctionOnSet(f, S) \in Int /\ SumFunctionOnSet(f, S \ {x}) \in Int
         /\ SumFunctionOnSet(f, S) = f[x] + SumFunctionOnSet(f, S \ {x})
<1> DEFINE Sum(T) == SumFunctionOnSet(f, T)
           N == {k \in Nat : \A T \in SUBSET S : Cardinality(T) = k =>
                               \A y \in T : Sum(T) = f[y] + Sum(T \ {y})}
<1>1. ASSUME NEW T \in SUBSET S
      PROVE  /\ IsFiniteSet(T) /\ Cardinality(T) \in Nat /\ Sum(T) \in Int
             /\ T # {} => Chosen(T) \in T /\ Sum(T) = f[Chosen(T)] + Sum(T \ {Chosen(T)})
  <2>1. IsFiniteSet(T) /\ \A y \in T : f[y] \in Int
    BY FS_Subset
  <2> QED
    BY <2>1, FS_CardinalityType, SumChosen, ChosenIn
<1> HIDE DEF Sum
<1>2. 0 \in N
  BY <1>1, FS_EmptySet
<1>3. ASSUME NEW k \in N PROVE k + 1 \in N
  <2>1. k + 1 \in Nat /\ k \in Nat /\ (k + 1) - 1 = k
    OBVIOUS
  <2> SUFFICES ASSUME NEW T \in SUBSET S, Cardinality(T) = k + 1, NEW y \in T
               PROVE  Sum(T) = f[y] + Sum(T \ {y})
    BY <2>1
  <2>2. Chosen(T) \in T /\ Sum(T) = f[Chosen(T)] + Sum(T \ {Chosen(T)}) /\ IsFiniteSet(T)
    BY <1>1
  <2> DEFINE c == Chosen(T)
  <2> HIDE DEF c
  <2>3. c \in T /\ Sum(T) = f[c] + Sum(T \ {c})
    BY <2>2 DEF c
  <2>4. CASE y = c
    BY <2>3, <2>4
  <2>5. CASE y # c
    <3>1. Cardinality(T \ {c}) = k /\ Cardinality(T \ {y}) = k
      BY <2>1, <2>2, <2>3, OneLess
    <3>2. y \in T \ {c} /\ c \in T \ {y}
      BY <2>3, <2>5
    <3>3. Sum(T \ {c}) = f[y] + Sum((T \ {c}) \ {y})
      BY <3>1, <3>2
    <3>4. Sum(T \ {y}) = f[c] + Sum((T \ {y}) \ {c})
      BY <3>1, <3>2
    <3>5. (T \ {c}) \ {y} = (T \ {y}) \ {c}
      OBVIOUS
    <3>6. Sum((T \ {c}) \ {y}) \in Int /\ f[c] \in Int /\ f[y] \in Int
      BY <1>1, <2>3
    <3>7. PICK p \in Int, u \in Int, v \in Int :
            u = f[c] /\ v = f[y] /\ p = Sum((T \ {c}) \ {y})
      BY <3>6
    <3>8. u + (v + p) = v + (u + p)
      OBVIOUS
    <3> QED
      BY ONLY <2>3, <3>3, <3>4, <3>5, <3>7, <3>8
  <2> QED
    BY <2>4, <2>5
<1>4. N = Nat
  <2>1. N \in SUBSET Nat
    OBVIOUS
  <2> HIDE DEF N
  <2> QED
    BY ONLY <1>2, <1>3, <2>1, Induction
<1>5. Sum(S) = f[x] + Sum(S \ {x})
  BY <1>1, <1>4
<1> QED
  BY <1>1, <1>5 DEF Sum

\* Over no element the sum is 0.
LEMMA SumEmpty == ASSUME NEW f PROVE SumFunctionOnSet(f, {}) = 0
BY FS_EmptySet, SumChosen

\* Sums compare as their elements do, also in proportion.
LEMMA SumsCompare ==
  ASSUME NEW S, IsFiniteSet(S), NEW f, NEW g, NEW h, NEW a \in Int, NEW b \in Int, NEW c \in Int,
         \A x \in S : f[x] \in Int /\ g[x] \in Int /\ h[x] \in Int,
         \A x \in S : a * h[x] <= b * f[x] + c * g[x]
  PROVE  /\ SumFunctionOnSet(f, S) \in Int /\ SumFunctionOnSet(g, S) \in Int
         /\ SumFunctionOnSet(h, S) \in Int
         /\ a * SumFunctionOnSet(h, S) <= b * SumFunctionOnSet(f, S) + c * SumFunctionOnSet(g, S)
<1> DEFINE F(T) == SumFunctionOnSet(f, T)
           G(T) == SumFunctionOnSet(g, T)
           H(T) == SumFunctionOnSet(h, T)
           N == {k \in Nat : \A T \in SUBSET S : Cardinality(T) = k =>
                               a * H(T) <= b * F(T) + c * G(T)}
<1>1. ASSUME NEW T \in SUBSET S
      PROVE  /\ IsFiniteSet(T) /\ Cardinality(T) \in Nat
             /\ F(T) \in Int /\ G(T) \in Int /\ H(T) \in Int
  BY FS_Subset, FS_CardinalityType, SumChosen
<1>2. ASSUME NEW T \in SUBSET S, NEW x \in T
      PROVE  /\ F(T) = f[x] + F(T \ {x}) /\ G(T) = g[x] + G(T \ {x})
             /\ H(T) = h[x] + H(T \ {x})
  <2>1. IsFiniteSet(T) /\ \A y \in T : f[y] \in Int /\ g[y] \in Int /\ h[y] \in Int
    BY <1>1
  <2> QED
    BY <2>1, SumElement
<1>3. F({}) = 0 /\ G({}) = 0 /\ H({}) = 0
  BY SumEmpty
<1> HIDE DEF F, G, H
<1>4. 0 \in N
  <2>1. \A T \in SUBSET S : Cardinality(T) = 0 => T = {}
    BY <1>1, FS_EmptySet
  <2>2. a * 0 <= b * 0 + c * 0
    OBVIOUS
  <2> QED
    BY <1>3, <2>1, <2>2
<1>5. ASSUME NEW k \in N PROVE k + 1 \in N
  <2>1. k + 1 \in Nat /\ k \in Nat /\ (k + 1) - 1 = k
    OBVIOUS
  <2> SUFFICES ASSUME NEW T \in SUBSET S, Cardinality(T) = k + 1
               PROVE  a * H(T) <= b * F(T) + c * G(T)
    BY <2>1
  <2>2. PICK x \in T : TRUE
    <3>1. Cardinality({}) = 0
      BY FS_EmptySet
    <3> QED
      BY <2>1, <3>1
  <2>3. Cardinality(T \ {x}) = k
    BY <1>1, <2>1, OneLess
  <2>4. a * H(T \ {x}) <= b * F(T \ {x}) + c * G(T \ {x})
    BY <2>3
  <2>5. a * h[x] <= b * f[x] + c * g[x]
    OBVIOUS
  <2>6. f[x] \in Int /\ g[x] \in Int /\ h[x] \in Int
        /\ F(T \ {x}) \in Int /\ G(T \ {x}) \in Int /\ H(T \ {x}) \in Int
    BY <1>1
  <2>7. PICK u \in Int, v \in Int, w \in Int, p \in Int, q \in Int, r \in Int :
          /\ u = f[x] /\ v = g[x] /\ w = h[x]
          /\ p = F(T \ {x}) /\ q = G(T \ {x}) /\ r = H(T \ {x})
    BY <2>6
  <2>8. a * (w + r) = a * w + a * r /\ b * (u + p) = b * u + b * p /\ c * (v + q) = c * v + c * q
    BY ONLY a \in Int, b \in Int, c \in Int, u \in Int, v \in Int, w \in Int,
            p \in Int, q \in Int, r \in Int
  <2>9. a * w <= b * u + c * v /\ a * r <= b * p + c * q
    BY <2>4, <2>5, <2>7
  <2>10. \A i, j, l, o, y, z \in Int : i <= j + l /\ o <= y + z => i + o <= (j + y) + (l + z)
    OBVIOUS
  <2>11. a * w \in Int /\ a * r \in Int /\ b * u \in Int /\ b * p \in Int /\ c * v \in Int
         /\ c * q \in Int
    OBVIOUS
  <2>12. a * (w + r) <= b * (u + p) + c * (v + q)
    BY ONLY <2>8, <2>9, <2>10, <2>11
  <2>13. H(T) = w + r /\ F(T) = u + p /\ G(T) = v + q
    BY <1>2, <2>7
  <2> QED
    BY ONLY <2>12, <2>13
<1>6. N = Nat
  <2>1. N \in SUBSET Nat
    OBVIOUS
  <2> HIDE DEF N
  <2> QED
    BY ONLY <1>4, <1>5, <2>1, Induction
<1>7. a * H(S) <= b * F(S) + c * G(S)
  BY <1>1, <1>6
<1> QED
  BY <1>1, <1>7 DEF F, G, H

-----------------------------------------------------------------------------
(* Sums of functions.                                                      *)

\* The sum of a function is the one over its domain.
LEMMA SumOfFunction ==
  ASSUME NEW S, IsFiniteSet(S), NEW f \in [S -> Int]
  PROVE  SumFunction(f) = SumFunctionOnSet(f, S) /\ SumFunction(f) \in Int
<1>1. DOMAIN f = S /\ \A x \in S : f[x] \in Int
  OBVIOUS
<1> QED
  BY <1>1, SumChosen DEF SumFunction

\* Two functions on a set, one nowhere larger: so are their sums.
LEMMA SumCompare ==
  ASSUME NEW S, IsFiniteSet(S), NEW f \in [S -> Int], NEW g \in [S -> Int], NEW h \in [S -> Int],
         NEW a \in Int, NEW b \in Int, NEW c \in Int,
         \A x \in S : a * h[x] <= b * f[x] + c * g[x]
  PROVE  a * SumFunction(h) <= b * SumFunction(f) + c * SumFunction(g)
<1>1. \A x \in S : f[x] \in Int /\ g[x] \in Int /\ h[x] \in Int
  OBVIOUS
<1>2. a * SumFunctionOnSet(h, S) <= b * SumFunctionOnSet(f, S) + c * SumFunctionOnSet(g, S)
  BY <1>1, SumsCompare
<1> QED
  BY <1>2, SumOfFunction

\* A larger function has the larger sum.
LEMMA SumGrows ==
  ASSUME NEW S, IsFiniteSet(S), NEW f \in [S -> Int], NEW g \in [S -> Int],
         \A x \in S : f[x] <= g[x]
  PROVE  SumFunction(f) <= SumFunction(g)
<1>1. \A x \in S : 1 * f[x] <= 1 * g[x] + 0 * g[x]
  <2> TAKE x \in S
  <2>1. f[x] \in Int /\ g[x] \in Int /\ f[x] <= g[x]
    OBVIOUS
  <2> QED
    BY <2>1
<1>2. 1 * SumFunction(f) <= 1 * SumFunction(g) + 0 * SumFunction(g)
  BY <1>1, SumCompare, 1 \in Int, 0 \in Int
<1>3. SumFunction(f) \in Int /\ SumFunction(g) \in Int
  BY SumOfFunction
<1> QED
  BY <1>2, <1>3

\* A function that is 0 everywhere has the sum 0.
LEMMA SumZero ==
  ASSUME NEW S, IsFiniteSet(S)
  PROVE  SumFunction([x \in S |-> 0]) = 0
<1> DEFINE z == [x \in S |-> 0]
<1>1. z \in [S -> Int] /\ \A x \in S : 1 * z[x] <= 0 * z[x] + 0 * z[x] 
                                       /\ 0 * z[x] <= 1 * z[x] + 0 * z[x]
  OBVIOUS
<1> HIDE DEF z
<1>2. SumFunction(z) \in Int
  BY <1>1, SumOfFunction
<1>3. 1 * SumFunction(z) <= 0 * SumFunction(z) + 0 * SumFunction(z)
  BY <1>1, SumCompare, 1 \in Int, 0 \in Int
<1>4. 0 * SumFunction(z) <= 1 * SumFunction(z) + 0 * SumFunction(z)
  BY <1>1, SumCompare, 1 \in Int, 0 \in Int
<1>5. SumFunction(z) = 0
  BY <1>2, <1>3, <1>4
<1> QED
  BY <1>5 DEF z

\* A sum of naturals is a natural.
LEMMA SumNatural ==
  ASSUME NEW S, IsFiniteSet(S), NEW f \in [S -> Nat]
  PROVE  SumFunction(f) \in Nat
<1> DEFINE z == [x \in S |-> 0]
<1>1. z \in [S -> Int] /\ f \in [S -> Int] /\ \A x \in S : z[x] <= f[x]
  OBVIOUS
<1>2. SumFunction(z) <= SumFunction(f) /\ SumFunction(f) \in Int
  BY <1>1, SumGrows, SumOfFunction
<1>3. SumFunction(z) = 0
  BY SumZero
<1> QED
  BY <1>2, <1>3

\* One value changes.
LEMMA SumChange ==
  ASSUME NEW S, IsFiniteSet(S), NEW f \in [S -> Int], NEW g \in [S -> Int], NEW x \in S,
         \A y \in S : y # x => g[y] = f[y]
  PROVE  SumFunction(g) = SumFunction(f) + (g[x] - f[x])
<1>1. \A y \in S : f[y] \in Int /\ g[y] \in Int
  OBVIOUS
<1>2. /\ SumFunctionOnSet(f, S) = f[x] + SumFunctionOnSet(f, S \ {x})
      /\ SumFunctionOnSet(f, S \ {x}) \in Int
      /\ SumFunctionOnSet(g, S) = g[x] + SumFunctionOnSet(g, S \ {x})
      /\ SumFunctionOnSet(g, S \ {x}) \in Int
  BY <1>1, SumElement
<1>3. SumFunctionOnSet(f, S \ {x}) = SumFunctionOnSet(g, S \ {x})
  <2>1. IsFiniteSet(S \ {x}) /\ \A y \in S \ {x} : f[y] \in Int /\ g[y] \in Int /\ f[y] = g[y]
    BY <1>1, FS_RemoveElement
  <2>2. \A y \in S \ {x} : 1 * f[y] <= 1 * g[y] + 0 * g[y] /\ 1 * g[y] <= 1 * f[y] + 0 * f[y]
    <3> TAKE y \in S \ {x}
    <3>1. f[y] \in Int /\ g[y] = f[y]
      BY <2>1
    <3> QED
      BY <3>1
  <2>3. 1 * SumFunctionOnSet(f, S \ {x})
          <= 1 * SumFunctionOnSet(g, S \ {x}) + 0 * SumFunctionOnSet(g, S \ {x})
    BY <2>1, <2>2, SumsCompare, 1 \in Int, 0 \in Int
  <2>4. 1 * SumFunctionOnSet(g, S \ {x})
          <= 1 * SumFunctionOnSet(f, S \ {x}) + 0 * SumFunctionOnSet(f, S \ {x})
    BY <2>1, <2>2, SumsCompare, 1 \in Int, 0 \in Int
  <2> QED
    BY <1>2, <2>3, <2>4
<1>4. SumFunction(f) = SumFunctionOnSet(f, S) /\ SumFunction(g) = SumFunctionOnSet(g, S)
  BY SumOfFunction
<1>5. f[x] \in Int /\ g[x] \in Int
  BY <1>1
<1> QED
  BY <1>2, <1>3, <1>4, <1>5

\* A set is as large as the sum of its members, one each.
LEMMA SumCounts ==
  ASSUME NEW S, IsFiniteSet(S), NEW R \in SUBSET S
  PROVE  SumFunction([x \in S |-> IF x \in R THEN 1 ELSE 0]) = Cardinality(R)
<1> DEFINE one(T) == [x \in S |-> IF x \in T THEN 1 ELSE 0]
           N == {k \in Nat : \A T \in SUBSET S :
                               Cardinality(T) = k => SumFunction(one(T)) = k}
<1>1. ASSUME NEW T \in SUBSET S PROVE IsFiniteSet(T) /\ Cardinality(T) \in Nat
  BY FS_Subset, FS_CardinalityType
<1>2. \A T \in SUBSET S : one(T) \in [S -> Int]
  OBVIOUS
<1>3. 0 \in N
  <2> SUFFICES ASSUME NEW T \in SUBSET S, Cardinality(T) = 0 PROVE SumFunction(one(T)) = 0
    OBVIOUS
  <2>1. T = {}
    BY <1>1, FS_EmptySet
  <2>2. one(T) = [x \in S |-> 0]
    BY <2>1
  <2> QED
    BY <2>2, SumZero
<1>4. ASSUME NEW k \in N PROVE k + 1 \in N
  <2>1. k + 1 \in Nat /\ k \in Nat /\ (k + 1) - 1 = k
    OBVIOUS
  <2> SUFFICES ASSUME NEW T \in SUBSET S, Cardinality(T) = k + 1
               PROVE  SumFunction(one(T)) = k + 1
    BY <2>1
  <2>2. T # {}
    <3>1. T = {} => Cardinality(T) = 0
      BY FS_EmptySet
    <3>2. Cardinality(T) # 0
      BY <2>1
    <3> QED
      BY <3>1, <3>2
  <2>3. PICK x \in T : TRUE
    BY <2>2
  <2>4. Cardinality(T \ {x}) = k /\ T \ {x} \in SUBSET S /\ x \in S
    BY <1>1, <2>1, OneLess
  <2>5. SumFunction(one(T \ {x})) = k
    BY <2>4
  <2>6. one(T)[x] = 1 /\ one(T \ {x})[x] = 0 /\ \A y \in S : y # x => one(T)[y] = one(T \ {x})[y]
    BY <2>4
  <2>7. one(T) \in [S -> Int] /\ one(T \ {x}) \in [S -> Int]
    BY <1>2, <2>4
  <2> HIDE DEF one
  <2>8. SumFunction(one(T)) = SumFunction(one(T \ {x})) + (one(T)[x] - one(T \ {x})[x])
    BY ONLY <2>4, <2>6, <2>7, SumChange, IsFiniteSet(S)
  <2> QED
    BY <2>1, <2>5, <2>6, <2>8
<1>5. N = Nat
  <2>1. N \in SUBSET Nat
    OBVIOUS
  <2> HIDE DEF N
  <2> QED
    BY ONLY <1>3, <1>4, <2>1, Induction
<1> QED
  BY <1>1, <1>5

\* What one value gives to another stays in the sum, also when it is the same.
LEMMA SumMoved ==
  ASSUME NEW S, IsFiniteSet(S), NEW f \in [S -> Int], NEW x \in S, NEW y \in S, NEW v \in Int,
         NEW r \in [S -> Int], x = y => r[x] = f[x],
         x # y => r[x] = f[x] - v /\ r[y] = f[y] + v,
         \A z \in S : z # x /\ z # y => r[z] = f[z]
  PROVE  SumFunction(r) = SumFunction(f)
<1>1. CASE x = y
  <2>1. \A z \in S : z # x => r[z] = f[z]
    BY <1>1
  <2>2. SumFunction(r) = SumFunction(f) + (r[x] - f[x])
    BY <2>1, SumChange
  <2>3. SumFunction(f) \in Int /\ f[x] \in Int /\ r[x] = f[x]
    BY <1>1, SumOfFunction
  <2> QED
    BY <2>2, <2>3
<1>2. CASE x # y
  <2> DEFINE g == [f EXCEPT ![x] = r[x]]
  <2>1. g \in [S -> Int] /\ g[x] = r[x] /\ \A z \in S : z # x => g[z] = f[z]
    OBVIOUS
  <2> HIDE DEF g
  <2>2. \A z \in S : z # y => r[z] = g[z]
    BY <1>2, <2>1
  <2>3. SumFunction(g) = SumFunction(f) + (g[x] - f[x])
    BY ONLY <2>1, SumChange, IsFiniteSet(S), f \in [S -> Int], x \in S
  <2>4. SumFunction(r) = SumFunction(g) + (r[y] - g[y])
    BY ONLY <2>1, <2>2, SumChange, IsFiniteSet(S), r \in [S -> Int], y \in S
  <2>5. SumFunction(f) \in Int /\ f[x] \in Int /\ f[y] \in Int
    BY SumOfFunction
  <2>6. g[x] = f[x] - v /\ g[y] = f[y] /\ r[y] = f[y] + v
    BY <1>2, <2>1
  <2>7. g[x] - f[x] = 0 - v /\ r[y] - g[y] = v
    BY ONLY <2>5, <2>6, v \in Int
  <2> QED
    BY ONLY <2>3, <2>4, <2>5, <2>7, v \in Int
<1> QED
  BY <1>1, <1>2

\* No natural of a sum is larger than the sum.
LEMMA SumBounds ==
  ASSUME NEW S, IsFiniteSet(S), NEW f \in [S -> Nat], NEW x \in S
  PROVE  f[x] <= SumFunction(f)
<1> DEFINE g == [f EXCEPT ![x] = 0]
<1>1. f \in [S -> Int] /\ f[x] \in Int
  OBVIOUS
<1>2. g \in [S -> Nat] /\ g \in [S -> Int] /\ g[x] = 0 /\ \A z \in S : z # x => g[z] = f[z]
  OBVIOUS
<1> HIDE DEF g
<1>3. SumFunction(g) = SumFunction(f) + (g[x] - f[x])
  BY ONLY <1>1, <1>2, SumChange, IsFiniteSet(S), x \in S
<1>4. SumFunction(g) \in Nat /\ SumFunction(f) \in Int
  BY <1>1, <1>2, SumNatural, SumOfFunction
<1> QED
  BY <1>1, <1>2, <1>3, <1>4

-----------------------------------------------------------------------------
(* The escrow: the inductive invariant.                                    *)

Settled(m)  == state[m] \in {"resolved", "cancelled"}
TotalFee(m) == feeAccrued[m] + taken[m]

\* The pools are the traders' stakes.
Stakes ==
  \A m \in MarketId, o \in Outcome :
    pool[m][o] = SumFunction([t \in Trader |-> stake[m][t][o]])

\* Nobody is paid but by a claim, and nobody claims before the end.
Unclaimed ==
  \A m \in MarketId, t \in Trader :
    /\ ~claimed[m][t] => paid[m][t] = 0
    /\ claimed[m][t] => Settled(m)

\* What a resolved market's fee was stays so, withdrawn or not.
FeesKept ==
  \A m \in MarketId :
    /\ state[m] = "resolved" =>
         /\ winningOutcome[m] \in Outcome
         /\ pool[m][winningOutcome[m]] > 0
         /\ TotalFee(m) = Fee(m, winningOutcome[m])
    /\ state[m] # "resolved" => feeAccrued[m] = 0 /\ taken[m] = 0

\* A winner was paid his share of what is there to share out now, which only
\* grows, at most, and at least of what is left without all fees, but for a
\* fraction of a unit; and never less than his stake.
Shares(m, t) ==
  LET w == winningOutcome[m] IN
  /\ pool[m][w] * paid[m][t] <= stake[m][t][w] * Distributable(m)
  /\ stake[m][t][w] * (Total(m) - TotalFee(m)) < pool[m][w] * paid[m][t] + pool[m][w]
  /\ stake[m][t][w] <= paid[m][t]

PaidShares ==
  \A m \in MarketId, t \in Trader : claimed[m][t] =>
    /\ state[m] = "cancelled" => paid[m][t] = stake[m][t]["yes"] + stake[m][t]["no"]
    /\ state[m] = "resolved" => Shares(m, t)

\* The contract holds what was staked and not paid.
Conserved ==
  balance + SumFunction(taken) + SumFunction([m \in MarketId |-> PaidBy(m)])
    = SumFunction([m \in MarketId |-> Total(m)])

EscrowIInv == TypeOK /\ Stakes /\ Unclaimed /\ FeesKept /\ PaidShares /\ Conserved

USE AmountsAssumption, FiniteAssumption, EscrowBounds DEF Outcome

\* The contract's divisions round down.
LEMMA Quotient ==
  ASSUME NEW a \in Nat, NEW p \in Nat \ {0}
  PROVE  a \div p \in Nat /\ p * (a \div p) <= a /\ a < p * (a \div p) + p
BY SMTT(20)

\* A fee of at most MAX_FEE_BPS is within the pool it is taken from.
LEMMA FeeInPool ==
  ASSUME NEW a \in Nat, NEW b \in 0 .. MAX_FEE_BPS
  PROVE  (a * b) \div BPS \in Nat /\ (a * b) \div BPS <= a
BY SMTT(20) DEF MAX_FEE_BPS, BPS

\* Sums and amounts are numbers.
LEMMA EscrowNumbers ==
  ASSUME TypeOK
  PROVE  /\ \A m \in MarketId : /\ Total(m) \in Nat /\ PaidBy(m) \in Nat
                                /\ feeAccrued[m] \in Nat /\ taken[m] \in Nat
         /\ \A m \in MarketId, o \in Outcome : pool[m][o] \in Nat /\ Other(o) \in Outcome
         /\ \A m \in MarketId, t \in Trader :
              /\ paid[m][t] \in Nat /\ claimed[m][t] \in BOOLEAN
              /\ \A o \in Outcome : stake[m][t][o] \in Nat
         /\ SumFunction(taken) \in Nat
<1>1. \A m \in MarketId, o \in Outcome : pool[m][o] \in Nat /\ Other(o) \in Outcome
  BY DEF TypeOK, Other
<1>2. \A m \in MarketId : Total(m) \in Nat /\ feeAccrued[m] \in Nat /\ taken[m] \in Nat
  BY <1>1 DEF Total, TypeOK
<1>3. \A m \in MarketId : paid[m] \in [Trader -> Nat] /\ claimed[m] \in [Trader -> BOOLEAN]
                          /\ stake[m] \in [Trader -> [Outcome -> Nat]]
  BY DEF TypeOK
<1>4. \A m \in MarketId : PaidBy(m) \in Nat
  BY <1>3, SumNatural DEF PaidBy
<1>5. SumFunction(taken) \in Nat
  BY SumNatural DEF TypeOK
<1>6. \A m \in MarketId, t \in Trader :
        /\ paid[m][t] \in Nat /\ claimed[m][t] \in BOOLEAN
        /\ \A o \in Outcome : stake[m][t][o] \in Nat
  BY <1>3
<1> QED
  BY <1>1, <1>2, <1>4, <1>5, <1>6

\* The fee of a resolved market is taken from the losing pool.
LEMMA FeesFit ==
  ASSUME TypeOK, FeesKept, NEW m \in MarketId, state[m] = "resolved"
  PROVE  LET w == winningOutcome[m] IN
         /\ w \in Outcome /\ pool[m][w] \in Nat \ {0}
         /\ Total(m) = pool[m][w] + pool[m][Other(w)]
         /\ feeAccrued[m] \in Nat /\ taken[m] \in Nat
         /\ TotalFee(m) \in Nat /\ TotalFee(m) <= pool[m][Other(w)]
         /\ Distributable(m) \in Nat /\ Distributable(m) >= pool[m][w]
         /\ Total(m) - TotalFee(m) \in Nat /\ Total(m) - TotalFee(m) <= Distributable(m)
<1> DEFINE w == winningOutcome[m]
           p == pool[m][w]
           l == pool[m][Other(w)]
<1>1. w \in Outcome /\ p > 0 /\ TotalFee(m) = Fee(m, w)
  BY DEF FeesKept
<1>2. p \in Nat /\ l \in Nat /\ Other(w) \in Outcome /\ feeAccrued[m] \in Nat /\ taken[m] \in Nat
  BY <1>1, EscrowNumbers
<1>3. Total(m) = p + l
  BY <1>1, <1>2, EscrowNumbers DEF Total, Other
<1>4. feeBps[m] \in 0 .. MAX_FEE_BPS
  BY DEF TypeOK
<1>5. Fee(m, w) \in Nat /\ Fee(m, w) <= l
  BY <1>2, <1>4, FeeInPool DEF Fee
<1>6. TotalFee(m) = feeAccrued[m] + taken[m] /\ Distributable(m) = Total(m) - feeAccrued[m]
  BY DEF TotalFee, Distributable
<1> HIDE DEF p, l
<1>7. /\ TotalFee(m) \in Nat /\ TotalFee(m) <= l
      /\ Distributable(m) \in Nat /\ Distributable(m) >= p
      /\ Total(m) - TotalFee(m) \in Nat /\ Total(m) - TotalFee(m) <= Distributable(m)
  BY <1>1, <1>2, <1>3, <1>5, <1>6
<1> QED
  BY <1>1, <1>2, <1>3, <1>7 DEF p, l

\* Without markets all sums are 0.
LEMMA InitEscrow == Init => EscrowIInv
<1> SUFFICES ASSUME Init PROVE EscrowIInv
  OBVIOUS
<1>1. TypeOK
  BY DEF Init, TypeOK, MarketState, MAX_FEE_BPS
<1>2. Stakes
  <2> SUFFICES ASSUME NEW m \in MarketId, NEW o \in Outcome
               PROVE  pool[m][o] = SumFunction([t \in Trader |-> stake[m][t][o]])
    BY DEF Stakes
  <2>1. [t \in Trader |-> stake[m][t][o]] = [t \in Trader |-> 0] /\ pool[m][o] = 0
    BY DEF Init
  <2> QED
    BY <2>1, SumZero
<1>3. Unclaimed /\ FeesKept /\ PaidShares
  BY DEF Init, Unclaimed, FeesKept, PaidShares
<1>4. Conserved
  <2>1. \A m \in MarketId : PaidBy(m) = 0 /\ Total(m) = 0
    <3> TAKE m \in MarketId
    <3>1. paid[m] = [t \in Trader |-> 0] /\ pool[m]["yes"] = 0 /\ pool[m]["no"] = 0
      BY DEF Init
    <3> QED
      BY <3>1, SumZero DEF PaidBy, Total
  <2>2. /\ [m \in MarketId |-> PaidBy(m)] = [m \in MarketId |-> 0]
        /\ [m \in MarketId |-> Total(m)] = [m \in MarketId |-> 0]
        /\ taken = [m \in MarketId |-> 0] /\ balance = 0
    BY <2>1 DEF Init
  <2> QED
    BY <2>2, SumZero DEF Conserved
<1> QED
  BY <1>1, <1>2, <1>3, <1>4 DEF EscrowIInv

\* Steps that move no money keep the sums.
LEMMA MoneyStays ==
  ASSUME Stakes, Conserved, UNCHANGED <<stakeVars, moneyVars>>
  PROVE  Stakes' /\ Conserved'
BY DEF Stakes, Conserved, PaidBy, Total, stakeVars, moneyVars

\* A market that a step leaves alone keeps what is said of it.
LEMMA MarketStays ==
  ASSUME NEW m \in MarketId, NEW t \in Trader,
         /\ state'[m] = state[m] /\ feeBps'[m] = feeBps[m]
         /\ winningOutcome'[m] = winningOutcome[m] /\ pool'[m] = pool[m]
         /\ feeAccrued'[m] = feeAccrued[m] /\ taken'[m] = taken[m]
  PROVE  /\ Settled(m)' = Settled(m)
         /\ TotalFee(m)' = TotalFee(m)
         /\ Fee(m, winningOutcome[m])' = Fee(m, winningOutcome[m])
         /\ Distributable(m)' = Distributable(m) /\ Total(m)' = Total(m)
         /\ stake'[m][t] = stake[m][t] /\ paid'[m][t] = paid[m][t] => Shares(m, t)' = Shares(m, t)
         /\ stake'[m][t] = stake[m][t] => Payout(m, t)' = Payout(m, t)
BY DEF Settled, TotalFee, Fee, Distributable, Total, Shares, Other, Payout

-----------------------------------------------------------------------------
(* The escrow: every step keeps the invariant.                             *)

\* Types are kept by every step.
LEMMA CreateTypes ==
  ASSUME TypeOK, NEW m \in MarketId, NEW s \in Times, NEW e \in Times, NEW f \in Nat,
         Create(m, s, e, f)
  PROVE  TypeOK'
<1>1. s \in Nat /\ e \in Nat /\ f \in 0 .. MAX_FEE_BPS
  BY DEF Create, FeeAllowed, MAX_FEE_BPS
<1> QED
  BY <1>1 DEF Create, TypeOK, MarketState, stakeVars, moneyVars, settleVars

\* A market that is new, or moves on before the end, has no claims and no fees.
LEMMA StepBefore ==
  ASSUME EscrowIInv, TypeOK', NEW m \in MarketId,
         state[m] \in {"unset", "open", "paused"},
         \A k \in MarketId : k # m => state'[k] = state[k] /\ feeBps'[k] = feeBps[k],
         state'[m] # "resolved",
         UNCHANGED <<stakeVars, moneyVars, settleVars>>
  PROVE  EscrowIInv'
<1>1. Stakes' /\ Conserved'
  BY MoneyStays DEF EscrowIInv
<1>2. /\ \A t \in Trader : ~claimed[m][t]
      /\ feeAccrued[m] = 0 /\ taken[m] = 0
  BY EscrowNumbers DEF EscrowIInv, Unclaimed, Settled, FeesKept
<1>3. Unclaimed'
  <2> SUFFICES ASSUME NEW k \in MarketId, NEW t \in Trader
               PROVE  /\ ~claimed'[k][t] => paid'[k][t] = 0
                      /\ claimed'[k][t] => Settled(k)'
    BY DEF Unclaimed
  <2> QED
    BY <1>2 DEF EscrowIInv, Unclaimed, Settled, settleVars, moneyVars
<1>4. FeesKept'
  <2> SUFFICES ASSUME NEW k \in MarketId
               PROVE  /\ state'[k] = "resolved" =>
                           /\ winningOutcome'[k] \in Outcome
                           /\ pool'[k][winningOutcome'[k]] > 0
                           /\ TotalFee(k)' = Fee(k, winningOutcome[k])'
                      /\ state'[k] # "resolved" => feeAccrued'[k] = 0 /\ taken'[k] = 0
    BY DEF FeesKept
  <2>1. CASE k = m
    BY <2>1, <1>2 DEF settleVars, moneyVars
  <2>2. CASE k # m
    <3>1. /\ state'[k] = state[k] /\ feeBps'[k] = feeBps[k]
          /\ winningOutcome' = winningOutcome /\ pool' = pool
          /\ feeAccrued' = feeAccrued /\ taken' = taken
      BY <2>2 DEF settleVars, moneyVars, stakeVars
    <3>2. TotalFee(k)' = TotalFee(k) /\ Fee(k, winningOutcome[k])' = Fee(k, winningOutcome[k])
      BY <3>1 DEF TotalFee, Fee
    <3> QED
      BY <3>1, <3>2 DEF EscrowIInv, FeesKept
  <2> QED
    BY <2>1, <2>2
<1>5. PaidShares'
  <2> SUFFICES ASSUME NEW k \in MarketId, NEW t \in Trader, claimed'[k][t]
               PROVE  /\ state'[k] = "cancelled" =>
                           paid'[k][t] = stake'[k][t]["yes"] + stake'[k][t]["no"]
                      /\ state'[k] = "resolved" => Shares(k, t)'
    BY DEF PaidShares
  <2>1. k # m /\ claimed[k][t]
    BY <1>2 DEF settleVars
  <2>2. /\ state'[k] = state[k] /\ feeBps'[k] = feeBps[k]
        /\ winningOutcome' = winningOutcome /\ pool' = pool /\ stake' = stake
        /\ feeAccrued' = feeAccrued /\ taken' = taken /\ paid' = paid
    BY <2>1 DEF settleVars, moneyVars, stakeVars
  <2>3. Shares(k, t)' = Shares(k, t)
    BY <2>2, MarketStays
  <2> QED
    BY <2>1, <2>2, <2>3 DEF EscrowIInv, PaidShares
<1> QED
  BY <1>1, <1>3, <1>4, <1>5 DEF EscrowIInv

\* Creating a market (createMarket, createMarketWithDefaultFee).
LEMMA StepCreate ==
  ASSUME EscrowIInv, NEW m \in MarketId, NEW s \in Times, NEW e \in Times, NEW f \in Nat,
         Create(m, s, e, f)
  PROVE  EscrowIInv'
<1>1. TypeOK'
  BY CreateTypes DEF EscrowIInv
<1>2. /\ state[m] = "unset" /\ state'[m] = "open"
      /\ \A k \in MarketId : k # m => state'[k] = state[k] /\ feeBps'[k] = feeBps[k]
      /\ UNCHANGED <<stakeVars, moneyVars, settleVars>>
  BY DEF Create, EscrowIInv, TypeOK
<1> QED
  BY <1>1, <1>2, StepBefore

\* Pausing, reopening and cancelling a market.
LEMMA StepMove ==
  ASSUME EscrowIInv, NEW m \in MarketId,
         PauseMarket(m) \/ ReopenMarket(m) \/ CancelMarket(m)
  PROVE  EscrowIInv'
<1>1. /\ state[m] \in {"open", "paused"} /\ state'[m] \in {"open", "paused", "cancelled"}
      /\ \A k \in MarketId : k # m => state'[k] = state[k]
      /\ state' \in [MarketId -> MarketState]
      /\ UNCHANGED <<termsVars, stakeVars, moneyVars, settleVars, defaultFeeBps, now>>
  BY DEF PauseMarket, ReopenMarket, CancelMarket, Move, EscrowIInv, TypeOK, MarketState
<1>2. TypeOK'
  BY <1>1 DEF EscrowIInv, TypeOK, termsVars, stakeVars, moneyVars, settleVars
<1>3. feeBps' = feeBps
  BY <1>1 DEF termsVars
<1> QED
  BY <1>1, <1>2, <1>3, StepBefore

\* The default fee and the clock touch no market.
LEMMA StepAside ==
  ASSUME EscrowIInv, UNCHANGED <<state, termsVars, stakeVars, moneyVars, settleVars>>,
         defaultFeeBps' \in 0 .. MAX_FEE_BPS, now' \in Nat
  PROVE  EscrowIInv'
<1>1. TypeOK'
  BY DEF EscrowIInv, TypeOK, termsVars, stakeVars, moneyVars, settleVars
<1>2. Stakes' /\ Conserved'
  BY MoneyStays DEF EscrowIInv
<1>3. Unclaimed' /\ FeesKept' /\ PaidShares'
  BY DEF EscrowIInv, Unclaimed, FeesKept, PaidShares, Settled, TotalFee, Fee, Shares,
         Distributable, Total, Other, termsVars, stakeVars, moneyVars, settleVars
<1> QED
  BY <1>1, <1>2, <1>3 DEF EscrowIInv

\* A purchase (buy): the stake, the pool and the balance grow alike.
LEMMA StepBuy ==
  ASSUME EscrowIInv, NEW m \in MarketId, NEW t \in Trader, NEW o \in Outcome,
         NEW amount \in Amounts, Buy(m, t, o, amount)
  PROVE  EscrowIInv'
<1>0. amount \in Nat /\ TypeOK
  BY DEF EscrowIInv
<1>1. /\ state[m] = "open" /\ buys < MaxBuys
      /\ balance' = balance + amount
      /\ pool'    = [pool EXCEPT ![m][o] = @ + amount]
      /\ stake'   = [stake EXCEPT ![m][t][o] = @ + amount]
      /\ buys'    = buys + 1
      /\ UNCHANGED <<state, termsVars, settleVars, paid, taken, defaultFeeBps, now>>
  BY DEF Buy
<1>2. pool' \in [MarketId -> [Outcome -> Nat]]
  BY <1>0, <1>1 DEF TypeOK
<1>3. stake' \in [MarketId -> [Trader -> [Outcome -> Nat]]]
  <2>1. \A i, j \in Nat : i + j \in Nat
    OBVIOUS
  <2> QED
    BY <1>0, <1>1, <2>1 DEF TypeOK
<1>4. TypeOK'
  <2>1. balance' \in Nat /\ buys' \in 0 .. MaxBuys
    BY <1>0, <1>1 DEF TypeOK
  <2> QED
    BY <1>0, <1>1, <1>2, <1>3, <2>1 DEF TypeOK, termsVars, settleVars
<1>5. \A k \in MarketId : k # m => pool'[k] = pool[k] /\ stake'[k] = stake[k]
  BY <1>0, <1>1 DEF TypeOK
<1>6. pool'[m][o] = pool[m][o] + amount /\ \A p \in Outcome : p # o => pool'[m][p] = pool[m][p]
  BY <1>0, <1>1 DEF TypeOK
<1>7. /\ stake'[m][t][o] = stake[m][t][o] + amount
      /\ \A u \in Trader, p \in Outcome : u # t \/ p # o => stake'[m][u][p] = stake[m][u][p]
  BY <1>0, <1>1 DEF TypeOK
<1>8. Stakes'
  <2> SUFFICES ASSUME NEW k \in MarketId, NEW p \in Outcome
               PROVE  pool'[k][p] = SumFunction([u \in Trader |-> stake'[k][u][p]])
    BY DEF Stakes
  <2> DEFINE f == [u \in Trader |-> stake[k][u][p]]
             g == [u \in Trader |-> stake'[k][u][p]]
  <2>1. pool[k][p] = SumFunction(f)
    BY DEF EscrowIInv, Stakes
  <2>2. CASE k # m \/ p # o
    <3>1. g = f
      BY <1>5, <1>7, <2>2
    <3>2. pool'[k][p] = pool[k][p]
      BY <1>5, <1>6, <2>2
    <3> QED
      BY <2>1, <3>1, <3>2
  <2>3. CASE k = m /\ p = o
    <3>1. f \in [Trader -> Int] /\ g \in [Trader -> Int]
      BY <1>0, <1>3 DEF TypeOK
    <3>2. f[t] \in Int /\ g[t] = f[t] + amount /\ \A u \in Trader : u # t => g[u] = f[u]
      BY <1>7, <2>3, <3>1
    <3>3. SumFunction(f) \in Int
      BY <3>1, SumOfFunction
    <3> HIDE DEF f, g
    <3>4. SumFunction(g) = SumFunction(f) + (g[t] - f[t])
      BY ONLY <3>1, <3>2, SumChange, FiniteAssumption, t \in Trader
    <3>5. SumFunction(g) = SumFunction(f) + amount
      BY <1>0, <3>2, <3>3, <3>4
    <3> QED
      BY <1>6, <2>1, <2>3, <3>5 DEF g
  <2> QED
    BY <2>2, <2>3
<1>9. Conserved'
  <2> DEFINE f == [k \in MarketId |-> Total(k)]
             g == [k \in MarketId |-> Total(k)']
             q == [k \in MarketId |-> PaidBy(k)]
  <2>1. \A k \in MarketId : PaidBy(k)' = PaidBy(k)
    BY <1>1 DEF PaidBy
  <2>2. \A k \in MarketId : k # m => Total(k)' = Total(k)
    BY <1>5 DEF Total
  <2>3. Total(m)' = Total(m) + amount
    <3>1. pool[m]["yes"] \in Nat /\ pool[m]["no"] \in Nat
      BY <1>0 DEF TypeOK
    <3> QED
      BY <1>0, <1>6, <3>1 DEF Total
  <2>4. \A k \in MarketId : Total(k) \in Nat
    BY <1>0, EscrowNumbers
  <2>5. f \in [MarketId -> Int] /\ g \in [MarketId -> Int]
    BY <2>2, <2>3, <2>4, <1>0
  <2>6. g[m] = f[m] + amount /\ f[m] \in Int /\ \A k \in MarketId : k # m => g[k] = f[k]
    BY <2>2, <2>3, <2>4
  <2>7. SumFunction(f) \in Int
    BY <2>5, SumOfFunction
  <2>8. q \in [MarketId -> Int] /\ balance \in Int /\ SumFunction(taken) \in Int
    BY <1>0, EscrowNumbers DEF TypeOK
  <2>9. SumFunction(q) \in Int
    BY <2>8, SumOfFunction
  <2>10. balance + SumFunction(taken) + SumFunction(q) = SumFunction(f)
    BY DEF EscrowIInv, Conserved
  <2>11. [k \in MarketId |-> PaidBy(k)'] = q /\ taken' = taken
    BY <1>1, <2>1
  <2> HIDE DEF f, g, q
  <2>12. SumFunction(g) = SumFunction(f) + (g[m] - f[m])
    BY ONLY <2>5, <2>6, SumChange, FiniteAssumption, m \in MarketId
  <2>13. balance' + SumFunction(taken) + SumFunction(q) = SumFunction(g)
    BY <1>0, <1>1, <2>6, <2>7, <2>8, <2>9, <2>10, <2>12
  <2> QED
    BY <2>11, <2>13 DEF g, Conserved
<1>10. \A u \in Trader : ~claimed[m][u]
  BY <1>1, EscrowNumbers DEF EscrowIInv, Unclaimed, Settled
<1>11. Unclaimed'
  BY <1>1 DEF EscrowIInv, Unclaimed, Settled, settleVars
<1>12. FeesKept'
  <2> SUFFICES ASSUME NEW k \in MarketId
               PROVE  /\ state'[k] = "resolved" =>
                           /\ winningOutcome'[k] \in Outcome
                           /\ pool'[k][winningOutcome'[k]] > 0
                           /\ TotalFee(k)' = Fee(k, winningOutcome[k])'
                      /\ state'[k] # "resolved" => feeAccrued'[k] = 0 /\ taken'[k] = 0
    BY DEF FeesKept
  <2>1. CASE k = m
    BY <2>1, <1>1 DEF EscrowIInv, FeesKept, settleVars
  <2>2. CASE k # m
    <3>1. /\ state' = state /\ feeBps' = feeBps /\ winningOutcome' = winningOutcome
          /\ pool'[k] = pool[k] /\ feeAccrued' = feeAccrued /\ taken' = taken
      BY <2>2, <1>1, <1>5 DEF settleVars, termsVars
    <3>2. TotalFee(k)' = TotalFee(k) /\ Fee(k, winningOutcome[k])' = Fee(k, winningOutcome[k])
      BY <3>1 DEF TotalFee, Fee
    <3> QED
      BY <3>1, <3>2 DEF EscrowIInv, FeesKept
  <2> QED
    BY <2>1, <2>2
<1>13. PaidShares'
  <2> SUFFICES ASSUME NEW k \in MarketId, NEW u \in Trader, claimed'[k][u]
               PROVE  /\ state'[k] = "cancelled" =>
                           paid'[k][u] = stake'[k][u]["yes"] + stake'[k][u]["no"]
                      /\ state'[k] = "resolved" => Shares(k, u)'
    BY DEF PaidShares
  <2>1. k # m /\ claimed[k][u]
    BY <1>1, <1>10 DEF settleVars
  <2>2. /\ state' = state /\ feeBps' = feeBps /\ winningOutcome' = winningOutcome
        /\ pool'[k] = pool[k] /\ stake'[k][u] = stake[k][u]
        /\ feeAccrued' = feeAccrued /\ taken' = taken /\ paid' = paid
    BY <2>1, <1>1, <1>5 DEF settleVars, termsVars
  <2>3. Shares(k, u)' = Shares(k, u)
    BY <2>2, MarketStays
  <2> QED
    BY <2>1, <2>2, <2>3 DEF EscrowIInv, PaidShares
<1> QED
  BY <1>4, <1>8, <1>9, <1>11, <1>12, <1>13 DEF EscrowIInv

\* Announcing the outcome (resolveMarket) sets the fee for good.
LEMMA StepResolve ==
  ASSUME EscrowIInv, NEW m \in MarketId, NEW o \in Outcome, ResolveMarket(m, o)
  PROVE  EscrowIInv'
<1>0. TypeOK
  BY DEF EscrowIInv
<1>1. /\ state[m] \in {"open", "paused"} /\ pool[m][o] > 0
      /\ state'          = [state EXCEPT ![m] = "resolved"]
      /\ winningOutcome' = [winningOutcome EXCEPT ![m] = o]
      /\ feeAccrued'     = [feeAccrued EXCEPT ![m] = Fee(m, o)]
      /\ UNCHANGED <<termsVars, stakeVars, moneyVars, claimed, defaultFeeBps, now>>
  BY DEF ResolveMarket, Resolvable
<1>2. Fee(m, o) \in Nat
  <2>1. pool[m][Other(o)] \in Nat /\ feeBps[m] \in 0 .. MAX_FEE_BPS
    BY <1>0, EscrowNumbers DEF TypeOK
  <2> QED
    BY <2>1, FeeInPool DEF Fee
<1>3. TypeOK'
  BY <1>0, <1>1, <1>2 DEF TypeOK, MarketState, termsVars, stakeVars, moneyVars
<1>4. Stakes' /\ Conserved'
  BY <1>1, MoneyStays DEF EscrowIInv
<1>5. /\ \A t \in Trader : ~claimed[m][t]
      /\ feeAccrued[m] = 0 /\ taken[m] = 0
  BY <1>1, EscrowNumbers DEF EscrowIInv, Unclaimed, Settled, FeesKept
<1>6. /\ state'[m] = "resolved" /\ winningOutcome'[m] = o /\ feeAccrued'[m] = Fee(m, o)
      /\ \A k \in MarketId : k # m => /\ state'[k] = state[k] /\ feeAccrued'[k] = feeAccrued[k]
                                      /\ winningOutcome'[k] = winningOutcome[k]
      /\ pool' = pool /\ stake' = stake /\ paid' = paid /\ taken' = taken /\ feeBps' = feeBps
      /\ claimed' = claimed
  BY <1>0, <1>1 DEF TypeOK, stakeVars, moneyVars, termsVars
<1>7. Unclaimed'
  BY <1>5, <1>6 DEF EscrowIInv, Unclaimed, Settled
<1>8. FeesKept'
  <2> SUFFICES ASSUME NEW k \in MarketId
               PROVE  /\ state'[k] = "resolved" =>
                           /\ winningOutcome'[k] \in Outcome
                           /\ pool'[k][winningOutcome'[k]] > 0
                           /\ TotalFee(k)' = Fee(k, winningOutcome[k])'
                      /\ state'[k] # "resolved" => feeAccrued'[k] = 0 /\ taken'[k] = 0
    BY DEF FeesKept
  <2>1. CASE k = m
    <3>1. Fee(m, winningOutcome[m])' = Fee(m, o)
      BY <1>6 DEF Fee
    <3>2. TotalFee(m)' = Fee(m, o)
      BY <1>2, <1>5, <1>6 DEF TotalFee
    <3> QED
      BY <1>1, <1>6, <2>1, <3>1, <3>2
  <2>2. CASE k # m
    <3>1. TotalFee(k)' = TotalFee(k) /\ Fee(k, winningOutcome[k])' = Fee(k, winningOutcome[k])
      BY <1>6, <2>2 DEF TotalFee, Fee
    <3> QED
      BY <1>6, <2>2, <3>1 DEF EscrowIInv, FeesKept
  <2> QED
    BY <2>1, <2>2
<1>9. PaidShares'
  <2> SUFFICES ASSUME NEW k \in MarketId, NEW t \in Trader, claimed'[k][t]
               PROVE  /\ state'[k] = "cancelled" =>
                           paid'[k][t] = stake'[k][t]["yes"] + stake'[k][t]["no"]
                      /\ state'[k] = "resolved" => Shares(k, t)'
    BY DEF PaidShares
  <2>1. k # m /\ claimed[k][t]
    BY <1>5, <1>6
  <2>2. Shares(k, t)' = Shares(k, t)
    BY <1>6, <2>1, MarketStays
  <2> QED
    BY <1>6, <2>1, <2>2 DEF EscrowIInv, PaidShares
<1> QED
  BY <1>3, <1>4, <1>7, <1>8, <1>9 DEF EscrowIInv

\* A product grows with its factor.
LEMMA ProductGrows ==
  ASSUME NEW i \in Nat, NEW j \in Nat, NEW k \in Nat, i <= j
  PROVE  k * i <= k * j
<1>1. PICK n \in Nat : j = i + n
  <2>1. j - i \in Nat /\ j = i + (j - i)
    OBVIOUS
  <2> QED
    BY <2>1
<1>2. k * (i + n) = k * i + k * n /\ k * n \in Nat /\ k * i \in Nat
  BY ONLY i \in Nat, k \in Nat, n \in Nat
<1> QED
  BY ONLY <1>1, <1>2

\* What a claim pays: a share that is rounded down, and a stake at least.
LEMMA PayoutShare ==
  ASSUME NEW p \in Nat \ {0}, NEW s \in Nat, NEW d \in Nat, NEW l \in Nat,
         p <= d, l <= d
  PROVE  LET q == (s * d) \div p IN
         q \in Nat /\ p * q <= s * d /\ s * l < p * q + p /\ s <= q
<1>1. s * d \in Nat /\ s * l \in Nat /\ s * p \in Nat
  OBVIOUS
<1>2. s * p <= s * d /\ s * l <= s * d
  <2> QED
    BY ProductGrows
<1> DEFINE q == (s * d) \div p
<1>3. q \in Nat /\ p * q <= s * d /\ s * d < p * q + p
  BY <1>1, Quotient
<1> HIDE DEF q
<1>4. s <= q
  <2> SUFFICES ASSUME q + 1 <= s PROVE FALSE
    BY <1>3
  <2>1. p * (q + 1) <= p * s
    BY <1>3, ProductGrows
  <2>2. p * (q + 1) = p * q + p /\ p * s = s * p
    BY <1>3
  <2>3. p * q \in Nat
    BY <1>3
  <2> QED
    BY <1>1, <1>2, <1>3, <2>1, <2>2, <2>3
<1>5. s * l < p * q + p
  <2>1. p * q \in Nat
    BY <1>3
  <2> QED
    BY <1>1, <1>2, <1>3, <2>1
<1> QED
  BY <1>3, <1>4, <1>5 DEF q

\* What is paid out is known, and a number.
LEMMA Payouts ==
  ASSUME EscrowIInv, NEW m \in MarketId, NEW t \in Trader, Settled(m)
  PROVE  /\ Payout(m, t) \in Nat
         /\ state[m] = "cancelled" => Payout(m, t) = stake[m][t]["yes"] + stake[m][t]["no"]
         /\ state[m] = "resolved" =>
              LET w == winningOutcome[m] IN
              /\ Payout(m, t) = (stake[m][t][w] * Distributable(m)) \div pool[m][w]
              /\ pool[m][w] * Payout(m, t) <= stake[m][t][w] * Distributable(m)
              /\ stake[m][t][w] * (Total(m) - TotalFee(m))
                   < pool[m][w] * Payout(m, t) + pool[m][w]
              /\ stake[m][t][w] <= Payout(m, t)
<1>1. TypeOK /\ FeesKept
  BY DEF EscrowIInv
<1>2. CASE state[m] = "cancelled"
  <2>1. Payout(m, t) = stake[m][t]["yes"] + stake[m][t]["no"]
    BY <1>2 DEF Payout
  <2>2. stake[m][t]["yes"] \in Nat /\ stake[m][t]["no"] \in Nat
    BY <1>1, EscrowNumbers
  <2> QED
    BY <1>2, <2>1, <2>2
<1>3. CASE state[m] = "resolved"
  <2> DEFINE w == winningOutcome[m]
             p == pool[m][w]
             s == stake[m][t][w]
             d == Distributable(m)
             l == Total(m) - TotalFee(m)
  <2>1. w \in Outcome /\ p \in Nat \ {0} /\ d \in Nat /\ d >= p /\ l \in Nat /\ l <= d
    BY <1>1, <1>3, FeesFit
  <2>2. s \in Nat
    BY <1>1, <2>1, EscrowNumbers
  <2>3. Payout(m, t) = (s * d) \div p
    BY <1>3 DEF Payout
  <2> HIDE DEF w, p, s, d, l
  <2>4. /\ (s * d) \div p \in Nat /\ p * ((s * d) \div p) <= s * d
        /\ s * l < p * ((s * d) \div p) + p /\ s <= (s * d) \div p
    BY ONLY <2>1, <2>2, PayoutShare
  <2>5. Payout(m, t) \in Nat /\ p * Payout(m, t) <= s * d
        /\ s * l < p * Payout(m, t) + p /\ s <= Payout(m, t)
    BY ONLY <2>3, <2>4
  <2> QED
    BY <1>3, <2>3, <2>5 DEF w, p, s, d, l
<1> QED
  BY <1>2, <1>3 DEF Settled

\* A claim (claim) moves a share from the balance to the trader.
LEMMA StepClaim ==
  ASSUME EscrowIInv, NEW m \in MarketId, NEW t \in Trader, Claim(m, t)
  PROVE  EscrowIInv'
<1> DEFINE n == Payout(m, t)
<1>0. TypeOK /\ Settled(m) /\ ~claimed[m][t] /\ n <= balance
  BY DEF EscrowIInv, Claim, Settled
<1>a. n \in Nat
  BY <1>0, Payouts
<1>b. paid[m][t] = 0
  BY <1>0 DEF EscrowIInv, Unclaimed
<1>1. /\ claimed' = [claimed EXCEPT ![m][t] = TRUE]
      /\ balance' = balance - n
      /\ paid'    = [paid EXCEPT ![m][t] = @ + n]
      /\ UNCHANGED <<state, termsVars, stakeVars, taken, winningOutcome, feeAccrued, defaultFeeBps, now>>
  BY DEF Claim
<1> HIDE DEF n
<1>2. TypeOK'
  <2>1. balance' \in Nat
    BY <1>0, <1>a, <1>1 DEF TypeOK
  <2>2. paid' \in [MarketId -> [Trader -> Nat]]
    BY <1>0, <1>a, <1>1 DEF TypeOK
  <2>3. claimed' \in [MarketId -> [Trader -> BOOLEAN]]
    BY <1>0, <1>1 DEF TypeOK
  <2> QED
    BY <1>0, <1>1, <2>1, <2>2, <2>3 DEF TypeOK, termsVars, stakeVars
<1>3. /\ paid'[m][t] = n /\ claimed'[m][t] = TRUE
      /\ \A k \in MarketId, u \in Trader : k # m \/ u # t =>
           paid'[k][u] = paid[k][u] /\ claimed'[k][u] = claimed[k][u]
      /\ \A k \in MarketId : k # m => paid'[k] = paid[k]
      /\ paid[m] \in [Trader -> Nat] /\ paid'[m] \in [Trader -> Nat]
  <2>1. paid \in [MarketId -> [Trader -> Nat]] /\ claimed \in [MarketId -> [Trader -> BOOLEAN]]
    BY <1>0 DEF TypeOK
  <2>2. 0 + n = n
    BY <1>a
  <2>3. /\ paid'[m] = [paid[m] EXCEPT ![t] = @ + n]
        /\ claimed'[m] = [claimed[m] EXCEPT ![t] = TRUE]
        /\ \A k \in MarketId : k # m => paid'[k] = paid[k] /\ claimed'[k] = claimed[k]
    BY <1>1, <2>1
  <2>4. paid'[m][t] = n
    BY <1>b, <2>1, <2>2, <2>3
  <2>5. claimed'[m][t] = TRUE
    BY <2>1, <2>3
  <2>6. paid[m] \in [Trader -> Nat] /\ paid'[m] \in [Trader -> Nat]
    BY <1>2, <2>1 DEF TypeOK
  <2>7. \A k \in MarketId, u \in Trader : k # m \/ u # t =>
           paid'[k][u] = paid[k][u] /\ claimed'[k][u] = claimed[k][u]
    BY <2>1, <2>3
  <2> QED
    BY <2>3, <2>4, <2>5, <2>6, <2>7
<1>4. Stakes'
  BY <1>1 DEF EscrowIInv, Stakes, stakeVars
<1>5. Unclaimed'
  BY <1>0, <1>1, <1>3 DEF EscrowIInv, Unclaimed, Settled
<1>6. FeesKept'
  BY <1>1 DEF EscrowIInv, FeesKept, TotalFee, Fee, termsVars, stakeVars
<1>7. PaidShares'
  <2> SUFFICES ASSUME NEW k \in MarketId, NEW u \in Trader, claimed'[k][u]
               PROVE  /\ state'[k] = "cancelled" =>
                           paid'[k][u] = stake'[k][u]["yes"] + stake'[k][u]["no"]
                      /\ state'[k] = "resolved" => Shares(k, u)'
    BY DEF PaidShares
  <2>0. /\ state' = state /\ feeBps' = feeBps /\ winningOutcome' = winningOutcome
        /\ pool' = pool /\ stake' = stake /\ feeAccrued' = feeAccrued /\ taken' = taken
    BY <1>1 DEF termsVars, stakeVars
  <2>1. CASE k # m \/ u # t
    <3>1. claimed[k][u] /\ paid'[k][u] = paid[k][u]
      BY <1>3, <2>1
    <3>2. Shares(k, u)' = Shares(k, u)
      BY <2>0, <3>1, MarketStays
    <3> QED
      BY <2>0, <3>1, <3>2 DEF EscrowIInv, PaidShares
  <2>2. CASE k = m /\ u = t
    <3>1. paid'[m][t] = Payout(m, t)
      BY <1>3 DEF n
    <3>2. state[m] = "cancelled" => paid'[m][t] = stake[m][t]["yes"] + stake[m][t]["no"]
      BY <1>0, <3>1, Payouts
    <3>3. /\ Distributable(m)' = Distributable(m) /\ Total(m)' = Total(m)
          /\ TotalFee(m)' = TotalFee(m)
      BY <2>0 DEF Distributable, Total, TotalFee
    <3>4. state[m] = "resolved" => Shares(m, t)'
      BY <1>0, <2>0, <3>1, <3>3, Payouts DEF Shares
    <3> QED
      BY <2>0, <2>2, <3>2, <3>4
  <2> QED
    BY <2>1, <2>2
<1>8. Conserved'
  <2> DEFINE f == [k \in MarketId |-> PaidBy(k)]
             g == [k \in MarketId |-> PaidBy(k)']
  <2>1. \A k \in MarketId : k # m => PaidBy(k)' = PaidBy(k)
    BY <1>3 DEF PaidBy
  <2>2. PaidBy(m)' = PaidBy(m) + n
    <3> DEFINE a == paid[m]
               b == paid'[m]
    <3>1. a \in [Trader -> Int] /\ b \in [Trader -> Int] /\ a[t] = 0 /\ b[t] = n
          /\ \A u \in Trader : u # t => b[u] = a[u]
      BY <1>b, <1>3
    <3>2. SumFunction(a) \in Int
      BY <3>1, SumOfFunction
    <3> HIDE DEF a, b
    <3>3. SumFunction(b) = SumFunction(a) + (b[t] - a[t])
      BY ONLY <3>1, SumChange, FiniteAssumption, t \in Trader
    <3>4. SumFunction(b) = SumFunction(a) + n
      BY <1>a, <3>1, <3>2, <3>3
    <3> QED
      BY <3>4 DEF PaidBy, a, b
  <2>3. \A k \in MarketId : PaidBy(k) \in Nat
    BY <1>0, EscrowNumbers
  <2>4. f \in [MarketId -> Int] /\ g \in [MarketId -> Int]
        /\ g[m] = f[m] + n /\ f[m] \in Int /\ \A k \in MarketId : k # m => g[k] = f[k]
    BY <1>a, <2>1, <2>2, <2>3
  <2>5. SumFunction(f) \in Int
    BY <2>4, SumOfFunction
  <2>6. balance + SumFunction(taken) + SumFunction(f) = SumFunction([k \in MarketId |-> Total(k)])
    BY DEF EscrowIInv, Conserved
  <2>7. [k \in MarketId |-> Total(k)'] = [k \in MarketId |-> Total(k)] /\ taken' = taken
    BY <1>1 DEF Total, stakeVars
  <2>8. balance \in Int /\ SumFunction(taken) \in Int
    BY <1>0, EscrowNumbers DEF TypeOK
  <2> HIDE DEF f, g
  <2>9. SumFunction(g) = SumFunction(f) + (g[m] - f[m])
    BY ONLY <2>4, SumChange, FiniteAssumption, m \in MarketId
  <2>10. balance' + SumFunction(taken) + SumFunction(g)
           = balance + SumFunction(taken) + SumFunction(f)
    BY <1>a, <1>1, <2>4, <2>5, <2>8, <2>9
  <2> QED
    BY <2>6, <2>7, <2>10 DEF g, Conserved
<1> QED
  BY <1>2, <1>4, <1>5, <1>6, <1>7, <1>8 DEF EscrowIInv

\* A withdrawal (withdrawFees) moves the fee to the treasury; the shares grow.
LEMMA StepWithdraw ==
  ASSUME EscrowIInv, NEW m \in MarketId, WithdrawFees(m)
  PROVE  EscrowIInv'
<1> DEFINE n == feeAccrued[m]
<1>0. TypeOK /\ state[m] = "resolved" /\ n \in Nat /\ taken[m] \in Nat /\ n <= balance
  BY EscrowNumbers DEF EscrowIInv, WithdrawFees
<1>1. /\ feeAccrued' = [feeAccrued EXCEPT ![m] = 0]
      /\ balance'    = balance - n
      /\ taken'      = [taken EXCEPT ![m] = @ + n]
      /\ UNCHANGED <<state, termsVars, stakeVars, paid, winningOutcome, claimed, defaultFeeBps, now>>
  BY DEF WithdrawFees
<1> HIDE DEF n
<1>2. TypeOK'
  <2>1. balance' \in Nat /\ feeAccrued' \in [MarketId -> Nat] /\ taken' \in [MarketId -> Nat]
    BY <1>0, <1>1 DEF TypeOK
  <2> QED
    BY <1>0, <1>1, <2>1 DEF TypeOK, termsVars, stakeVars
<1>3. /\ feeAccrued'[m] = 0 /\ taken'[m] = taken[m] + n
      /\ \A k \in MarketId : k # m => feeAccrued'[k] = feeAccrued[k] /\ taken'[k] = taken[k]
      /\ state' = state /\ feeBps' = feeBps /\ winningOutcome' = winningOutcome
      /\ pool' = pool /\ stake' = stake /\ paid' = paid /\ claimed' = claimed
  BY <1>0, <1>1 DEF TypeOK, termsVars, stakeVars
<1>4. Stakes' /\ Unclaimed'
  BY <1>3 DEF EscrowIInv, Stakes, Unclaimed, Settled
<1>5. TotalFee(m)' = TotalFee(m) /\ \A k \in MarketId : k # m => TotalFee(k)' = TotalFee(k)
  BY <1>0, <1>3 DEF TotalFee, n
<1>6. FeesKept'
  <2> SUFFICES ASSUME NEW k \in MarketId
               PROVE  /\ state'[k] = "resolved" =>
                           /\ winningOutcome'[k] \in Outcome
                           /\ pool'[k][winningOutcome'[k]] > 0
                           /\ TotalFee(k)' = Fee(k, winningOutcome[k])'
                      /\ state'[k] # "resolved" => feeAccrued'[k] = 0 /\ taken'[k] = 0
    BY DEF FeesKept
  <2>1. Fee(k, winningOutcome[k])' = Fee(k, winningOutcome[k]) /\ TotalFee(k)' = TotalFee(k)
    BY <1>3, <1>5 DEF Fee
  <2> QED
    BY <1>0, <1>3, <2>1 DEF EscrowIInv, FeesKept
<1>7. PaidShares'
  <2> SUFFICES ASSUME NEW k \in MarketId, NEW u \in Trader, claimed'[k][u]
               PROVE  /\ state'[k] = "cancelled" =>
                           paid'[k][u] = stake'[k][u]["yes"] + stake'[k][u]["no"]
                      /\ state'[k] = "resolved" => Shares(k, u)'
    BY DEF PaidShares
  <2>1. claimed[k][u]
    BY <1>3
  <2>2. CASE k # m
    <3>1. Shares(k, u)' = Shares(k, u)
      BY <1>3, <2>2, MarketStays
    <3> QED
      BY <1>3, <2>1, <3>1 DEF EscrowIInv, PaidShares
  <2>3. CASE k = m
    <3> DEFINE w == winningOutcome[m]
               p == pool[m][w]
               s == stake[m][u][w]
               d == Distributable(m)
               l == Total(m) - TotalFee(m)
               y == paid[m][u]
    <3>1. p * y <= s * d /\ s * l < p * y + p /\ s <= y
      BY <1>0, <2>1, <2>3 DEF EscrowIInv, PaidShares, Shares
    <3>2. w \in Outcome /\ p \in Nat \ {0} /\ d \in Nat
      BY <1>0, FeesFit DEF EscrowIInv
    <3>3. s \in Nat /\ y \in Nat /\ Total(m) \in Nat
      BY <1>0, <3>2, EscrowNumbers
    <3>4. Distributable(m)' = d + n
      BY <1>0, <1>3, <3>3 DEF Distributable, Total, n
    <3>5. Total(m)' - TotalFee(m)' = l
      BY <1>3, <1>5 DEF Total
    <3> HIDE DEF p, s, d, l, y
    <3>6. p * y <= s * (d + n)
      <4>1. s * d <= s * (d + n) /\ s * (d + n) \in Nat /\ s * d \in Nat /\ p * y \in Nat
        BY ONLY <1>0, <3>2, <3>3
      <4> QED
        BY ONLY <3>1, <4>1
    <3>7. Shares(m, u)'
      BY <1>3, <3>1, <3>4, <3>5, <3>6 DEF Shares, p, s, l, y
    <3> QED
      BY <1>0, <1>3, <2>3, <3>7
  <2> QED
    BY <2>2, <2>3
<1>8. Conserved'
  <2>1. /\ taken \in [MarketId -> Int] /\ taken' \in [MarketId -> Int]
        /\ \A k \in MarketId : k # m => taken'[k] = taken[k]
    BY <1>0, <1>2, <1>3 DEF TypeOK
  <2>2. SumFunction(taken') = SumFunction(taken) + (taken'[m] - taken[m])
    BY ONLY <2>1, SumChange, FiniteAssumption, m \in MarketId
  <2>3. SumFunction(taken) \in Int /\ balance \in Int
    BY <1>0, EscrowNumbers DEF TypeOK
  <2>4. balance' + SumFunction(taken') = balance + SumFunction(taken)
    BY <1>0, <1>1, <1>3, <2>2, <2>3
  <2>5. /\ [k \in MarketId |-> Total(k)'] = [k \in MarketId |-> Total(k)]
        /\ [k \in MarketId |-> PaidBy(k)'] = [k \in MarketId |-> PaidBy(k)]
    BY <1>3 DEF Total, PaidBy
  <2> QED
    BY <2>4, <2>5 DEF EscrowIInv, Conserved
<1> QED
  BY <1>2, <1>4, <1>6, <1>7, <1>8 DEF EscrowIInv

\* Every step of the escrow keeps the inductive invariant.
LEMMA EscrowStep == EscrowIInv /\ [Next]_vars => EscrowIInv'
<1> SUFFICES ASSUME EscrowIInv, [Next]_vars PROVE EscrowIInv'
  OBVIOUS
<1>0. TypeOK
  BY DEF EscrowIInv
<1>1. ASSUME NEW m \in MarketId, OwnerStep(m) PROVE EscrowIInv'
  <2>1. ASSUME NEW s \in Times, NEW e \in Times, NEW f \in Fees, CreateMarket(m, s, e, f)
        PROVE  EscrowIInv'
    BY <2>1, StepCreate DEF CreateMarket
  <2>2. ASSUME NEW s \in Times, NEW e \in Times, CreateMarketWithDefaultFee(m, s, e)
        PROVE  EscrowIInv'
    <3>1. defaultFeeBps \in Nat
      BY <1>0 DEF TypeOK
    <3> QED
      BY <2>2, <3>1, StepCreate DEF CreateMarketWithDefaultFee
  <2>3. CASE PauseMarket(m) \/ ReopenMarket(m) \/ CancelMarket(m)
    BY <2>3, StepMove
  <2>4. ASSUME NEW o \in Outcome, ResolveMarket(m, o) PROVE EscrowIInv'
    BY <2>4, StepResolve
  <2>5. CASE WithdrawFees(m)
    BY <2>5, StepWithdraw
  <2> QED
    BY <1>1, <2>1, <2>2, <2>3, <2>4, <2>5 DEF OwnerStep
<1>2. ASSUME NEW m \in MarketId, NEW t \in Trader, TraderStep(m, t) PROVE EscrowIInv'
  BY <1>2, StepBuy, StepClaim DEF TraderStep
<1>3. ASSUME NEW f \in Fees, SetDefaultFeeBps(f) PROVE EscrowIInv'
  <2>1. /\ defaultFeeBps' \in 0 .. MAX_FEE_BPS /\ now' \in Nat
        /\ UNCHANGED <<state, termsVars, stakeVars, moneyVars, settleVars>>
    <3>1. f \in Nat /\ f <= MAX_FEE_BPS
      BY <1>3 DEF SetDefaultFeeBps, FeeAllowed
    <3> QED
      BY <1>0, <1>3, <3>1 DEF SetDefaultFeeBps, TypeOK, MAX_FEE_BPS
  <2> QED
    BY <2>1, StepAside
<1>4. CASE Tick
  BY <1>0, <1>4, StepAside DEF Tick, TypeOK
<1>5. CASE UNCHANGED vars
  BY <1>0, <1>5, StepAside DEF vars, TypeOK
<1> QED
  BY <1>1, <1>2, <1>3, <1>4, <1>5 DEF Next

\* The escrow keeps its invariant: pools are sums of stakes, the fee of a
\* resolved market stays what it was, the paid have their shares, and the
\* contract holds what was staked and not paid (buy, resolveMarket, claim,
\* withdrawFees).
THEOREM EscrowInvariant == SpecPart => []EscrowIInv
<1>1. InitPart => EscrowIInv
  BY InitEscrow DEF InitPart
<1>2. [NextPart]_allVars => [Next]_vars
  BY DEF NextPart, allVars
<1>3. EscrowIInv /\ [NextPart]_allVars => EscrowIInv'
  BY <1>2, EscrowStep
<1> QED
  BY <1>1, <1>3, PTL DEF SpecPart

-----------------------------------------------------------------------------
(* The escrow: what the invariant implies.                                 *)

\* What is still to be paid and what was paid are no more than there is to share.
LEMMA WithinMarket ==
  ASSUME EscrowIInv, NEW m \in MarketId
  PROVE  /\ PendingOf(m) \in Nat /\ Owed(m) \in Nat
         /\ Owed(m) + PaidBy(m) <= Total(m)
<1>0. TypeOK /\ Stakes /\ Unclaimed /\ FeesKept /\ PaidShares
  BY DEF EscrowIInv
<1> DEFINE pending == [t \in Trader |-> PendingPayout(m, t)]
           given == [t \in Trader |-> PendingPayout(m, t) + paid[m][t]]
           side(o) == [t \in Trader |-> stake[m][t][o]]
<1>1. ASSUME NEW t \in Trader
      PROVE  /\ PendingPayout(m, t) \in Nat
             /\ ~Settled(m) => PendingPayout(m, t) = 0 /\ paid[m][t] = 0
             /\ claimed[m][t] => PendingPayout(m, t) = 0
             /\ Settled(m) /\ ~claimed[m][t] =>
                  PendingPayout(m, t) = Payout(m, t) /\ paid[m][t] = 0
  BY <1>0, Payouts, EscrowNumbers DEF PendingPayout, Settled, Unclaimed
<1>2. /\ \A t \in Trader : paid[m][t] \in Nat /\ \A o \in Outcome : stake[m][t][o] \in Nat
      /\ paid[m] \in [Trader -> Nat]
      /\ \A o \in Outcome : pool[m][o] \in Nat /\ pool[m][o] = SumFunction(side(o))
      /\ feeAccrued[m] \in Nat /\ Total(m) \in Nat /\ PaidBy(m) \in Nat
  BY <1>0, EscrowNumbers DEF Stakes, TypeOK
<1>3. /\ pending \in [Trader -> Nat] /\ given \in [Trader -> Nat]
      /\ \A o \in Outcome : side(o) \in [Trader -> Int]
      /\ paid[m] \in [Trader -> Int] /\ pending \in [Trader -> Int] /\ given \in [Trader -> Int]
  BY <1>1, <1>2
<1>4. SumFunction(pending) \in Nat /\ PendingOf(m) = SumFunction(pending)
  BY <1>3, SumNatural DEF PendingOf
<1>5. PendingOf(m) + PaidBy(m) <= SumFunction(given) /\ SumFunction(given) \in Int
  <2> DEFINE f == paid[m]
  <2>1. f \in [Trader -> Int] /\ SumFunction(f) = PaidBy(m)
    BY <1>3 DEF PaidBy
  <2>2. \A t \in Trader : 1 * f[t] <= 1 * given[t] + (-1) * pending[t]
    <3> TAKE t \in Trader
    <3>1. PendingPayout(m, t) \in Nat /\ paid[m][t] \in Nat
      BY <1>1, <1>2
    <3> QED
      BY <3>1
  <2> HIDE DEF f, given, pending
  <2>3. 1 * SumFunction(f) <= 1 * SumFunction(given) + (-1) * SumFunction(pending)
    BY ONLY <1>3, <2>1, <2>2, SumCompare, FiniteAssumption, 1 \in Int, -1 \in Int
  <2>4. SumFunction(given) \in Int
    BY <1>3, SumOfFunction
  <2> QED
    BY <1>2, <1>4, <2>1, <2>3, <2>4
<1>6. CASE ~Settled(m)
  <2>1. given = [t \in Trader |-> 0]
    BY <1>1, <1>6
  <2>2. SumFunction(given) = 0
    BY <2>1, SumZero
  <2>3. feeAccrued[m] = 0 /\ Unsettled(m) \in Nat /\ Unsettled(m) <= Total(m)
    BY <1>0, <1>2, <1>6 DEF FeesKept, Settled, Unsettled
  <2> QED
    BY <1>2, <1>4, <1>5, <2>2, <2>3 DEF Owed
<1>7. CASE state[m] = "cancelled"
  <2>1. \A t \in Trader : given[t] = stake[m][t]["yes"] + stake[m][t]["no"]
    <3> TAKE t \in Trader
    <3>1. CASE claimed[m][t]
      BY <1>0, <1>1, <1>2, <1>7, <3>1 DEF PaidShares
    <3>2. CASE ~claimed[m][t]
      BY <1>1, <1>2, <1>7, <3>2, Payouts DEF Settled
    <3> QED
      BY <3>1, <3>2
  <2>2. \A t \in Trader : 1 * given[t] <= 1 * side("yes")[t] + 1 * side("no")[t]
    <3> TAKE t \in Trader
    <3>1. given[t] = stake[m][t]["yes"] + stake[m][t]["no"]
          /\ stake[m][t]["yes"] \in Nat /\ stake[m][t]["no"] \in Nat
      BY <1>2, <2>1
    <3>2. side("yes")[t] = stake[m][t]["yes"] /\ side("no")[t] = stake[m][t]["no"]
      OBVIOUS
    <3> HIDE DEF given, side
    <3> QED
      BY <3>1, <3>2
  <2>3. side("yes") \in [Trader -> Int] /\ side("no") \in [Trader -> Int]
    BY <1>3
  <2>4. SumFunction(side("yes")) = pool[m]["yes"] /\ SumFunction(side("no")) = pool[m]["no"]
        /\ pool[m]["yes"] \in Nat /\ pool[m]["no"] \in Nat
    BY <1>2
  <2> HIDE DEF given, side
  <2>5. 1 * SumFunction(given) <= 1 * SumFunction(side("yes")) + 1 * SumFunction(side("no"))
    BY ONLY <1>3, <2>2, <2>3, SumCompare, FiniteAssumption, 1 \in Int
  <2>6. SumFunction(given) <= Total(m)
    BY <1>5, <2>4, <2>5 DEF Total
  <2>7. feeAccrued[m] = 0 /\ Unsettled(m) = 0
    BY <1>0, <1>7 DEF FeesKept, Unsettled
  <2> QED
    BY <1>2, <1>4, <1>5, <2>6, <2>7 DEF Owed
<1>8. CASE state[m] = "resolved"
  <2> DEFINE w == winningOutcome[m]
             p == pool[m][w]
             d == Distributable(m)
  <2>1. w \in Outcome /\ p \in Nat \ {0} /\ d \in Nat
    BY <1>0, <1>8, FeesFit
  <2>2. \A t \in Trader : p * given[t] <= d * stake[m][t][w]
    <3> TAKE t \in Trader
    <3>1. stake[m][t][w] \in Nat /\ paid[m][t] \in Nat
      BY <1>2, <2>1
    <3>2. stake[m][t][w] * d = d * stake[m][t][w]
      BY <2>1, <3>1
    <3>3. CASE claimed[m][t]
      <4>1. given[t] = paid[m][t]
        BY <1>1, <3>1, <3>3
      <4>2. p * paid[m][t] <= stake[m][t][w] * d
        BY <1>0, <1>8, <3>3 DEF PaidShares, Shares
      <4> QED
        BY <3>2, <4>1, <4>2
    <3>4. CASE ~claimed[m][t]
      <4>1. Settled(m)
        BY <1>8 DEF Settled
      <4>2. given[t] = Payout(m, t)
        BY <1>1, <3>4, <4>1, Payouts
      <4>3. p * Payout(m, t) <= stake[m][t][w] * d
        BY <1>8, <4>1, Payouts
      <4> QED
        BY <3>2, <4>2, <4>3
    <3> QED
      BY <3>3, <3>4
  <2>3. side(w) \in [Trader -> Int] /\ SumFunction(side(w)) = p
    BY <1>2, <1>3, <2>1
  <2>4. \A t \in Trader : p * given[t] <= d * side(w)[t] + 0 * side(w)[t]
    <3> TAKE t \in Trader
    <3>1. p * given[t] <= d * stake[m][t][w] /\ stake[m][t][w] \in Nat
          /\ side(w)[t] = stake[m][t][w]
      BY <1>2, <2>1, <2>2
    <3>2. d * stake[m][t][w] + 0 * stake[m][t][w] = d * stake[m][t][w]
      BY <2>1, <3>1
    <3> HIDE DEF given, side, p, d
    <3> QED
      BY <3>1, <3>2
  <2>5. feeAccrued[m] + d = Total(m) /\ Unsettled(m) = 0
    BY <1>2, <1>8 DEF Distributable, Unsettled
  <2> DEFINE won == side(w)
  <2> HIDE DEF p, d, given, side, w
  <2>a. won \in [Trader -> Int] /\ given \in [Trader -> Int] /\ p \in Int /\ d \in Int
        /\ \A t \in Trader : p * given[t] <= d * won[t] + 0 * won[t]
    BY <1>3, <2>1, <2>3, <2>4
  <2> HIDE DEF won
  <2>b. p * SumFunction(given) <= d * SumFunction(won) + 0 * SumFunction(won)
    BY ONLY <2>a, SumCompare, FiniteAssumption, 0 \in Int
  <2>6. p * SumFunction(given) <= d * SumFunction(side(w)) + 0 * SumFunction(side(w))
    BY <2>b DEF won
  <2>7. SumFunction(given) <= d
    <3>1. PICK x \in Int : x = SumFunction(given)
      BY <1>5
    <3>2. p * x <= d * p + 0 * p
      BY <2>3, <2>6, <3>1
    <3>3. x <= d
      <4> SUFFICES ASSUME d + 1 <= x PROVE FALSE
        BY <2>1, <3>1
      <4>1. PICK y \in Nat : x = d + 1 + y
        <5>1. x - (d + 1) \in Nat /\ x = d + 1 + (x - (d + 1))
          BY <2>1, <3>1
        <5> QED
          BY <5>1
      <4>2. p * (d + 1 + y) = d * p + p + p * y /\ p * y \in Nat /\ d * p \in Nat
        BY ONLY <2>1, y \in Nat
      <4> QED
        BY <2>1, <3>2, <4>1, <4>2
    <3> QED
      BY <3>1, <3>3
  <2> QED
    BY <1>2, <1>4, <1>5, <2>1, <2>5, <2>7 DEF Owed
<1> QED
  BY <1>6, <1>7, <1>8 DEF Settled

\* Summed over all markets, only withdrawn fees can be missing.
LEMMA ShortfallHolds == EscrowIInv => ShortfallIsFees
<1> SUFFICES ASSUME EscrowIInv PROVE ShortfallIsFees
  OBVIOUS
<1> DEFINE o == [m \in MarketId |-> Owed(m)]
           p == [m \in MarketId |-> PaidBy(m)]
           q == [m \in MarketId |-> Total(m)]
<1>1. \A m \in MarketId : /\ Owed(m) \in Nat /\ PaidBy(m) \in Nat /\ Total(m) \in Nat
                          /\ Owed(m) + PaidBy(m) <= Total(m)
  BY WithinMarket, EscrowNumbers DEF EscrowIInv
<1>2. o \in [MarketId -> Int] /\ p \in [MarketId -> Int] /\ q \in [MarketId -> Int]
  BY <1>1
<1>3. \A m \in MarketId : 1 * o[m] <= 1 * q[m] + (-1) * p[m]
  <2> TAKE m \in MarketId
  <2>1. o[m] = Owed(m) /\ p[m] = PaidBy(m) /\ q[m] = Total(m)
    OBVIOUS
  <2> HIDE DEF o, p, q
  <2> QED
    BY <1>1, <2>1
<1>4. balance + SumFunction(taken) + SumFunction(p) = SumFunction(q)
  BY DEF EscrowIInv, Conserved
<1>5. balance \in Int /\ SumFunction(taken) \in Int
  BY EscrowNumbers DEF EscrowIInv, TypeOK
<1> HIDE DEF o, p, q
<1>6. 1 * SumFunction(o) <= 1 * SumFunction(q) + (-1) * SumFunction(p)
  BY ONLY <1>2, <1>3, SumCompare, FiniteAssumption, 1 \in Int, -1 \in Int
<1>7. SumFunction(o) \in Int /\ SumFunction(p) \in Int /\ SumFunction(q) \in Int
  BY <1>2, SumOfFunction
<1>8. balance + SumFunction(taken) >= SumFunction(o)
  BY <1>4, <1>5, <1>6, <1>7
<1> QED
  BY <1>8 DEF ShortfallIsFees, o

\* A paid trader has his stake back at least.
LEMMA FairnessHolds == EscrowIInv => PaidFairly
<1> SUFFICES ASSUME EscrowIInv, NEW m \in MarketId, NEW t \in Trader, claimed[m][t]
             PROVE  IF state[m] = "cancelled"
                      THEN paid[m][t] = stake[m][t]["yes"] + stake[m][t]["no"]
                      ELSE paid[m][t] >= stake[m][t][winningOutcome[m]]
  BY DEF PaidFairly
<1>1. Settled(m) /\ PaidShares /\ TypeOK /\ FeesKept
  BY DEF EscrowIInv, Unclaimed
<1>2. CASE state[m] = "cancelled"
  BY <1>1, <1>2 DEF PaidShares
<1>3. CASE state[m] = "resolved"
  <2>1. stake[m][t][winningOutcome[m]] <= paid[m][t]
    BY <1>1, <1>3 DEF PaidShares, Shares
  <2>2. stake[m][t][winningOutcome[m]] \in Nat /\ paid[m][t] \in Nat
    BY <1>1, <1>3, FeesFit, EscrowNumbers
  <2> QED
    BY <1>3, <2>1, <2>2
<1> QED
  BY <1>1, <1>2, <1>3 DEF Settled

\* Every winner's share is missing less than a unit, so together they miss less
\* than a unit each.
LEMMA NothingTrappedHolds == EscrowIInv => NothingTrapped
<1> SUFFICES ASSUME EscrowIInv, NEW m \in MarketId, state[m] = "resolved",
                    \A t \in Winners(m) : claimed[m][t]
             PROVE  Total(m) - (PaidBy(m) + taken[m] + feeAccrued[m]) < Cardinality(Winners(m))
  BY DEF NothingTrapped
<1> DEFINE w == winningOutcome[m]
           p == pool[m][w]
           l == Total(m) - TotalFee(m)
           s == [t \in Trader |-> stake[m][t][w]]
           x == paid[m]
           won == [t \in Trader |-> IF t \in Winners(m) THEN 1 ELSE 0]
<1>0. TypeOK /\ FeesKept /\ PaidShares /\ Stakes
  BY DEF EscrowIInv
<1>1. w \in Outcome /\ p \in Nat \ {0} /\ l \in Nat
  BY <1>0, FeesFit
<1>2. /\ \A t \in Trader : stake[m][t][w] \in Nat /\ paid[m][t] \in Nat
      /\ Total(m) \in Nat /\ PaidBy(m) \in Nat /\ taken[m] \in Nat /\ feeAccrued[m] \in Nat
      /\ paid[m] \in [Trader -> Nat]
  BY <1>0, <1>1, EscrowNumbers DEF TypeOK
<1>3. Winners(m) \in SUBSET Trader /\ \A t \in Trader : t \in Winners(m) <=> stake[m][t][w] > 0
  BY DEF Winners
<1>4. \A t \in Trader : l * stake[m][t][w] <= p * paid[m][t] + (p - 1) * won[t]
  <2> TAKE t \in Trader
  <2> DEFINE a == stake[m][t][w]
             y == paid[m][t]
  <2>1. a \in Nat /\ y \in Nat
    BY <1>2
  <2>2. CASE t \in Winners(m)
    <3>1. a * l < p * y + p
      BY <1>0, <2>2 DEF PaidShares, Shares
    <3>2. won[t] = 1
      BY <2>2
    <3> HIDE DEF a, y, l, p, won
    <3>3. a * l = l * a /\ a * l \in Nat /\ p * y \in Nat
      BY ONLY <1>1, <2>1
    <3>4. l * a <= p * y + (p - 1) * 1
      BY ONLY <1>1, <3>1, <3>3
    <3> QED
      BY <3>2, <3>4 DEF a, y
  <2>3. CASE t \notin Winners(m)
    <3>1. a = 0 /\ won[t] = 0
      BY <1>3, <2>1, <2>3
    <3> HIDE DEF a, y, l, p, won
    <3>2. p * y \in Nat
      BY ONLY <1>1, <2>1
    <3>3. l * 0 <= p * y + (p - 1) * 0
      BY ONLY <1>1, <3>2
    <3> QED
      BY <3>1, <3>3 DEF a, y
  <2> QED
    BY <2>2, <2>3
<1>5. s \in [Trader -> Int] /\ x \in [Trader -> Int] /\ won \in [Trader -> Int]
      /\ \A t \in Trader : l * s[t] <= p * x[t] + (p - 1) * won[t]
  <2>1. s \in [Trader -> Int] /\ x \in [Trader -> Int] /\ won \in [Trader -> Int]
    BY <1>2
  <2>2. \A t \in Trader : s[t] = stake[m][t][w]
    OBVIOUS
  <2> QED
    BY <1>4, <2>1, <2>2
<1>6. /\ SumFunction(s) = p /\ SumFunction(x) = PaidBy(m)
      /\ SumFunction(won) = Cardinality(Winners(m))
  BY <1>0, <1>1, <1>3, SumCounts DEF Stakes, PaidBy
<1>7. Cardinality(Winners(m)) \in Nat \ {0}
  <2>1. IsFiniteSet(Winners(m))
    BY <1>3, FS_Subset
  <2>2. Winners(m) # {}
    <3> SUFFICES ASSUME Winners(m) = {} PROVE FALSE
      OBVIOUS
    <3>1. s = [t \in Trader |-> 0]
      BY <1>2, <1>3
    <3> QED
      BY <1>1, <1>6, <3>1, SumZero
  <2> QED
    BY <2>1, <2>2, FS_CardinalityType, FS_EmptySet
<1>8. l = Total(m) - (taken[m] + feeAccrued[m])
  BY <1>2 DEF TotalFee
<1> HIDE DEF w, p, l, s, x, won
<1>9. p \in Int /\ p - 1 \in Int /\ l \in Int
  BY <1>1
<1>10. l * SumFunction(s) <= p * SumFunction(x) + (p - 1) * SumFunction(won)
  BY ONLY <1>5, <1>9, SumCompare, FiniteAssumption
<1>11. PICK n \in Nat \ {0}, y \in Nat : n = Cardinality(Winners(m)) /\ y = PaidBy(m)
  BY <1>2, <1>7
<1>12. l * p <= p * y + (p - 1) * n
  BY <1>6, <1>10, <1>11
<1>13. l - y < n
  <2> SUFFICES ASSUME y + n <= l PROVE FALSE
    BY <1>1, <1>11
  <2>1. p * (y + n) <= p * l
    BY <1>1, <1>11, ProductGrows
  <2>2. p * (y + n) = p * y + p * n /\ p * l = l * p /\ (p - 1) * n = p * n - n
        /\ p * y \in Nat /\ p * n \in Nat /\ l * p \in Nat
    BY ONLY <1>1, <1>11
  <2> QED
    BY ONLY <1>11, <1>12, <2>1, <2>2
<1> QED
  BY <1>2, <1>8, <1>11, <1>13

\* Money is shared out in full (claim, withdrawFees): nothing but the fees paid
\* out is missing, stakes come back, and only rounding stays behind.
THEOREM SharedOut == SpecPart => []EscrowAddsUp
<1>1. EscrowIInv => EscrowAddsUp
  BY ShortfallHolds, FairnessHolds, NothingTrappedHolds DEF EscrowAddsUp
<1> QED
  BY <1>1, EscrowInvariant, PTL

\* Steps of others leave a settled market's payouts alone, a withdrawal of fees
\* raises them.
LEMMA PayoutStep ==
  ASSUME EscrowIInv, EscrowIInv', [Next]_vars, NEW m \in MarketId, NEW t \in Trader, Settled(m)
  PROVE  PendingPayout(m, t)' >= PendingPayout(m, t) \/ claimed'[m][t]
<1>0. TypeOK /\ Payout(m, t) \in Nat
  BY Payouts DEF EscrowIInv
<1>a. PendingPayout(m, t) \in Nat
  BY <1>0 DEF PendingPayout
<1> DEFINE Same == /\ state'[m] = state[m] /\ winningOutcome'[m] = winningOutcome[m]
                   /\ pool'[m] = pool[m] /\ stake'[m] = stake[m] /\ claimed'[m] = claimed[m]
<1>1. ASSUME Same, feeAccrued'[m] = feeAccrued[m]
      PROVE  PendingPayout(m, t)' >= PendingPayout(m, t)
  <2>1. PendingPayout(m, t)' = PendingPayout(m, t)
    BY <1>1 DEF PendingPayout, Payout, Distributable, Total
  <2> QED
    BY <1>a, <2>1
<1>2. ASSUME NEW k \in MarketId, OwnerStep(k) PROVE PendingPayout(m, t)' >= PendingPayout(m, t)
  <2>1. CASE ~WithdrawFees(k) \/ k # m
    <3>1. Same /\ feeAccrued'[m] = feeAccrued[m]
      <4>1. ASSUME NEW s \in Times, NEW e \in Times, NEW f, Create(k, s, e, f)
            PROVE  Same /\ feeAccrued'[m] = feeAccrued[m]
        <5>1. k # m
          BY <4>1 DEF Create, Settled
        <5> QED
          BY <1>0, <4>1, <5>1 DEF Create, TypeOK, stakeVars, settleVars
      <4>2. CASE PauseMarket(k) \/ ReopenMarket(k) \/ CancelMarket(k)
        <5>1. k # m
          BY <4>2 DEF PauseMarket, ReopenMarket, CancelMarket, Move, Settled
        <5> QED
          BY <1>0, <4>2, <5>1
             DEF PauseMarket, ReopenMarket, CancelMarket, Move, TypeOK, stakeVars, settleVars
      <4>3. ASSUME NEW o \in Outcome, ResolveMarket(k, o)
            PROVE  Same /\ feeAccrued'[m] = feeAccrued[m]
        <5>1. k # m
          BY <4>3 DEF ResolveMarket, Resolvable, Settled
        <5> QED
          BY <1>0, <4>3, <5>1 DEF ResolveMarket, TypeOK, stakeVars
      <4>4. CASE WithdrawFees(k)
        <5>1. k # m
          BY <2>1, <4>4
        <5> QED
          BY <1>0, <4>4, <5>1 DEF WithdrawFees, TypeOK, stakeVars
      <4> HIDE DEF Same
      <4> QED
        BY <1>2, <4>1, <4>2, <4>3, <4>4 DEF OwnerStep, CreateMarket, CreateMarketWithDefaultFee
    <3> QED
      BY <1>1, <3>1
  <2>2. CASE WithdrawFees(m) /\ k = m
    <3>1. /\ Same /\ state[m] = "resolved" /\ feeAccrued'[m] = 0
      BY <1>0, <2>2 DEF WithdrawFees, TypeOK, stakeVars
    <3> DEFINE w == winningOutcome[m]
               p == pool[m][w]
               s == stake[m][t][w]
               d == Distributable(m)
               e == Distributable(m)'
    <3>2. /\ w \in Outcome /\ p \in Nat \ {0} /\ d \in Nat /\ s \in Nat
          /\ Total(m) \in Nat /\ feeAccrued[m] \in Nat
      BY <1>0, <3>1, FeesFit, EscrowNumbers DEF EscrowIInv
    <3>3. e \in Nat /\ d <= e
      <4>1. Distributable(m)' = Total(m)
        BY <3>1, <3>2 DEF Distributable, Total
      <4> QED
        BY <3>2, <4>1 DEF Distributable
    <3>4. /\ PendingPayout(m, t) = IF ~claimed[m][t] THEN (s * d) \div p ELSE 0
          /\ PendingPayout(m, t)' = IF ~claimed[m][t] THEN (s * e) \div p ELSE 0
      BY <3>1 DEF PendingPayout, Payout
    <3> HIDE DEF p, s, d, e
    <3>5. s * d <= s * e /\ s * d \in Nat /\ s * e \in Nat
      BY <3>2, <3>3, ProductGrows
    <3>6. (s * d) \div p <= (s * e) \div p /\ (s * d) \div p \in Nat /\ (s * e) \div p \in Nat
      <4>1. PICK i \in Nat, j \in Nat : i = s * d /\ j = s * e
        BY <3>5
      <4>2. PICK u \in Nat, v \in Nat : u = i \div p /\ v = j \div p
        BY <3>2, Quotient
      <4>3. p * u <= i /\ j < p * v + p
        BY <3>2, <4>2, Quotient
      <4>4. u <= v
        <5> SUFFICES ASSUME v + 1 <= u PROVE FALSE
          OBVIOUS
        <5>1. p * (v + 1) <= p * u
          BY <3>2, ProductGrows
        <5>2. p * (v + 1) = p * v + p /\ p * v \in Nat /\ p * u \in Nat
          BY <3>2
        <5> QED
          BY <3>2, <3>5, <4>1, <4>3, <5>1, <5>2
      <4> QED
        BY <4>1, <4>2, <4>4
    <3> QED
      BY <3>4, <3>6
  <2> QED
    BY <1>2, <2>1, <2>2
<1>3. ASSUME NEW k \in MarketId, NEW u \in Trader, TraderStep(k, u)
      PROVE  PendingPayout(m, t)' >= PendingPayout(m, t) \/ claimed'[m][t]
  <2>1. ASSUME NEW o \in Outcome, NEW amount \in Amounts, Buy(k, u, o, amount)
        PROVE  PendingPayout(m, t)' >= PendingPayout(m, t)
    <3>1. k # m
      BY <2>1 DEF Buy, Settled
    <3>2. Same /\ feeAccrued'[m] = feeAccrued[m]
      BY <1>0, <2>1, <3>1 DEF Buy, TypeOK, settleVars
    <3> QED
      BY <1>1, <3>2
  <2>2. CASE Claim(k, u) /\ (k # m \/ u # t)
    <3>1. /\ state' = state /\ winningOutcome' = winningOutcome /\ pool' = pool
          /\ stake' = stake /\ feeAccrued' = feeAccrued /\ claimed'[m][t] = claimed[m][t]
      BY <1>0, <2>2 DEF Claim, TypeOK, stakeVars
    <3>2. PendingPayout(m, t)' = PendingPayout(m, t)
      BY <3>1 DEF PendingPayout, Payout, Distributable, Total
    <3> QED
      BY <1>a, <3>2
  <2>3. CASE Claim(m, t) /\ k = m /\ u = t
    BY <1>0, <2>3 DEF Claim, TypeOK
  <2> QED
    BY <1>3, <2>1, <2>2, <2>3 DEF TraderStep
<1>4. CASE (\E f \in Fees : SetDefaultFeeBps(f)) \/ Tick \/ UNCHANGED vars
  <2>1. Same /\ feeAccrued'[m] = feeAccrued[m]
    BY <1>4 DEF SetDefaultFeeBps, Tick, vars, stakeVars, settleVars
  <2> QED
    BY <1>1, <2>1
<1> QED
  BY <1>2, <1>3, <1>4 DEF Next

\* Only a purchase changes a pool, and it comes before the market's end.
LEMMA BetStep ==
  ASSUME EscrowIInv, [Next]_vars, NEW m \in MarketId, NEW o \in Outcome,
         endTime[m] # 0, Resolvable(m, o)
  PROVE  pool'[m] = pool[m]
<1>0. TypeOK
  BY DEF EscrowIInv
<1>1. now >= endTime[m] /\ now \in Nat /\ endTime[m] \in Nat
  BY <1>0 DEF Resolvable, TypeOK
<1>2. ASSUME NEW k \in MarketId, NEW t \in Trader, NEW p \in Outcome, NEW amount \in Amounts,
             Buy(k, t, p, amount)
      PROVE  pool'[m] = pool[m]
  <2>1. k # m
    BY <1>1, <1>2 DEF Buy, BettingTime
  <2> QED
    BY <1>0, <1>2, <2>1 DEF Buy, TypeOK
<1>3. ASSUME NEW k \in MarketId, NEW t \in Trader, Claim(k, t) PROVE pool'[m] = pool[m]
  BY <1>3 DEF Claim, stakeVars
<1>4. ASSUME NEW k \in MarketId, OwnerStep(k) PROVE pool'[m] = pool[m]
  BY <1>4 DEF OwnerStep, CreateMarket, CreateMarketWithDefaultFee, Create, PauseMarket,
              ReopenMarket, CancelMarket, Move, ResolveMarket, WithdrawFees, stakeVars
<1>5. CASE (\E f \in Fees : SetDefaultFeeBps(f)) \/ Tick \/ UNCHANGED vars
  BY <1>5 DEF SetDefaultFeeBps, Tick, vars, stakeVars
<1> QED
  BY <1>2, <1>3, <1>4, <1>5 DEF Next, TraderStep

\* A payout a trader may count on never falls, and nobody can place a stake when
\* the outcome may be announced already (buy, resolveMarket, claim).
THEOREM WordKept == SpecPart => EscrowKeepsItsWord
<1> DEFINE Rises == \A m \in MarketId, t \in Trader :
                      state[m] \in {"resolved", "cancelled"} =>
                        PendingPayout(m, t)' >= PendingPayout(m, t) \/ claimed'[m][t]
           InTime == \A m \in MarketId, o \in Outcome :
                       endTime[m] # 0 /\ Resolvable(m, o) => pool'[m] = pool[m]
<1>1. EscrowIInv /\ EscrowIInv' /\ [Next]_vars => Rises /\ InTime
  <2> SUFFICES ASSUME EscrowIInv, EscrowIInv', [Next]_vars PROVE Rises /\ InTime
    OBVIOUS
  <2>1. Rises
    BY PayoutStep DEF Settled
  <2>2. InTime
    BY BetStep
  <2> QED
    BY <2>1, <2>2
<1> HIDE DEF Rises, InTime
<1>2. [NextPart]_allVars => [Next]_vars
  BY DEF NextPart, allVars
<1>3. SpecPart => [][Rises]_vars /\ [][InTime]_vars
  BY <1>1, <1>2, EscrowInvariant, PTL DEF SpecPart
<1> QED
  BY <1>3 DEF EscrowKeepsItsWord, PayoutNeverFalls, NoLateBets, Rises, InTime

HIDE DEF Outcome

-----------------------------------------------------------------------------
(* The registry.                                                           *)

USE RegistryAssumption
    DEF Registry!NoteAssumption, Registry!SecretAssumption, Registry!BoundAssumption,
        Registry!Outcome

\* A market without a resolution has no claim by proof, since no note bets on
\* outcome 0; without it the first resolution could disagree with a claim.
NoClaimBefore ==
  \A c \in rgClaims :
    c.route = "proof" => rgResolved[c.market] # 0 /\ rgResolutions[c.market] > 0

\* The inductive invariant.
RegistryIInv ==
  /\ Registry!TypeOK /\ Registry!NoteClaimedOnce /\ Registry!ProofClaimsWon
  /\ NoClaimBefore
  /\ \A m \in BetMarket : rgResolutions[m] = 0 => rgResolved[m] = 0

\* Without claims there is nothing to say.
LEMMA InitRegistry == Registry!Init => RegistryIInv
BY SMTT(20)
   DEF Registry!Init, RegistryIInv, Registry!TypeOK, Registry!NoteClaimedOnce,
       Registry!ProofClaimsWon, NoClaimBefore

\* Registering with a fresh nullifier keeps types and claims apart.
LEMMA RegisterKeeps ==
  ASSUME RegistryIInv, NEW m \in BetMarket, NEW r \in Root, NEW h \in Nullifier,
         NEW o \in {0} \cup Registry!Outcome, NEW route \in {"proof", "owner"},
         Registry!Register(m, r, h, o, route)
  PROVE  Registry!TypeOK' /\ Registry!NoteClaimedOnce'
<1> DEFINE new == [market |-> m, root |-> r, nullifier |-> h, outcome |-> o,
                   route |-> route]
<1>1. new \in Registry!Claim /\ rgClaims' = rgClaims \cup {new} /\ new.nullifier = h
  BY DEF Registry!Register, Registry!Claim
<1>2. rgUsed' = {c.nullifier : c \in rgClaims'}
  BY <1>1 DEF Registry!Register, RegistryIInv, Registry!TypeOK
<1>3. Registry!TypeOK'
  BY <1>1, <1>2 DEF RegistryIInv, Registry!TypeOK, Registry!Register
<1>4. \A c \in rgClaims : c.nullifier # h
  BY DEF Registry!Register, Registry!Fresh, RegistryIInv, Registry!TypeOK
<1>5. Registry!NoteClaimedOnce'
  BY <1>1, <1>4 DEF RegistryIInv, Registry!NoteClaimedOnce
<1> QED
  BY <1>3, <1>5

\* A claim by proof (registerVerifiedClaim) is of a note of the winning outcome.
LEMMA RegistryStepProof ==
  ASSUME RegistryIInv, NEW m \in BetMarket, NEW r \in Root, NEW h \in Nullifier,
         NEW o \in {0} \cup Registry!Outcome, Registry!RegisterVerifiedClaim(m, r, h, o)
  PROVE  RegistryIInv'
<1>1. Registry!Register(m, r, h, o, "proof")
  BY DEF Registry!RegisterVerifiedClaim
<1>2. Registry!TypeOK' /\ Registry!NoteClaimedOnce'
  BY <1>1, RegisterKeeps
<1>3. PICK n \in NotesOf[r] : OutcomeOf[n] = o /\ NullifierOf[n] = h
  BY DEF Registry!RegisterVerifiedClaim, Registry!Proven
<1>4. o \in Registry!Outcome /\ o # 0
  BY <1>3, SMT
<1>5. o = rgResolved[m] /\ rgResolutions[m] > 0
  <2>1. o = rgResolved[m]
    BY DEF Registry!RegisterVerifiedClaim, Registry!OutcomeMatches
  <2> QED
    BY <1>4, <2>1, SMT DEF RegistryIInv, Registry!TypeOK
<1> DEFINE new == [market |-> m, root |-> r, nullifier |-> h, outcome |-> o,
                   route |-> "proof"]
<1>6. /\ rgClaims' = rgClaims \cup {new}
      /\ new.root = r /\ new.nullifier = h /\ new.outcome = o /\ new.market = m
      /\ UNCHANGED <<rgResolved, rgResolutions>>
  BY <1>1 DEF Registry!Register
<1>7. Registry!ProofClaimsWon'
  BY <1>3, <1>5, <1>6 DEF RegistryIInv, Registry!ProofClaimsWon
<1>8. NoClaimBefore'
  BY <1>4, <1>5, <1>6 DEF RegistryIInv, NoClaimBefore
<1> QED
  BY <1>2, <1>6, <1>7, <1>8 DEF RegistryIInv

\* A claim the owner registers (registerZKVerifyClaim) is none by proof.
LEMMA RegistryStepOwner ==
  ASSUME RegistryIInv, NEW m \in BetMarket, NEW r \in Root, NEW h \in Nullifier,
         Registry!RegisterZKVerifyClaim(m, r, h)
  PROVE  RegistryIInv'
<1>1. rgResolved[m] \in {0} \cup Registry!Outcome
  BY DEF RegistryIInv, Registry!TypeOK
<1>2. Registry!Register(m, r, h, rgResolved[m], "owner")
  BY DEF Registry!RegisterZKVerifyClaim
<1>3. Registry!TypeOK' /\ Registry!NoteClaimedOnce'
  BY <1>1, <1>2, RegisterKeeps
<1>4. /\ \A c \in rgClaims' : c.route = "proof" => c \in rgClaims
      /\ UNCHANGED <<rgResolved, rgResolutions>>
  BY <1>2 DEF Registry!Register
<1>5. Registry!ProofClaimsWon' /\ NoClaimBefore'
  BY <1>4 DEF RegistryIInv, Registry!ProofClaimsWon, NoClaimBefore
<1> QED
  BY <1>3, <1>4, <1>5 DEF RegistryIInv

\* The only step that could part claims from the resolution: no claim by proof
\* is there before the first, and after the second nothing is said.
LEMMA RegistryStepResolve ==
  ASSUME RegistryIInv, NEW m \in BetMarket, NEW o \in 0 .. 3, Registry!SetMarketResolution(m, o)
  PROVE  RegistryIInv'
<1>1. o \in Registry!Outcome /\ o # 0
  BY SMT DEF Registry!SetMarketResolution, Registry!ValidOutcome
<1>2. /\ rgResolutions' = [rgResolutions EXCEPT ![m] = @ + 1]
      /\ rgResolved' = [rgResolved EXCEPT ![m] = o]
      /\ rgResolutions[m] < MaxResolutions
      /\ UNCHANGED <<rgRoots, rgUsed, rgVerifier, rgClaims>>
  BY DEF Registry!SetMarketResolution
<1>3. Registry!TypeOK'
  BY <1>1, <1>2, SMTT(20) DEF RegistryIInv, Registry!TypeOK
<1>4. \A k \in BetMarket :
        /\ rgResolutions[k] \in Nat /\ rgResolutions'[k] \in Nat
        /\ k # m => /\ rgResolutions'[k] = rgResolutions[k]
                    /\ rgResolved'[k] = rgResolved[k]
  BY <1>2, <1>3, SMTT(20) DEF RegistryIInv, Registry!TypeOK
<1>5. rgResolutions'[m] = rgResolutions[m] + 1 /\ rgResolved'[m] = o
  BY <1>2 DEF RegistryIInv, Registry!TypeOK
<1>6. \A c \in rgClaims : c.market \in BetMarket
  BY DEF RegistryIInv, Registry!TypeOK, Registry!Claim
<1>7. Registry!ProofClaimsWon'
  BY ONLY <1>2, <1>4, <1>5, <1>6, RegistryIInv, m \in BetMarket, SMTT(20)
     DEF RegistryIInv, Registry!ProofClaimsWon, NoClaimBefore
<1>8. NoClaimBefore'
  BY ONLY <1>1, <1>2, <1>4, <1>5, <1>6, RegistryIInv, m \in BetMarket, SMTT(20)
     DEF RegistryIInv, NoClaimBefore
<1>9. Registry!NoteClaimedOnce'
  BY <1>2 DEF RegistryIInv, Registry!NoteClaimedOnce
<1>10. \A k \in BetMarket : rgResolutions'[k] = 0 => rgResolved'[k] = 0
  BY ONLY <1>4, <1>5, RegistryIInv, m \in BetMarket, SMTT(20) DEF RegistryIInv
<1> QED
  BY <1>3, <1>7, <1>8, <1>9, <1>10 DEF RegistryIInv

\* Roots and the verifier change no claim.
LEMMA RegistryStepQuiet ==
  ASSUME RegistryIInv,
         \/ Registry!SetVerifier \/ UNCHANGED Registry!vars
         \/ \E m \in BetMarket, r \in Root : Registry!AcceptRoot(m, r) \/ Registry!RevokeRoot(m, r)
  PROVE  RegistryIInv'
<1>1. UNCHANGED <<rgResolved, rgUsed, rgClaims, rgResolutions>>
  BY DEF Registry!SetVerifier, Registry!AcceptRoot, Registry!RevokeRoot, Registry!vars
<1>2. rgRoots' \subseteq BetMarket \X Root
  BY SMTT(20) DEF Registry!SetVerifier, Registry!AcceptRoot, Registry!RevokeRoot,
                  Registry!vars, RegistryIInv, Registry!TypeOK
<1>3. rgVerifier' \in BOOLEAN
  BY DEF Registry!SetVerifier, Registry!AcceptRoot, Registry!RevokeRoot, Registry!vars,
         RegistryIInv, Registry!TypeOK
<1> QED
  BY <1>1, <1>2, <1>3
     DEF RegistryIInv, Registry!TypeOK, Registry!NoteClaimedOnce, Registry!ProofClaimsWon,
         NoClaimBefore

\* The registry keeps its invariant: claims use up their nullifiers, and none by
\* proof comes before its market's first resolution (registerVerifiedClaim,
\* setMarketResolution).
THEOREM RegistryInvariant == SpecPart => []RegistryIInv
<1>1. InitPart => RegistryIInv
  BY InitRegistry DEF InitPart
<1>2. RegistryIInv /\ [Registry!Next]_registryVars => RegistryIInv'
  BY RegistryStepProof, RegistryStepOwner, RegistryStepResolve, RegistryStepQuiet
     DEF Registry!Next, registryVars, Registry!vars
<1>3. [NextPart]_allVars => [Registry!Next]_registryVars
  BY DEF NextPart, allVars
<1> QED
  BY <1>1, <1>2, <1>3, PTL DEF SpecPart

\* The same bet note is not claimed twice (zk/private-claim/README.md), be it
\* under several roots, in several markets, by proof or by the owner.
THEOREM ClaimedOnce == SpecPart => []Registry!NoteClaimedOnce
<1>1. RegistryIInv => Registry!NoteClaimedOnce
  BY DEF RegistryIInv
<1> QED
  BY <1>1, RegistryInvariant, PTL

\* A claim by proof is of a winning note (registerVerifiedClaim).
THEOREM ClaimsWon == SpecPart => []ProofClaimsWon
<1>1. RegistryIInv => ProofClaimsWon
  BY DEF RegistryIInv, ProofClaimsWon
<1> QED
  BY <1>1, RegistryInvariant, PTL

-----------------------------------------------------------------------------
(* The payout pool.                                                        *)

\* The bounds of the pool.
LEMMA PoolValues ==
  /\ Denomination \in Nat \ {0} /\ RelayerFee \subseteq Nat
  /\ Funding \subseteq Nat /\ MaxFunding \in Nat
BY PoolAssumption DEF Pool!ValueAssumption

\* The pool counts as everybody does.
LEMMA PoolCounts ==
  /\ \A S : Pool!Cardinality(S) = Cardinality(S)
  /\ \A S : Pool!IsFiniteSet(S) <=> IsFiniteSet(S)
BY DEF Pool!Cardinality, Cardinality, Pool!IsFiniteSet, IsFiniteSet

\* What a tenth is: less than the whole, which the fee is taken from.
LEMMA Tenth ==
  /\ Denomination \div 10 \in Nat
  /\ Denomination \div 10 <= Denomination
BY SMTT(20), PoolValues

\* One note more is one denomination more.
LEMMA OneMore ==
  ASSUME NEW c \in Nat
  PROVE  Denomination * (c + 1) = Denomination * c + Denomination
<1>1. Denomination \in Nat
  BY PoolValues
<1> QED
  BY <1>1, SMT

\* Every set of notes is finite, and so is every set of nullifiers.
LEMMA PoolFinite ==
  /\ \A S \in SUBSET PayoutNote : IsFiniteSet(S)
  /\ \A S \in SUBSET Pool!NoteNullifier : IsFiniteSet(S)
<1>1. IsFiniteSet(PayoutNote) /\ IsFiniteSet(Account)
  BY PoolAssumption, PoolCounts DEF Pool!NoteAssumption
<1>2. IsFiniteSet(Pool!NoteNullifier)
  BY <1>1, FS_Product DEF Pool!NoteNullifier
<1> QED
  BY <1>1, <1>2, FS_Subset

\* What the notes are worth is a number.
LEMMA OwedNat == ASSUME plCredited \subseteq PayoutNote PROVE Pool!Owed \in Nat
<1>1. IsFiniteSet(plCredited \ plSpent)
  BY PoolFinite
<1>2. Cardinality(plCredited \ plSpent) \in Nat
  BY <1>1, FS_CardinalityType
<1> QED
  BY <1>2, PoolValues, SMT, PoolCounts DEF Pool!Owed

\* The inductive invariant.
PoolIInv == Pool!TypeOK /\ Pool!Backed /\ Pool!PaidInFullOnce /\ Pool!OneNullifierEach

\* An empty pool.
LEMMA InitPool == Pool!Init => PoolIInv
<1> SUFFICES ASSUME Pool!Init PROVE PoolIInv
  OBVIOUS
<1>1. Pool!TypeOK
  <2>1. 0 \in 0 .. Denomination /\ 0 \in 0 .. MaxFunding /\ 0 \in Nat
    BY PoolValues, SMT
  <2> QED
    BY <2>1 DEF Pool!Init, Pool!TypeOK
<1>2. plCredited \ plSpent = {}
  BY DEF Pool!Init
<1>3. Pool!Owed = 0
  BY <1>2, FS_EmptySet, PoolValues, SMT, PoolCounts DEF Pool!Owed
<1>4. Pool!Backed
  BY <1>3, SMT DEF Pool!Init, Pool!Backed
<1>5. Pool!PaidInFullOnce
  BY SMT DEF Pool!Init, Pool!PaidInFullOnce
<1>6. Pool!OneNullifierEach
  BY PoolCounts DEF Pool!Init, Pool!OneNullifierEach
<1> QED
  BY <1>1, <1>4, <1>5, <1>6 DEF PoolIInv

\* A note that is credited is one more to be paid.
LEMMA CreditOwes ==
  ASSUME Pool!TypeOK, NEW n \in PayoutNote, Pool!Credit(n)
  PROVE  Pool!Owed' = Pool!Owed + Denomination
<1> DEFINE S == plCredited \ plSpent
<1>1. (plCredited \ plSpent)' = S \cup {n} /\ n \notin S
  BY DEF Pool!Credit, Pool!TypeOK
<1>2. IsFiniteSet(S)
  BY PoolFinite DEF Pool!TypeOK
<1>3. Cardinality(S) \in Nat /\ Cardinality(S \cup {n}) = Cardinality(S) + 1
  BY <1>1, <1>2, FS_CardinalityType, FS_AddElement
<1>4. Pool!Owed' = Denomination * Cardinality(S \cup {n}) /\ Pool!Owed = Denomination * Cardinality(S)
  BY <1>1, PoolCounts DEF Pool!Owed
<1> QED
  BY <1>3, <1>4, OneMore

\* A note that is withdrawn is one less, and is one with its nullifier.
LEMMA WithdrawOwes ==
  ASSUME Pool!TypeOK, NEW n \in PayoutNote, NEW h \in Pool!NoteNullifier, NEW f \in RelayerFee, Pool!Withdraw(n, h, f)
  PROVE  /\ Pool!Owed' = Pool!Owed - Denomination
         /\ Cardinality(plSpent)' = Cardinality(plSpent) + 1
         /\ Cardinality(plUsed)' = Cardinality(plUsed) + 1
<1> DEFINE S == plCredited \ plSpent
<1>1. (plCredited \ plSpent)' = S \ {n} /\ n \in S
  BY DEF Pool!Withdraw, Pool!Unspent, Pool!TypeOK
<1>2. IsFiniteSet(S) /\ IsFiniteSet(plSpent) /\ IsFiniteSet(plUsed)
  BY PoolFinite DEF Pool!TypeOK
<1>3. Cardinality(S) \in Nat /\ Cardinality(S \ {n}) = Cardinality(S) - 1
  BY <1>1, <1>2, FS_CardinalityType, FS_RemoveElement
<1>4. Pool!Owed' = Pool!Owed - Denomination
  <2> DEFINE c == Cardinality(S \ {n})
  <2>1. c \in Nat /\ Cardinality(S) = c + 1
    <3>1. c \in Nat
      BY <1>2, FS_RemoveElement, FS_CardinalityType
    <3> QED
      BY <1>3, <3>1, SMT
  <2>2. Pool!Owed' = Denomination * c /\ Pool!Owed = Denomination * (c + 1)
    BY <1>1, <2>1, PoolCounts DEF Pool!Owed
  <2>3. Pool!Owed = Denomination * c + Denomination
    BY <2>1, <2>2, OneMore
  <2>4. Denomination * c \in Int /\ Denomination \in Int
    BY <2>1, PoolValues, SMT
  <2> QED
    BY <2>2, <2>3, <2>4, SMT
<1>5. Cardinality(plSpent)' = Cardinality(plSpent) + 1
  BY <1>2, FS_AddElement DEF Pool!Withdraw, Pool!Unspent
<1>6. Cardinality(plUsed)' = Cardinality(plUsed) + 1
  BY <1>2, FS_AddElement DEF Pool!Withdraw, Pool!Unspent
<1> QED
  BY <1>4, <1>5, <1>6

-----------------------------------------------------------------------------
LEMMA PoolDeposit ==
  ASSUME PoolIInv, NEW n \in PayoutNote, Pool!DepositAndCredit(n)
  PROVE  PoolIInv'
<1>1. Pool!TypeOK'
  BY SMTT(20), PoolValues DEF PoolIInv, Pool!TypeOK, Pool!DepositAndCredit, Pool!Credit
<1>2. Pool!Backed'
  <2>1. Pool!Owed' = Pool!Owed + Denomination
    BY CreditOwes DEF PoolIInv, Pool!DepositAndCredit
  <2>2. Pool!Owed \in Nat /\ plBalance \in Nat
    BY OwedNat DEF PoolIInv, Pool!TypeOK
  <2> QED
    BY <2>1, <2>2, PoolValues, SMTT(20) DEF PoolIInv, Pool!Backed, Pool!DepositAndCredit
<1>3. Pool!PaidInFullOnce' /\ Pool!OneNullifierEach'
  BY PoolCounts DEF PoolIInv, Pool!PaidInFullOnce, Pool!OneNullifierEach, Pool!DepositAndCredit, Pool!Credit
<1> QED
  BY <1>1, <1>2, <1>3 DEF PoolIInv

LEMMA PoolCredit ==
  ASSUME PoolIInv, NEW n \in PayoutNote, Pool!CreditFundedNote(n)
  PROVE  PoolIInv'
<1>1. Pool!TypeOK'
  BY SMTT(20), PoolValues DEF PoolIInv, Pool!TypeOK, Pool!CreditFundedNote, Pool!Credit
<1>2. Pool!Backed'
  <2>1. Pool!Owed' = Pool!Owed + Denomination
    BY CreditOwes DEF PoolIInv, Pool!CreditFundedNote
  <2>2. Pool!Owed \in Nat /\ plBalance \in Nat
    BY OwedNat DEF PoolIInv, Pool!TypeOK
  <2>3. ~plOverdrawn' => ~(plBalance < Pool!Owed + Denomination) /\ plBalance' = plBalance
    BY DEF Pool!CreditFundedNote
  <2>4. ~plOverdrawn' => plBalance' >= Pool!Owed'
    BY <2>1, <2>2, <2>3, PoolValues, SMT
  <2> QED
    BY <2>4 DEF Pool!Backed
<1>3. Pool!PaidInFullOnce' /\ Pool!OneNullifierEach'
  BY PoolCounts DEF PoolIInv, Pool!PaidInFullOnce, Pool!OneNullifierEach, Pool!CreditFundedNote, Pool!Credit
<1> QED
  BY <1>1, <1>2, <1>3 DEF PoolIInv

\* Tokens that come, and the verifier, change no note.
LEMMA PoolOther ==
  ASSUME PoolIInv, Pool!SetVerifier \/ (\E v \in Funding : Pool!Fund(v)) \/ UNCHANGED Pool!vars
  PROVE  PoolIInv'
<1>1. plBalance \in Nat /\ plFunding \in 0 .. MaxFunding
  BY DEF PoolIInv, Pool!TypeOK
<1>2. plBalance' \in Nat /\ plBalance' >= plBalance /\ plFunding' \in 0 .. MaxFunding
  BY <1>1, SMTT(20), PoolValues DEF Pool!SetVerifier, Pool!Fund, Pool!vars
<1>3. /\ UNCHANGED <<plCredited, plSpent, plUsed, plPayout, plFee, plOverdrawn>>
      /\ plVerifier' \in {plVerifier, ~plVerifier}
  BY DEF Pool!SetVerifier, Pool!Fund, Pool!vars
<1>4. Pool!TypeOK'
  BY <1>2, <1>3 DEF PoolIInv, Pool!TypeOK
<1>5. Pool!Owed' = Pool!Owed /\ plBalance' >= plBalance /\ plOverdrawn' = plOverdrawn
  BY <1>2, <1>3, PoolCounts DEF Pool!Owed
<1>6. Pool!Owed \in Nat /\ plBalance \in Nat /\ plBalance' \in Nat
  BY <1>4, OwedNat DEF PoolIInv, Pool!TypeOK
<1>7. Pool!Backed'
  BY <1>5, <1>6, SMTT(20) DEF PoolIInv, Pool!Backed
<1>8. Pool!PaidInFullOnce' /\ Pool!OneNullifierEach'
  BY PoolCounts DEF PoolIInv, Pool!PaidInFullOnce, Pool!OneNullifierEach, Pool!SetVerifier, Pool!Fund, Pool!vars
<1> QED
  BY <1>4, <1>7, <1>8 DEF PoolIInv

LEMMA PoolWithdraw ==
  ASSUME PoolIInv, NEW n \in PayoutNote, NEW h \in Pool!NoteNullifier, NEW f \in RelayerFee, Pool!Withdraw(n, h, f)
  PROVE  PoolIInv'
<1>1. /\ Pool!Owed' = Pool!Owed - Denomination
      /\ Cardinality(plSpent)' = Cardinality(plSpent) + 1
      /\ Cardinality(plUsed)' = Cardinality(plUsed) + 1
  BY WithdrawOwes DEF PoolIInv
<1>2. /\ plPayout[n] = 0 /\ plFee[n] = 0
      /\ f \in Nat /\ f <= Denomination \div 10 /\ f <= Denomination
      /\ Denomination - f \in 0 .. Denomination
  <2>1. plPayout[n] + plFee[n] = 0
    BY DEF PoolIInv, Pool!PaidInFullOnce, Pool!Withdraw, Pool!Unspent
  <2>2. plPayout[n] \in Nat /\ plFee[n] \in Nat
    BY SMT, PoolValues DEF PoolIInv, Pool!TypeOK
  <2> QED
    BY <2>1, <2>2, Tenth, PoolValues, SMTT(20) DEF Pool!Withdraw, Pool!FeeAllowed
<1>3. plPayout' = [plPayout EXCEPT ![n] = Denomination - f] /\ plFee' = [plFee EXCEPT ![n] = f]
  BY <1>2, PoolValues, SMTT(20) DEF Pool!Withdraw, PoolIInv, Pool!TypeOK
<1>4. Pool!TypeOK'
  <2>1. plBalance' \in Nat
    BY PoolValues, SMTT(20) DEF PoolIInv, Pool!TypeOK, Pool!Withdraw
  <2>2. plPayout' \in [PayoutNote -> 0 .. Denomination] /\ plFee' \in [PayoutNote -> 0 .. Denomination]
    BY <1>2, <1>3, PoolValues, SMTT(20) DEF PoolIInv, Pool!TypeOK
  <2> QED
    BY <2>1, <2>2 DEF PoolIInv, Pool!TypeOK, Pool!Withdraw, Pool!Unspent
<1>5. Pool!Backed'
  <2>1. Pool!Owed \in Nat /\ plBalance \in Nat
    BY OwedNat DEF PoolIInv, Pool!TypeOK
  <2> QED
    BY <1>1, <2>1, PoolValues, SMTT(20) DEF PoolIInv, Pool!Backed, Pool!Withdraw
<1>6. Pool!PaidInFullOnce'
  <2> SUFFICES ASSUME NEW m \in PayoutNote
               PROVE /\ plPayout'[m] + plFee'[m] = IF m \in plSpent' THEN Denomination ELSE 0
                     /\ m \in plSpent' => plPayout'[m] >= Denomination - Denomination \div 10
    BY DEF Pool!PaidInFullOnce
  <2>1. CASE m = n
    BY <2>1, <1>2, <1>3, Tenth, PoolValues, SMTT(20) DEF PoolIInv, Pool!TypeOK, Pool!Withdraw
  <2>2. CASE m # n
    <3>1. plPayout'[m] = plPayout[m] /\ plFee'[m] = plFee[m] /\ (m \in plSpent' <=> m \in plSpent)
      BY <2>2, <1>3 DEF PoolIInv, Pool!TypeOK, Pool!Withdraw
    <3> QED
      BY <3>1 DEF PoolIInv, Pool!PaidInFullOnce
  <2> QED
    BY <2>1, <2>2
<1>7. Pool!OneNullifierEach'
  BY <1>1, PoolCounts DEF PoolIInv, Pool!OneNullifierEach
<1> QED
  BY <1>4, <1>5, <1>6, <1>7 DEF PoolIInv

-----------------------------------------------------------------------------
\* The pool has the tokens for its notes, pays each once and uses up one
\* nullifier for it (_credit, _withdraw).
THEOREM PoolInvariant == SpecPart => []PoolIInv
<1>1. PoolIInv /\ [Pool!Next]_poolVars => PoolIInv'
  <2> SUFFICES ASSUME PoolIInv, [Pool!Next]_poolVars PROVE PoolIInv'
    OBVIOUS
  <2>1. CASE Pool!SetVerifier \/ (\E v \in Funding : Pool!Fund(v)) \/ UNCHANGED poolVars
    BY <2>1, PoolOther DEF poolVars, Pool!vars
  <2>2. CASE \E n \in PayoutNote : Pool!DepositAndCredit(n) \/ Pool!CreditFundedNote(n)
    BY <2>2, PoolDeposit, PoolCredit
  <2>3. CASE \E n \in PayoutNote, h \in Pool!NoteNullifier, f \in RelayerFee :
               Pool!WithdrawVerified(n, h, f) \/ Pool!WithdrawWithZKVerify(n, h, f)
    BY <2>3, PoolWithdraw DEF Pool!WithdrawVerified, Pool!WithdrawWithZKVerify
  <2> QED
    BY <2>1, <2>2, <2>3 DEF Pool!Next
<1>2. InitPart => PoolIInv
  BY InitPool DEF InitPart
<1>3. [NextPart]_allVars => [Pool!Next]_poolVars
  BY DEF NextPart, allVars
<1> QED
  BY <1>1, <1>2, <1>3, PTL DEF SpecPart

\* Every note that can still be withdrawn is backed by tokens, unless the owner
\* credited one without any to spare (creditFundedNote).
THEOREM NotesBacked == SpecPart => []Backed
<1>1. PoolIInv => Backed
  BY DEF PoolIInv, Backed
<1> QED
  BY <1>1, PoolInvariant, PTL

\* A spent note has paid its denomination once, nine tenths to the recipient.
THEOREM PaidOnce == SpecPart => []Pool!PaidInFullOnce
<1>1. PoolIInv => Pool!PaidInFullOnce
  BY DEF PoolIInv
<1> QED
  BY <1>1, PoolInvariant, PTL

\* Withdrawals and nullifiers are as many.
THEOREM NullifiersOnce == SpecPart => []Pool!OneNullifierEach
<1>1. PoolIInv => Pool!OneNullifierEach
  BY DEF PoolIInv
<1> QED
  BY <1>1, PoolInvariant, PTL

-----------------------------------------------------------------------------
(* The ERC-20 token.                                                       *)

\* The bounds of the token.
LEMMA TokenValues ==
  /\ MaxUint \in Nat /\ InitialSupply \in 0 .. MaxUint
  /\ Signer \subseteq Holder /\ IsFiniteSet(Holder)
  /\ MaxApprovals \in Nat /\ MaxNow \in Nat
<1>1. \A S : Token!IsFiniteSet(S) <=> IsFiniteSet(S)
  BY DEF Token!IsFiniteSet, IsFiniteSet
<1> QED
  BY <1>1, TokenAssumption
     DEF Token!AmountAssumption, Token!SignerAssumption, Token!BoundAssumption

\* The token counts and sums as everybody does.
LEMMA TokenCounts ==
  /\ \A S : Token!Cardinality(S) = Cardinality(S)
  /\ \A f : Token!SumFunction(f) = SumFunction(f)
BY DEF Token!Cardinality, Cardinality, Token!SumFunction, SumFunction,
       Token!SumFunctionOnSet, SumFunctionOnSet, Token!FoldFunctionOnSet,
       FoldFunctionOnSet, Token!MapThenFoldSet, MapThenFoldSet

\* The permits of a holder that were taken, and those it signed.
TakenOf(h)  == {p \in tkSigned : p.owner = h /\ tkUses[p] = 1}
SignedBy(h) == {p \in tkSigned : p.owner = h}

\* The nonce of a holder counts its permits that were taken, and is past them.
NoncesCount ==
  /\ \A p \in tkSigned : tkUses[p] \in {0, 1} /\ (tkUses[p] = 1 => p.nonce < tkNonces[p.owner])
  /\ \A h \in Holder : tkNonces[h] = Cardinality(TakenOf(h))

\* A spender never took more than it was approved, also before an allowance
\* without limit.
PulledAlways == \A h, s \in Holder : tkPulled[h][s] <= tkGranted[h][s]

\* The inductive invariant.
TokenIInv ==
  /\ Token!TypeOK /\ IsFiniteSet(tkSigned)
  /\ Token!SupplyIsBalances
  /\ Token!PulledWithinGranted /\ PulledAlways
  /\ Token!OnePermitPerNonce /\ NoncesCount

\* A token that starts has no approvals and its supply with the owner.
LEMMA InitToken == Token!Init => TokenIInv
<1> SUFFICES ASSUME Token!Init PROVE TokenIInv
  OBVIOUS
<1> USE TokenValues DEF Token!Init
<1>1. tkSigned = {} /\ IsFiniteSet({}) /\ Cardinality({}) = 0
  BY FS_EmptySet
<1>2. Token!SupplyIsBalances
  <2> DEFINE z == [h \in Holder |-> 0]
  <2>1. z \in [Holder -> Int] /\ tkBalances \in [Holder -> Int] /\ tkOwner \in Holder
    OBVIOUS
  <2>2. /\ \A h \in Holder : h # tkOwner => tkBalances[h] = z[h]
        /\ tkBalances[tkOwner] = InitialSupply /\ z[tkOwner] = 0
    OBVIOUS
  <2>3. SumFunction(z) = 0
    BY SumZero
  <2> HIDE DEF z
  <2>4. SumFunction(tkBalances) = SumFunction(z) + (tkBalances[tkOwner] - z[tkOwner])
    BY ONLY <2>1, <2>2, SumChange, TokenValues
  <2>5. SumFunction(tkBalances) = InitialSupply
    BY <2>2, <2>3, <2>4
  <2> QED
    BY <2>5, TokenCounts DEF Token!SupplyIsBalances
<1>3. Token!TypeOK
  <2>1. \A h \in Holder : {p \in tkSigned : p.owner = h} = {}
    BY <1>1
  <2>2. tkUses \in [tkSigned -> Nat]
    BY <1>1
  <2> QED
    BY <1>1, <2>1, <2>2, TokenCounts DEF Token!TypeOK, Token!Amount, Token!NoGrants
<1>4. Token!PulledWithinGranted /\ PulledAlways
  BY DEF Token!PulledWithinGranted, PulledAlways, Token!NoGrants
<1>5. NoncesCount
  <2>1. \A h \in Holder : TakenOf(h) = {}
    BY <1>1 DEF TakenOf
  <2> QED
    BY <1>1, <2>1 DEF NoncesCount
<1> QED
  BY <1>1, <1>2, <1>3, <1>4, <1>5 DEF TokenIInv, Token!OnePermitPerNonce

\* The numbers of a token that keeps its invariant.
LEMMA TokenNumbers ==
  ASSUME TokenIInv
  PROVE  /\ tkBalances \in [Holder -> Nat] /\ tkBalances \in [Holder -> Int]
         /\ tkSupply \in Nat /\ tkSupply <= MaxUint
         /\ tkSupply = SumFunction(tkBalances)
BY TokenValues, TokenCounts
   DEF TokenIInv, Token!TypeOK, Token!Amount, Token!SupplyIsBalances

\* Balances that are naturals and sum up to a supply in range are amounts.
LEMMA BalancesFit ==
  ASSUME NEW f \in [Holder -> Nat], SumFunction(f) <= MaxUint
  PROVE  f \in [Holder -> 0 .. MaxUint]
<1>1. \A h \in Holder : f[h] <= SumFunction(f)
  BY TokenValues, SumBounds
<1>2. SumFunction(f) \in Nat
  BY TokenValues, SumNatural
<1>3. \A h \in Holder : f[h] \in 0 .. MaxUint
  BY <1>1, <1>2, TokenValues
<1> QED
  BY <1>3

\* What a step that touches balances only must show.
LEMMA BalanceStep ==
  ASSUME TokenIInv,
         tkBalances' \in [Holder -> Nat], SumFunction(tkBalances') = tkSupply',
         tkSupply' \in Nat, tkSupply' <= MaxUint,
         tkOwner' \in Holder,
         UNCHANGED <<tkNonces, tkSigned, tkUses>>
  PROVE  /\ Token!SupplyIsBalances'
         /\ tkBalances' \in [Holder -> 0 .. MaxUint] /\ tkSupply' \in 0 .. MaxUint
         /\ IsFiniteSet(tkSigned)' /\ Token!OnePermitPerNonce' /\ NoncesCount'
<1>1. tkBalances' \in [Holder -> 0 .. MaxUint] /\ tkSupply' \in 0 .. MaxUint
  BY BalancesFit, TokenValues
<1>2. Token!SupplyIsBalances'
  BY TokenCounts DEF Token!SupplyIsBalances
<1>3. IsFiniteSet(tkSigned)' /\ Token!OnePermitPerNonce' /\ NoncesCount'
  BY DEF TokenIInv, Token!OnePermitPerNonce, NoncesCount, TakenOf
<1> QED
  BY <1>1, <1>2, <1>3

\* One holder's amount goes to another, or to itself.
LEMMA MoveKeeps ==
  ASSUME TokenIInv, NEW h \in Holder, NEW to \in Holder, NEW v \in Token!Amount,
         Token!Move(h, to, v)
  PROVE  /\ tkBalances' \in [Holder -> Nat] /\ SumFunction(tkBalances') = tkSupply'
         /\ tkSupply' \in Nat /\ tkSupply' <= MaxUint
<1>1. v \in Nat /\ v \in Int /\ tkBalances[h] >= v
  BY TokenValues DEF Token!Move, Token!Amount
<1>2. tkBalances' = [[tkBalances EXCEPT ![h] = @ - v] EXCEPT ![to] = @ + v] /\ tkSupply' = tkSupply
  BY DEF Token!Move, Token!Moved
<1>3. SumFunction(tkBalances') = SumFunction(tkBalances)
  <2>1. /\ tkBalances \in [Holder -> Int] /\ IsFiniteSet(Holder)
        /\ tkBalances' \in [Holder -> Int]
    BY <1>1, <1>2, TokenNumbers, TokenValues
  <2>2. h = to => tkBalances'[h] = tkBalances[h]
    BY <1>1, <1>2, TokenNumbers
  <2>3. h # to => tkBalances'[h] = tkBalances[h] - v /\ tkBalances'[to] = tkBalances[to] + v
    BY <1>1, <1>2, TokenNumbers
  <2>4. \A k \in Holder : k # h /\ k # to => tkBalances'[k] = tkBalances[k]
    BY <1>2, TokenNumbers
  <2> QED
    BY ONLY <1>1, <2>1, <2>2, <2>3, <2>4, SumMoved, h \in Holder, to \in Holder
<1>4. tkBalances' \in [Holder -> Nat]
  BY <1>1, <1>2, TokenNumbers
<1> QED
  BY <1>2, <1>3, <1>4, TokenNumbers

\* One holder's amount is burned.
LEMMA DestroyKeeps ==
  ASSUME TokenIInv, NEW h \in Holder, NEW v \in Token!Amount, Token!Destroy(h, v)
  PROVE  /\ tkBalances' \in [Holder -> Nat] /\ SumFunction(tkBalances') = tkSupply'
         /\ tkSupply' \in Nat /\ tkSupply' <= MaxUint
<1>1. v \in Nat /\ tkBalances[h] >= v /\ tkBalances[h] \in Nat
  BY TokenValues, TokenNumbers DEF Token!Destroy, Token!Amount
<1>2. tkBalances' = [tkBalances EXCEPT ![h] = @ - v] /\ tkSupply' = tkSupply - v
  BY DEF Token!Destroy
<1>3. tkBalances' \in [Holder -> Nat] /\ tkBalances' \in [Holder -> Int]
  BY <1>1, <1>2, TokenNumbers
<1>4. tkBalances'[h] = tkBalances[h] - v /\ \A k \in Holder : k # h => tkBalances'[k] = tkBalances[k]
  BY <1>2, TokenNumbers
<1>5. SumFunction(tkBalances') = SumFunction(tkBalances) + (tkBalances'[h] - tkBalances[h])
  BY ONLY <1>3, <1>4, SumChange, TokenNumbers, TokenValues, TokenIInv, h \in Holder
<1>6. SumFunction(tkBalances') = tkSupply'
  BY <1>1, <1>2, <1>4, <1>5, TokenNumbers
<1>7. SumFunction(tkBalances') \in Nat
  BY <1>3, SumNatural, TokenValues
<1>8. tkSupply' <= MaxUint
  BY <1>1, <1>2, TokenNumbers, TokenValues
<1> QED
  BY <1>3, <1>6, <1>7, <1>8

\* The owner mints as much as fits.
LEMMA MintKeeps ==
  ASSUME TokenIInv, NEW h \in Holder, NEW v \in Token!Amount, Token!Mint(h, v)
  PROVE  /\ tkBalances' \in [Holder -> Nat] /\ SumFunction(tkBalances') = tkSupply'
         /\ tkSupply' \in Nat /\ tkSupply' <= MaxUint
<1>1. v \in Nat /\ tkBalances[h] \in Nat
  BY TokenValues, TokenNumbers DEF Token!Amount
<1>2. /\ tkBalances' = [tkBalances EXCEPT ![h] = @ + v] /\ tkSupply' = tkSupply + v
      /\ tkSupply + v <= MaxUint
  BY DEF Token!Mint, Token!SumFits
<1>3. tkBalances' \in [Holder -> Nat] /\ tkBalances' \in [Holder -> Int]
  BY <1>1, <1>2, TokenNumbers
<1>4. tkBalances'[h] = tkBalances[h] + v /\ \A k \in Holder : k # h => tkBalances'[k] = tkBalances[k]
  BY <1>2, TokenNumbers
<1>5. SumFunction(tkBalances') = SumFunction(tkBalances) + (tkBalances'[h] - tkBalances[h])
  BY ONLY <1>3, <1>4, SumChange, TokenNumbers, TokenValues, TokenIInv, h \in Holder
<1>6. SumFunction(tkBalances') = tkSupply'
  BY <1>1, <1>2, <1>4, <1>5, TokenNumbers
<1> QED
  BY <1>1, <1>2, <1>3, <1>6, TokenNumbers

\* Transfers, mints and burns by holders leave allowances and permits alone.
LEMMA StepOwn ==
  ASSUME TokenIInv, NEW h \in Holder, NEW to \in Holder, NEW v \in Token!Amount,
         Token!Transfer(h, to, v) \/ Token!Mint(h, v) \/ Token!Burn(h, v)
         \/ Token!TransferOwnership(h)
  PROVE  TokenIInv'
<1>1. /\ tkBalances' \in [Holder -> Nat] /\ SumFunction(tkBalances') = tkSupply'
      /\ tkSupply' \in Nat /\ tkSupply' <= MaxUint
  <2>1. CASE Token!TransferOwnership(h)
    BY <2>1, TokenNumbers DEF Token!TransferOwnership, Token!balanceVars
  <2> QED
    BY <2>1, MoveKeeps, DestroyKeeps, MintKeeps DEF Token!Transfer, Token!Burn
<1>2. /\ UNCHANGED <<tkAllowance, tkGranted, tkNonces, tkSigned, tkUses, tkPulled, tkApprovals, tkNow>>
      /\ tkOwner' \in {tkOwner, h}
  BY DEF Token!Transfer, Token!Mint, Token!Burn, Token!TransferOwnership, Token!grantVars,
         Token!signVars
<1>3. tkOwner \in Holder
  BY DEF TokenIInv, Token!TypeOK
<1>4. tkOwner' \in Holder
  BY <1>2, <1>3
<1>5. /\ Token!SupplyIsBalances'
      /\ tkBalances' \in [Holder -> 0 .. MaxUint] /\ tkSupply' \in 0 .. MaxUint
      /\ IsFiniteSet(tkSigned)' /\ Token!OnePermitPerNonce' /\ NoncesCount'
  BY <1>1, <1>2, <1>4, BalanceStep
<1>6. Token!TypeOK'
  BY <1>2, <1>4, <1>5 DEF TokenIInv, Token!TypeOK, Token!Amount
<1>7. Token!PulledWithinGranted' /\ PulledAlways'
  BY <1>2 DEF TokenIInv, Token!PulledWithinGranted, PulledAlways
<1> QED
  BY <1>5, <1>6, <1>7 DEF TokenIInv

\* A spender takes of an allowance what it moves or burns.
LEMMA StepSpend ==
  ASSUME TokenIInv, NEW h \in Holder, NEW s \in Holder, NEW to \in Holder, NEW v \in Token!Amount,
         Token!TransferFrom(h, s, to, v) \/ Token!BurnFrom(h, s, v)
  PROVE  TokenIInv'
<1>0. /\ Token!TypeOK /\ Token!Spend(h, s, v) /\ v \in Nat
      /\ tkAllowance \in [Holder -> [Holder -> 0 .. MaxUint]]
      /\ tkGranted \in [Holder -> [Holder -> Nat]] /\ tkPulled \in [Holder -> [Holder -> Nat]]
  BY TokenValues
     DEF TokenIInv, Token!TypeOK, Token!TransferFrom, Token!BurnFrom, Token!Amount
<1>1. /\ tkBalances' \in [Holder -> Nat] /\ SumFunction(tkBalances') = tkSupply'
      /\ tkSupply' \in Nat /\ tkSupply' <= MaxUint
  BY MoveKeeps, DestroyKeeps DEF Token!TransferFrom, Token!BurnFrom
<1>2. UNCHANGED <<tkOwner, tkGranted, tkNonces, tkSigned, tkUses, tkApprovals, tkNow>>
  BY <1>0 DEF Token!Spend, Token!signVars
<1>3. tkOwner' \in Holder
  BY <1>2 DEF TokenIInv, Token!TypeOK
<1>4. /\ Token!SupplyIsBalances'
      /\ tkBalances' \in [Holder -> 0 .. MaxUint] /\ tkSupply' \in 0 .. MaxUint
      /\ IsFiniteSet(tkSigned)' /\ Token!OnePermitPerNonce' /\ NoncesCount'
  BY <1>1, <1>2, <1>3, BalanceStep
<1> DEFINE a == tkAllowance[h][s]
           p == tkPulled[h][s]
<1>5. /\ a \in 0 .. MaxUint /\ a >= v /\ p \in Nat
      /\ tkAllowance' = [tkAllowance EXCEPT ![h][s] = IF a = MaxUint THEN a ELSE a - v]
      /\ tkPulled' = [tkPulled EXCEPT ![h][s] = IF a = MaxUint THEN p ELSE p + v]
  BY <1>0 DEF Token!Spend, Token!Left
<1>6. /\ (IF a = MaxUint THEN a ELSE a - v) \in 0 .. MaxUint
      /\ (IF a = MaxUint THEN p ELSE p + v) \in Nat
  BY <1>0, <1>5, TokenValues
<1>7. tkAllowance' \in [Holder -> [Holder -> 0 .. MaxUint]] /\ tkPulled' \in [Holder -> [Holder -> Nat]]
  BY <1>0, <1>5, <1>6
<1>8. Token!TypeOK'
  BY <1>0, <1>2, <1>3, <1>4, <1>7 DEF Token!TypeOK, Token!Amount
<1>9. ASSUME NEW i \in Holder, NEW j \in Holder
      PROVE  /\ tkPulled'[i][j] <= tkGranted'[i][j]
             /\ tkAllowance'[i][j] # MaxUint =>
                  tkPulled'[i][j] + tkAllowance'[i][j] <= tkGranted'[i][j]
  <2>1. /\ tkPulled[i][j] <= tkGranted[i][j]
        /\ tkAllowance[i][j] # MaxUint => tkPulled[i][j] + tkAllowance[i][j] <= tkGranted[i][j]
        /\ tkGranted'[i][j] = tkGranted[i][j] /\ tkGranted[i][j] \in Nat
    BY <1>0, <1>2 DEF TokenIInv, Token!PulledWithinGranted, PulledAlways
  <2>2. CASE i = h /\ j = s
    <3>1. /\ tkAllowance'[i][j] = (IF a = MaxUint THEN a ELSE a - v)
          /\ tkPulled'[i][j] = (IF a = MaxUint THEN p ELSE p + v)
      BY <1>0, <1>5, <2>2
    <3> QED
      BY <1>0, <1>5, <2>1, <2>2, <3>1, TokenValues
  <2>3. CASE ~(i = h /\ j = s)
    <3>1. tkAllowance'[i][j] = tkAllowance[i][j] /\ tkPulled'[i][j] = tkPulled[i][j]
      BY <1>0, <1>5, <2>3
    <3> QED
      BY <2>1, <3>1
  <2> QED
    BY <2>2, <2>3
<1>10. Token!PulledWithinGranted' /\ PulledAlways'
  BY <1>9 DEF Token!PulledWithinGranted, PulledAlways
<1> QED
  BY <1>4, <1>8, <1>10 DEF TokenIInv

\* An approval, by a call or a permit, adds to what was granted.
LEMMA GrantKeeps ==
  ASSUME TokenIInv, NEW h \in Holder, NEW s \in Holder, NEW v \in Token!Amount,
         Token!Grant(h, s, v), UNCHANGED tkPulled
  PROVE  /\ Token!PulledWithinGranted' /\ PulledAlways'
         /\ tkAllowance' \in [Holder -> [Holder -> Token!Amount]]
         /\ tkGranted' \in [Holder -> [Holder -> Nat]]
<1>0. /\ v \in Nat /\ v \in 0 .. MaxUint
      /\ tkAllowance \in [Holder -> [Holder -> 0 .. MaxUint]]
      /\ tkGranted \in [Holder -> [Holder -> Nat]] /\ tkPulled \in [Holder -> [Holder -> Nat]]
  BY TokenValues DEF TokenIInv, Token!TypeOK, Token!Amount
<1>1. /\ tkAllowance' = [tkAllowance EXCEPT ![h][s] = v]
      /\ tkGranted' = [tkGranted EXCEPT ![h][s] = tkGranted[h][s] + v]
  BY DEF Token!Grant
<1>2. tkGranted[h][s] + v \in Nat
  BY <1>0
<1>3. /\ tkAllowance' \in [Holder -> [Holder -> 0 .. MaxUint]]
      /\ tkGranted' \in [Holder -> [Holder -> Nat]]
  BY <1>0, <1>1, <1>2
<1>4. ASSUME NEW i \in Holder, NEW j \in Holder
      PROVE  /\ tkPulled'[i][j] <= tkGranted'[i][j]
             /\ tkAllowance'[i][j] # MaxUint =>
                  tkPulled'[i][j] + tkAllowance'[i][j] <= tkGranted'[i][j]
  <2>1. /\ tkPulled[i][j] <= tkGranted[i][j]
        /\ tkAllowance[i][j] # MaxUint => tkPulled[i][j] + tkAllowance[i][j] <= tkGranted[i][j]
        /\ tkPulled'[i][j] = tkPulled[i][j]
        /\ tkGranted[i][j] \in Nat /\ tkPulled[i][j] \in Nat
    BY <1>0 DEF TokenIInv, Token!PulledWithinGranted, PulledAlways
  <2>2. CASE i = h /\ j = s
    <3>1. tkAllowance'[i][j] = v /\ tkGranted'[i][j] = tkGranted[i][j] + v
      BY <1>0, <1>1, <2>2
    <3> QED
      BY <1>0, <2>1, <3>1
  <2>3. CASE ~(i = h /\ j = s)
    <3>1. tkAllowance'[i][j] = tkAllowance[i][j] /\ tkGranted'[i][j] = tkGranted[i][j]
      BY <1>0, <1>1, <2>3
    <3> QED
      BY <2>1, <3>1
  <2> QED
    BY <2>2, <2>3
<1>5. Token!PulledWithinGranted' /\ PulledAlways'
  BY <1>4 DEF Token!PulledWithinGranted, PulledAlways
<1> QED
  BY <1>3, <1>5 DEF Token!Amount

\* What a holder signed is finite and within its approvals.
LEMMA SignedBounded ==
  ASSUME TokenIInv, NEW h \in Holder
  PROVE  /\ IsFiniteSet(SignedBy(h)) /\ IsFiniteSet(TakenOf(h)) /\ TakenOf(h) \subseteq SignedBy(h)
         /\ Cardinality(SignedBy(h)) \in Nat /\ Cardinality(TakenOf(h)) \in Nat
         /\ Cardinality(SignedBy(h)) <= tkApprovals[h] /\ tkApprovals[h] \in 0 .. MaxApprovals
         /\ Cardinality(TakenOf(h)) <= Cardinality(SignedBy(h))
<1>1. IsFiniteSet(tkSigned) /\ SignedBy(h) \subseteq tkSigned /\ TakenOf(h) \subseteq SignedBy(h)
  BY DEF TokenIInv, SignedBy, TakenOf
<1>2. /\ IsFiniteSet(SignedBy(h)) /\ IsFiniteSet(TakenOf(h))
      /\ Cardinality(TakenOf(h)) <= Cardinality(SignedBy(h))
  BY <1>1, FS_Subset
<1>3. Cardinality(SignedBy(h)) <= tkApprovals[h] /\ tkApprovals[h] \in 0 .. MaxApprovals
  BY TokenCounts DEF TokenIInv, Token!TypeOK, SignedBy
<1> QED
  BY <1>1, <1>2, <1>3, FS_CardinalityType

\* An approval by a call.
LEMMA StepApprove ==
  ASSUME TokenIInv, NEW h \in Holder, NEW s \in Holder, NEW v \in Token!Amount,
         Token!Approve(h, s, v)
  PROVE  TokenIInv'
<1>1. /\ UNCHANGED <<tkOwner, tkSupply, tkBalances, tkNonces, tkSigned, tkUses, tkPulled, tkNow>>
      /\ Token!Grant(h, s, v)
      /\ tkApprovals' = [tkApprovals EXCEPT ![h] = @ + 1] /\ tkApprovals[h] < MaxApprovals
  BY DEF Token!Approve, Token!balanceVars, Token!signVars
<1>2. /\ Token!PulledWithinGranted' /\ PulledAlways'
      /\ tkAllowance' \in [Holder -> [Holder -> Token!Amount]]
      /\ tkGranted' \in [Holder -> [Holder -> Nat]]
  BY <1>1, GrantKeeps
<1>3. tkApprovals \in [Holder -> 0 .. MaxApprovals]
  BY DEF TokenIInv, Token!TypeOK
<1>4. /\ tkApprovals' \in [Holder -> 0 .. MaxApprovals]
      /\ \A k \in Holder : tkApprovals[k] <= tkApprovals'[k]
  BY <1>1, <1>3, TokenValues
<1>5. ASSUME NEW k \in Holder PROVE Cardinality(SignedBy(k)) <= tkApprovals'[k]
  BY <1>3, <1>4, SignedBounded, TokenValues
<1>6. \A k \in Holder : Token!Cardinality({p \in tkSigned : p.owner = k}) <= tkApprovals'[k]
  BY <1>5, TokenCounts DEF SignedBy
<1>7. Token!TypeOK'
  BY <1>1, <1>2, <1>4, <1>6 DEF TokenIInv, Token!TypeOK, Token!Amount
<1>8. Token!SupplyIsBalances' /\ Token!OnePermitPerNonce' /\ NoncesCount' /\ IsFiniteSet(tkSigned)'
  BY <1>1 DEF TokenIInv, Token!SupplyIsBalances, Token!OnePermitPerNonce, NoncesCount, TakenOf
<1> QED
  BY <1>2, <1>7, <1>8 DEF TokenIInv

\* A permit that is signed is one more, and not taken.
LEMMA StepSign ==
  ASSUME TokenIInv, NEW p \in Token!Permit, Token!Sign(p)
  PROVE  TokenIInv'
<1>1. /\ UNCHANGED <<tkOwner, tkSupply, tkBalances, tkAllowance, tkGranted, tkNonces, tkPulled, tkNow>>
      /\ tkApprovals' = [tkApprovals EXCEPT ![p.owner] = @ + 1]
      /\ tkApprovals[p.owner] < MaxApprovals
      /\ p \notin tkSigned /\ tkSigned' = tkSigned \cup {p}
      /\ tkUses' = [q \in tkSigned' |-> IF q = p THEN 0 ELSE tkUses[q]]
  BY DEF Token!Sign, Token!balanceVars, Token!grantVars
<1>2. /\ tkApprovals \in [Holder -> 0 .. MaxApprovals] /\ p.owner \in Holder
      /\ tkUses \in [tkSigned -> Nat] /\ tkSigned \subseteq Token!Permit
  BY DEF TokenIInv, Token!TypeOK, Token!Permit
<1>3. /\ tkApprovals' \in [Holder -> 0 .. MaxApprovals]
      /\ tkApprovals'[p.owner] = tkApprovals[p.owner] + 1
      /\ \A k \in Holder : k # p.owner => tkApprovals'[k] = tkApprovals[k]
  BY <1>1, <1>2, TokenValues
<1>4. ASSUME NEW k \in Holder
      PROVE  Token!Cardinality({q \in tkSigned' : q.owner = k}) <= tkApprovals'[k]
  <2>1. /\ IsFiniteSet(SignedBy(k)) /\ Cardinality(SignedBy(k)) \in Nat
        /\ Cardinality(SignedBy(k)) <= tkApprovals[k] /\ tkApprovals[k] \in Nat
    BY SignedBounded, TokenValues
  <2>2. CASE k = p.owner
    <3>1. {q \in tkSigned' : q.owner = k} = SignedBy(k) \cup {p} /\ p \notin SignedBy(k)
      BY <1>1, <2>2 DEF SignedBy
    <3>2. Cardinality(SignedBy(k) \cup {p}) = Cardinality(SignedBy(k)) + 1
      BY <2>1, <3>1, FS_AddElement
    <3>3. Token!Cardinality({q \in tkSigned' : q.owner = k}) = Cardinality(SignedBy(k)) + 1
      BY <3>1, <3>2, TokenCounts
    <3>4. tkApprovals'[k] = tkApprovals[k] + 1
      BY <1>3, <2>2
    <3> QED
      BY <2>1, <3>3, <3>4
  <2>3. CASE k # p.owner
    <3>1. {q \in tkSigned' : q.owner = k} = SignedBy(k)
      BY <1>1, <2>3 DEF SignedBy
    <3> QED
      BY <1>3, <2>1, <2>3, <3>1, TokenCounts
  <2> QED
    BY <2>2, <2>3
<1>5. /\ tkUses' \in [tkSigned' -> Nat] /\ tkUses'[p] = 0
      /\ \A q \in tkSigned : tkUses'[q] = tkUses[q]
  BY <1>1, <1>2
<1>6. Token!TypeOK'
  BY <1>1, <1>2, <1>3, <1>4, <1>5 DEF TokenIInv, Token!TypeOK, Token!Amount
<1>7. IsFiniteSet(tkSigned')
  BY <1>1, FS_AddElement DEF TokenIInv
<1>8. Token!OnePermitPerNonce'
  BY <1>1, <1>5 DEF TokenIInv, Token!OnePermitPerNonce
<1>9. NoncesCount'
  <2>1. \A k \in Holder : TakenOf(k)' = TakenOf(k)
    BY <1>1, <1>5 DEF TakenOf
  <2> QED
    BY <1>1, <1>5, <2>1 DEF TokenIInv, NoncesCount
<1>10. Token!SupplyIsBalances' /\ Token!PulledWithinGranted' /\ PulledAlways'
  BY <1>1 DEF TokenIInv, Token!SupplyIsBalances, Token!PulledWithinGranted, PulledAlways
<1> QED
  BY <1>6, <1>7, <1>8, <1>9, <1>10 DEF TokenIInv

\* A permit that is taken is the one of its holder's nonce, which moves on: no
\* other permit of that nonce was taken or ever will be.
LEMMA StepPermit ==
  ASSUME TokenIInv, NEW p \in tkSigned, Token!TakePermit(p)
  PROVE  TokenIInv'
<1>1. /\ UNCHANGED <<tkOwner, tkSupply, tkBalances, tkSigned, tkPulled, tkApprovals, tkNow>>
      /\ p.nonce = tkNonces[p.owner]
      /\ tkNonces' = [tkNonces EXCEPT ![p.owner] = @ + 1]
      /\ Token!Grant(p.owner, p.spender, p.value)
      /\ tkUses' = [tkUses EXCEPT ![p] = @ + 1]
  BY DEF Token!TakePermit, Token!NonceUsed, Token!balanceVars
<1>2. /\ p.owner \in Holder /\ p.spender \in Holder /\ p.value \in Token!Amount /\ p.nonce \in Nat
      /\ tkUses \in [tkSigned -> Nat] /\ tkNonces \in [Holder -> 0 .. MaxApprovals]
      /\ \A q \in tkSigned : q.owner \in Holder /\ q.nonce \in Nat
  BY DEF TokenIInv, Token!TypeOK, Token!Permit
<1>3. /\ Token!PulledWithinGranted' /\ PulledAlways'
      /\ tkAllowance' \in [Holder -> [Holder -> Token!Amount]]
      /\ tkGranted' \in [Holder -> [Holder -> Nat]]
  BY <1>1, <1>2, GrantKeeps
<1>4. NoncesCount
  BY DEF TokenIInv
<1>5. tkUses[p] = 0
  <2>1. tkUses[p] = 1 => p.nonce < p.nonce
    BY <1>1, <1>4 DEF NoncesCount
  <2> QED
    BY <1>2, <1>4, <2>1 DEF NoncesCount
<1>6. /\ tkUses' \in [tkSigned -> Nat] /\ tkUses'[p] = 1
      /\ \A q \in tkSigned : q # p => tkUses'[q] = tkUses[q]
  BY <1>1, <1>2, <1>5
<1>7. /\ tkNonces'[p.owner] = tkNonces[p.owner] + 1 /\ tkNonces[p.owner] \in Nat
      /\ \A k \in Holder : k # p.owner => tkNonces'[k] = tkNonces[k]
  BY <1>1, <1>2, TokenValues
<1>8. ASSUME NEW k \in Holder
      PROVE  tkNonces'[k] = Cardinality(TakenOf(k)') /\ tkNonces'[k] \in 0 .. MaxApprovals
  <2>1. IsFiniteSet(TakenOf(k)) /\ tkNonces[k] = Cardinality(TakenOf(k))
    BY <1>4, SignedBounded DEF NoncesCount
  <2>2. CASE k = p.owner
    <3>1. TakenOf(k)' = TakenOf(k) \cup {p} /\ p \notin TakenOf(k)
      BY <1>1, <1>5, <1>6, <2>2 DEF TakenOf
    <3>2. IsFiniteSet(TakenOf(k)') /\ Cardinality(TakenOf(k)') = tkNonces[k] + 1
      BY <2>1, <3>1, FS_AddElement
    <3>3. TakenOf(k)' \subseteq SignedBy(k) /\ IsFiniteSet(SignedBy(k))
      BY <1>1, <2>2, <3>1, SignedBounded DEF SignedBy
    <3>4. Cardinality(TakenOf(k)') <= Cardinality(SignedBy(k))
      BY <3>3, FS_Subset
    <3>5. /\ Cardinality(SignedBy(k)) <= tkApprovals[k] /\ tkApprovals[k] \in 0 .. MaxApprovals
          /\ Cardinality(SignedBy(k)) \in Nat
      BY SignedBounded
    <3>6. tkNonces'[k] \in Nat /\ tkNonces'[k] <= MaxApprovals
      BY <1>7, <2>2, <3>2, <3>4, <3>5, TokenValues
    <3> QED
      BY <1>7, <2>2, <3>2, <3>6, TokenValues
  <2>3. CASE k # p.owner
    <3>1. TakenOf(k)' = TakenOf(k)
      BY <1>1, <1>6, <2>3 DEF TakenOf
    <3> QED
      BY <1>2, <1>7, <2>1, <2>3, <3>1
  <2> QED
    BY <2>2, <2>3
<1>9. NoncesCount'
  <2>1. ASSUME NEW q \in tkSigned
        PROVE  tkUses'[q] \in {0, 1} /\ (tkUses'[q] = 1 => q.nonce < tkNonces'[q.owner])
    <3>1. tkUses[q] \in {0, 1} /\ (tkUses[q] = 1 => q.nonce < tkNonces[q.owner])
      BY <1>4 DEF NoncesCount
    <3>2. tkNonces[q.owner] <= tkNonces'[q.owner] /\ q.nonce \in Nat
          /\ tkNonces[q.owner] \in Nat /\ tkNonces'[q.owner] \in Nat
      BY <1>2, <1>7, <1>8, TokenValues
    <3>3. CASE q = p
      BY <1>1, <1>6, <1>7, <3>2, <3>3
    <3>4. CASE q # p
      BY <1>6, <3>1, <3>2, <3>4
    <3> QED
      BY <3>3, <3>4
  <2> QED
    BY <1>1, <1>8, <2>1 DEF NoncesCount
<1>10. Token!OnePermitPerNonce'
  <2> SUFFICES ASSUME NEW q \in tkSigned, NEW r \in tkSigned
               PROVE  /\ tkUses'[q] <= 1
                      /\ q # r /\ q.owner = r.owner /\ q.nonce = r.nonce =>
                           tkUses'[q] = 0 \/ tkUses'[r] = 0
    BY <1>1 DEF Token!OnePermitPerNonce
  <2>1. tkUses'[q] \in {0, 1}
    BY <1>1, <1>9 DEF NoncesCount
  <2>2. ASSUME NEW o \in tkSigned, o # p, o.owner = p.owner, o.nonce = p.nonce
        PROVE  tkUses'[o] = 0
    <3>1. tkUses[o] = 1 => p.nonce < p.nonce
      BY <1>1, <1>4, <2>2 DEF NoncesCount
    <3>2. tkUses[o] # 1
      BY <1>2, <3>1
    <3> QED
      BY <1>4, <1>6, <2>2, <3>2 DEF NoncesCount
  <2>3. CASE q = p \/ r = p
    BY <2>1, <2>2, <2>3
  <2>4. CASE q # p /\ r # p
    BY <1>6, <2>1, <2>4 DEF TokenIInv, Token!OnePermitPerNonce
  <2> QED
    BY <2>3, <2>4
<1>11. Token!TypeOK'
  <2>1. tkNonces' \in [Holder -> 0 .. MaxApprovals]
    BY <1>1, <1>2, <1>8
  <2> QED
    BY <1>1, <1>2, <1>3, <1>6, <2>1 DEF TokenIInv, Token!TypeOK, Token!Amount
<1>12. Token!SupplyIsBalances' /\ IsFiniteSet(tkSigned)'
  BY <1>1 DEF TokenIInv, Token!SupplyIsBalances
<1> QED
  BY <1>3, <1>9, <1>10, <1>11, <1>12 DEF TokenIInv

\* Time passes, or nothing.
LEMMA StepClock ==
  ASSUME TokenIInv, Token!Tick \/ UNCHANGED tokenVars
  PROVE  TokenIInv'
<1>1. /\ tkOwner' = tkOwner /\ tkSupply' = tkSupply /\ tkBalances' = tkBalances
      /\ tkAllowance' = tkAllowance /\ tkNonces' = tkNonces /\ tkSigned' = tkSigned
      /\ tkGranted' = tkGranted /\ tkPulled' = tkPulled /\ tkUses' = tkUses
      /\ tkApprovals' = tkApprovals
  BY SMT DEF Token!Tick, tokenVars, Token!balanceVars, Token!grantVars, Token!signVars
<1>2. tkNow' \in 0 .. MaxNow
  <2>1. tkNow \in 0 .. MaxNow
    BY DEF TokenIInv, Token!TypeOK
  <2>2. CASE Token!Tick
    BY <2>1, <2>2, TokenValues DEF Token!Tick
  <2>3. CASE UNCHANGED tokenVars
    BY <2>1, <2>3 DEF tokenVars
  <2> QED
    BY <2>2, <2>3
<1> QED
  BY <1>1, <1>2
     DEF TokenIInv, Token!TypeOK, Token!Amount, Token!SupplyIsBalances, Token!PulledWithinGranted,
         PulledAlways, Token!OnePermitPerNonce, NoncesCount, TakenOf

\* The token keeps its invariant: the supply is what holders have, allowances
\* are taken once, and permits by their nonces (transferFrom, burnFrom, permit).
THEOREM TokenInvariant == SpecPart => []TokenIInv
<1>1. TokenIInv /\ [Token!Next]_tokenVars => TokenIInv'
  <2> SUFFICES ASSUME TokenIInv, [Token!Next]_tokenVars PROVE TokenIInv'
    OBVIOUS
  <2>1. ASSUME NEW h \in Holder, NEW to \in Holder, NEW v \in Token!Amount,
               \/ Token!Transfer(h, to, v)
               \/ h \in Signer /\ Token!Approve(h, to, v)
               \/ Token!BurnFrom(h, to, v)
               \/ \E s \in Holder : Token!TransferFrom(h, s, to, v)
        PROVE  TokenIInv'
    BY <2>1, StepOwn, StepApprove, StepSpend
  <2>2. ASSUME NEW h \in Holder, NEW v \in Token!Amount, Token!Mint(h, v) \/ Token!Burn(h, v)
        PROVE  TokenIInv'
    BY <2>2, StepOwn
  <2>3. ASSUME NEW h \in Holder, Token!TransferOwnership(h) PROVE TokenIInv'
    <3>1. 0 \in Token!Amount
      BY TokenValues DEF Token!Amount
    <3> QED
      BY <2>3, <3>1, StepOwn
  <2>4. ASSUME NEW h \in Signer, NEW s \in Holder, NEW v \in Token!Amount,
               NEW n \in 0 .. MaxApprovals, NEW d \in 0 .. MaxNow,
               Token!Sign([owner |-> h, spender |-> s, value |-> v, nonce |-> n, deadline |-> d])
        PROVE  TokenIInv'
    <3>1. [owner |-> h, spender |-> s, value |-> v, nonce |-> n, deadline |-> d] \in Token!Permit
      BY TokenValues DEF Token!Permit
    <3> QED
      BY <2>4, <3>1, StepSign
  <2>5. ASSUME NEW p \in tkSigned, Token!TakePermit(p) PROVE TokenIInv'
    BY <2>5, StepPermit
  <2>6. CASE Token!Tick \/ UNCHANGED tokenVars
    BY <2>6, StepClock
  <2> QED
    BY <2>1, <2>2, <2>3, <2>4, <2>5, <2>6 DEF Token!Next
<1>2. InitPart => TokenIInv
  BY InitToken DEF InitPart
<1>3. [NextPart]_allVars => [Token!Next]_tokenVars
  BY DEF NextPart, allVars
<1> QED
  BY <1>1, <1>2, <1>3, PTL DEF SpecPart

-----------------------------------------------------------------------------
(* The ERC-1155 editions.                                                  *)

\* The bounds of the editions.
LEMMA EditionValues == MaxUint \in Nat /\ MaxBatch \in Nat /\ IsFiniteSet(Holder)
BY TokenValues, EditionAssumption DEF Edition!SizeAssumption

\* The editions sum as everybody does.
LEMMA EditionCounts == \A f : Edition!SumFunction(f) = SumFunction(f)
BY DEF Edition!SumFunction, SumFunction, Edition!SumFunctionOnSet, SumFunctionOnSet,
       Edition!FoldFunctionOnSet, FoldFunctionOnSet, Edition!MapThenFoldSet, MapThenFoldSet

\* The inductive invariant.
EditionIInv == Edition!TypeOK /\ Edition!SupplyIsBalances

\* The numbers of editions that keep their invariant.
LEMMA EditionNumbers ==
  ASSUME EditionIInv
  PROVE  /\ edBalances \in [TokenId -> [Holder -> Nat]]
         /\ edBalances \in [TokenId -> [Holder -> Int]]
         /\ edSupply \in [TokenId -> Nat] /\ edSupply \in [TokenId -> 0 .. MaxUint]
         /\ \A id \in TokenId : edSupply[id] = SumFunction(edBalances[id])
BY EditionValues, EditionCounts
   DEF EditionIInv, Edition!TypeOK, Edition!Amount, Edition!SupplyIsBalances

\* A batch is a sequence of items.
LEMMA BatchIsSeq ==
  /\ \A b \in Edition!Batch : b \in Seq(Edition!Item)
  /\ \A item \in Edition!Item : <<item>> \in Seq(Edition!Item)
<1>1. ASSUME NEW b \in Edition!Batch PROVE b \in Seq(Edition!Item)
  <2>1. PICK n \in 0 .. MaxBatch : b \in [1 .. n -> Edition!Item]
    BY DEF Edition!Batch
  <2> QED
    BY <2>1, EditionValues
<1> QED
  BY <1>1

\* Its items have tokens and amounts.
LEMMA BatchItems ==
  ASSUME NEW b \in Seq(Edition!Item)
  PROVE  /\ Len(b) \in Nat /\ DOMAIN b = 1 .. Len(b)
         /\ \A i \in 1 .. Len(b) : b[i] \in Edition!Item /\ b[i].id \in TokenId
                                   /\ b[i].amount \in Nat
<1>1. Len(b) \in Nat /\ DOMAIN b = 1 .. Len(b)
  OBVIOUS
<1>2. \A i \in 1 .. Len(b) : b[i] \in Edition!Item
  OBVIOUS
<1> QED
  BY <1>1, <1>2, EditionValues DEF Edition!Item, Edition!Amount

\* The rounds of a batch transfer follow from each other.
MovesByRounds(rounds, from, to, b) ==
  /\ rounds[0] = [ok |-> TRUE, bal |-> edBalances]
  /\ \A n \in 1 .. Len(b) : rounds[n] = Edition!MoveOne(rounds[n - 1], from, to, b[n])

\* The loop of a batch transfer, as the recursive function it is.
LEMMA MoveRoundsDef ==
  ASSUME NEW from, NEW to, NEW b \in Seq(Edition!Item)
  PROVE  MovesByRounds(Edition!MoveRounds(from, to, b), from, to, b)
<1> DEFINE Start == [ok |-> TRUE, bal |-> edBalances]
           One(s, n) == Edition!MoveOne(s, from, to, b[n])
           Is(f, k) == f = [n \in 0 .. k |-> IF n = 0 THEN Start ELSE One(f[n - 1], n)]
           N == {k \in Nat : \E f : Is(f, k)}
<1> HIDE DEF Start, One
<1>1. 0 \in N
  <2> DEFINE f == [n \in 0 .. 0 |-> Start]
  <2>1. Is(f, 0)
    OBVIOUS
  <2> QED
    BY <2>1
<1>2. ASSUME NEW k \in N PROVE k + 1 \in N
  <2>1. k \in Nat /\ k + 1 \in Nat
    OBVIOUS
  <2>2. PICK f : Is(f, k)
    OBVIOUS
  <2> DEFINE g == [n \in 0 .. k + 1 |-> IF n = 0 THEN Start ELSE One(f[n - 1], n)]
  <2>3. \A n \in 0 .. k : f[n] = IF n = 0 THEN Start ELSE One(f[n - 1], n)
    BY <2>2
  <2>4. \A n \in 0 .. k : g[n] = f[n]
    BY <2>1, <2>3
  <2>5. \A n \in 0 .. k + 1 : n # 0 => n - 1 \in 0 .. k
    BY <2>1
  <2>6. Is(g, k + 1)
    BY <2>4, <2>5
  <2> QED
    BY <2>1, <2>6
<1>3. N = Nat
  <2>1. N \in SUBSET Nat
    OBVIOUS
  <2> HIDE DEF N
  <2> QED
    BY ONLY <1>1, <1>2, <2>1, Induction
<1> DEFINE st == Edition!MoveRounds(from, to, b)
<1>4. Is(st, Len(b))
  <2>1. st = CHOOSE f : Is(f, Len(b))
    BY DEF Edition!MoveRounds, Start, One
  <2>2. \E f : Is(f, Len(b))
    BY <1>3, BatchItems
  <2> HIDE DEF st, Is
  <2> QED
    BY <2>1, <2>2
<1> HIDE DEF st
<1>5. /\ st[0] = Start
      /\ \A n \in 1 .. Len(b) : st[n] = One(st[n - 1], n)
  BY <1>4, BatchItems
<1> QED
  BY <1>5 DEF st, Start, One, MovesByRounds

\* What the first n items of a batch hold of a token.
ItemsOf(b, id)    == [i \in DOMAIN b |-> IF b[i].id = id THEN b[i].amount ELSE 0]
FirstOf(b, n, id) == SumFunctionOnSet(ItemsOf(b, id), 1 .. n)

\* It starts at 0, grows by the amount of an item of the token and is in the
\* end what the batch holds.
LEMMA FirstItems ==
  ASSUME NEW b \in Seq(Edition!Item), NEW id \in TokenId
  PROVE  /\ \A n \in 0 .. Len(b) : FirstOf(b, n, id) \in Nat
         /\ FirstOf(b, 0, id) = 0
         /\ \A n \in 0 .. Len(b) : n + 1 <= Len(b) =>
              FirstOf(b, n + 1, id)
                = FirstOf(b, n, id) + IF b[n + 1].id = id THEN b[n + 1].amount ELSE 0
         /\ FirstOf(b, Len(b), id) = Edition!TotalOf(b, id)
<1> DEFINE f == ItemsOf(b, id)
<1>1. Len(b) \in Nat /\ DOMAIN f = 1 .. Len(b) /\ \A i \in 1 .. Len(b) : f[i] \in Nat
  BY BatchItems DEF ItemsOf
<1>2. \A i \in 1 .. Len(b) : f[i] = IF b[i].id = id THEN b[i].amount ELSE 0
  BY BatchItems DEF ItemsOf
<1>3. FirstOf(b, Len(b), id) = Edition!TotalOf(b, id)
  <2>1. Edition!TotalOf(b, id) = SumFunction(f)
    BY EditionCounts DEF Edition!TotalOf, ItemsOf
  <2> QED
    BY <1>1, <2>1 DEF FirstOf, SumFunction
<1> DEFINE F(n) == SumFunctionOnSet(f, 1 .. n)
<1>4. \A n \in Nat : F(n) = FirstOf(b, n, id)
  BY DEF FirstOf
<1> HIDE DEF f
<1>5. F(0) = 0
  <2>1. 1 .. 0 = {}
    OBVIOUS
  <2> QED
    BY <2>1, SumEmpty
<1>6. ASSUME NEW n \in 0 .. Len(b), n + 1 <= Len(b)
      PROVE  F(n + 1) = f[n + 1] + F(n) /\ F(n) \in Int
  <2>1. IsFiniteSet(1 .. n + 1) /\ n + 1 \in 1 .. n + 1 /\ n + 1 \in 1 .. Len(b)
    BY <1>1, <1>6, FS_Interval
  <2>2. \A i \in 1 .. n + 1 : f[i] \in Int
    BY <1>1, <1>6
  <2>3. (1 .. n + 1) \ {n + 1} = 1 .. n
    BY <1>1
  <2>4. PICK S, x : S = 1 .. n + 1 /\ x = n + 1
    OBVIOUS
  <2>5. IsFiniteSet(S) /\ x \in S /\ \A i \in S : f[i] \in Int
    BY ONLY <2>1, <2>2, <2>4
  <2>6. /\ SumFunctionOnSet(f, S) = f[x] + SumFunctionOnSet(f, S \ {x})
        /\ SumFunctionOnSet(f, S \ {x}) \in Int
    BY ONLY <2>5, SumElement
  <2>7. S \ {x} = 1 .. n
    BY <2>3, <2>4
  <2> QED
    BY ONLY <2>4, <2>6, <2>7
<1> HIDE DEF F
<1>7. \A n \in 0 .. Len(b) : F(n) \in Nat
  <2> DEFINE N == {n \in Nat : n <= Len(b) => F(n) \in Nat}
  <2>1. 0 \in N
    BY <1>5
  <2>2. ASSUME NEW n \in N PROVE n + 1 \in N
    <3> SUFFICES ASSUME n + 1 <= Len(b) PROVE F(n + 1) \in Nat
      OBVIOUS
    <3>1. n \in 0 .. Len(b) /\ n + 1 \in 1 .. Len(b) /\ F(n) \in Nat
      BY <1>1
    <3>2. f[n + 1] \in Nat /\ F(n + 1) = f[n + 1] + F(n)
      BY <1>1, <1>6, <3>1
    <3> QED
      BY <3>1, <3>2
  <2>3. N = Nat
    <3>1. N \in SUBSET Nat
      OBVIOUS
    <3> HIDE DEF N
    <3> QED
      BY ONLY <2>1, <2>2, <3>1, Induction
  <2> QED
    BY <1>1, <2>3
<1>8. ASSUME NEW n \in 0 .. Len(b), n + 1 <= Len(b)
      PROVE  F(n + 1) = F(n) + IF b[n + 1].id = id THEN b[n + 1].amount ELSE 0
  <2>1. n + 1 \in 1 .. Len(b) /\ n \in Nat
    BY <1>1, <1>8
  <2>2. F(n + 1) = f[n + 1] + F(n) /\ F(n) \in Int /\ f[n + 1] \in Int
    BY <1>1, <1>6, <1>8, <2>1
  <2>3. F(n + 1) = F(n) + f[n + 1]
    BY <2>2
  <2> QED
    BY <1>2, <2>1, <2>3
<1> QED
  BY <1>1, <1>3, <1>4, <1>5, <1>7, <1>8

\* After n rounds: the giver has less what those items hold of each token and
\* the taker has it more, and the rounds went well when the giver had it all.
MovedSoFar(st, from, to, b, n) ==
  /\ st[n].bal \in [TokenId -> [Holder -> Int]]
  /\ \A id \in TokenId :
       /\ st[n].bal[id][from] = edBalances[id][from] - FirstOf(b, n, id)
       /\ st[n].bal[id][to] = edBalances[id][to] + FirstOf(b, n, id)
       /\ \A h \in Holder : h # from /\ h # to => st[n].bal[id][h] = edBalances[id][h]
  /\ st[n].ok <=> \A id \in TokenId : FirstOf(b, n, id) <= edBalances[id][from]
  /\ st[n].ok \in BOOLEAN

\* A round moves one item more.
LEMMA MoveRound ==
  ASSUME EditionIInv, NEW from \in Holder, NEW to \in Holder, from # to,
         NEW b \in Seq(Edition!Item), NEW n \in 0 .. Len(b), n + 1 <= Len(b), NEW st,
         st[n + 1] = Edition!MoveOne(st[n], from, to, b[n + 1]),
         MovedSoFar(st, from, to, b, n)
  PROVE  MovedSoFar(st, from, to, b, n + 1)
<1>1. n + 1 \in 1 .. Len(b) /\ n + 1 \in 0 .. Len(b) /\ n \in Nat
  BY BatchItems
<1> DEFINE i == b[n + 1].id
           v == b[n + 1].amount
           old == st[n].bal
           new == st[n + 1].bal
<1>2. i \in TokenId /\ v \in Nat
  BY <1>1, BatchItems
<1>3. /\ new = [[old EXCEPT ![i][from] = @ - v] EXCEPT ![i][to] = @ + v]
      /\ st[n + 1].ok = (st[n].ok /\ old[i][from] >= v)
  <2>1. st[n + 1] = [ok  |-> st[n].ok /\ old[i][from] >= v,
                     bal |-> [[old EXCEPT ![i][from] = @ - v] EXCEPT ![i][to] = @ + v]]
    BY DEF Edition!MoveOne
  <2> HIDE DEF i, v, old
  <2> QED
    BY <2>1
<1>4. old \in [TokenId -> [Holder -> Int]]
  BY DEF MovedSoFar
<1>5. ASSUME NEW id \in TokenId
      PROVE  /\ FirstOf(b, n, id) \in Nat /\ FirstOf(b, n + 1, id) \in Nat
             /\ edBalances[id][from] \in Int /\ edBalances[id][to] \in Int
             /\ FirstOf(b, n + 1, id) = FirstOf(b, n, id) + IF i = id THEN v ELSE 0
  BY <1>1, FirstItems, EditionNumbers
<1> HIDE DEF i, v, old, new
<1>6. /\ new \in [TokenId -> [Holder -> Int]]
      /\ new[i][from] = old[i][from] - v /\ new[i][to] = old[i][to] + v
      /\ \A h \in Holder : h # from /\ h # to => new[i][h] = old[i][h]
      /\ \A id \in TokenId : id # i => new[id] = old[id]
  BY <1>2, <1>3, <1>4
<1>7. ASSUME NEW id \in TokenId
      PROVE  /\ old[id][from] = edBalances[id][from] - FirstOf(b, n, id)
             /\ old[id][to] = edBalances[id][to] + FirstOf(b, n, id)
             /\ \A h \in Holder : h # from /\ h # to => old[id][h] = edBalances[id][h]
  BY DEF MovedSoFar, old
<1>8. ASSUME NEW id \in TokenId
      PROVE  /\ new[id][from] = edBalances[id][from] - FirstOf(b, n + 1, id)
             /\ new[id][to] = edBalances[id][to] + FirstOf(b, n + 1, id)
             /\ \A h \in Holder : h # from /\ h # to => new[id][h] = edBalances[id][h]
  <2>1. /\ FirstOf(b, n, id) \in Nat /\ edBalances[id][from] \in Int /\ edBalances[id][to] \in Int
        /\ FirstOf(b, n + 1, id) = FirstOf(b, n, id) + IF i = id THEN v ELSE 0
    BY <1>5
  <2>2. \A h \in Holder : h # from /\ h # to => new[id][h] = old[id][h]
    BY <1>6
  <2>3. \A h \in Holder : h # from /\ h # to => old[id][h] = edBalances[id][h]
    BY <1>7
  <2>4. /\ new[id][from] = old[id][from] - IF i = id THEN v ELSE 0
        /\ new[id][to] = old[id][to] + IF i = id THEN v ELSE 0
    <3>1. old[id][from] \in Int /\ old[id][to] \in Int
      BY <1>4
    <3>2. CASE id = i
      BY <1>6, <3>2
    <3>3. CASE id # i
      BY <1>6, <3>1, <3>3
    <3> QED
      BY <3>2, <3>3
  <2>5. /\ old[id][from] = edBalances[id][from] - FirstOf(b, n, id)
        /\ old[id][to] = edBalances[id][to] + FirstOf(b, n, id)
    BY <1>7
  <2>6. /\ new[id][from] = edBalances[id][from] - FirstOf(b, n + 1, id)
        /\ new[id][to] = edBalances[id][to] + FirstOf(b, n + 1, id)
    BY ONLY <1>2, <2>1, <2>4, <2>5
  <2> QED
    BY <2>2, <2>3, <2>6
<1>9. st[n + 1].ok <=> \A id \in TokenId : FirstOf(b, n + 1, id) <= edBalances[id][from]
  <2>1. st[n].ok <=> \A id \in TokenId : FirstOf(b, n, id) <= edBalances[id][from]
    BY DEF MovedSoFar
  <2>2. old[i][from] >= v <=> FirstOf(b, n + 1, i) <= edBalances[i][from]
    BY <1>2, <1>5, <1>7
  <2>3. \A id \in TokenId : id # i => FirstOf(b, n + 1, id) = FirstOf(b, n, id)
    BY <1>5
  <2>4. FirstOf(b, n + 1, i) <= edBalances[i][from] => FirstOf(b, n, i) <= edBalances[i][from]
    BY <1>2, <1>5
  <2> QED
    BY ONLY <1>2, <1>3, <2>1, <2>2, <2>3, <2>4
<1>10. st[n + 1].ok \in BOOLEAN
  BY <1>3 DEF MovedSoFar
<1> QED
  BY <1>6, <1>8, <1>9, <1>10 DEF MovedSoFar, new

\* A batch that goes from one holder to another.
LEMMA MoveTotals ==
  ASSUME EditionIInv, NEW from \in Holder, NEW to \in Holder, from # to,
         NEW b \in Seq(Edition!Item)
  PROVE  MovedSoFar(Edition!MoveRounds(from, to, b), from, to, b, Len(b))
<1> DEFINE st == Edition!MoveRounds(from, to, b)
           N == {n \in Nat : n <= Len(b) => MovedSoFar(st, from, to, b, n)}
<1>0. MovesByRounds(st, from, to, b)
  BY MoveRoundsDef
<1> HIDE DEF st
<1>1. /\ st[0] = [ok |-> TRUE, bal |-> edBalances]
      /\ \A n \in 1 .. Len(b) : st[n] = Edition!MoveOne(st[n - 1], from, to, b[n])
  BY <1>0 DEF MovesByRounds
<1>2. 0 \in N
  <2>1. st[0].ok = TRUE /\ st[0].bal = edBalances
    BY <1>1
  <2>2. \A id \in TokenId : FirstOf(b, 0, id) = 0
    BY FirstItems
  <2>3. ASSUME NEW id \in TokenId
        PROVE  /\ edBalances[id][from] = edBalances[id][from] - FirstOf(b, 0, id)
               /\ edBalances[id][to] = edBalances[id][to] + FirstOf(b, 0, id)
               /\ FirstOf(b, 0, id) <= edBalances[id][from]
    <3>1. edBalances[id][from] \in Nat /\ edBalances[id][to] \in Nat
      BY EditionNumbers
    <3> QED
      BY <2>2, <3>1
  <2>4. st[0].bal \in [TokenId -> [Holder -> Int]]
    BY <2>1, EditionNumbers
  <2>5. MovedSoFar(st, from, to, b, 0)
    BY ONLY <2>1, <2>3, <2>4 DEF MovedSoFar
  <2> QED
    BY <2>5
<1>3. ASSUME NEW n \in N PROVE n + 1 \in N
  <2> SUFFICES ASSUME n + 1 <= Len(b) PROVE MovedSoFar(st, from, to, b, n + 1)
    OBVIOUS
  <2>1. n \in 0 .. Len(b) /\ n + 1 \in 1 .. Len(b) /\ (n + 1) - 1 = n
    BY BatchItems
  <2>2. MovedSoFar(st, from, to, b, n)
    BY <2>1
  <2>3. st[n + 1] = Edition!MoveOne(st[n], from, to, b[n + 1])
    BY <1>1, <2>1
  <2> QED
    BY <2>1, <2>2, <2>3, MoveRound
<1>4. N = Nat
  <2>1. N \in SUBSET Nat
    OBVIOUS
  <2> HIDE DEF N
  <2> QED
    BY ONLY <1>2, <1>3, <2>1, Induction
<1>5. MovedSoFar(st, from, to, b, Len(b))
  BY <1>4, BatchItems
<1> QED
  BY <1>5 DEF st

\* A batch that goes to its holder changes nothing.
LEMMA MoveToSelf ==
  ASSUME EditionIInv, NEW from \in Holder, NEW b \in Seq(Edition!Item)
  PROVE  Edition!MoveAll(from, from, b).bal = edBalances
<1> DEFINE st == Edition!MoveRounds(from, from, b)
           N == {n \in Nat : n <= Len(b) => st[n].bal = edBalances}
<1>0. MovesByRounds(st, from, from, b)
  BY MoveRoundsDef
<1> HIDE DEF st
<1>1. /\ st[0] = [ok |-> TRUE, bal |-> edBalances]
      /\ \A n \in 1 .. Len(b) : st[n] = Edition!MoveOne(st[n - 1], from, from, b[n])
  BY <1>0 DEF MovesByRounds
<1>2. 0 \in N
  BY <1>1
<1>3. ASSUME NEW n \in N PROVE n + 1 \in N
  <2> SUFFICES ASSUME n + 1 <= Len(b) PROVE st[n + 1].bal = edBalances
    OBVIOUS
  <2>1. n + 1 \in 1 .. Len(b) /\ (n + 1) - 1 = n /\ st[n].bal = edBalances
    BY BatchItems
  <2>2. st[n + 1] = Edition!MoveOne(st[n], from, from, b[n + 1])
    BY <1>1, <2>1
  <2> DEFINE i == b[n + 1].id
             v == b[n + 1].amount
             new == st[n + 1].bal
  <2>3. i \in TokenId /\ v \in Nat
    BY <2>1, BatchItems
  <2>4. new = [[edBalances EXCEPT ![i][from] = @ - v] EXCEPT ![i][from] = @ + v]
    BY <2>1, <2>2 DEF Edition!MoveOne
  <2> HIDE DEF i, v, new
  <2>5. edBalances \in [TokenId -> [Holder -> Int]] /\ edBalances[i][from] \in Int
    BY <2>3, EditionNumbers
  <2>6. (edBalances[i][from] - v) + v = edBalances[i][from]
    BY <2>3, <2>5
  <2>7. new \in [TokenId -> [Holder -> Int]]
    BY <2>3, <2>4, <2>5
  <2>8. ASSUME NEW id \in TokenId, NEW h \in Holder PROVE new[id][h] = edBalances[id][h]
    BY <2>3, <2>4, <2>5, <2>6
  <2>9. \A id \in TokenId : new[id] = edBalances[id]
    <3> TAKE id \in TokenId
    <3>1. new[id] \in [Holder -> Int] /\ edBalances[id] \in [Holder -> Int]
      BY <2>5, <2>7
    <3> QED
      BY <2>8, <3>1
  <2>10. new = edBalances
    BY <2>5, <2>7, <2>9
  <2> QED
    BY <2>10 DEF new
<1>4. N = Nat
  <2>1. N \in SUBSET Nat
    OBVIOUS
  <2> HIDE DEF N
  <2> QED
    BY ONLY <1>2, <1>3, <2>1, Induction
<1>5. st[Len(b)].bal = edBalances
  BY <1>4, BatchItems
<1> QED
  BY <1>5 DEF st, Edition!MoveAll

\* Balances of editions whose sums are the supply are in range.
LEMMA EditionFits ==
  ASSUME EditionIInv, edBalances' \in [TokenId -> [Holder -> Nat]],
         \A id \in TokenId : edSupply'[id] = SumFunction(edBalances'[id]),
         edSupply' \in [TokenId -> 0 .. MaxUint],
         edOwner' \in Holder, UNCHANGED edOperators
  PROVE  EditionIInv'
<1>1. ASSUME NEW id \in TokenId PROVE edBalances'[id] \in [Holder -> 0 .. MaxUint]
  <2>1. edBalances'[id] \in [Holder -> Nat] /\ SumFunction(edBalances'[id]) <= MaxUint
    BY EditionValues
  <2> QED
    BY <2>1, BalancesFit
<1>2. edBalances' \in [TokenId -> [Holder -> 0 .. MaxUint]]
  BY <1>1
<1>3. Edition!TypeOK'
  BY <1>2 DEF EditionIInv, Edition!TypeOK, Edition!Amount
<1>4. Edition!SupplyIsBalances'
  BY EditionCounts DEF Edition!SupplyIsBalances
<1> QED
  BY <1>3, <1>4 DEF EditionIInv

\* A batch, whoever it goes to, keeps every balance in range and every sum.
LEMMA EditionMove ==
  ASSUME EditionIInv, NEW caller, NEW from \in Holder, NEW to \in Holder,
         NEW b \in Seq(Edition!Item), Edition!SafeBatchTransferFrom(caller, from, to, b)
  PROVE  EditionIInv'
<1> DEFINE st == Edition!MoveRounds(from, to, b)
           n == Len(b)
<1>1. /\ st[n].ok /\ edBalances' = st[n].bal
      /\ edOwner' = edOwner /\ edSupply' = edSupply /\ edOperators' = edOperators
  BY DEF Edition!SafeBatchTransferFrom, Edition!MoveAll
<1>2. edOwner \in Holder
  BY DEF EditionIInv, Edition!TypeOK
<1>3. CASE from = to
  <2>1. edBalances' = edBalances
    BY <1>1, <1>3, MoveToSelf DEF Edition!MoveAll
  <2> QED
    BY <1>1, <1>2, <2>1, EditionNumbers, EditionFits
<1>4. CASE from # to
  <2>1. MovedSoFar(st, from, to, b, n)
    BY <1>4, MoveTotals
  <2> HIDE DEF st, n
  <2>2. /\ edBalances' \in [TokenId -> [Holder -> Int]]
        /\ \A id \in TokenId :
             /\ edBalances'[id][from] = edBalances[id][from] - FirstOf(b, n, id)
             /\ edBalances'[id][to] = edBalances[id][to] + FirstOf(b, n, id)
             /\ \A h \in Holder : h # from /\ h # to => edBalances'[id][h] = edBalances[id][h]
             /\ FirstOf(b, n, id) <= edBalances[id][from]
    BY <1>1, <2>1 DEF MovedSoFar
  <2>3. ASSUME NEW id \in TokenId PROVE FirstOf(b, n, id) \in Nat
    BY FirstItems, BatchItems DEF n
  <2>4. ASSUME NEW id \in TokenId
        PROVE  /\ SumFunction(edBalances'[id]) = SumFunction(edBalances[id])
               /\ edBalances'[id] \in [Holder -> Nat]
    <3> DEFINE f == edBalances[id]
               g == edBalances'[id]
               v == FirstOf(b, n, id)
    <3>1. v \in Nat /\ v \in Int
      BY <2>3
    <3>2. f \in [Holder -> Nat] /\ f \in [Holder -> Int] /\ g \in [Holder -> Int]
      BY <2>2, EditionNumbers
    <3>3. /\ g[from] = f[from] - v /\ g[to] = f[to] + v /\ v <= f[from]
          /\ \A h \in Holder : h # from /\ h # to => g[h] = f[h]
      BY <2>2
    <3> HIDE DEF f, g, v
    <3>4. SumFunction(g) = SumFunction(f)
      <4>1. f[from] \in Int /\ f[to] \in Int /\ g[from] \in Int /\ g[to] \in Int
        BY <3>2
      <4>2. /\ from = to => g[from] = f[from]
            /\ from # to => g[from] = f[from] - v /\ g[to] = f[to] + v
        BY <1>4, <3>3
      <4>3. \A h \in Holder : h # from /\ h # to => g[h] = f[h]
        BY <3>3
      <4>4. f \in [Holder -> Int] /\ g \in [Holder -> Int] /\ v \in Int /\ IsFiniteSet(Holder)
        BY <3>1, <3>2, EditionValues
      <4> QED
        BY ONLY <4>1, <4>2, <4>3, <4>4, SumMoved, from \in Holder, to \in Holder
    <3>5. \A h \in Holder : g[h] \in Nat
      <4> TAKE h \in Holder
      <4>1. f[from] \in Nat /\ f[to] \in Nat /\ f[h] \in Nat
        BY <3>2
      <4>2. g[from] \in Nat /\ g[to] \in Nat
        BY <3>1, <3>3, <4>1
      <4> QED
        BY <3>3, <4>1, <4>2
    <3>6. g \in [Holder -> Nat]
      BY <3>2, <3>5
    <3> QED
      BY <3>4, <3>6 DEF f, g
  <2>5. edBalances' \in [TokenId -> [Holder -> Nat]]
    BY <2>2, <2>4
  <2> QED
    BY <1>1, <1>2, <2>4, <2>5, EditionNumbers, EditionFits
<1> QED
  BY <1>3, <1>4

\* How the sums change with one holder's balance of one token.
LEMMA OneBalance ==
  ASSUME NEW old \in [TokenId -> [Holder -> Int]], NEW new \in [TokenId -> [Holder -> Int]],
         NEW i \in TokenId, NEW h \in Holder,
         \A k \in Holder : k # h => new[i][k] = old[i][k],
         \A id \in TokenId : id # i => new[id] = old[id]
  PROVE  /\ SumFunction(new[i]) = SumFunction(old[i]) + (new[i][h] - old[i][h])
         /\ \A id \in TokenId : id # i => SumFunction(new[id]) = SumFunction(old[id])
<1> DEFINE f == old[i]
           g == new[i]
<1>1. f \in [Holder -> Int] /\ g \in [Holder -> Int] /\ IsFiniteSet(Holder)
  BY EditionValues
<1>2. SumFunction(f) \in Int /\ f[h] \in Int /\ g[h] \in Int
  BY <1>1, SumOfFunction
<1>3. \A k \in Holder : k # h => g[k] = f[k]
  OBVIOUS
<1> HIDE DEF f, g
<1>4. SumFunction(g) = SumFunction(f) + (g[h] - f[h])
  BY ONLY <1>1, <1>2, <1>3, SumChange, h \in Holder
<1> QED
  BY <1>4 DEF f, g

\* The rounds of mintBatch follow from each other.
MintsByRounds(rounds, to, b) ==
  /\ rounds[0] = [ok |-> TRUE, bal |-> edBalances, supply |-> edSupply]
  /\ \A n \in 1 .. Len(b) : rounds[n] = Edition!MintOne(rounds[n - 1], to, b[n])

\* The loop of mintBatch, as the recursive function it is.
LEMMA MintRoundsDef ==
  ASSUME NEW to, NEW b \in Seq(Edition!Item)
  PROVE  MintsByRounds(Edition!MintRounds(to, b), to, b)
<1> DEFINE Start == [ok |-> TRUE, bal |-> edBalances, supply |-> edSupply]
           One(s, n) == Edition!MintOne(s, to, b[n])
           Is(f, k) == f = [n \in 0 .. k |-> IF n = 0 THEN Start ELSE One(f[n - 1], n)]
           N == {k \in Nat : \E f : Is(f, k)}
<1> HIDE DEF Start, One
<1>1. 0 \in N
  <2> DEFINE f == [n \in 0 .. 0 |-> Start]
  <2>1. Is(f, 0)
    OBVIOUS
  <2> QED
    BY <2>1
<1>2. ASSUME NEW k \in N PROVE k + 1 \in N
  <2>1. k \in Nat /\ k + 1 \in Nat
    OBVIOUS
  <2>2. PICK f : Is(f, k)
    OBVIOUS
  <2> DEFINE g == [n \in 0 .. k + 1 |-> IF n = 0 THEN Start ELSE One(f[n - 1], n)]
  <2>3. \A n \in 0 .. k : f[n] = IF n = 0 THEN Start ELSE One(f[n - 1], n)
    BY <2>2
  <2>4. \A n \in 0 .. k : g[n] = f[n]
    BY <2>1, <2>3
  <2>5. \A n \in 0 .. k + 1 : n # 0 => n - 1 \in 0 .. k
    BY <2>1
  <2>6. Is(g, k + 1)
    BY <2>4, <2>5
  <2> QED
    BY <2>1, <2>6
<1>3. N = Nat
  <2>1. N \in SUBSET Nat
    OBVIOUS
  <2> HIDE DEF N
  <2> QED
    BY ONLY <1>1, <1>2, <2>1, Induction
<1> DEFINE st == Edition!MintRounds(to, b)
<1>4. Is(st, Len(b))
  <2>1. st = CHOOSE f : Is(f, Len(b))
    BY DEF Edition!MintRounds, Start, One
  <2>2. \E f : Is(f, Len(b))
    BY <1>3, BatchItems
  <2> HIDE DEF st, Is
  <2> QED
    BY <2>1, <2>2
<1> HIDE DEF st
<1>5. /\ st[0] = Start
      /\ \A n \in 1 .. Len(b) : st[n] = One(st[n - 1], n)
  BY <1>4, BatchItems
<1> QED
  BY <1>5 DEF st, Start, One, MintsByRounds

\* After n rounds the supplies are still what the holders have, and they fit
\* when the rounds went well.
MintedSoFar(st, n) ==
  /\ st[n].bal \in [TokenId -> [Holder -> Nat]]
  /\ st[n].supply \in [TokenId -> Nat]
  /\ \A id \in TokenId : st[n].supply[id] = SumFunction(st[n].bal[id])
  /\ st[n].ok => \A id \in TokenId : st[n].supply[id] <= MaxUint

\* A round mints one item more.
LEMMA MintRound ==
  ASSUME NEW to \in Holder, NEW b \in Seq(Edition!Item), NEW n \in 0 .. Len(b), n + 1 <= Len(b),
         NEW st, st[n + 1] = Edition!MintOne(st[n], to, b[n + 1]), MintedSoFar(st, n)
  PROVE  MintedSoFar(st, n + 1)
<1>1. n + 1 \in 1 .. Len(b)
  BY BatchItems
<1> DEFINE i == b[n + 1].id
           v == b[n + 1].amount
           old == st[n].bal
           sup == st[n].supply
<1>2. i \in TokenId /\ v \in Nat
  BY <1>1, BatchItems
<1>3. st[n + 1] = [ok     |-> st[n].ok /\ old[i][to] + v <= MaxUint /\ sup[i] + v <= MaxUint,
                   bal    |-> [old EXCEPT ![i][to] = old[i][to] + v],
                   supply |-> [sup EXCEPT ![i] = sup[i] + v]]
  BY DEF Edition!MintOne, Edition!Fits
<1>4. /\ old \in [TokenId -> [Holder -> Nat]] /\ sup \in [TokenId -> Nat]
      /\ \A id \in TokenId : sup[id] = SumFunction(old[id])
      /\ st[n].ok => \A id \in TokenId : sup[id] <= MaxUint
  BY DEF MintedSoFar
<1> DEFINE new == st[n + 1].bal
           more == st[n + 1].supply
<1> HIDE DEF i, v, old, sup
<1>5. /\ new = [old EXCEPT ![i][to] = old[i][to] + v]
      /\ more = [sup EXCEPT ![i] = sup[i] + v]
      /\ st[n + 1].ok => st[n].ok /\ sup[i] + v <= MaxUint
  <2>1. new = [old EXCEPT ![i][to] = old[i][to] + v]
    BY ONLY <1>3
  <2>2. more = [sup EXCEPT ![i] = sup[i] + v]
    BY ONLY <1>3
  <2>3. st[n + 1].ok = (st[n].ok /\ old[i][to] + v <= MaxUint /\ sup[i] + v <= MaxUint)
    BY ONLY <1>3
  <2> QED
    BY <2>1, <2>2, <2>3
<1> HIDE DEF new, more
<1>6. /\ new \in [TokenId -> [Holder -> Nat]] /\ more \in [TokenId -> Nat]
      /\ new[i][to] = old[i][to] + v
      /\ \A k \in Holder : k # to => new[i][k] = old[i][k]
      /\ \A id \in TokenId : id # i => new[id] = old[id] /\ more[id] = sup[id]
      /\ more[i] = sup[i] + v
  BY <1>2, <1>4, <1>5
<1>7. /\ SumFunction(new[i]) = SumFunction(old[i]) + v
      /\ \A id \in TokenId : id # i => SumFunction(new[id]) = SumFunction(old[id])
  <2>1. old \in [TokenId -> [Holder -> Int]] /\ new \in [TokenId -> [Holder -> Int]]
    BY <1>4, <1>6
  <2>2. \A k \in Holder : k # to => new[i][k] = old[i][k]
    BY <1>6
  <2>3. \A id \in TokenId : id # i => new[id] = old[id]
    BY <1>6
  <2>4. /\ SumFunction(new[i]) = SumFunction(old[i]) + (new[i][to] - old[i][to])
        /\ \A id \in TokenId : id # i => SumFunction(new[id]) = SumFunction(old[id])
    BY ONLY <1>2, <2>1, <2>2, <2>3, OneBalance, to \in Holder
  <2>5. sup[i] = SumFunction(old[i]) /\ sup[i] \in Int /\ old[i][to] \in Int
    BY <1>2, <1>4
  <2> QED
    BY <1>2, <1>6, <2>4, <2>5
<1>8. \A id \in TokenId : more[id] = SumFunction(new[id])
  BY <1>2, <1>4, <1>6, <1>7
<1>9. st[n + 1].ok => \A id \in TokenId : more[id] <= MaxUint
  BY <1>4, <1>5, <1>6
<1> QED
  BY <1>6, <1>8, <1>9 DEF MintedSoFar, new, more

\* The owner mints a batch.
LEMMA EditionMint ==
  ASSUME EditionIInv, NEW to \in Holder, NEW b \in Seq(Edition!Item), Edition!MintBatch(to, b)
  PROVE  EditionIInv'
<1> DEFINE st == Edition!MintRounds(to, b)
           N == {n \in Nat : n <= Len(b) => MintedSoFar(st, n)}
<1>1. MintsByRounds(st, to, b)
  BY MintRoundsDef
<1>2. /\ st[Len(b)].ok /\ edBalances' = st[Len(b)].bal /\ edSupply' = st[Len(b)].supply
      /\ edOwner' = edOwner /\ edOperators' = edOperators
  BY DEF Edition!MintBatch
<1> HIDE DEF st
<1>3. 0 \in N
  <2>1. st[0] = [ok |-> TRUE, bal |-> edBalances, supply |-> edSupply]
    BY <1>1 DEF MintsByRounds
  <2>2. st[0].bal = edBalances /\ st[0].supply = edSupply
    BY <2>1
  <2>3. \A id \in TokenId : edSupply[id] <= MaxUint
    BY EditionNumbers, EditionValues
  <2> QED
    BY <2>2, <2>3, EditionNumbers DEF MintedSoFar
<1>4. ASSUME NEW n \in N PROVE n + 1 \in N
  <2> SUFFICES ASSUME n + 1 <= Len(b) PROVE MintedSoFar(st, n + 1)
    OBVIOUS
  <2>1. n \in 0 .. Len(b) /\ n + 1 \in 1 .. Len(b) /\ (n + 1) - 1 = n
    BY BatchItems
  <2>2. MintedSoFar(st, n)
    BY <2>1
  <2>3. st[n + 1] = Edition!MintOne(st[n], to, b[n + 1])
    BY <1>1, <2>1 DEF MintsByRounds
  <2> QED
    BY <2>1, <2>2, <2>3, MintRound
<1>5. N = Nat
  <2>1. N \in SUBSET Nat
    OBVIOUS
  <2> HIDE DEF N
  <2> QED
    BY ONLY <1>3, <1>4, <2>1, Induction
<1>6. MintedSoFar(st, Len(b))
  BY <1>5, BatchItems
<1>7. /\ edBalances' \in [TokenId -> [Holder -> Nat]]
      /\ edSupply' \in [TokenId -> Nat]
      /\ \A id \in TokenId : edSupply'[id] = SumFunction(edBalances'[id])
      /\ \A id \in TokenId : edSupply'[id] <= MaxUint
  BY <1>2, <1>6 DEF MintedSoFar
<1>8. edSupply' \in [TokenId -> 0 .. MaxUint]
  <2>1. \A id \in TokenId : edSupply'[id] \in 0 .. MaxUint
    BY <1>7, EditionValues
  <2> QED
    BY <1>7, <2>1
<1>9. edOwner' \in Holder
  BY <1>2 DEF EditionIInv, Edition!TypeOK
<1> QED
  BY <1>2, <1>7, <1>8, <1>9, EditionFits

\* A holder, or an operator of its, burns.
LEMMA EditionBurn ==
  ASSUME EditionIInv, NEW caller, NEW h \in Holder, NEW item \in Edition!Item,
         Edition!Burn(caller, h, item)
  PROVE  EditionIInv'
<1> DEFINE i == item.id
           v == item.amount
<1>1. i \in TokenId /\ v \in Nat
  BY EditionValues DEF Edition!Item, Edition!Amount
<1>2. /\ edBalances[i][h] >= v
      /\ edBalances' = [edBalances EXCEPT ![i][h] = @ - v]
      /\ edSupply' = [edSupply EXCEPT ![i] = @ - v]
      /\ edOwner' = edOwner /\ edOperators' = edOperators
  BY DEF Edition!Burn, Edition!Burned
<1> HIDE DEF i, v
<1>3. /\ edBalances' \in [TokenId -> [Holder -> Nat]]
      /\ edBalances'[i][h] = edBalances[i][h] - v
      /\ \A k \in Holder : k # h => edBalances'[i][k] = edBalances[i][k]
      /\ \A id \in TokenId : id # i => edBalances'[id] = edBalances[id] /\ edSupply'[id] = edSupply[id]
      /\ edSupply'[i] = edSupply[i] - v /\ edSupply' \in [TokenId -> Int]
  <2>1. edBalances[i][h] \in Nat /\ edBalances[i][h] - v \in Nat
    BY <1>1, <1>2, EditionNumbers
  <2> QED
    BY <1>1, <1>2, <2>1, EditionNumbers
<1>4. /\ SumFunction(edBalances'[i]) = SumFunction(edBalances[i])
                                        + (edBalances'[i][h] - edBalances[i][h])
      /\ \A id \in TokenId : id # i => SumFunction(edBalances'[id]) = SumFunction(edBalances[id])
  <2>1. PICK old, new : old = edBalances /\ new = edBalances'
    OBVIOUS
  <2>2. old \in [TokenId -> [Holder -> Int]] /\ new \in [TokenId -> [Holder -> Int]]
    BY <1>3, <2>1, EditionNumbers
  <2>3. \A k \in Holder : k # h => new[i][k] = old[i][k]
    BY <1>3, <2>1
  <2>4. \A id \in TokenId : id # i => new[id] = old[id]
    BY <1>3, <2>1
  <2>5. /\ SumFunction(new[i]) = SumFunction(old[i]) + (new[i][h] - old[i][h])
        /\ \A id \in TokenId : id # i => SumFunction(new[id]) = SumFunction(old[id])
    BY ONLY <1>1, <2>2, <2>3, <2>4, OneBalance, h \in Holder
  <2> QED
    BY <2>1, <2>5
<1>5. ASSUME NEW id \in TokenId
      PROVE  /\ edSupply'[id] = SumFunction(edBalances'[id])
             /\ edSupply'[id] \in 0 .. MaxUint
  <2>1. edSupply[id] = SumFunction(edBalances[id]) /\ edSupply[id] \in 0 .. MaxUint
    BY EditionNumbers
  <2>2. edSupply'[id] = SumFunction(edBalances'[id])
    <3>1. CASE id # i
      BY <1>3, <1>4, <2>1, <3>1
    <3>2. CASE id = i
      <4>1. edBalances[i][h] \in Int
        BY <1>1, EditionNumbers
      <4> QED
        BY <1>1, <1>3, <1>4, <2>1, <3>2, <4>1
    <3> QED
      BY <3>1, <3>2
  <2>3. edSupply'[id] <= edSupply[id]
    BY <1>1, <1>3, <2>1
  <2>4. SumFunction(edBalances'[id]) \in Nat
    <3>1. edBalances'[id] \in [Holder -> Nat]
      BY <1>3
    <3> QED
      BY <3>1, EditionValues, SumNatural
  <2> QED
    BY <2>1, <2>2, <2>3, <2>4, EditionValues
<1>6. edSupply' \in [TokenId -> 0 .. MaxUint]
  BY <1>3, <1>5
<1>7. edOwner' \in Holder
  BY <1>2 DEF EditionIInv, Edition!TypeOK
<1> QED
  BY <1>2, <1>3, <1>5, <1>6, <1>7, EditionFits

\* Operators and the owner change without touching a balance.
LEMMA EditionRoles ==
  ASSUME EditionIInv, NEW h \in Holder, NEW o \in Holder, NEW approved \in BOOLEAN,
         Edition!SetApprovalForAll(h, o, approved) \/ Edition!TransferOwnership(h)
         \/ UNCHANGED editionVars
  PROVE  EditionIInv'
<1>1. edBalances' = edBalances /\ edSupply' = edSupply
  BY DEF Edition!SetApprovalForAll, Edition!TransferOwnership, editionVars
<1>2. /\ edOwner' \in Holder /\ edOperators' \in [Holder -> SUBSET Holder]
      /\ \A k \in Holder : k \notin edOperators'[k]
  BY DEF Edition!SetApprovalForAll, Edition!TransferOwnership, editionVars, EditionIInv,
         Edition!TypeOK
<1> QED
  BY <1>1, <1>2 DEF EditionIInv, Edition!TypeOK, Edition!SupplyIsBalances

\* What the constructor may mint is all there is at first.
LEMMA InitEdition == Edition!Init => EditionIInv
<1> SUFFICES ASSUME Edition!Init PROVE EditionIInv
  OBVIOUS
<1>1. PICK i \in TokenId, receiver \in Holder, v \in Edition!Amount :
        /\ edOwner \in Holder
        /\ edBalances = [t \in TokenId |-> [h \in Holder |->
                          IF t = i /\ h = receiver THEN v ELSE 0]]
        /\ edSupply = [t \in TokenId |-> IF t = i THEN v ELSE 0]
        /\ edOperators = [h \in Holder |-> {}]
  BY DEF Edition!Init
<1>2. v \in Nat /\ v \in 0 .. MaxUint /\ 0 \in 0 .. MaxUint
  BY EditionValues DEF Edition!Amount
<1>3. Edition!TypeOK
  BY <1>1, <1>2 DEF Edition!TypeOK, Edition!Amount
<1> DEFINE none == [t \in TokenId |-> [h \in Holder |-> 0]]
<1>4. \A id \in TokenId : SumFunction(none[id]) = 0
  <2> TAKE id \in TokenId
  <2>1. none[id] = [h \in Holder |-> 0]
    OBVIOUS
  <2> QED
    BY <2>1, EditionValues, SumZero
<1>5. none \in [TokenId -> [Holder -> Int]] /\ edBalances \in [TokenId -> [Holder -> Int]]
  BY <1>1, <1>2
<1>6. /\ \A k \in Holder : k # receiver => edBalances[i][k] = none[i][k]
      /\ \A id \in TokenId : id # i => edBalances[id] = none[id]
      /\ edBalances[i][receiver] = v /\ none[i][receiver] = 0
  BY <1>1, <1>2
<1> HIDE DEF none
<1>7. /\ SumFunction(edBalances[i]) = SumFunction(none[i])
                                       + (edBalances[i][receiver] - none[i][receiver])
      /\ \A id \in TokenId : id # i => SumFunction(edBalances[id]) = SumFunction(none[id])
  <2>1. PICK new : new = edBalances
    OBVIOUS
  <2>2. new \in [TokenId -> [Holder -> Int]]
    BY <1>5, <2>1
  <2>3. \A k \in Holder : k # receiver => new[i][k] = none[i][k]
    BY <1>6, <2>1
  <2>4. \A id \in TokenId : id # i => new[id] = none[id]
    BY <1>6, <2>1
  <2>5. /\ SumFunction(new[i]) = SumFunction(none[i]) + (new[i][receiver] - none[i][receiver])
        /\ \A id \in TokenId : id # i => SumFunction(new[id]) = SumFunction(none[id])
    BY ONLY <1>5, <2>2, <2>3, <2>4, OneBalance, i \in TokenId, receiver \in Holder
  <2> QED
    BY <2>1, <2>5
<1>8. \A id \in TokenId : edSupply[id] = SumFunction(edBalances[id])
  <2> TAKE id \in TokenId
  <2>1. edSupply[id] = IF id = i THEN v ELSE 0
    BY <1>1
  <2>2. SumFunction(edBalances[i]) = v
    BY <1>2, <1>4, <1>6, <1>7
  <2>3. id # i => SumFunction(edBalances[id]) = 0
    BY <1>4, <1>7
  <2> QED
    BY <2>1, <2>2, <2>3
<1> QED
  BY <1>3, <1>8, EditionCounts DEF EditionIInv, Edition!SupplyIsBalances

\* The editions keep their invariant: the supply of each token is what its
\* holders have, after every batch (safeBatchTransferFrom, mintBatch, burn).
THEOREM EditionInvariant == SpecPart => []EditionIInv
<1>1. EditionIInv /\ [Edition!Next]_editionVars => EditionIInv'
  <2> SUFFICES ASSUME EditionIInv, [Edition!Next]_editionVars PROVE EditionIInv'
    OBVIOUS
  <2>1. ASSUME NEW caller \in Holder, NEW from \in Holder, NEW to \in Holder,
               \/ \E b \in Edition!Batch : Edition!SafeBatchTransferFrom(caller, from, to, b)
               \/ \E item \in Edition!Item : Edition!SafeTransferFrom(caller, from, to, item)
        PROVE  EditionIInv'
    BY <2>1, EditionMove, BatchIsSeq DEF Edition!SafeTransferFrom
  <2>2. ASSUME NEW to \in Holder,
               \/ \E b \in Edition!Batch : Edition!MintBatch(to, b)
               \/ \E item \in Edition!Item : Edition!Mint(to, item)
        PROVE  EditionIInv'
    BY <2>2, EditionMint, BatchIsSeq DEF Edition!Mint
  <2>3. ASSUME NEW caller \in Holder, NEW h \in Holder, NEW item \in Edition!Item,
               Edition!Burn(caller, h, item)
        PROVE  EditionIInv'
    BY <2>3, EditionBurn
  <2>4. ASSUME NEW h \in Holder, NEW o \in Holder, NEW approved \in BOOLEAN,
               Edition!SetApprovalForAll(h, o, approved)
        PROVE  EditionIInv'
    BY <2>4, EditionRoles
  <2>5. ASSUME NEW h \in Holder, Edition!TransferOwnership(h) PROVE EditionIInv'
    BY <2>5, EditionRoles
  <2>6. CASE UNCHANGED editionVars
    <3>1. \E h \in Holder : TRUE
      BY DEF EditionIInv, Edition!TypeOK
    <3> QED
      BY <2>6, <3>1, EditionRoles
  <2> QED
    BY <2>1, <2>2, <2>3, <2>4, <2>5, <2>6 DEF Edition!Next
<1>2. InitPart => EditionIInv
  BY InitEdition DEF InitPart
<1>3. [NextPart]_allVars => [Edition!Next]_editionVars
  BY DEF NextPart, allVars
<1> QED
  BY <1>1, <1>2, <1>3, PTL DEF SpecPart

\* A batch moves totals in every state that keeps the invariant.
LEMMA BatchesMove == EditionIInv => Edition!BatchMovesTotals
<1> SUFFICES ASSUME EditionIInv, NEW from \in Holder, NEW to \in Holder, NEW b \in Edition!Batch,
                    NEW st, st = Edition!MoveAll(from, to, b)
    PROVE  IF from = to
           THEN st.ok => st.bal = edBalances
           ELSE /\ st.ok <=> \A id \in TokenId : Edition!TotalOf(b, id) <= edBalances[id][from]
                /\ st.ok => \A id \in TokenId :
                     /\ st.bal[id][from] = edBalances[id][from] - Edition!TotalOf(b, id)
                     /\ st.bal[id][to] = edBalances[id][to] + Edition!TotalOf(b, id)
  BY DEF Edition!BatchMovesTotals
<1>1. b \in Seq(Edition!Item)
  BY BatchIsSeq
<1>2. CASE from = to
  BY <1>1, <1>2, MoveToSelf
<1>3. CASE from # to
  <2>1. MovedSoFar(Edition!MoveRounds(from, to, b), from, to, b, Len(b))
    BY <1>1, <1>3, MoveTotals
  <2>2. st = Edition!MoveRounds(from, to, b)[Len(b)]
    BY DEF Edition!MoveAll
  <2>3. \A id \in TokenId : FirstOf(b, Len(b), id) = Edition!TotalOf(b, id)
    BY <1>1, FirstItems
  <2> QED
    BY <1>3, <2>1, <2>2, <2>3 DEF MovedSoFar
<1> QED
  BY <1>2, <1>3

-----------------------------------------------------------------------------
\* Supplies are what holders have, allowances and permits are taken as they
\* were given, and batches move totals (_transfer, transferFrom, permit,
\* safeBatchTransferFrom).
THEOREM TokensAdded == SpecPart => []TokensAddUp
<1>1. TokenIInv /\ EditionIInv => TokensAddUp
  BY BatchesMove DEF TokenIInv, EditionIInv, TokensAddUp
<1> QED
  BY <1>1, TokenInvariant, EditionInvariant, PTL

\* Every variable keeps its type, also where a contract subtracts (claim,
\* withdrawFees, _transfer, burn).
THEOREM TypesCorrect == SpecPart => []TypesOK
<1>1. EscrowIInv /\ RegistryIInv /\ PoolIInv /\ TokenIInv /\ EditionIInv => TypesOK
  BY DEF EscrowIInv, RegistryIInv, PoolIInv, TokenIInv, EditionIInv, TypesOK
<1> QED
  BY <1>1, EscrowInvariant, RegistryInvariant, PoolInvariant, TokenInvariant, EditionInvariant, PTL
=============================================================================
