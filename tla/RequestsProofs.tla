--------------------------- MODULE RequestsProofs ---------------------------
(***************************************************************************)
(* Machine-checked proofs about Requests and its parts, for any number of  *)
(* calls, requests and payments, any limits and amounts and any bounds.    *)
(***************************************************************************)
EXTENDS Requests, Sequences, FiniteSetTheorems, WellFoundedInduction, TLAPS

-----------------------------------------------------------------------------
(* Numbers in digits, by induction along the natural numbers.              *)

\* The order of the natural numbers, and induction along it.
Less == {p \in Nat \X Nat : p[1] < p[2]}

LEMMA LessWellFounded == IsWellFoundedOn(Less, Nat)
<1>1. OpToRel(<, Nat) = Less
  BY DEF OpToRel, Less
<1> QED
  BY <1>1, NatLessThanWellFounded

LEMMA Induction ==
  ASSUME NEW S \in SUBSET Nat, 0 \in S, \A n \in S : n + 1 \in S
  PROVE  S = Nat
<1> SUFFICES ASSUME S # Nat PROVE FALSE
  OBVIOUS
<1> DEFINE Rest == Nat \ S
<1>1. Rest # {} /\ Rest \subseteq Nat
  OBVIOUS
<1> HIDE DEF Rest
<1>2. PICK m \in Rest : \A y \in Rest : ~(<<y, m>> \in Less)
  BY LessWellFounded, <1>1, WFMin
<1>3. m \in Nat /\ m # 0
  BY <1>1 DEF Rest
<1>4. m - 1 \in Rest
  BY <1>3 DEF Rest
<1>5. <<m - 1, m>> \in Less
  BY <1>3 DEF Less
<1> QED
  BY <1>2, <1>4, <1>5

\* A function of the natural numbers may be defined by recursion.
LEMMA Recursion ==
  ASSUME NEW a \in Nat, NEW s \in [Nat \X Nat -> Nat]
  PROVE  \E f \in [Nat -> Nat] :
           f[0] = a /\ \A n \in Nat : f[n + 1] = s[<<f[n], n + 1>>]
<1> DEFINE Upto(n) == {g \in [0 .. n -> Nat] :
                         g[0] = a /\ \A k \in 0 .. n - 1 : g[k + 1] = s[<<g[k], k + 1>>]}
           Some == {n \in Nat : Upto(n) # {}}
           Agree(k) == \A n, m \in Nat : \A g \in Upto(n), h \in Upto(m) :
                         k <= n /\ k <= m => g[k] = h[k]
           Same == {k \in Nat : Agree(k)}
<1>1. Some = Nat
  <2>1. 0 \in Some
    <3>1. [k \in 0 .. 0 |-> a] \in Upto(0)
      OBVIOUS
    <3> QED
      BY <3>1
  <2>2. ASSUME NEW n \in Some PROVE n + 1 \in Some
    <3>1. PICK g \in Upto(n) : TRUE
      OBVIOUS
    <3> DEFINE h == [k \in 0 .. n + 1 |-> IF k = n + 1 THEN s[<<g[n], n + 1>>] ELSE g[k]]
    <3>2. n \in Nat /\ g \in [0 .. n -> Nat] /\ g[0] = a
          /\ \A k \in 0 .. n - 1 : g[k + 1] = s[<<g[k], k + 1>>]
      BY <3>1
    <3>3. <<g[n], n + 1>> \in Nat \X Nat
      BY <3>2
    <3>4. h \in [0 .. n + 1 -> Nat] /\ h[0] = a
      BY <3>2, <3>3
    <3>5. ASSUME NEW k \in 0 .. n PROVE h[k + 1] = s[<<h[k], k + 1>>]
      <4>1. CASE k = n
        <5>1. n \in 0 .. n + 1 /\ n + 1 \in 0 .. n + 1 /\ n # n + 1
          BY <3>2
        <5>2. h[n + 1] = s[<<g[n], n + 1>>] /\ h[n] = g[n]
          BY <5>1
        <5> QED
          BY <4>1, <5>2
      <4>2. CASE k # n
        <5>1. k \in 0 .. n - 1 /\ k + 1 \in 0 .. n + 1 /\ k + 1 # n + 1 /\ k # n + 1
              /\ k \in 0 .. n + 1
          BY <3>2, <4>2
        <5> QED
          BY <3>2, <5>1
      <4> QED
        BY <4>1, <4>2
    <3>6. (n + 1) - 1 = n /\ n + 1 \in Nat
      BY <3>2
    <3> HIDE DEF h
    <3>7. h \in Upto(n + 1)
      BY <3>4, <3>5, <3>6
    <3> QED
      BY <3>6, <3>7
  <2> HIDE DEF Some
  <2>3. Some \in SUBSET Nat
    BY DEF Some
  <2> QED
    BY ONLY <2>1, <2>2, <2>3, Induction
<1>2. Same = Nat
  <2>1. 0 \in Same
    OBVIOUS
  <2>2. ASSUME NEW k \in Same PROVE k + 1 \in Same
    <3>0. k + 1 \in Nat
      OBVIOUS
    <3> SUFFICES Agree(k + 1)
      BY <3>0
    <3> SUFFICES ASSUME NEW n \in Nat, NEW m \in Nat, NEW g \in Upto(n), NEW h \in Upto(m),
                        k + 1 <= n, k + 1 <= m
                 PROVE  g[k + 1] = h[k + 1]
      OBVIOUS
    <3>1. k \in Nat /\ k <= n /\ k <= m /\ k \in 0 .. n - 1 /\ k \in 0 .. m - 1
      OBVIOUS
    <3>2. g[k] = h[k]
      BY <3>1
    <3>3. g[k + 1] = s[<<g[k], k + 1>>] /\ h[k + 1] = s[<<h[k], k + 1>>]
      BY <3>1
    <3> QED
      BY <3>2, <3>3
  <2> HIDE DEF Same
  <2>3. Same \in SUBSET Nat
    BY DEF Same
  <2> QED
    BY ONLY <2>1, <2>2, <2>3, Induction
<1>0. \A k, n, m \in Nat : \A g \in Upto(n), h \in Upto(m) :
        k <= n /\ k <= m => g[k] = h[k]
  <2>1. \A k \in Nat : Agree(k)
    BY <1>2
  <2> QED
    BY <2>1
<1> DEFINE c(n) == CHOOSE g : g \in Upto(n)
           f == [n \in Nat |-> c(n)[n]]
<1> HIDE DEF Upto
<1>3. ASSUME NEW n \in Nat PROVE c(n) \in Upto(n)
  <2>1. \E g : g \in Upto(n)
    BY <1>1
  <2> QED
    BY <2>1, Zenon
<1> HIDE DEF c
<1>4. ASSUME NEW n \in Nat
      PROVE  /\ c(n) \in [0 .. n -> Nat] /\ c(n)[0] = a
             /\ \A k \in 0 .. n - 1 : c(n)[k + 1] = s[<<c(n)[k], k + 1>>]
  BY <1>3 DEF Upto
<1>5. f \in [Nat -> Nat]
  <2>1. \A n \in Nat : c(n)[n] \in Nat
    BY <1>4
  <2> QED
    BY <2>1
<1>6. f[0] = a
  BY <1>4
<1>7. ASSUME NEW n \in Nat PROVE f[n + 1] = s[<<f[n], n + 1>>]
  <2>1. n + 1 \in Nat /\ n \in 0 .. (n + 1) - 1 /\ n <= n + 1
    OBVIOUS
  <2>2. c(n + 1)[n + 1] = s[<<c(n + 1)[n], n + 1>>]
    BY <1>4, <2>1
  <2>3. c(n + 1)[n] = c(n)[n]
    BY <1>0, <1>3, <2>1
  <2> QED
    BY <2>1, <2>2, <2>3
<1> HIDE DEF f
<1> QED
  BY <1>5, <1>6, <1>7

\* What the powers of ten are.
LEMMA Powers ==
  /\ Console!Power \in [Nat -> Nat]
  /\ Console!Power[0] = 1
  /\ \A n \in Nat : Console!Power[n + 1] = 10 * Console!Power[n]
<1> DEFINE s == [p \in Nat \X Nat |-> 10 * p[1]]
<1>1. s \in [Nat \X Nat -> Nat]
  OBVIOUS
<1>2. \A x, n \in Nat : s[<<x, n>>] = 10 * x
  OBVIOUS
<1> HIDE DEF s
<1>3. PICK f \in [Nat -> Nat] : f[0] = 1 /\ \A n \in Nat : f[n + 1] = s[<<f[n], n + 1>>]
  BY ONLY <1>1, Recursion, 1 \in Nat
<1>4. f = [n \in Nat |-> IF n = 0 THEN 1 ELSE 10 * f[n - 1]]
  <2> SUFFICES ASSUME NEW n \in Nat PROVE f[n] = IF n = 0 THEN 1 ELSE 10 * f[n - 1]
    OBVIOUS
  <2>1. CASE n # 0
    <3>1. n - 1 \in Nat /\ (n - 1) + 1 = n
      BY <2>1
    <3>2. f[(n - 1) + 1] = s[<<f[n - 1], (n - 1) + 1>>]
      BY <1>3, <3>1
    <3>3. f[n - 1] \in Nat
      BY <3>1
    <3> QED
      BY <1>2, <2>1, <3>1, <3>2, <3>3
  <2> QED
    BY <1>3, <2>1
<1>5. \E g : g = [n \in Nat |-> IF n = 0 THEN 1 ELSE 10 * g[n - 1]]
  BY <1>4
<1> DEFINE P == CHOOSE g : g = [n \in Nat |-> IF n = 0 THEN 1 ELSE 10 * g[n - 1]]
<1>6. P = [n \in Nat |-> IF n = 0 THEN 1 ELSE 10 * P[n - 1]]
  BY <1>5, Zenon
<1>7. Console!Power = P
  BY Zenon DEF Console!Power
<1> HIDE DEF P
<1>8. P[0] = 1 /\ \A n \in Nat : P[n + 1] = 10 * P[n]
  BY <1>6
<1>9. {n \in Nat : P[n] \in Nat} = Nat
  <2> DEFINE S == {n \in Nat : P[n] \in Nat}
  <2>1. 0 \in S /\ \A n \in S : n + 1 \in S
    BY <1>8
  <2>2. S \in SUBSET Nat
    OBVIOUS
  <2> HIDE DEF S
  <2>3. S = Nat
    BY <2>1, <2>2, Induction
  <2> QED
    BY <2>3 DEF S
<1>10. P \in [Nat -> Nat]
  BY <1>6, <1>9
<1> QED
  BY <1>7, <1>8, <1>10

\* What the number of a sequence of digits is: that of its first n digits, for
\* every n.
LEMMA Numbers ==
  ASSUME NEW d \in Seq(Nat)
  PROVE  \E f \in [Nat -> Nat] :
           /\ f[0] = 0
           /\ \A n \in Nat : n < Len(d) => f[n + 1] = 10 * f[n] + d[n + 1]
           /\ Console!Number(d) = f[Len(d)]
<1> DEFINE digit(n) == IF n \in 1 .. Len(d) THEN d[n] ELSE 0
           s == [p \in Nat \X Nat |-> 10 * p[1] + digit(p[2])]
<1>0. Len(d) \in Nat /\ DOMAIN d = 1 .. Len(d) /\ \A n \in 1 .. Len(d) : d[n] \in Nat
  OBVIOUS
<1>1. \A n \in Nat : digit(n) \in Nat
  BY <1>0
<1> HIDE DEF digit
<1>2. s \in [Nat \X Nat -> Nat] /\ \A x, n \in Nat : s[<<x, n>>] = 10 * x + digit(n)
  <2>1. \A x, n \in Nat : 10 * x + digit(n) \in Nat
    BY <1>1
  <2>2. \A p \in Nat \X Nat : 10 * p[1] + digit(p[2]) \in Nat
    BY <2>1
  <2>3. s \in [Nat \X Nat -> Nat]
    BY <2>2
  <2>4. \A x, n \in Nat : s[<<x, n>>] = 10 * x + digit(n)
    OBVIOUS
  <2> QED
    BY <2>3, <2>4
<1> HIDE DEF s
<1>3. PICK f \in [Nat -> Nat] : f[0] = 0 /\ \A n \in Nat : f[n + 1] = s[<<f[n], n + 1>>]
  BY ONLY <1>2, Recursion, 0 \in Nat
<1>4. ASSUME NEW n \in Nat, n < Len(d) PROVE f[n + 1] = 10 * f[n] + d[n + 1]
  <2>1. n + 1 \in Nat /\ n + 1 \in 1 .. Len(d) /\ f[n] \in Nat
    BY <1>0, <1>4
  <2> QED
    BY <1>2, <1>3, <2>1 DEF digit
<1> DEFINE N == Len(d)
<1>N. N \in Nat
  BY <1>0
<1> HIDE DEF N
<1> DEFINE g == [n \in 0 .. N |-> f[n]]
<1>5. g = [n \in 0 .. N |-> IF n = 0 THEN 0 ELSE 10 * g[n - 1] + d[n]]
  <2> SUFFICES ASSUME NEW n \in 0 .. N
               PROVE  g[n] = IF n = 0 THEN 0 ELSE 10 * g[n - 1] + d[n]
    BY Zenon
  <2>1. CASE n = 0
    BY <1>0, <1>3, <2>1
  <2>2. CASE n # 0
    <3>1. n - 1 \in Nat /\ n - 1 < N /\ (n - 1) + 1 = n /\ n - 1 \in 0 .. N
      BY ONLY <1>N, <2>2, n \in 0 .. N
    <3>2. f[(n - 1) + 1] = 10 * f[n - 1] + d[(n - 1) + 1]
      BY <1>4, <3>1 DEF N
    <3> QED
      BY <2>2, <3>1, <3>2
  <2> QED
    BY <2>1, <2>2
<1> DEFINE h == CHOOSE h : h = [n \in 0 .. N |-> IF n = 0 THEN 0 ELSE 10 * h[n - 1] + d[n]]
<1>6. h = [n \in 0 .. N |-> IF n = 0 THEN 0 ELSE 10 * h[n - 1] + d[n]]
  <2>1. \E x : x = [n \in 0 .. N |-> IF n = 0 THEN 0 ELSE 10 * x[n - 1] + d[n]]
    <3> HIDE DEF g
    <3> QED
      BY <1>5, Zenon
  <2> QED
    BY <2>1, Zenon
<1>7. Console!Number(d) = h[N]
  BY Zenon DEF Console!Number, N
<1> HIDE DEF h
<1>8. ASSUME NEW n \in Nat PROVE n <= N => h[n] = f[n]
  <2> DEFINE S == {k \in Nat : k <= N => h[k] = f[k]}
  <2>1. 0 \in S
    BY <1>0, <1>3, <1>6
  <2>2. ASSUME NEW k \in S PROVE k + 1 \in S
    <3> SUFFICES ASSUME k + 1 <= N PROVE h[k + 1] = f[k + 1]
      OBVIOUS
    <3>0. k \in Nat /\ k + 1 <= N
      OBVIOUS
    <3>1. k \in Nat /\ k < N /\ k <= N /\ k + 1 \in 0 .. N /\ k + 1 # 0 /\ (k + 1) - 1 = k
      BY ONLY <1>N, <3>0
    <3>2. h[k + 1] = 10 * h[k] + d[k + 1]
      BY <1>6, <3>1
    <3>3. f[k + 1] = 10 * f[k] + d[k + 1] /\ h[k] = f[k]
      BY <1>4, <3>1 DEF N
    <3> QED
      BY <3>2, <3>3
  <2>3. S \in SUBSET Nat
    OBVIOUS
  <2> HIDE DEF S
  <2>4. S = Nat
    BY ONLY <2>1, <2>2, <2>3, Induction
  <2> QED
    BY <2>4 DEF S
<1>9. Console!Number(d) = f[Len(d)]
  <2>1. N <= N
    BY ONLY <1>N
  <2> QED
    BY <1>N, <1>7, <1>8, <2>1 DEF N
<1> QED
  BY <1>3, <1>4, <1>9

\* The number of two sequences one after the other.
LEMMA NumberConcat ==
  ASSUME NEW s \in Seq(Nat), NEW t \in Seq(Nat)
  PROVE  /\ Console!Number(s) \in Nat
         /\ Console!Number(s \o t)
              = Console!Number(s) * Console!Power[Len(t)] + Console!Number(t)
<1> DEFINE st == s \o t
           a == Len(s)
           b == Len(t)
           P == Console!Power
<1>1. /\ st \in Seq(Nat) /\ Len(st) = a + b /\ a \in Nat /\ b \in Nat
      /\ \A n \in 1 .. a : st[n] = s[n]
      /\ \A n \in 1 .. b : st[a + n] = t[n] /\ t[n] \in Nat
  OBVIOUS
<1> HIDE DEF st
<1>2. PICK f \in [Nat -> Nat] :
        /\ f[0] = 0
        /\ \A n \in Nat : n < a => f[n + 1] = 10 * f[n] + s[n + 1]
        /\ Console!Number(s) = f[a]
  BY Numbers
<1>3. PICK g \in [Nat -> Nat] :
        /\ g[0] = 0
        /\ \A n \in Nat : n < b => g[n + 1] = 10 * g[n] + t[n + 1]
        /\ Console!Number(t) = g[b]
  BY Numbers
<1>4. PICK h \in [Nat -> Nat] :
        /\ h[0] = 0
        /\ \A n \in Nat : n < Len(st) => h[n + 1] = 10 * h[n] + st[n + 1]
        /\ Console!Number(st) = h[Len(st)]
  BY <1>1, Numbers
<1>5. /\ P \in [Nat -> Nat] /\ P[0] = 1
      /\ \A n \in Nat : P[n + 1] = 10 * P[n]
  BY Powers
<1> HIDE DEF P, a, b
<1>6. h[a] = f[a]
  <2> DEFINE S == {n \in Nat : n <= a => h[n] = f[n]}
  <2>1. 0 \in S
    BY <1>2, <1>4
  <2>2. ASSUME NEW n \in S PROVE n + 1 \in S
    <3> SUFFICES ASSUME n + 1 <= a PROVE h[n + 1] = f[n + 1]
      OBVIOUS
    <3>0. n \in Nat /\ n + 1 <= a
      OBVIOUS
    <3>1. n \in Nat /\ n < a /\ n <= a /\ n < Len(st) /\ n + 1 \in 1 .. a
      BY ONLY <1>1, <3>0
    <3> QED
      BY <1>1, <1>2, <1>4, <3>1
  <2>3. S \in SUBSET Nat
    OBVIOUS
  <2> HIDE DEF S
  <2>4. S = Nat
    BY ONLY <2>1, <2>2, <2>3, Induction
  <2>5. a \in S /\ a <= a
    BY ONLY <1>1, <2>4
  <2> QED
    BY <2>5 DEF S
<1>7. h[a + b] = f[a] * P[b] + g[b]
  <2> DEFINE S == {n \in Nat : n <= b => h[a + n] = f[a] * P[n] + g[n]}
  <2>1. 0 \in S
    <3>1. a + 0 = a /\ f[a] \in Nat /\ P[0] = 1 /\ g[0] = 0
      <4>1. a + 0 = a
        BY ONLY <1>1
      <4> QED
        BY ONLY <1>1, <1>3, <1>5, <4>1, f \in [Nat -> Nat]
    <3>2. f[a] * 1 + 0 = f[a]
      <4>1. \A x \in Nat : x * 1 + 0 = x
        BY ONLY TRUE
      <4> QED
        BY ONLY <3>1, <4>1
    <3>3. h[a + 0] = f[a] * P[0] + g[0]
      BY ONLY <1>6, <3>1, <3>2
    <3> QED
      BY <3>3
  <2>2. ASSUME NEW n \in S PROVE n + 1 \in S
    <3> SUFFICES ASSUME n + 1 <= b PROVE h[a + (n + 1)] = f[a] * P[n + 1] + g[n + 1]
      OBVIOUS
    <3>1. /\ n \in Nat /\ n < b /\ n <= b /\ n + 1 \in 1 .. b
          /\ a + n \in Nat /\ a + n < Len(st) /\ a + (n + 1) = (a + n) + 1
      BY <1>1
    <3>2. h[a + (n + 1)] = 10 * h[a + n] + t[n + 1]
      BY <1>1, <1>4, <3>1
    <3>3. h[a + n] = f[a] * P[n] + g[n]
      BY <3>1
    <3>4. P[n + 1] = 10 * P[n] /\ g[n + 1] = 10 * g[n] + t[n + 1]
      BY <1>3, <1>5, <3>1
    <3>5. f[a] \in Nat /\ P[n] \in Nat /\ g[n] \in Nat /\ t[n + 1] \in Nat
      BY <1>1, <1>5, <3>1
    <3>6. PICK x \in Nat, y \in Nat, u \in Nat, v \in Nat :
            x = f[a] /\ y = P[n] /\ u = g[n] /\ v = t[n + 1]
      BY <3>5
    <3>7. 10 * (x * y + u) + v = x * (10 * y) + (10 * u + v)
      BY ONLY x \in Nat, y \in Nat, u \in Nat, v \in Nat
    <3> QED
      BY ONLY <3>2, <3>3, <3>4, <3>6, <3>7
  <2>3. S \in SUBSET Nat
    OBVIOUS
  <2> HIDE DEF S
  <2>4. S = Nat
    BY ONLY <2>1, <2>2, <2>3, Induction
  <2>5. b \in S /\ b <= b
    BY ONLY <1>1, <2>4
  <2> QED
    BY <2>5 DEF S
<1>8. Console!Number(s) \in Nat
  BY <1>1, <1>2
<1>9. Console!Number(st) = Console!Number(s) * P[b] + Console!Number(t)
  BY <1>1, <1>2, <1>3, <1>4, <1>7
<1> QED
  BY <1>8, <1>9 DEF st, P, b

\* Zeros add nothing.
LEMMA NumberZeros ==
  ASSUME NEW z \in Seq(Nat), \A i \in 1 .. Len(z) : z[i] = 0
  PROVE  Console!Number(z) = 0
<1>1. PICK f \in [Nat -> Nat] :
        /\ f[0] = 0
        /\ \A n \in Nat : n < Len(z) => f[n + 1] = 10 * f[n] + z[n + 1]
        /\ Console!Number(z) = f[Len(z)]
  BY Numbers
<1> DEFINE a == Len(z)
<1>2. a \in Nat
  OBVIOUS
<1> HIDE DEF a
<1> DEFINE S == {n \in Nat : n <= a => f[n] = 0}
<1>3. 0 \in S
  BY <1>1
<1>4. ASSUME NEW n \in S PROVE n + 1 \in S
  <2> SUFFICES ASSUME n + 1 <= a PROVE f[n + 1] = 0
    OBVIOUS
  <2>0. n \in Nat /\ n + 1 <= a
    OBVIOUS
  <2>1. n \in Nat /\ n < a /\ n <= a /\ n + 1 \in 1 .. a
    BY ONLY <1>2, <2>0
  <2>2. f[n + 1] = 10 * f[n] + z[n + 1] /\ f[n] = 0 /\ z[n + 1] = 0
    BY <1>1, <2>1 DEF a
  <2> QED
    BY ONLY <2>2
<1>5. S \in SUBSET Nat
  OBVIOUS
<1> HIDE DEF S
<1>6. S = Nat
  BY ONLY <1>3, <1>4, <1>5, Induction
<1>7. a \in S /\ a <= a
  BY ONLY <1>2, <1>6
<1> QED
  BY <1>1, <1>7 DEF S, a

\* Powers of ten multiply.
LEMMA PowerSum ==
  ASSUME NEW a \in Nat, NEW b \in Nat
  PROVE  Console!Power[a + b] = Console!Power[a] * Console!Power[b]
<1> DEFINE P == Console!Power
           S == {n \in Nat : P[a + n] = P[a] * P[n]}
<1>1. /\ P \in [Nat -> Nat] /\ P[0] = 1
      /\ \A n \in Nat : P[n + 1] = 10 * P[n]
  BY Powers
<1> HIDE DEF P
<1>2. 0 \in S
  <2>1. a + 0 = a /\ P[a] \in Nat /\ P[a] * 1 = P[a]
    BY <1>1
  <2> QED
    BY <1>1, <2>1
<1>3. ASSUME NEW n \in S PROVE n + 1 \in S
  <2>1. n \in Nat /\ n + 1 \in Nat /\ a + n \in Nat /\ a + (n + 1) = (a + n) + 1
    OBVIOUS
  <2>2. P[a + (n + 1)] = 10 * P[a + n] /\ P[a + n] = P[a] * P[n] /\ P[n + 1] = 10 * P[n]
    BY <1>1, <2>1
  <2>3. P[a] \in Nat /\ P[n] \in Nat
    BY <1>1, <2>1
  <2>4. P[a + (n + 1)] = P[a] * P[n + 1]
    BY ONLY <2>2, <2>3
  <2> QED
    BY <2>1, <2>4
<1>4. S \in SUBSET Nat
  OBVIOUS
<1> HIDE DEF S
<1>5. S = Nat
  BY ONLY <1>2, <1>3, <1>4, Induction
<1> QED
  BY <1>5 DEF S, P

-----------------------------------------------------------------------------
(* The inductive invariant behind AdmittedBounded.                         *)

\* Calls waiting for the mutex with a minute that is over.
Late == {c \in Caller : stage[c] = "waiting" /\ window[c] # minute}

\* Calls waiting for the mutex with minute m.
Waiting(m) == {c \in Caller : stage[c] = "waiting" /\ window[c] = m}

\* Why AdmittedBounded holds.  A late call is worth one limit in the present
\* minute until it has passed the bucket.
PresentMinute ==
  /\ bucket.window = minute =>
       admitted[minute] + Cardinality(Late) * RateLimit + RateLimit - bucket.count <= Allowance
  /\ bucket.window # minute =>
       /\ admitted[minute] + Cardinality(Late) * RateLimit <= Allowance
       /\ admitted[minute] > 0 =>
            admitted[minute] + Cardinality(Late) * RateLimit + RateLimit <= Allowance

\* The bucket counts no more than was admitted with its minute.
BucketCounts ==
  /\ bucket.count <= RateLimit
  /\ bucket.window # 0 => bucket.count <= admitted[bucket.window]
  /\ bucket.window <= minute
  /\ \A m \in Minute : m > minute => admitted[m] = 0
  /\ \A c \in Caller : window[c] <= minute

\* A minute that is over still has a limit to give, or its last calls came
\* after a call of another minute, which is not among those waiting.
PastMinutes ==
  \A m \in 1 .. minute - 1 :
    \/ bucket.window = m /\ admitted[m] + RateLimit - bucket.count <= Allowance
    \/ bucket.window # m /\ admitted[m] + RateLimit <= Allowance
    \/ /\ Cardinality(Waiting(m)) < Cardinality(Caller)
       /\ admitted[m] + Cardinality(Waiting(m)) <= Allowance + Cardinality(Caller) - 1

IInv == TypeOK /\ PresentMinute /\ BucketCounts /\ PastMinutes

-----------------------------------------------------------------------------

USE CallerAssumption, LimitAssumption, BoundsAssumption

\* The limit is positive, whatever the project asked for.
LEMMA LimitType == RateLimit \in Nat \ {0}
BY DEF RateLimit

\* There is at least one caller.
LEMMA CallersType == Cardinality(Caller) \in Nat \ {0}
BY FS_CardinalityType, FS_EmptySet

\* Multiples of a limit, as the arithmetic of the proofs needs them.
LEMMA Multiples ==
  ASSUME NEW a \in Nat, NEW b \in Nat, NEW l \in Nat
  PROVE  /\ a * l \in Nat
         /\ (a + b) * l = a * l + b * l
         /\ (a + 1) * l = a * l + l
         /\ a <= b => a * l <= b * l
         /\ a < b => a * l + l <= b * l
<1>1. a * l \in Nat /\ b * l \in Nat
  OBVIOUS
<1>2. (a + b) * l = a * l + b * l /\ (a + 1) * l = a * l + l
  OBVIOUS
<1>3. ASSUME a <= b  PROVE a * l <= b * l
  <2>1. b - a \in Nat /\ (b - a) * l \in Nat
    BY <1>3
  <2>2. b * l = a * l + (b - a) * l
    BY <2>1
  <2> QED
    BY <1>1, <2>1, <2>2
<1>4. ASSUME a < b  PROVE a * l + l <= b * l
  <2>1. b - (a + 1) \in Nat /\ (b - (a + 1)) * l \in Nat
    BY <1>4
  <2>2. b * l = (a + 1) * l + (b - (a + 1)) * l
    BY <2>1
  <2> QED
    BY <1>1, <1>2, <2>1, <2>2
<1> QED
  BY <1>1, <1>2, <1>3, <1>4

\* The allowance is a multiple of the limit, at least one for every caller.
LEMMA AllowanceType ==
  ASSUME TypeOK
  PROVE  /\ Allowance \in Nat
         /\ Cardinality(Caller) * RateLimit <= Allowance
         /\ Cardinality(Caller) * RateLimit \in Nat
         /\ RateLimit <= Allowance
<1>1. restarts \in Nat /\ Cardinality(Caller) + restarts \in Nat
  BY CallersType DEF TypeOK
<1>2. /\ Allowance \in Nat
      /\ Cardinality(Caller) * RateLimit <= Allowance
      /\ Cardinality(Caller) * RateLimit \in Nat
  BY <1>1, CallersType, LimitType,
     Multiples, Cardinality(Caller) <= Cardinality(Caller) + restarts DEF Allowance
<1>3. 0 * RateLimit + RateLimit <= (Cardinality(Caller) + restarts) * RateLimit
  <2>1. 0 < Cardinality(Caller) + restarts
    BY <1>1, CallersType
  <2> QED
    BY <2>1, <1>1, LimitType, Multiples
<1> QED
  BY <1>2, <1>3, LimitType DEF Allowance

\* The callers that wait are some of the callers.
LEMMA WaitingCounts ==
  /\ IsFiniteSet(Late) /\ Cardinality(Late) \in Nat
  /\ Cardinality(Late) <= Cardinality(Caller)
  /\ \A m : /\ IsFiniteSet(Waiting(m)) /\ Cardinality(Waiting(m)) \in Nat
            /\ Cardinality(Waiting(m)) <= Cardinality(Caller)
<1>1. Late \in SUBSET Caller /\ \A m : Waiting(m) \in SUBSET Caller
  BY DEF Late, Waiting
<1> QED
  BY <1>1, FS_Subset, FS_CardinalityType

\* A set of callers that misses one has fewer members than there are callers.
LEMMA MissingOne ==
  ASSUME NEW S \in SUBSET Caller, NEW c \in Caller, c \notin S
  PROVE  Cardinality(S) < Cardinality(Caller)
<1>1. S \in SUBSET (Caller \ {c})
  OBVIOUS
<1>2. IsFiniteSet(Caller \ {c}) /\ Cardinality(Caller \ {c}) = Cardinality(Caller) - 1
  BY FS_RemoveElement
<1>3. Cardinality(S) <= Cardinality(Caller) - 1 /\ Cardinality(S) \in Nat
  BY <1>1, <1>2, FS_Subset, FS_CardinalityType
<1> QED
  BY <1>3, CallersType

\* The initial state satisfies the invariant.
LEMMA InitIInv == Init => IInv
<1> SUFFICES ASSUME Init PROVE IInv
  OBVIOUS
<1>1. TypeOK
  BY DEF Init, TypeOK, Minute, NoBucket
<1>2. Late = {} /\ Cardinality(Late) = 0
  BY FS_EmptySet DEF Late, Init
<1>3. PresentMinute
  BY <1>1, <1>2, AllowanceType, LimitType, Multiples DEF PresentMinute, Init, NoBucket, Minute
<1> QED
  BY <1>1, <1>3, LimitType DEF IInv, BucketCounts, PastMinutes, Init, NoBucket, Minute

-----------------------------------------------------------------------------

\* Reading the clock makes nobody late.
LEMMA ReadClockIInv ==
  ASSUME IInv, NEW c \in Caller, ReadClock(c)
  PROVE  IInv'
<1>1. TypeOK'
  BY DEF IInv, TypeOK, ReadClock
<1>2. Late' = Late
  BY DEF IInv, TypeOK, ReadClock, Late
<1>3. \A m \in 1 .. minute - 1 : Waiting(m)' = Waiting(m)
  BY DEF IInv, TypeOK, ReadClock, Waiting, Minute
<1>4. Allowance' = Allowance
  BY DEF ReadClock, Allowance
<1>5. PresentMinute'
  BY <1>2, <1>4 DEF IInv, ReadClock, PresentMinute
<1>6. BucketCounts'
  BY DEF IInv, TypeOK, ReadClock, BucketCounts, Minute
<1>7. PastMinutes'
  BY <1>3, <1>4 DEF IInv, ReadClock, PastMinutes
<1> QED
  BY <1>1, <1>5, <1>6, <1>7 DEF IInv

\* A restart forgets the calls and the bucket and adds one limit.
LEMMA RestartIInv ==
  ASSUME IInv, Restart
  PROVE  IInv'
<1>1. TypeOK'
  BY DEF IInv, TypeOK, Restart, NoBucket
<1>2. Late' = {} /\ Cardinality(Late') = 0
  BY FS_EmptySet DEF Restart, Late
<1>3. \A m : Waiting(m)' = {} /\ Cardinality(Waiting(m)') = 0
  BY FS_EmptySet DEF Restart, Waiting
<1>4. Allowance' = Allowance + RateLimit /\ Allowance \in Nat
  <2>1. Cardinality(Caller) + restarts \in Nat
    BY CallersType DEF IInv, TypeOK
  <2>2. (Cardinality(Caller) + (restarts + 1)) * RateLimit
          = ((Cardinality(Caller) + restarts) + 1) * RateLimit
    BY CallersType DEF IInv, TypeOK
  <2> QED
    BY <2>1, <2>2, LimitType, Multiples, AllowanceType DEF Restart, Allowance, IInv
<1>5. admitted[minute] <= Allowance
  <2>1. admitted[minute] \in Nat /\ bucket.count \in Nat
        /\ Cardinality(Late) * RateLimit \in Nat
    BY WaitingCounts, LimitType, Multiples DEF IInv, TypeOK
  <2> QED
    BY <2>1, <1>4, LimitType DEF IInv, PresentMinute, BucketCounts
<1>6. PresentMinute'
  <2>1. 0 * RateLimit = 0 /\ RateLimit' = RateLimit
    BY LimitType DEF RateLimit
  <2>2. /\ minute' = minute /\ admitted' = admitted /\ bucket'.window # minute
        /\ admitted[minute] \in Nat
    BY DEF IInv, TypeOK, Restart, NoBucket, Minute
  <2> QED
    BY <1>2, <1>4, <1>5, <2>1, <2>2, LimitType DEF PresentMinute
<1>7. BucketCounts'
  BY LimitType DEF IInv, TypeOK, Restart, BucketCounts, NoBucket, Minute, RateLimit
<1>8. PastMinutes'
  <2> SUFFICES ASSUME NEW m \in 1 .. minute - 1
               PROVE  admitted[m] <= Allowance + RateLimit + Cardinality(Caller) - 1
    BY <1>3, <1>4, CallersType DEF Restart, PastMinutes, IInv, TypeOK, Minute
  <2>1. admitted[m] \in Nat /\ bucket.count \in Nat /\ Cardinality(Waiting(m)) \in Nat
    BY WaitingCounts DEF IInv, TypeOK, Minute
  <2> QED
    BY <2>1, <1>4, LimitType, CallersType DEF IInv, PastMinutes, BucketCounts
<1> QED
  BY <1>1, <1>6, <1>7, <1>8 DEF IInv

\* At the end of a minute all waiting calls are late, and the new minute has
\* admitted none.
LEMMA TickIInv ==
  ASSUME IInv, Tick
  PROVE  IInv'
<1>1. TypeOK' /\ minute + 1 \in Minute
  BY DEF IInv, TypeOK, Tick, Minute
<1>2. Allowance' = Allowance /\ Allowance \in Nat
  BY AllowanceType DEF Tick, Allowance, IInv
<1>3. PresentMinute'
  <2>1. Cardinality(Late') \in Nat /\ Cardinality(Late') <= Cardinality(Caller)
    <3>1. Late' \in SUBSET Caller
      BY DEF Late
    <3> QED
      BY <3>1, FS_Subset, FS_CardinalityType
  <2>2. Cardinality(Late') * RateLimit <= Allowance /\ Cardinality(Late') * RateLimit \in Nat
    BY <2>1, CallersType, LimitType, Multiples, AllowanceType DEF IInv
  <2>3. admitted[minute + 1] = 0 /\ bucket.window # minute + 1
    BY <1>1 DEF IInv, TypeOK, BucketCounts, Minute
  <2> QED
    BY <1>2, <2>2, <2>3 DEF Tick, PresentMinute, RateLimit
<1>4. BucketCounts'
  BY DEF IInv, TypeOK, Tick, BucketCounts, Minute, RateLimit
<1>5. PastMinutes'
  <2> SUFFICES ASSUME NEW m \in 1 .. minute
               PROVE  \/ bucket.window = m /\ admitted[m] + RateLimit - bucket.count <= Allowance
                      \/ bucket.window # m /\ admitted[m] + RateLimit <= Allowance
                      \/ /\ Cardinality(Waiting(m)) < Cardinality(Caller)
                         /\ admitted[m] + Cardinality(Waiting(m))
                              <= Allowance + Cardinality(Caller) - 1
    <3>2. \A k : Waiting(k)' = Waiting(k)
      BY DEF Tick, Waiting
    <3>3. minute' - 1 = minute
      BY DEF IInv, TypeOK, Minute, Tick
    <3> QED
      BY <1>2, <3>2, <3>3 DEF Tick, PastMinutes, RateLimit
  <2>1. CASE m = minute
    <3>1. admitted[m] \in Nat /\ bucket.count \in Nat /\ Cardinality(Late) * RateLimit \in Nat
      BY <2>1, WaitingCounts, LimitType, Multiples DEF IInv, TypeOK
    <3> QED
      BY <2>1, <3>1, <1>2, LimitType, AllowanceType DEF IInv, PresentMinute
  <2>2. CASE m # minute
    <3>1. m \in 1 .. minute - 1
      BY <2>2 DEF IInv, TypeOK, Minute
    <3> QED
      BY <3>1 DEF IInv, PastMinutes
  <2> QED
    BY <2>1, <2>2
<1> QED
  BY <1>1, <1>3, <1>4, <1>5 DEF IInv

-----------------------------------------------------------------------------
(* A call at the bucket.                                                   *)

\* What a call does to the bucket and to the admitted calls of its minute:
\* it is refused at a bucket of its minute that is full, counted in one that
\* is not, or the first in a bucket it starts again.
LEMMA AllowCases ==
  ASSUME TypeOK, BucketCounts, NEW c \in Caller, Allow(c), NEW w, w = window[c]
  PROVE  /\ bucket' \in [window: Minute, count: Nat]
         /\ bucket'.window = w
         /\ \A m \in Minute : m # w => admitted'[m] = admitted[m]
         /\ admitted' \in [Minute -> Nat]
         /\ \/ /\ bucket.window = w /\ bucket.count = RateLimit
               /\ bucket'.count = bucket.count /\ admitted'[w] = admitted[w]
            \/ /\ bucket.window = w /\ bucket.count < RateLimit
               /\ bucket'.count = bucket.count + 1 /\ admitted'[w] = admitted[w] + 1
            \/ /\ bucket.window # w
               /\ bucket'.count = 1 /\ admitted'[w] = admitted[w] + 1
<1>1. w \in Minute /\ admitted[w] \in Nat /\ bucket.count \in Nat
  BY DEF TypeOK
<1>2. CASE bucket.window = w /\ bucket.count >= RateLimit
  <2>1. bucket.count = RateLimit
    BY <1>1, <1>2, LimitType DEF BucketCounts
  <2>2. bucket' = bucket /\ admitted' = admitted
    BY <1>2 DEF Allow, BucketOf
  <2> QED
    BY <1>1, <1>2, <2>1, <2>2 DEF TypeOK
<1>3. CASE bucket.window = w /\ ~(bucket.count >= RateLimit)
  <2>1. bucket' = [bucket EXCEPT !.count = @ + 1] /\ admitted' = [admitted EXCEPT ![w] = @ + 1]
    BY <1>3 DEF Allow, BucketOf
  <2>2. bucket.count < RateLimit
    BY <1>1, <1>3, LimitType
  <2> QED
    BY <1>1, <1>3, <2>1, <2>2 DEF TypeOK
<1>4. CASE bucket.window # w
  <2>1. bucket' = [[window |-> w, count |-> 0] EXCEPT !.count = @ + 1]
        /\ admitted' = [admitted EXCEPT ![w] = @ + 1]
    BY <1>4, LimitType DEF Allow, BucketOf
  <2>2. bucket' = [window |-> w, count |-> 1]
    BY <2>1
  <2> QED
    BY <1>1, <1>4, <2>1, <2>2 DEF TypeOK
<1> QED
  BY <1>2, <1>3, <1>4

\* A call leaves those that wait with its minute, and no others.
LEMMA AllowWaiting ==
  ASSUME TypeOK, NEW c \in Caller, Allow(c)
  PROVE  /\ \A m : Cardinality(Waiting(m)') =
              IF window[c] = m THEN Cardinality(Waiting(m)) - 1 ELSE Cardinality(Waiting(m))
         /\ Cardinality(Late') =
              IF window[c] # minute THEN Cardinality(Late) - 1 ELSE Cardinality(Late)
<1>1. \A m : Waiting(m)' = Waiting(m) \ {c}
  BY DEF TypeOK, Allow, Waiting
<1>2. Late' = Late \ {c}
  BY DEF TypeOK, Allow, Late
<1>3. (\A m : c \in Waiting(m) <=> window[c] = m) /\ (c \in Late <=> window[c] # minute)
  BY DEF Allow, Waiting, Late
<1> QED
  BY <1>1, <1>2, <1>3, WaitingCounts, FS_RemoveElement

\* A call keeps what is said of the present minute: one of that minute may
\* start the bucket again, at the cost of the late call that came between.
LEMMA AllowPresent ==
  ASSUME IInv, NEW c \in Caller, Allow(c)
  PROVE  PresentMinute'
<1> DEFINE w == window[c]
<1>1. /\ w \in Minute /\ minute \in Minute /\ minute' = minute /\ Allowance' = Allowance
      /\ admitted[minute] \in Nat /\ bucket.count \in Nat /\ bucket.count <= RateLimit
  BY DEF IInv, TypeOK, Allow, BucketCounts, Allowance, RateLimit
<1>2. Allowance \in Nat /\ RateLimit \in Nat \ {0} /\ RateLimit' = RateLimit
  BY AllowanceType, LimitType DEF IInv, RateLimit
<1>3. Cardinality(Late) \in Nat /\ Cardinality(Late) * RateLimit \in Nat
  BY WaitingCounts, LimitType, Multiples
<1>4. TypeOK /\ BucketCounts
  BY DEF IInv
<1>5. CASE w = minute
  <2>1. Late' = Late /\ Cardinality(Late') = Cardinality(Late)
    BY <1>5, <1>1 DEF Allow, Late, IInv, TypeOK
  <2>2. CASE bucket.window = minute
    BY <1>1, <1>2, <1>3, <1>4, <1>5, <2>1, <2>2, AllowCases DEF IInv, PresentMinute
  <2>3. CASE bucket.window # minute
    <3>1. Cardinality(Late) * RateLimit + RateLimit <= Allowance
      <4>1. Late \in SUBSET Caller /\ c \notin Late
        BY <1>5 DEF Late
      <4>2. Cardinality(Late) < Cardinality(Caller)
        BY <4>1, MissingOne
      <4> QED
        BY <4>2, <1>2, <1>3, <1>4, CallersType, Multiples, AllowanceType
    <3>2. admitted[minute] + Cardinality(Late) * RateLimit + RateLimit <= Allowance
      BY <3>1, <2>3, <1>1, <1>2, <1>3 DEF IInv, PresentMinute
    <3>3. bucket'.window = minute /\ bucket'.count = 1 /\ admitted'[minute] = admitted[minute] + 1
      BY <1>4, <1>5, <2>3, AllowCases
    <3> QED
      BY <3>2, <3>3, <2>1, <1>1, <1>2, <1>3 DEF PresentMinute
  <2> QED
    BY <2>2, <2>3
<1>6. CASE w # minute
  <2>1. Cardinality(Late) # 0 /\ Cardinality(Late') = Cardinality(Late) - 1
    <3>1. c \in Late
      BY <1>6 DEF Late, Allow
    <3> QED
      BY <3>1, <1>4, <1>6, WaitingCounts, AllowWaiting, FS_EmptySet
  <2>2. Cardinality(Late') * RateLimit + RateLimit = Cardinality(Late) * RateLimit
        /\ Cardinality(Late') * RateLimit \in Nat
    <3>1. Cardinality(Late') \in Nat /\ Cardinality(Late') + 1 = Cardinality(Late)
      BY <2>1, <1>3
    <3> QED
      BY <3>1, <1>2, Multiples
  <2>3. bucket'.window # minute /\ admitted'[minute] = admitted[minute]
    BY <1>1, <1>4, <1>6, AllowCases
  <2>4. admitted[minute] + Cardinality(Late) * RateLimit <= Allowance
    BY <1>1, <1>2, <1>3 DEF IInv, PresentMinute
  <2> QED
    BY <2>2, <2>3, <2>4, <1>1, <1>2, <1>3 DEF PresentMinute
<1> QED
  BY <1>5, <1>6

\* A call keeps what is said of the minutes that are over: when it takes the
\* bucket from one of them, it is not among the calls that wait with it.
LEMMA AllowPast ==
  ASSUME IInv, NEW c \in Caller, Allow(c)
  PROVE  PastMinutes'
<1> DEFINE w == window[c]
<1>1. TypeOK /\ BucketCounts /\ w \in Minute /\ minute' = minute /\ Allowance' = Allowance
  BY DEF IInv, TypeOK, Allow, Allowance, RateLimit
<1>2. Allowance \in Nat /\ RateLimit \in Nat \ {0} /\ RateLimit' = RateLimit
      /\ Cardinality(Caller) \in Nat \ {0}
  BY AllowanceType, LimitType, CallersType DEF IInv, RateLimit
<1> SUFFICES ASSUME NEW m \in 1 .. minute - 1
             PROVE  \/ bucket'.window = m /\ admitted'[m] + RateLimit - bucket'.count <= Allowance
                    \/ bucket'.window # m /\ admitted'[m] + RateLimit <= Allowance
                    \/ /\ Cardinality(Waiting(m)') < Cardinality(Caller)
                       /\ admitted'[m] + Cardinality(Waiting(m)')
                            <= Allowance + Cardinality(Caller) - 1
  BY <1>1, <1>2 DEF PastMinutes
<1>3. /\ m \in Minute /\ admitted[m] \in Nat /\ bucket.count \in Nat
      /\ bucket.count <= RateLimit
      /\ Cardinality(Waiting(m)) \in Nat
      /\ Cardinality(Waiting(m)) <= Cardinality(Caller)
  BY WaitingCounts DEF IInv, TypeOK, Minute, BucketCounts
<1>4. \/ bucket.window = m /\ admitted[m] + RateLimit - bucket.count <= Allowance
      \/ bucket.window # m /\ admitted[m] + RateLimit <= Allowance
      \/ /\ Cardinality(Waiting(m)) < Cardinality(Caller)
         /\ admitted[m] + Cardinality(Waiting(m)) <= Allowance + Cardinality(Caller) - 1
  BY DEF IInv, PastMinutes
<1>5. CASE w = m
  <2>1. Cardinality(Waiting(m)') = Cardinality(Waiting(m)) - 1
    BY <1>1, <1>5, AllowWaiting
  <2> QED
    BY <1>1, <1>2, <1>3, <1>4, <1>5, <2>1, AllowCases
<1>6. CASE w # m
  <2>1. Cardinality(Waiting(m)') = Cardinality(Waiting(m))
    BY <1>1, <1>6, AllowWaiting
  <2>2. bucket'.window # m /\ admitted'[m] = admitted[m]
    BY <1>1, <1>3, <1>6, AllowCases
  <2>3. CASE bucket.window = m /\ admitted[m] + RateLimit - bucket.count <= Allowance
    <3>1. Waiting(m) \in SUBSET Caller /\ c \notin Waiting(m)
      BY <1>6 DEF Waiting
    <3>2. Cardinality(Waiting(m)) < Cardinality(Caller)
      BY <3>1, MissingOne
    <3> QED
      BY <1>2, <1>3, <2>1, <2>2, <2>3, <3>2
  <2> QED
    BY <1>4, <2>1, <2>2, <2>3
<1> QED
  BY <1>5, <1>6

\* A call at the bucket keeps the invariant.
LEMMA AllowIInv ==
  ASSUME IInv, NEW c \in Caller, Allow(c)
  PROVE  IInv'
<1>1. TypeOK /\ BucketCounts /\ window[c] \in Minute /\ RateLimit \in Nat \ {0}
  BY LimitType DEF IInv, TypeOK
<1>2. TypeOK'
  BY <1>1, AllowCases DEF TypeOK, Allow
<1>3. BucketCounts'
  <2>1. minute' = minute /\ window' = window /\ RateLimit' = RateLimit
    BY DEF Allow, RateLimit
  <2>2. window[c] <= minute /\ \A m \in Minute : m > minute => m # window[c]
    BY <1>1 DEF BucketCounts, TypeOK, Minute
  <2>3. bucket.count \in Nat /\ admitted[window[c]] \in Nat
    BY <1>1 DEF TypeOK
  <2>4. /\ bucket'.count <= RateLimit
        /\ bucket'.count <= admitted'[window[c]]
        /\ bucket'.window = window[c]
        /\ \A m \in Minute : m > minute => admitted'[m] = 0
    <3>1. bucket.window = window[c] => bucket.count <= admitted[window[c]]
      BY <1>1 DEF BucketCounts, Minute
    <3> QED
      BY <1>1, <2>2, <2>3, <3>1, AllowCases DEF BucketCounts
  <2>5. \A d \in Caller : window[d] <= minute
    BY <1>1 DEF BucketCounts
  <2> QED
    BY <2>1, <2>2, <2>4, <2>5 DEF BucketCounts
<1> QED
  BY <1>2, <1>3, AllowPresent, AllowPast DEF IInv

\* Every step keeps the invariant.
LEMMA NextIInv == IInv /\ [Next]_vars => IInv'
<1> SUFFICES ASSUME IInv, [Next]_vars PROVE IInv'
  OBVIOUS
<1>1. ASSUME NEW c \in Caller, ReadClock(c)  PROVE IInv'
  BY <1>1, ReadClockIInv
<1>2. ASSUME NEW c \in Caller, Allow(c)  PROVE IInv'
  BY <1>2, AllowIInv
<1>3. CASE Restart
  BY <1>3, RestartIInv
<1>4. CASE Tick
  BY <1>4, TickIInv
<1>5. CASE UNCHANGED vars
  BY <1>5 DEF vars, IInv, TypeOK, PresentMinute, BucketCounts, PastMinutes, Late, Waiting,
              Allowance, RateLimit
<1> QED
  BY <1>1, <1>2, <1>3, <1>4, <1>5 DEF Next

-----------------------------------------------------------------------------

\* The invariant holds in every reachable state.
LEMMA Invariance == Spec => []IInv
BY InitIInv, NextIInv, PTL DEF Spec

\* Every variable keeps its type (rateLimiter.allow).
THEOREM TypeCorrect == Spec => []TypeOK
<1>1. IInv => TypeOK
  BY DEF IInv
<1> QED
  BY <1>1, Invariance, PTL

\* The calls admitted with one minute stay within a limit for every call that
\* may be in the limiter at a time and every restart, and one call of every
\* other caller: exactly one limit when calls come one after the other
\* (rateLimiter.allow).
THEOREM AdmissionsBounded == Spec => []AdmittedBounded
<1>1. IInv => AdmittedBounded
  <2> SUFFICES ASSUME IInv, NEW m \in Minute
               PROVE  admitted[m] <= Allowance + Cardinality(Caller) - 1
    BY DEF AdmittedBounded
  <2>1. /\ admitted[m] \in Nat /\ bucket.count \in Nat /\ bucket.count <= RateLimit
        /\ Allowance \in Nat /\ RateLimit \in Nat /\ Cardinality(Caller) \in Nat \ {0}
        /\ Cardinality(Late) * RateLimit \in Nat /\ Cardinality(Waiting(m)) \in Nat
    BY AllowanceType, LimitType, CallersType, WaitingCounts, Multiples
       DEF IInv, TypeOK, BucketCounts
  <2>2. CASE m = minute
    <3>1. admitted[m] <= Allowance
      BY <2>1, <2>2 DEF IInv, PresentMinute
    <3> QED
      BY <2>1, <3>1
  <2>3. CASE m > minute
    <3>1. admitted[m] = 0
      BY <2>3 DEF IInv, BucketCounts
    <3> QED
      BY <2>1, <3>1
  <2>4. CASE m < minute
    <3>1. m \in 1 .. minute - 1
      BY <2>4 DEF IInv, TypeOK, Minute
    <3> QED
      BY <2>1, <3>1 DEF IInv, PastMinutes
  <2> QED
    BY <2>2, <2>3, <2>4 DEF IInv, TypeOK, Minute
<1> QED
  BY <1>1, Invariance, PTL

\* No call is refused before a whole limit of calls of its own minute has been
\* admitted (rateLimiter.allow).
THEOREM RefusalsJustified == Spec => RefusedOnlyWhenSpent
<1> DEFINE Justified ==
      \A c \in Caller :
        stage[c] = "waiting" /\ stage'[c] = "idle" /\ admitted' = admitted /\ restarts' = restarts
          => admitted[window[c]] >= RateLimit
<1>1. IInv /\ [Next]_vars => Justified
  <2> SUFFICES ASSUME IInv, [Next]_vars, NEW c \in Caller, stage[c] = "waiting",
                      stage'[c] = "idle", admitted' = admitted, restarts' = restarts
               PROVE  admitted[window[c]] >= RateLimit
    BY Zenon
  <2>1. TypeOK /\ BucketCounts /\ window[c] \in Minute /\ RateLimit \in Nat
    BY LimitType DEF IInv, TypeOK
  <2>2. CASE Allow(c)
    <3>1. admitted[window[c]] \in Nat /\ admitted'[window[c]] = admitted[window[c]]
      BY <2>1 DEF TypeOK
    <3>2. bucket.window = window[c] /\ bucket.count = RateLimit
      BY <2>1, <2>2, <3>1, AllowCases
    <3> QED
      BY <2>1, <3>1, <3>2 DEF BucketCounts, Minute
  <2>3. ASSUME NEW d \in Caller, ReadClock(d) \/ (Allow(d) /\ d # c)  PROVE FALSE
    BY <2>3, <2>1 DEF ReadClock, Allow, TypeOK
  <2>4. ~Restart
    BY <2>1 DEF Restart, TypeOK
  <2>5. ~Tick /\ ~UNCHANGED vars
    BY DEF Tick, vars
  <2> QED
    BY <2>2, <2>3, <2>4, <2>5 DEF Next
<1>2. Spec => [][Justified]_vars
  BY <1>1, Invariance, PTL DEF Spec
<1> QED
  BY <1>2 DEF RefusedOnlyWhenSpent

\* The limiter in a behaviour of the whole.
LEMMA LimiterInPart == SpecPart => Spec
<1>1. InitPart => Init
  BY DEF InitPart
<1>2. [NextPart]_allVars => [Next]_vars
  BY DEF NextPart, allVars, vars
<1> QED
  BY <1>1, <1>2, PTL DEF SpecPart, Spec

-----------------------------------------------------------------------------
(* Transfers: the inductive invariant.                                     *)

\* The owner's permit of a request went through.
HasPermit(r) ==
  \E i \in DOMAIN trLine["project"] :
    trLine["project"][i] = [by |-> r, step |-> "permit", status |-> "success"]

\* A transaction in a line is its request's only one of that step, at the
\* place the request prepared last.
PlacedOf(r) ==
  \A w \in Sent!Wallet : \A i \in DOMAIN trLine[w] : trLine[w][i].by = r =>
    /\ trPayment[r] \in Payment
    /\ w = Sent!Sender(trPayment[r])
    /\ KindOf[trPayment[r]] # "validate"
    /\ trLine[w][i].step = "permit" =>
         /\ Sent!WithPermit(trPayment[r])
         /\ trStep[r] = "transfer" => trLine[w][i].status # "pending"
    /\ trLine[w][i].step = "transfer" =>
         /\ trStep[r] = "transfer"
         /\ trStage[r] = "failed" => trLine[w][i].status = "reverted"
    /\ trLine[w][i].step = trStep[r] =>
         i = trNonce[r] /\ trStage[r] \notin {"idle", "prepare", "send"}

Placed == \A r \in TransferRequest : PlacedOf(r)

PlacedOnce ==
  \A w \in Sent!Wallet : \A i, j \in DOMAIN trLine[w] :
    trLine[w][i].by = trLine[w][j].by /\ trLine[w][i].by # NoRequest
      /\ trLine[w][i].step = trLine[w][j].step => i = j

\* What a request knows.
AskedOf(r) ==
  /\ trStage[r] = "idle" =>
       trNonce[r] = 0 /\ trPayment[r] = NoPayment /\ trStep[r] = "transfer"
  /\ trStage[r] # "idle" =>
       /\ trPayment[r] \in Payment
       /\ trStep[r] = "permit" => Sent!WithPermit(trPayment[r])
       /\ trStage[r] = "send" => trNonce[r] > 0
       /\ trStage[r] \in {"send", "wait"} => KindOf[trPayment[r]] # "validate"
       /\ KindOf[trPayment[r]] = "permit" => trSigned[r] = SignedNonce[trPayment[r]]

Asked == \A r \in TransferRequest : AskedOf(r)

\* A request's transaction in its wallet's line.
Has(r, i, s) ==
  /\ i \in DOMAIN trLine[Sent!Sender(trPayment[r])]
  /\ trLine[Sent!Sender(trPayment[r])][i].by = r
  /\ trLine[Sent!Sender(trPayment[r])][i].step = s

\* What the receipts a request was given stand for, unless another
\* transaction took the place of one of its own.
AnsweredOf(r) ==
  r \notin trDisplaced /\ trStage[r] # "idle" =>
    /\ trStage[r] = "wait" => Has(r, trNonce[r], trStep[r])
    /\ trStage[r] = "ok" /\ KindOf[trPayment[r]] # "validate" =>
         \E i \in Nat :
           /\ Has(r, i, "transfer")
           /\ trLine[Sent!Sender(trPayment[r])][i].status # "pending"
           /\ KindOf[trPayment[r]] # "token" =>
                trLine[Sent!Sender(trPayment[r])][i].status = "success"
    /\ trStep[r] = "transfer" /\ Sent!WithPermit(trPayment[r]) => HasPermit(r)

Answers == \A r \in TransferRequest : AnsweredOf(r)

\* Permits go through in the order of their nonces.
Permits ==
  /\ \A r \in TransferRequest : HasPermit(r) => trSigned[r] < trOwnerNonce
  /\ \A r, q \in TransferRequest :
       HasPermit(r) /\ HasPermit(q) /\ r # q => trSigned[r] # trSigned[q]
  /\ trOwnerNonce = Cardinality({r \in TransferRequest : HasPermit(r)})

\* What is left of the allowance is of a permit that has not paid.
Leftover ==
  trAllowance > 0 =>
    \E r \in TransferRequest :
      /\ HasPermit(r)
      /\ trAllowance <= AmountOf[trPayment[r]]
      /\ \A i \in DOMAIN trLine["project"] :
           trLine["project"][i] # [by |-> r, step |-> "transfer", status |-> "success"]

\* What requests may still send.
Unsent ==
  {p \in TransferRequest \X Sent!Step :
     \/ trStage[p[1]] = "idle"
     \/ trStage[p[1]] \in {"prepare", "send"} /\ p[2] = trStep[p[1]]
     \/ trStage[p[1]] \in Sent!Running /\ trStep[p[1]] = "permit" /\ p[2] = "transfer"}

LinesBounded ==
  \A w \in Sent!Wallet :
    Len(trLine[w]) + Cardinality(Unsent) + MaxOthers - trOthers <= Sent!LineBound

SentIInv ==
  /\ Sent!TypeOK
  /\ Placed
  /\ PlacedOnce
  /\ Asked
  /\ Answers
  /\ Permits
  /\ Leftover
  /\ LinesBounded

USE TransferAssumption DEF Sent!KindAssumption, Sent!AmountAssumption,
    Sent!NonceAssumption, Sent!NobodyAssumption, Sent!FiniteAssumption,
    Sent!BoundAssumption, Sent!Wallet, Sent!Step, Sent!Stage, Sent!Running, Sent!Kind

\* The operators of FiniteSets are the same in every instance.
LEMMA SentFinite ==
  /\ \A S : Sent!Cardinality(S) = Cardinality(S)
  /\ \A S : Sent!IsFiniteSet(S) <=> IsFiniteSet(S)
BY DEF Sent!Cardinality, Cardinality, Sent!IsFiniteSet, IsFiniteSet

LEMMA RequestsFinite ==
  /\ IsFiniteSet(TransferRequest)
  /\ Cardinality(TransferRequest) \in Nat
  /\ Sent!NonceBound = Cardinality(TransferRequest) + 1
  /\ Sent!LineBound = 2 * Cardinality(TransferRequest) + MaxOthers
<1>1. IsFiniteSet(TransferRequest)
  BY SentFinite
<1> QED
  BY <1>1, SentFinite, FS_CardinalityType DEF Sent!NonceBound, Sent!LineBound

\* A wallet pays for a request from one line.
LEMMA Senders ==
  \A p \in Payment :
    /\ Sent!Sender(p) \in Sent!Wallet
    /\ KindOf[p] # "native" => Sent!Sender(p) = "project"
    /\ Sent!WithPermit(p) <=> KindOf[p] \in {"permit", "managed"}
    /\ Sent!WithPermit(p) => Sent!Sender(p) = "project"
    /\ AmountOf[p] \in Nat /\ SignedNonce[p] \in Nat
BY DEF Sent!Sender, Sent!WithPermit

\* What is still unsent is finite, and every new transaction takes of it.
LEMMA UnsentFinite ==
  /\ IsFiniteSet(Unsent) /\ Cardinality(Unsent) \in Nat
  /\ IsFiniteSet(TransferRequest \X {"permit", "transfer"})
  /\ Cardinality(TransferRequest \X {"permit", "transfer"}) = 2 * Cardinality(TransferRequest)
<1>1. IsFiniteSet({"permit", "transfer"}) /\ Cardinality({"permit", "transfer"}) = 2
  <2>1. IsFiniteSet({"permit"}) /\ Cardinality({"permit"}) = 1
    BY FS_Singleton
  <2>2. /\ IsFiniteSet({"permit"} \cup {"transfer"})
        /\ Cardinality({"permit"} \cup {"transfer"}) = Cardinality({"permit"}) + 1
    BY <2>1, FS_AddElement, "transfer" \notin {"permit"}
  <2>3. {"permit", "transfer"} = {"permit"} \cup {"transfer"}
    OBVIOUS
  <2> QED
    BY <2>1, <2>2, <2>3
<1>2. /\ IsFiniteSet(TransferRequest \X {"permit", "transfer"})
      /\ Cardinality(TransferRequest \X {"permit", "transfer"})
           = Cardinality(TransferRequest) * 2
  BY <1>1, RequestsFinite, FS_Product
<1>3. Unsent \subseteq TransferRequest \X {"permit", "transfer"}
  BY DEF Unsent
<1>4. IsFiniteSet(Unsent)
  BY <1>2, <1>3, FS_Subset
<1> QED
  BY <1>2, <1>4, FS_CardinalityType, RequestsFinite

\* What stands in a line.
LEMMA LineTypes ==
  ASSUME Sent!TypeOK, NEW w \in Sent!Wallet, NEW i \in DOMAIN trLine[w]
  PROVE  /\ trLine[w][i] \in Sent!Transaction
         /\ trLine[w][i].by \in TransferRequest \cup {NoRequest}
         /\ trLine[w][i].step \in Sent!Step
         /\ trLine[w][i].status \in {"pending", "success", "reverted"}
         /\ trLine[w][i] = [by |-> trLine[w][i].by, step |-> trLine[w][i].step,
                            status |-> trLine[w][i].status]
         /\ i \in Nat \ {0}
<1>1. trLine[w] \in Seq(Sent!Transaction)
  BY DEF Sent!TypeOK
<1>2. trLine[w][i] \in Sent!Transaction /\ i \in Nat \ {0}
  BY <1>1
<1> QED
  BY <1>2 DEF Sent!Transaction

\* A transaction is mined.
LEMMA LineMined ==
  ASSUME Sent!TypeOK, NEW w \in Sent!Wallet, NEW i \in DOMAIN trLine[w],
         NEW st \in {"success", "reverted"},
         trLine' = [trLine EXCEPT ![w][i].status = st]
  PROVE  /\ trLine' \in [Sent!Wallet -> Seq(Sent!Transaction)]
         /\ \A v \in Sent!Wallet : Len(trLine'[v]) = Len(trLine[v])
         /\ trLine'[w][i] = [by |-> trLine[w][i].by, step |-> trLine[w][i].step, status |-> st]
         /\ \A v \in Sent!Wallet : \A j \in DOMAIN trLine[v] :
              v # w \/ j # i => trLine'[v][j] = trLine[v][j]
<1>0. trLine \in [Sent!Wallet -> Seq(Sent!Transaction)] /\ trLine[w] \in Seq(Sent!Transaction)
  BY DEF Sent!TypeOK
<1> DEFINE t == [by |-> trLine[w][i].by, step |-> trLine[w][i].step, status |-> st]
<1>1. trLine[w][i] \in Sent!Transaction
  BY <1>0
<1>2. t \in Sent!Transaction /\ t = [trLine[w][i] EXCEPT !.status = st]
  BY <1>1 DEF Sent!Transaction
<1>3. trLine' = [trLine EXCEPT ![w] = [trLine[w] EXCEPT ![i] = t]]
  BY <1>0, <1>2
<1>4. [trLine[w] EXCEPT ![i] = t] \in Seq(Sent!Transaction)
      /\ Len([trLine[w] EXCEPT ![i] = t]) = Len(trLine[w])
  BY <1>0, <1>2
<1> HIDE DEF t
<1>5. /\ trLine'[w] = [trLine[w] EXCEPT ![i] = t]
      /\ \A v \in Sent!Wallet \ {w} : trLine'[v] = trLine[v]
      /\ trLine' \in [Sent!Wallet -> Seq(Sent!Transaction)]
  BY ONLY <1>0, <1>3, <1>4, w \in Sent!Wallet
<1>6. trLine'[w][i] = t /\ \A j \in DOMAIN trLine[w] \ {i} : trLine'[w][j] = trLine[w][j]
  BY <1>0, <1>5
<1> QED
  BY <1>4, <1>5, <1>6 DEF t

\* A transaction comes to the end of a line, or in the place of a pending one.
LEMMA LineAccepted ==
  ASSUME Sent!TypeOK, NEW w \in Sent!Wallet, NEW n \in Nat \ {0},
         NEW t \in Sent!Transaction, Sent!Accepts(w, n, t)
  PROVE  /\ trLine' \in [Sent!Wallet -> Seq(Sent!Transaction)]
         /\ n \in 1 .. Len(trLine[w]) + 1
         /\ n \in DOMAIN trLine'[w] /\ trLine'[w][n] = t
         /\ \A v \in Sent!Wallet :
              /\ DOMAIN trLine[v] \subseteq DOMAIN trLine'[v]
              /\ Len(trLine[v]) <= Len(trLine'[v]) /\ Len(trLine'[v]) <= Len(trLine[v]) + 1
              /\ \A j \in DOMAIN trLine'[v] : v # w \/ j # n =>
                   j \in DOMAIN trLine[v] /\ trLine'[v][j] = trLine[v][j]
         /\ n \in DOMAIN trLine[w] =>
              trLine[w][n].status = "pending" /\ trDisplaced' = trDisplaced \cup {trLine[w][n].by}
         /\ n \notin DOMAIN trLine[w] => trDisplaced' = trDisplaced
<1>0. trLine \in [Sent!Wallet -> Seq(Sent!Transaction)] /\ trLine[w] \in Seq(Sent!Transaction)
  BY DEF Sent!TypeOK
<1>1. CASE /\ n = Len(trLine[w]) + 1
           /\ trLine' = [trLine EXCEPT ![w] = Append(@, t)]
           /\ UNCHANGED trDisplaced
  <2>1. /\ Append(trLine[w], t) \in Seq(Sent!Transaction)
        /\ Len(Append(trLine[w], t)) = Len(trLine[w]) + 1
        /\ Append(trLine[w], t)[n] = t
        /\ \A j \in 1 .. Len(trLine[w]) : Append(trLine[w], t)[j] = trLine[w][j]
    BY <1>0, <1>1
  <2>2. /\ trLine'[w] = Append(trLine[w], t)
        /\ \A v \in Sent!Wallet \ {w} : trLine'[v] = trLine[v]
        /\ trLine' \in [Sent!Wallet -> Seq(Sent!Transaction)]
    BY <1>0, <1>1, <2>1
  <2> QED
    BY <1>0, <1>1, <2>1, <2>2
<1>2. CASE /\ n <= Len(trLine[w])
           /\ trLine[w][n].status = "pending"
           /\ trLine' = [trLine EXCEPT ![w][n] = t]
           /\ trDisplaced' = trDisplaced \cup {trLine[w][n].by}
  <2>0. n \in DOMAIN trLine[w]
    BY <1>0, <1>2
  <2>1. /\ [trLine[w] EXCEPT ![n] = t] \in Seq(Sent!Transaction)
        /\ Len([trLine[w] EXCEPT ![n] = t]) = Len(trLine[w])
        /\ [trLine[w] EXCEPT ![n] = t][n] = t
        /\ \A j \in 1 .. Len(trLine[w]) : j # n => [trLine[w] EXCEPT ![n] = t][j] = trLine[w][j]
    BY <1>0, <2>0
  <2>2. /\ trLine'[w] = [trLine[w] EXCEPT ![n] = t]
        /\ \A v \in Sent!Wallet \ {w} : trLine'[v] = trLine[v]
        /\ trLine' \in [Sent!Wallet -> Seq(Sent!Transaction)]
    BY <1>0, <1>2, <2>1
  <2> QED
    BY <1>0, <1>2, <2>0, <2>1, <2>2
<1> QED
  BY <1>1, <1>2 DEF Sent!Accepts

LEMMA LocalStep ==
  ASSUME SentIInv, NEW r \in TransferRequest,
         UNCHANGED <<trLine, trDisplaced, trOthers, trAllowance, trOwnerNonce, trBalance>>,
         trStage' \in [TransferRequest -> Sent!Stage],
         trStep' \in [TransferRequest -> Sent!Step],
         trPayment' \in [TransferRequest -> Payment \cup {NoPayment}],
         trSigned' \in [TransferRequest -> Nat],
         trNonce' \in [TransferRequest -> Nat],
         \A q \in TransferRequest \ {r} :
           /\ trStage'[q] = trStage[q] /\ trStep'[q] = trStep[q]
           /\ trPayment'[q] = trPayment[q] /\ trSigned'[q] = trSigned[q]
           /\ trNonce'[q] = trNonce[q],
         \/ trNonce'[r] = trNonce[r] /\ trPayment'[r] = trPayment[r]
         \/ trNonce'[r] = 0
         \/ /\ trPayment'[r] \in Payment
            /\ trNonce'[r] = Len(trLine[Sent!Sender(trPayment'[r])]) + 1
            /\ <<r, trStep[r]>> \in Unsent,
         \A s \in Sent!Step : <<r, s>> \in Unsent' => <<r, s>> \in Unsent,
         HasPermit(r) => trSigned'[r] = trSigned[r] /\ trPayment'[r] = trPayment[r],
         PlacedOf(r)', AskedOf(r)', AnsweredOf(r)'
  PROVE  SentIInv'
<1> USE DEF SentIInv
<1>1. \A q \in TransferRequest : HasPermit(q)' <=> HasPermit(q)
  BY DEF HasPermit
<1>2. PlacedOnce'
  <2>1. PlacedOnce /\ trLine' = trLine
    OBVIOUS
  <2> QED
    BY ONLY <2>1 DEF PlacedOnce
<1>3. Placed'
  <2> SUFFICES ASSUME NEW q \in TransferRequest \ {r} PROVE PlacedOf(q)'
    BY DEF Placed
  <2>1. PlacedOf(q)
    BY DEF Placed
  <2>2. /\ trLine' = trLine
        /\ trStage'[q] = trStage[q] /\ trStep'[q] = trStep[q]
        /\ trPayment'[q] = trPayment[q] /\ trNonce'[q] = trNonce[q]
    OBVIOUS
  <2> QED
    BY ONLY <2>1, <2>2 DEF PlacedOf, Sent!Sender, Sent!WithPermit, Sent!Wallet
<1>4. Asked'
  <2> SUFFICES ASSUME NEW q \in TransferRequest \ {r} PROVE AskedOf(q)'
    BY DEF Asked
  <2>1. AskedOf(q)
    BY DEF Asked
  <2> QED
    BY <2>1 DEF AskedOf, Sent!WithPermit
<1>5. Answers'
  <2> SUFFICES ASSUME NEW q \in TransferRequest \ {r} PROVE AnsweredOf(q)'
    BY DEF Answers
  <2> QED
    <3>1. AnsweredOf(q)
      BY DEF Answers
    <3> QED
      BY <1>1, <3>1 DEF AnsweredOf, Has, Sent!Sender, Sent!WithPermit
<1>6. Permits'
  <2>1. \A q \in TransferRequest : HasPermit(q)' => HasPermit(q) /\ trSigned'[q] = trSigned[q]
    BY <1>1
  <2>2. {q \in TransferRequest : HasPermit(q)'} = {q \in TransferRequest : HasPermit(q)}
    BY <1>1
  <2> QED
    <3>1. \A q \in TransferRequest : HasPermit(q)' => trSigned'[q] < trOwnerNonce'
      BY <2>1 DEF Permits
    <3>2. \A p, q \in TransferRequest :
            HasPermit(p)' /\ HasPermit(q)' /\ p # q => trSigned'[p] # trSigned'[q]
      <4>1. \A p, q \in TransferRequest :
              HasPermit(p) /\ HasPermit(q) /\ p # q => trSigned[p] # trSigned[q]
        BY DEF Permits
      <4> QED
        BY ONLY <2>1, <4>1
    <3>3. trOwnerNonce' = Cardinality({q \in TransferRequest : HasPermit(q)'})
      BY <2>2 DEF Permits
    <3> QED
      BY <3>1, <3>2, <3>3 DEF Permits
<1>7. Leftover'
  BY <1>1 DEF Leftover
<1>8. Cardinality(Unsent') <= Cardinality(Unsent) /\ Cardinality(Unsent') \in Nat
  <2>1. Unsent' \subseteq Unsent
    BY DEF Unsent
  <2> QED
    BY <2>1, UnsentFinite, FS_Subset, FS_CardinalityType
<1>9. LinesBounded'
  <2> SUFFICES ASSUME NEW w \in Sent!Wallet
               PROVE  Len(trLine'[w]) + Cardinality(Unsent') + MaxOthers - trOthers'
                        <= Sent!LineBound
    BY DEF LinesBounded
  <2>1. Len(trLine[w]) + Cardinality(Unsent) + MaxOthers - trOthers <= Sent!LineBound
    BY DEF LinesBounded
  <2>2. Len(trLine[w]) \in Nat /\ trOthers \in Nat
    BY DEF Sent!TypeOK
  <2>3. trLine' = trLine /\ trOthers' = trOthers /\ MaxOthers \in Nat
        /\ Cardinality(Unsent) \in Nat /\ Sent!LineBound \in Nat
    BY UnsentFinite, RequestsFinite
  <2> QED
    BY ONLY <1>8, <2>1, <2>2, <2>3
<1>10. Sent!TypeOK'
  <2>1. <<r, trStep[r]>> \in Unsent => Cardinality(Unsent) > 0
    BY UnsentFinite, FS_EmptySet
  <2>2. trNonce'[r] <= Sent!LineBound
    <3>1. CASE /\ trPayment'[r] \in Payment
               /\ trNonce'[r] = Len(trLine[Sent!Sender(trPayment'[r])]) + 1
               /\ <<r, trStep[r]>> \in Unsent
      <4>1. PICK w \in Sent!Wallet : trNonce'[r] = Len(trLine[w]) + 1
        BY <3>1, Senders
      <4>2. Len(trLine[w]) + Cardinality(Unsent) + MaxOthers - trOthers <= Sent!LineBound
        BY DEF LinesBounded
      <4>3. Len(trLine[w]) \in Nat /\ trOthers \in 0 .. MaxOthers
        BY DEF Sent!TypeOK
      <4>4. Cardinality(Unsent) \in Nat \ {0} /\ Sent!LineBound \in Nat /\ MaxOthers \in Nat
        BY <2>1, <3>1, UnsentFinite, RequestsFinite
      <4> QED
        BY ONLY <4>1, <4>2, <4>3, <4>4
    <3>2. CASE trNonce'[r] = trNonce[r] \/ trNonce'[r] = 0
      BY <3>2, RequestsFinite DEF Sent!TypeOK
    <3> QED
      BY <3>1, <3>2
  <2>3. trPayment'[r] \in Payment => trNonce'[r] <= Len(trLine[Sent!Sender(trPayment'[r])]) + 1
    BY Senders DEF Sent!TypeOK
  <2>4. trNonce' \in [TransferRequest -> 0 .. Sent!LineBound]
    <3>1. trNonce \in [TransferRequest -> 0 .. Sent!LineBound] /\ Sent!LineBound \in Nat
      BY RequestsFinite DEF Sent!TypeOK
    <3>2. trNonce' \in [TransferRequest -> Nat]
          /\ \A q \in TransferRequest \ {r} : trNonce'[q] = trNonce[q]
      OBVIOUS
    <3>3. \A q \in TransferRequest : trNonce'[q] \in 0 .. Sent!LineBound
      BY ONLY <2>2, <3>1, <3>2
    <3> QED
      BY ONLY <3>2, <3>3
  <2>5. \A q \in TransferRequest : trPayment'[q] \in Payment =>
          trNonce'[q] <= Len(trLine'[Sent!Sender(trPayment'[q])]) + 1
    BY <2>3 DEF Sent!TypeOK
  <2> QED
    BY <2>4, <2>5 DEF Sent!TypeOK
<1> QED
  BY <1>2, <1>3, <1>4, <1>5, <1>6, <1>7, <1>9, <1>10

\* Before a request is served it has no transaction.
LEMMA IdleHasNone ==
  ASSUME SentIInv, NEW r \in TransferRequest, trStage[r] = "idle"
  PROVE  /\ \A w \in Sent!Wallet : \A i \in DOMAIN trLine[w] : trLine[w][i].by # r
         /\ ~HasPermit(r)
<1>1. PlacedOf(r) /\ AskedOf(r)
  BY DEF SentIInv, Placed, Asked
<1>2. \A w \in Sent!Wallet : \A i \in DOMAIN trLine[w] : trLine[w][i].by # r
  BY <1>1 DEF PlacedOf, AskedOf
<1> QED
  BY <1>2 DEF HasPermit

LEMMA StartStep ==
  ASSUME SentIInv, NEW r \in TransferRequest, NEW p \in Payment, NEW s \in Sent!Step,
         NEW n \in Nat, Sent!Start(r, p, s, n),
         s = "permit" <=> KindOf[p] \in {"permit", "managed"},
         KindOf[p] = "permit" => n = SignedNonce[p]
  PROVE  SentIInv'
<1>1. /\ trStage[r] = "idle"
      /\ trPayment' = [trPayment EXCEPT ![r] = p]
      /\ \/ trStage' = [trStage EXCEPT ![r] = "prepare"]
         \/ trStage' = [trStage EXCEPT ![r] = "failed"]
      /\ trStep' = [trStep EXCEPT ![r] = s]
      /\ trSigned' = [trSigned EXCEPT ![r] = n]
      /\ trNonce' = trNonce
      /\ UNCHANGED <<trLine, trDisplaced, trOthers, trAllowance, trOwnerNonce, trBalance>>
  BY DEF Sent!Start, Sent!tokenVars
<1>2. /\ trPayment \in [TransferRequest -> Payment \cup {NoPayment}]
      /\ trStage \in [TransferRequest -> Sent!Stage]
      /\ trStep \in [TransferRequest -> Sent!Step]
      /\ trSigned \in [TransferRequest -> Nat]
      /\ trNonce \in [TransferRequest -> Nat]
  BY RequestsFinite DEF SentIInv, Sent!TypeOK
<1>3. /\ trPayment'[r] = p /\ trStage'[r] \in {"prepare", "failed"} /\ trStep'[r] = s
      /\ trSigned'[r] = n /\ trNonce'[r] = trNonce[r]
  BY <1>1, <1>2
<1>4. /\ \A w \in Sent!Wallet : \A i \in DOMAIN trLine[w] : trLine[w][i].by # r
      /\ ~HasPermit(r)
  BY <1>1, IdleHasNone
<1>5. PlacedOf(r)'
  BY <1>1, <1>4 DEF PlacedOf
<1>6. AskedOf(r)'
  BY <1>3 DEF AskedOf, Sent!WithPermit
<1>7. AnsweredOf(r)'
  BY <1>3 DEF AnsweredOf, Sent!WithPermit
<1>8. \A t \in Sent!Step : <<r, t>> \in Unsent
  BY <1>1 DEF Unsent
<1>9. trNonce'[r] = 0
  BY <1>1, <1>3 DEF SentIInv, Asked, AskedOf
<1>10. /\ trStage' \in [TransferRequest -> Sent!Stage]
       /\ trStep' \in [TransferRequest -> Sent!Step]
       /\ trPayment' \in [TransferRequest -> Payment \cup {NoPayment}]
       /\ trSigned' \in [TransferRequest -> Nat]
       /\ trNonce' \in [TransferRequest -> Nat]
       /\ \A q \in TransferRequest \ {r} :
           /\ trStage'[q] = trStage[q] /\ trStep'[q] = trStep[q]
           /\ trPayment'[q] = trPayment[q] /\ trSigned'[q] = trSigned[q]
           /\ trNonce'[q] = trNonce[q]
  BY <1>1, <1>2
<1> QED
  BY <1>1, <1>4, <1>5, <1>6, <1>7, <1>8, <1>9, <1>10, LocalStep

LEMMA BeginStep ==
  ASSUME SentIInv, NEW r \in TransferRequest, NEW p \in Payment, Sent!Begin(r, p)
  PROVE  SentIInv'
<1>1. SignedNonce[p] \in Nat /\ trOwnerNonce \in Nat
  BY RequestsFinite DEF SentIInv, Sent!TypeOK
<1>2. CASE KindOf[p] \in {"token", "native"} /\ Sent!Start(r, p, "transfer", 0)
  BY <1>2, StartStep
<1>3. CASE KindOf[p] = "permit" /\ Sent!Start(r, p, "permit", SignedNonce[p])
  BY <1>1, <1>3, StartStep
<1>4. CASE KindOf[p] = "managed" /\ Sent!Start(r, p, "permit", trOwnerNonce)
  BY <1>1, <1>4, StartStep
<1>5. CASE KindOf[p] = "validate" /\ Sent!Start(r, p, "transfer", trOwnerNonce)
  BY <1>1, <1>5, StartStep
<1> QED
  BY <1>2, <1>3, <1>4, <1>5 DEF Sent!Begin, Sent!ERC20Transfer, Sent!ERC20TransferWithPermit,
     Sent!ERC20ManagedTransferWithPermit, Sent!ManagedNativeTransfer

\* A step of a script that sends nothing: it ends or goes on to its next step.
LEMMA ScriptStep ==
  ASSUME SentIInv, NEW r \in TransferRequest, trStage[r] \in Sent!Running,
         NEW st \in Sent!Stage \ {"idle"}, NEW sp \in Sent!Step,
         trStage' = [trStage EXCEPT ![r] = st],
         trStep' = [trStep EXCEPT ![r] = sp],
         UNCHANGED <<trPayment, trSigned, trNonce, trLine, trDisplaced, trOthers,
                     trAllowance, trOwnerNonce, trBalance>>,
         st # "send", st # "wait",
         st = "prepare" => trStep[r] = "permit" /\ trStage[r] = "wait",
         sp = IF st = "prepare" THEN "transfer" ELSE trStep[r],
         PlacedOf(r)', AnsweredOf(r)'
  PROVE  SentIInv'
<1>2. /\ trStage \in [TransferRequest -> Sent!Stage]
      /\ trStep \in [TransferRequest -> Sent!Step]
      /\ trPayment \in [TransferRequest -> Payment \cup {NoPayment}]
      /\ trSigned \in [TransferRequest -> Nat]
      /\ trNonce \in [TransferRequest -> Nat]
  BY RequestsFinite DEF SentIInv, Sent!TypeOK
<1>3. /\ trStage'[r] = st /\ trStep'[r] = sp
      /\ trStage' \in [TransferRequest -> Sent!Stage]
      /\ trStep' \in [TransferRequest -> Sent!Step]
      /\ \A q \in TransferRequest \ {r} : trStage'[q] = trStage[q] /\ trStep'[q] = trStep[q]
  BY <1>2
<1>4. AskedOf(r)
  BY DEF SentIInv, Asked
<1>5. AskedOf(r)'
  BY <1>3, <1>4 DEF AskedOf, Sent!WithPermit
<1>6. \A s \in Sent!Step : <<r, s>> \in Unsent' => <<r, s>> \in Unsent
  BY <1>3 DEF Unsent
<1> QED
  BY <1>2, <1>3, <1>5, <1>6, LocalStep

LEMMA ScriptEnds ==
  ASSUME SentIInv, NEW r \in TransferRequest,
         \/ Sent!Validate(r)
         \/ Sent!GiveUp(r)
         \/ /\ trStage[r] \in {"prepare", "send"}
            /\ trStage' = [trStage EXCEPT ![r] = "failed"]
            /\ UNCHANGED <<trStep, trPayment, trSigned, trNonce, trLine, trDisplaced, trOthers,
                           trAllowance, trOwnerNonce, trBalance>>
  PROVE  SentIInv'
<1>1. PlacedOf(r) /\ AskedOf(r) /\ AnsweredOf(r)
  BY DEF SentIInv, Placed, Asked, Answers
<1>2. PICK st \in {"ok", "failed", "gaveUp"} :
        /\ trStage[r] \in Sent!Running
        /\ st = "ok" => trStage[r] = "prepare" /\ KindOf[trPayment[r]] = "validate"
        /\ st = "failed" => trStage[r] \in {"prepare", "send"}
        /\ trStage' = [trStage EXCEPT ![r] = st]
        /\ UNCHANGED <<trStep, trPayment, trSigned, trNonce, trLine, trDisplaced, trOthers,
                       trAllowance, trOwnerNonce, trBalance>>
  BY DEF Sent!Validate, Sent!GiveUp, Sent!tokenVars
<1>3. /\ trStage \in [TransferRequest -> Sent!Stage]
      /\ trStep \in [TransferRequest -> Sent!Step]
  BY DEF SentIInv, Sent!TypeOK
<1>4. trStage'[r] = st /\ trStep' = [trStep EXCEPT ![r] = trStep[r]] /\ trStep[r] \in Sent!Step
  BY <1>2, <1>3
<1>5. PlacedOf(r)'
  BY ONLY <1>1, <1>2, <1>4 DEF PlacedOf, Sent!Running, Sent!Sender, Sent!WithPermit, Sent!Wallet
<1>6. AnsweredOf(r)'
  BY ONLY <1>1, <1>2, <1>4 DEF AnsweredOf, HasPermit, Sent!Running, Sent!WithPermit
<1> QED
  BY <1>2, <1>4, <1>5, <1>6, ScriptStep

LEMMA PrepareStep ==
  ASSUME SentIInv, NEW r \in TransferRequest, Sent!Prepare(r)
  PROVE  SentIInv'
<1>1. /\ trStage[r] = "prepare"
      /\ KindOf[trPayment[r]] # "validate"
      /\ UNCHANGED <<trStep, trPayment, trSigned, trLine, trDisplaced, trOthers,
                     trAllowance, trOwnerNonce, trBalance>>
  BY DEF Sent!Prepare, Sent!tokenVars
<1>2. CASE /\ trStage' = [trStage EXCEPT ![r] = "failed"]
           /\ UNCHANGED trNonce
  BY <1>1, <1>2, ScriptEnds
<1>3. CASE /\ trStage' = [trStage EXCEPT ![r] = "send"]
           /\ trNonce' = [trNonce EXCEPT ![r] = Len(trLine[Sent!Sender(trPayment[r])]) + 1]
  <2>1. /\ trStage \in [TransferRequest -> Sent!Stage]
        /\ trStep \in [TransferRequest -> Sent!Step]
        /\ trPayment \in [TransferRequest -> Payment \cup {NoPayment}]
        /\ trSigned \in [TransferRequest -> Nat]
        /\ trNonce \in [TransferRequest -> Nat]
    BY RequestsFinite DEF SentIInv, Sent!TypeOK
  <2>2. PlacedOf(r) /\ AskedOf(r) /\ AnsweredOf(r)
    BY DEF SentIInv, Placed, Asked, Answers
  <2>3. trPayment[r] \in Payment
    BY <1>1, <2>2 DEF AskedOf
  <2>4. Len(trLine[Sent!Sender(trPayment[r])]) \in Nat
    BY <2>3, Senders DEF SentIInv, Sent!TypeOK
  <2>5. /\ trStage' \in [TransferRequest -> Sent!Stage]
        /\ trNonce' \in [TransferRequest -> Nat]
        /\ trStage'[r] = "send"
        /\ trNonce'[r] = Len(trLine[Sent!Sender(trPayment[r])]) + 1
        /\ \A q \in TransferRequest \ {r} : trStage'[q] = trStage[q] /\ trNonce'[q] = trNonce[q]
    BY <1>3, <2>1, <2>4
  <2>6. PlacedOf(r)'
    BY ONLY <1>1, <2>2, <2>5 DEF PlacedOf, Sent!Sender, Sent!WithPermit, Sent!Wallet
  <2>7. AskedOf(r)'
    BY ONLY <1>1, <2>2, <2>4, <2>5 DEF AskedOf, Sent!WithPermit
  <2>8. AnsweredOf(r)'
    BY ONLY <1>1, <2>2, <2>5 DEF AnsweredOf, HasPermit, Sent!WithPermit
  <2>9. \A s \in Sent!Step : <<r, s>> \in Unsent' => <<r, s>> \in Unsent
    BY <1>1, <2>5 DEF Unsent
  <2>10. <<r, trStep[r]>> \in Unsent
    BY <1>1, <2>1 DEF Unsent
  <2> QED
    BY <1>1, <2>1, <2>3, <2>5, <2>6, <2>7, <2>8, <2>9, <2>10, LocalStep
<1> QED
  BY <1>2, <1>3 DEF Sent!Prepare

LEMMA ReceiptStep ==
  ASSUME SentIInv, NEW r \in TransferRequest, Sent!Receipt(r)
  PROVE  SentIInv'
<1> DEFINE w == Sent!Sender(trPayment[r])
           status == trLine[w][trNonce[r]].status
<1>1. /\ trStage[r] = "wait"
      /\ status # "pending"
      /\ UNCHANGED <<trPayment, trSigned, trNonce, trLine, trDisplaced, trOthers,
                     trAllowance, trOwnerNonce, trBalance>>
  BY DEF Sent!Receipt, Sent!tokenVars
<1>2. /\ trStage \in [TransferRequest -> Sent!Stage]
      /\ trStep \in [TransferRequest -> Sent!Step]
      /\ trLine \in [Sent!Wallet -> Seq(Sent!Transaction)]
  BY DEF SentIInv, Sent!TypeOK
<1>3. PlacedOf(r) /\ AskedOf(r) /\ AnsweredOf(r)
  BY DEF SentIInv, Placed, Asked, Answers
<1>4. trPayment[r] \in Payment /\ w \in Sent!Wallet
  BY <1>1, <1>3, Senders DEF AskedOf
<1>5. trNonce[r] \in DOMAIN trLine[w] => status \in {"success", "reverted"}
  BY <1>1, <1>4, LineTypes DEF SentIInv
<1>6. r \notin trDisplaced => Has(r, trNonce[r], trStep[r])
  BY <1>1, <1>3 DEF AnsweredOf
<1>7. CASE /\ KindOf[trPayment[r]] # "token" /\ status # "success"
           /\ trStage' = [trStage EXCEPT ![r] = "failed"]
           /\ UNCHANGED trStep
  <2>1. trStage'[r] = "failed" /\ trStep' = [trStep EXCEPT ![r] = trStep[r]]
    BY <1>2, <1>7
  <2>2. PlacedOf(r)'
    <3>1. \A i \in DOMAIN trLine[w] : trLine[w][i].by = r /\ trLine[w][i].step = "transfer" =>
            trLine[w][i].status = "reverted"
      BY <1>3, <1>4, <1>5, <1>7 DEF PlacedOf
    <3> QED
      BY ONLY <1>1, <1>3, <1>7, <2>1, <3>1 DEF PlacedOf, Sent!Sender, Sent!WithPermit, Sent!Wallet
  <2>3. AnsweredOf(r)'
    BY ONLY <1>1, <1>3, <1>7, <2>1 DEF AnsweredOf, HasPermit, Sent!WithPermit
  <2> QED
    BY <1>1, <1>2, <1>7, <2>1, <2>2, <2>3, ScriptStep
<1>8. CASE /\ KindOf[trPayment[r]] = "token" \/ status = "success"
           /\ trStep[r] = "permit"
           /\ trStage' = [trStage EXCEPT ![r] = "prepare"]
           /\ trStep' = [trStep EXCEPT ![r] = "transfer"]
  <2>1. trStage'[r] = "prepare" /\ trStep'[r] = "transfer"
    BY <1>2, <1>8
  <2>2. w = "project" /\ KindOf[trPayment[r]] # "token" /\ status = "success"
    BY <1>3, <1>4, <1>8, Senders, <1>1 DEF AskedOf, Sent!WithPermit
  <2>3. PlacedOf(r)'
    <3>1. \A v \in Sent!Wallet : \A i \in DOMAIN trLine[v] : trLine[v][i].by = r =>
            v = w /\ trLine[v][i].step # "transfer" /\
            (trLine[v][i].step = "permit" => i = trNonce[r])
      BY <1>3, <1>8 DEF PlacedOf
    <3>2. \A v \in Sent!Wallet : \A i \in DOMAIN trLine[v] : trLine[v][i].by = r =>
            trLine[v][i].status # "pending" /\ trLine[v][i].step = "permit"
      <4> SUFFICES ASSUME NEW v \in Sent!Wallet, NEW i \in DOMAIN trLine[v], trLine[v][i].by = r
                   PROVE  trLine[v][i].status # "pending" /\ trLine[v][i].step = "permit"
        OBVIOUS
      <4>1. trLine[v][i].step \in Sent!Step
        BY LineTypes DEF SentIInv
      <4> QED
        BY <1>1, <3>1, <4>1
    <3> HIDE DEF w, status
    <3> QED
      BY ONLY <1>1, <1>3, <1>8, <2>1, <3>1, <3>2
      DEF PlacedOf, Sent!Sender, Sent!WithPermit, Sent!Wallet
  <2>4. AnsweredOf(r)'
    <3>1. r \notin trDisplaced => HasPermit(r)
      <4> SUFFICES ASSUME r \notin trDisplaced PROVE HasPermit(r)
        OBVIOUS
      <4>1. /\ trNonce[r] \in DOMAIN trLine["project"]
            /\ trLine["project"][trNonce[r]].by = r
            /\ trLine["project"][trNonce[r]].step = "permit"
            /\ trLine["project"][trNonce[r]].status = "success"
        BY <1>6, <1>8, <2>2 DEF Has
      <4>2. trLine["project"][trNonce[r]] \in Sent!Transaction
        BY <1>2, <4>1
      <4>3. trLine["project"][trNonce[r]] = [by |-> r, step |-> "permit", status |-> "success"]
        BY <4>1, <4>2 DEF Sent!Transaction
      <4> QED
        BY <4>1, <4>3 DEF HasPermit
    <3> QED
      BY ONLY <1>1, <2>1, <3>1 DEF AnsweredOf, HasPermit
  <2> QED
    BY <1>1, <1>2, <1>8, <2>3, <2>4, ScriptStep
<1>9. CASE /\ KindOf[trPayment[r]] = "token" \/ status = "success"
           /\ trStep[r] # "permit"
           /\ trStage' = [trStage EXCEPT ![r] = "ok"]
           /\ UNCHANGED trStep
  <2>1. trStage'[r] = "ok" /\ trStep' = [trStep EXCEPT ![r] = trStep[r]] /\ trStep[r] = "transfer"
    BY <1>2, <1>9
  <2>2. PlacedOf(r)'
    BY ONLY <1>1, <1>3, <1>9, <2>1 DEF PlacedOf, Sent!Sender, Sent!WithPermit, Sent!Wallet
  <2>3. AnsweredOf(r)'
    <3> SUFFICES ASSUME r \notin trDisplaced PROVE AnsweredOf(r)'
      BY <1>1 DEF AnsweredOf
    <3>1. Has(r, trNonce[r], "transfer") /\ trNonce[r] \in Nat
      BY <1>6, <2>1, RequestsFinite DEF SentIInv, Sent!TypeOK
    <3> QED
      BY ONLY <1>1, <1>3, <1>9, <2>1, <3>1
      DEF AnsweredOf, Has, HasPermit, Sent!Sender, Sent!WithPermit
  <2> QED
    BY <1>1, <1>2, <1>9, <2>1, <2>2, <2>3, ScriptStep
<1> QED
  BY <1>7, <1>8, <1>9 DEF Sent!Receipt, Sent!Passes

\* A transaction is sent: it disturbs nothing but the one it replaces.
LEMMA AcceptStep ==
  ASSUME SentIInv, NEW w \in Sent!Wallet, NEW n \in Nat \ {0}, NEW t \in Sent!Transaction,
         t.status = "pending", Sent!Accepts(w, n, t),
         UNCHANGED <<trStep, trPayment, trSigned, trNonce, trAllowance, trOwnerNonce, trBalance>>,
         trStage' \in [TransferRequest -> Sent!Stage],
         \A q \in TransferRequest : q # t.by => trStage'[q] = trStage[q],
         trOthers' \in 0 .. MaxOthers, LinesBounded', Cardinality(Unsent') \in Nat,
         \A v \in Sent!Wallet : \A i \in DOMAIN trLine[v] :
           trLine[v][i].by = t.by /\ t.by # NoRequest => trLine[v][i].step # t.step,
         \A q \in TransferRequest : q = t.by => PlacedOf(q)' /\ AskedOf(q)' /\ AnsweredOf(q)'
  PROVE  SentIInv'
<1>0. Sent!TypeOK
  BY DEF SentIInv
<1>1. /\ trLine' \in [Sent!Wallet -> Seq(Sent!Transaction)]
      /\ n \in 1 .. Len(trLine[w]) + 1
      /\ n \in DOMAIN trLine'[w] /\ trLine'[w][n] = t
      /\ \A v \in Sent!Wallet :
           /\ DOMAIN trLine[v] \subseteq DOMAIN trLine'[v]
           /\ Len(trLine[v]) <= Len(trLine'[v]) /\ Len(trLine'[v]) <= Len(trLine[v]) + 1
           /\ \A j \in DOMAIN trLine'[v] : v # w \/ j # n =>
                j \in DOMAIN trLine[v] /\ trLine'[v][j] = trLine[v][j]
      /\ n \in DOMAIN trLine[w] =>
           trLine[w][n].status = "pending" /\ trDisplaced' = trDisplaced \cup {trLine[w][n].by}
      /\ n \notin DOMAIN trLine[w] => trDisplaced' = trDisplaced
  BY <1>0, LineAccepted
<1>2. t.by \in TransferRequest \cup {NoRequest} /\ t.step \in Sent!Step
  BY DEF Sent!Transaction
<1>3. trDisplaced \subseteq trDisplaced' /\ trDisplaced' \subseteq TransferRequest \cup {NoRequest}
  <2>1. n \in DOMAIN trLine[w] => trLine[w][n].by \in TransferRequest \cup {NoRequest}
    BY <1>0, LineTypes
  <2>2. trDisplaced \subseteq TransferRequest \cup {NoRequest}
    BY <1>0 DEF Sent!TypeOK
  <2> QED
    BY <1>1, <2>1, <2>2
<1>4. \A q \in TransferRequest : HasPermit(q)' <=> HasPermit(q)
  <2> SUFFICES ASSUME NEW q \in TransferRequest PROVE HasPermit(q)' <=> HasPermit(q)
    OBVIOUS
  <2>1. ASSUME HasPermit(q) PROVE HasPermit(q)'
    <3>1. PICK i \in DOMAIN trLine["project"] :
            trLine["project"][i] = [by |-> q, step |-> "permit", status |-> "success"]
      BY <2>1 DEF HasPermit
    <3>2. "project" # w \/ i # n
      BY <1>1, <3>1
    <3>3. i \in DOMAIN trLine'["project"] /\ trLine'["project"][i] = trLine["project"][i]
      BY <1>1, <3>2
    <3> QED
      BY <3>1, <3>3 DEF HasPermit
  <2>2. ASSUME HasPermit(q)' PROVE HasPermit(q)
    <3>1. PICK i \in DOMAIN trLine'["project"] :
            trLine'["project"][i] = [by |-> q, step |-> "permit", status |-> "success"]
      BY <2>2 DEF HasPermit
    <3>2. "project" # w \/ i # n
      BY <1>1, <3>1
    <3> QED
      BY <1>1, <3>1, <3>2 DEF HasPermit
  <2> QED
    BY <2>1, <2>2
<1>5. ASSUME NEW q \in TransferRequest, q # t.by
      PROVE  PlacedOf(q)' /\ AskedOf(q)' /\ AnsweredOf(q)'
  <2>1. PlacedOf(q) /\ AskedOf(q) /\ AnsweredOf(q)
    BY DEF SentIInv, Placed, Asked, Answers
  <2>2. /\ trStage'[q] = trStage[q] /\ trStep'[q] = trStep[q]
        /\ trPayment'[q] = trPayment[q] /\ trNonce'[q] = trNonce[q]
        /\ trSigned'[q] = trSigned[q]
    BY <1>5
  <2>3. PlacedOf(q)'
    <3>1. \A v \in Sent!Wallet : \A i \in DOMAIN trLine'[v] : trLine'[v][i].by = q =>
            i \in DOMAIN trLine[v] /\ trLine'[v][i] = trLine[v][i]
      BY <1>1, <1>5
    <3> QED
      BY ONLY <2>1, <2>2, <3>1 DEF PlacedOf, Sent!Sender, Sent!WithPermit, Sent!Wallet
  <2>4. AskedOf(q)'
    BY ONLY <2>1, <2>2 DEF AskedOf, Sent!WithPermit
  <2>5. AnsweredOf(q)'
    <3>1. ASSUME NEW i, NEW s, Has(q, i, s), q \notin trDisplaced', trPayment[q] \in Payment
          PROVE  /\ Has(q, i, s)'
                 /\ trLine'[Sent!Sender(trPayment[q])][i] = trLine[Sent!Sender(trPayment[q])][i]
      <4>1. Sent!Sender(trPayment[q]) # w \/ i # n
        BY <1>1, <3>1 DEF Has
      <4>2. PICK v \in Sent!Wallet : v = Sent!Sender(trPayment[q])
        BY <3>1, Senders
      <4>3. i \in DOMAIN trLine'[v] /\ trLine'[v][i] = trLine[v][i]
        BY <1>1, <3>1, <4>1, <4>2 DEF Has
      <4> QED
        BY <2>2, <3>1, <4>2, <4>3 DEF Has, Sent!Sender
    <3> SUFFICES ASSUME q \notin trDisplaced', trStage[q] # "idle"
                 PROVE  AnsweredOf(q)'
      BY <2>2 DEF AnsweredOf
    <3>2. trPayment[q] \in Payment
      BY <2>1 DEF AskedOf
    <3>3. q \notin trDisplaced
      BY <1>3
    <3>4. trStage'[q] = "wait" => Has(q, trNonce[q], trStep[q])'
      BY <2>1, <2>2, <3>1, <3>2, <3>3 DEF AnsweredOf
    <3>5. ASSUME trStage'[q] = "ok", KindOf[trPayment[q]] # "validate"
          PROVE  \E i \in Nat :
                   /\ Has(q, i, "transfer")'
                   /\ trLine'[Sent!Sender(trPayment[q])][i].status # "pending"
                   /\ KindOf[trPayment[q]] # "token" =>
                        trLine'[Sent!Sender(trPayment[q])][i].status = "success"
      <4>1. PICK i \in Nat :
              /\ Has(q, i, "transfer")
              /\ trLine[Sent!Sender(trPayment[q])][i].status # "pending"
              /\ KindOf[trPayment[q]] # "token" =>
                   trLine[Sent!Sender(trPayment[q])][i].status = "success"
        BY <2>1, <2>2, <3>3, <3>5 DEF AnsweredOf
      <4> QED
        BY <3>1, <3>2, <4>1
    <3>6. trStep[q] = "transfer" /\ Sent!WithPermit(trPayment[q]) => HasPermit(q)'
      BY <1>4, <2>1, <3>3 DEF AnsweredOf
    <3> QED
      BY ONLY <2>2, <3>4, <3>5, <3>6 DEF AnsweredOf, Has, Sent!Sender, Sent!WithPermit
  <2> QED
    BY <2>3, <2>4, <2>5
<1>6. Placed' /\ Asked' /\ Answers'
  BY <1>5 DEF Placed, Asked, Answers
<1>7. PlacedOnce'
  <2> SUFFICES ASSUME NEW v \in Sent!Wallet, NEW i \in DOMAIN trLine'[v], NEW j \in DOMAIN trLine'[v],
                      trLine'[v][i].by = trLine'[v][j].by, trLine'[v][i].by # NoRequest,
                      trLine'[v][i].step = trLine'[v][j].step
               PROVE  i = j
    BY DEF PlacedOnce
  <2>1. \A k \in DOMAIN trLine'[w] : k # n /\ trLine'[w][k].by = t.by /\ t.by # NoRequest =>
          trLine'[w][k].step # t.step
    <3>1. \A k \in DOMAIN trLine'[w] : k # n =>
            k \in DOMAIN trLine[w] /\ trLine'[w][k] = trLine[w][k]
      BY <1>1
    <3>2. \A k \in DOMAIN trLine[w] :
            trLine[w][k].by = t.by /\ t.by # NoRequest => trLine[w][k].step # t.step
      OBVIOUS
    <3> QED
      BY ONLY <3>1, <3>2
  <2>2. CASE v = w /\ (i = n \/ j = n)
    BY <1>1, <2>1, <2>2
  <2>3. CASE v # w \/ (i # n /\ j # n)
    <3>1. /\ i \in DOMAIN trLine[v] /\ trLine'[v][i] = trLine[v][i]
          /\ j \in DOMAIN trLine[v] /\ trLine'[v][j] = trLine[v][j]
      BY <1>1, <2>3
    <3>2. PlacedOnce
      BY DEF SentIInv
    <3> QED
      BY <3>1, <3>2 DEF PlacedOnce
  <2> QED
    BY <2>2, <2>3
<1>8. Permits'
  <2>1. {q \in TransferRequest : HasPermit(q)'} = {q \in TransferRequest : HasPermit(q)}
    BY <1>4
  <2>2. \A q \in TransferRequest : HasPermit(q)' => trSigned'[q] < trOwnerNonce'
    BY <1>4 DEF SentIInv, Permits
  <2>3. \A p, q \in TransferRequest :
          HasPermit(p)' /\ HasPermit(q)' /\ p # q => trSigned'[p] # trSigned'[q]
    BY <1>4 DEF SentIInv, Permits
  <2>4. trOwnerNonce' = Cardinality({q \in TransferRequest : HasPermit(q)'})
    BY <2>1 DEF SentIInv, Permits
  <2> QED
    BY <2>2, <2>3, <2>4 DEF Permits
<1>9. Leftover'
  <2> SUFFICES ASSUME trAllowance > 0 PROVE Leftover'
    BY DEF Leftover
  <2>1. PICK r \in TransferRequest :
          /\ HasPermit(r)
          /\ trAllowance <= AmountOf[trPayment[r]]
          /\ \A i \in DOMAIN trLine["project"] :
               trLine["project"][i] # [by |-> r, step |-> "transfer", status |-> "success"]
    BY DEF SentIInv, Leftover
  <2>2. \A i \in DOMAIN trLine'["project"] :
          trLine'["project"][i] # [by |-> r, step |-> "transfer", status |-> "success"]
    <3> SUFFICES ASSUME NEW i \in DOMAIN trLine'["project"]
                 PROVE  trLine'["project"][i] # [by |-> r, step |-> "transfer", status |-> "success"]
      OBVIOUS
    <3>1. CASE "project" = w /\ i = n
      BY <1>1, <3>1
    <3>2. CASE "project" # w \/ i # n
      BY <1>1, <2>1, <3>2
    <3> QED
      BY <3>1, <3>2
  <2> QED
    BY <1>4, <2>1, <2>2 DEF Leftover
<1>10. Sent!TypeOK'
  <2>1. \A v \in Sent!Wallet : Len(trLine'[v]) <= Sent!LineBound
    <3> SUFFICES ASSUME NEW v \in Sent!Wallet PROVE Len(trLine'[v]) <= Sent!LineBound
      OBVIOUS
    <3>1. Len(trLine'[v]) + Cardinality(Unsent') + MaxOthers - trOthers' <= Sent!LineBound
      BY DEF LinesBounded
    <3>2. trLine'[v] \in Seq(Sent!Transaction)
      BY <1>1
    <3>3. Len(trLine'[v]) \in Nat /\ Sent!LineBound \in Nat /\ MaxOthers \in Nat
      BY <3>2, RequestsFinite
    <3> QED
      BY <3>1, <3>3
  <2>2. ASSUME NEW q \in TransferRequest, trPayment[q] \in Payment
        PROVE  trNonce[q] <= Len(trLine'[Sent!Sender(trPayment[q])]) + 1
    <3>1. PICK v \in Sent!Wallet : v = Sent!Sender(trPayment[q])
      BY <2>2, Senders
    <3>2. trNonce[q] <= Len(trLine[v]) + 1
      BY <1>0, <2>2, <3>1 DEF Sent!TypeOK
    <3>3. trNonce[q] \in Nat
      BY <1>0, RequestsFinite DEF Sent!TypeOK
    <3>4. trLine[v] \in Seq(Sent!Transaction) /\ trLine'[v] \in Seq(Sent!Transaction)
      BY <1>0, <1>1 DEF Sent!TypeOK
    <3>5. Len(trLine[v]) <= Len(trLine'[v]) /\ Len(trLine[v]) \in Nat /\ Len(trLine'[v]) \in Nat
      BY <1>1, <3>4
    <3> QED
      BY <3>1, <3>2, <3>3, <3>5
  <2> QED
    BY <1>0, <1>1, <1>3, <2>1, <2>2 DEF Sent!TypeOK, Sent!Sender
<1> QED
  BY <1>6, <1>7, <1>8, <1>9, <1>10 DEF SentIInv

LEMMA SendStep ==
  ASSUME SentIInv, NEW r \in TransferRequest, Sent!Send(r)
  PROVE  SentIInv'
<1> DEFINE w == Sent!Sender(trPayment[r])
           t == [by |-> r, step |-> trStep[r], status |-> "pending"]
<1>0. /\ trStage \in [TransferRequest -> Sent!Stage]
      /\ trStep \in [TransferRequest -> Sent!Step]
      /\ trNonce \in [TransferRequest -> Nat]
      /\ trOthers \in 0 .. MaxOthers
      /\ trLine \in [Sent!Wallet -> Seq(Sent!Transaction)]
  BY RequestsFinite DEF SentIInv, Sent!TypeOK
<1>1. /\ trStage[r] = "send"
      /\ UNCHANGED <<trStep, trPayment, trSigned, trNonce, trOthers,
                     trAllowance, trOwnerNonce, trBalance>>
  BY DEF Sent!Send, Sent!tokenVars
<1>2. CASE /\ trStage' = [trStage EXCEPT ![r] = "failed"]
           /\ UNCHANGED <<trLine, trDisplaced>>
  BY <1>1, <1>2, ScriptEnds
<1>3. CASE Sent!Accepts(w, trNonce[r], t) /\
           \E s \in {"wait", "gaveUp"} : trStage' = [trStage EXCEPT ![r] = s]
  <2>1. PICK st \in {"wait", "gaveUp"} : trStage' = [trStage EXCEPT ![r] = st]
    BY <1>3
  <2>2. /\ trStage' \in [TransferRequest -> Sent!Stage]
        /\ trStage'[r] = st
        /\ \A q \in TransferRequest : q # r => trStage'[q] = trStage[q]
    BY <1>0, <2>1
  <2>3. PlacedOf(r) /\ AskedOf(r) /\ AnsweredOf(r)
    BY DEF SentIInv, Placed, Asked, Answers
  <2>4. trPayment[r] \in Payment /\ w \in Sent!Wallet /\ trNonce[r] \in Nat \ {0}
    BY <1>0, <1>1, <2>3, Senders DEF AskedOf
  <2>5. t \in Sent!Transaction /\ t.by = r /\ t.step = trStep[r] /\ t.status = "pending"
    BY <1>0 DEF Sent!Transaction
  <2> HIDE DEF t, w
  <2>6. \A v \in Sent!Wallet : \A i \in DOMAIN trLine[v] :
          trLine[v][i].by = r => trLine[v][i].step # trStep[r]
    BY <1>1, <2>3 DEF PlacedOf
  <2>7. /\ trNonce[r] \in DOMAIN trLine'[w] /\ trLine'[w][trNonce[r]] = t
        /\ \A v \in Sent!Wallet :
             /\ Len(trLine'[v]) <= Len(trLine[v]) + 1
             /\ \A j \in DOMAIN trLine'[v] : v # w \/ j # trNonce[r] =>
                  j \in DOMAIN trLine[v] /\ trLine'[v][j] = trLine[v][j]
        /\ trLine' \in [Sent!Wallet -> Seq(Sent!Transaction)]
        /\ trDisplaced \subseteq trDisplaced'
    <3>1. Sent!TypeOK
      BY DEF SentIInv
    <3>2. /\ trLine' \in [Sent!Wallet -> Seq(Sent!Transaction)]
          /\ trNonce[r] \in 1 .. Len(trLine[w]) + 1
          /\ trNonce[r] \in DOMAIN trLine'[w] /\ trLine'[w][trNonce[r]] = t
          /\ \A v \in Sent!Wallet :
               /\ DOMAIN trLine[v] \subseteq DOMAIN trLine'[v]
               /\ Len(trLine[v]) <= Len(trLine'[v]) /\ Len(trLine'[v]) <= Len(trLine[v]) + 1
               /\ \A j \in DOMAIN trLine'[v] : v # w \/ j # trNonce[r] =>
                    j \in DOMAIN trLine[v] /\ trLine'[v][j] = trLine[v][j]
          /\ trNonce[r] \in DOMAIN trLine[w] =>
               /\ trLine[w][trNonce[r]].status = "pending"
               /\ trDisplaced' = trDisplaced \cup {trLine[w][trNonce[r]].by}
          /\ trNonce[r] \notin DOMAIN trLine[w] => trDisplaced' = trDisplaced
      BY ONLY <1>3, <2>4, <2>5, <3>1, LineAccepted
    <3> QED
      BY ONLY <3>2
  <2>8. PlacedOf(r)'
    <3> SUFFICES ASSUME NEW v \in Sent!Wallet, NEW i \in DOMAIN trLine'[v], trLine'[v][i].by = r
                 PROVE  /\ trPayment[r] \in Payment
                        /\ v = Sent!Sender(trPayment[r])
                        /\ KindOf[trPayment[r]] # "validate"
                        /\ trLine'[v][i].step = "permit" =>
                             /\ Sent!WithPermit(trPayment[r])
                             /\ trStep[r] = "transfer" => trLine'[v][i].status # "pending"
                        /\ trLine'[v][i].step = "transfer" => trStep[r] = "transfer"
                        /\ trLine'[v][i].step = trStep[r] => i = trNonce[r]
      BY <1>1, <2>2 DEF PlacedOf, Sent!Sender, Sent!WithPermit
    <3>1. CASE v = w /\ i = trNonce[r]
      <4>1. trLine'[v][i].step = trStep[r]
        BY <2>5, <2>7, <3>1
      <4> QED
        BY <1>1, <2>3, <2>4, <3>1, <4>1 DEF AskedOf, w
    <3>2. CASE v # w \/ i # trNonce[r]
      <4>1. i \in DOMAIN trLine[v] /\ trLine'[v][i] = trLine[v][i]
        BY <2>7, <3>2
      <4>2. trLine[v][i].by = r
        BY <4>1
      <4> QED
        BY <2>3, <4>1, <4>2 DEF PlacedOf
    <3> QED
      BY <3>1, <3>2
  <2>9. AskedOf(r)'
    BY ONLY <1>1, <2>2, <2>3 DEF AskedOf, Sent!WithPermit
  <2>10. AnsweredOf(r)'
    <3>1. Has(r, trNonce[r], trStep[r])'
      BY <1>1, <2>5, <2>7 DEF Has, w, Sent!Sender
    <3>2. HasPermit(r) => HasPermit(r)'
      <4> SUFFICES ASSUME NEW i \in DOMAIN trLine["project"],
                          trLine["project"][i] = [by |-> r, step |-> "permit", status |-> "success"]
                   PROVE  HasPermit(r)'
        BY DEF HasPermit
      <4>1. /\ i \in DOMAIN trLine'["project"]
            /\ trLine'["project"][i] = trLine["project"][i]
        <5>1. Sent!TypeOK
          BY DEF SentIInv
        <5>2. /\ i \in DOMAIN trLine'["project"]
              /\ trNonce[r] \in DOMAIN trLine[w] => trLine[w][trNonce[r]].status = "pending"
          BY <1>3, <2>4, <2>5, <5>1, LineAccepted
        <5>3. "project" # w \/ i # trNonce[r]
          BY <5>2
        <5> QED
          BY <2>7, <5>2, <5>3
      <4> QED
        BY <4>1 DEF HasPermit
    <3>3. r \notin trDisplaced' => r \notin trDisplaced
      BY <2>7
    <3>4. trStage'[r] \in {"wait", "gaveUp"}
      BY <2>2
    <3> QED
      BY ONLY <1>1, <2>3, <3>1, <3>2, <3>3, <3>4 DEF AnsweredOf, Has, Sent!Sender, Sent!WithPermit
  <2>11. Cardinality(Unsent') \in Nat /\ Cardinality(Unsent') <= Cardinality(Unsent) - 1
    <3>1. Unsent' \subseteq Unsent \ {<<r, trStep[r]>>}
      BY <1>1, <2>2 DEF Unsent
    <3>2. <<r, trStep[r]>> \in Unsent
      BY <1>0, <1>1 DEF Unsent
    <3>3. /\ IsFiniteSet(Unsent \ {<<r, trStep[r]>>})
          /\ Cardinality(Unsent \ {<<r, trStep[r]>>}) = Cardinality(Unsent) - 1
      BY <3>2, UnsentFinite, FS_RemoveElement
    <3>4. /\ IsFiniteSet(Unsent')
          /\ Cardinality(Unsent') <= Cardinality(Unsent \ {<<r, trStep[r]>>})
      BY <3>1, <3>3, FS_Subset
    <3> QED
      BY <3>3, <3>4, FS_CardinalityType
  <2>12. LinesBounded'
    <3> SUFFICES ASSUME NEW v \in Sent!Wallet
                 PROVE  Len(trLine'[v]) + Cardinality(Unsent') + MaxOthers - trOthers'
                          <= Sent!LineBound
      BY DEF LinesBounded
    <3>1. Len(trLine[v]) + Cardinality(Unsent) + MaxOthers - trOthers <= Sent!LineBound
      BY DEF SentIInv, LinesBounded
    <3>2. trLine[v] \in Seq(Sent!Transaction) /\ trLine'[v] \in Seq(Sent!Transaction)
      BY <1>0, <2>7
    <3>3. /\ Len(trLine[v]) \in Nat /\ Len(trLine'[v]) \in Nat
          /\ Len(trLine'[v]) <= Len(trLine[v]) + 1
          /\ MaxOthers \in Nat /\ trOthers \in Nat /\ trOthers' = trOthers
          /\ Sent!LineBound \in Nat /\ Cardinality(Unsent) \in Nat
      <4>1. Len(trLine[v]) \in Nat /\ Len(trLine'[v]) \in Nat
        BY <3>2
      <4>2. Len(trLine'[v]) <= Len(trLine[v]) + 1
        BY <2>7
      <4>3. /\ MaxOthers \in Nat /\ trOthers \in Nat /\ trOthers' = trOthers
            /\ Sent!LineBound \in Nat /\ Cardinality(Unsent) \in Nat
        BY <1>0, <1>1, RequestsFinite, UnsentFinite
      <4> QED
        BY ONLY <4>1, <4>2, <4>3
    <3> QED
      BY ONLY <2>11, <3>1, <3>3
  <2> QED
    <3>1. \A q \in TransferRequest : q # t.by => trStage'[q] = trStage[q]
      BY <2>2, <2>5
    <3>2. \A v \in Sent!Wallet : \A i \in DOMAIN trLine[v] :
            trLine[v][i].by = t.by /\ t.by # NoRequest => trLine[v][i].step # t.step
      BY <2>5, <2>6
    <3>3. \A q \in TransferRequest : q = t.by => PlacedOf(q)' /\ AskedOf(q)' /\ AnsweredOf(q)'
      BY ONLY <2>5, <2>8, <2>9, <2>10
    <3>4. trOthers' \in 0 .. MaxOthers
      BY <1>0, <1>1
    <3> QED
      BY ONLY SentIInv, <1>1, <1>3, <2>2, <2>4, <2>5, <2>11, <2>12, <3>1, <3>2, <3>3, <3>4, AcceptStep
<1> QED
  BY <1>2, <1>3 DEF Sent!Send

LEMMA OtherStep ==
  ASSUME SentIInv, Sent!OtherSend
  PROVE  SentIInv'
<1> DEFINE t == [by |-> NoRequest, step |-> "transfer", status |-> "pending"]
<1>1. PICK n \in 1 .. Len(trLine["project"]) + 1 :
        /\ Sent!Accepts("project", n, t)
        /\ trOthers < MaxOthers /\ trOthers' = trOthers + 1
        /\ UNCHANGED <<trStage, trStep, trPayment, trSigned, trNonce,
                       trAllowance, trOwnerNonce, trBalance>>
  BY DEF Sent!OtherSend, Sent!requestVars, Sent!tokenVars
<1>2. /\ Sent!TypeOK
      /\ trStage \in [TransferRequest -> Sent!Stage]
      /\ trOthers \in 0 .. MaxOthers
      /\ trLine \in [Sent!Wallet -> Seq(Sent!Transaction)]
  BY DEF SentIInv, Sent!TypeOK
<1>3. n \in Nat \ {0}
  BY <1>2
<1>4. t \in Sent!Transaction /\ t.by = NoRequest /\ t.status = "pending"
  BY DEF Sent!Transaction
<1> HIDE DEF t
<1>5. /\ trLine' \in [Sent!Wallet -> Seq(Sent!Transaction)]
      /\ \A v \in Sent!Wallet : Len(trLine'[v]) <= Len(trLine[v]) + 1
  BY <1>1, <1>2, <1>3, <1>4, LineAccepted
<1>6. Unsent' = Unsent
  BY <1>1 DEF Unsent
<1>7. LinesBounded'
  <2> SUFFICES ASSUME NEW v \in Sent!Wallet
               PROVE  Len(trLine'[v]) + Cardinality(Unsent') + MaxOthers - trOthers'
                        <= Sent!LineBound
    BY DEF LinesBounded
  <2>1. Len(trLine[v]) + Cardinality(Unsent) + MaxOthers - trOthers <= Sent!LineBound
    BY DEF SentIInv, LinesBounded
  <2>2. trLine[v] \in Seq(Sent!Transaction) /\ trLine'[v] \in Seq(Sent!Transaction)
    BY <1>2, <1>5
  <2>3. /\ Len(trLine[v]) \in Nat /\ Len(trLine'[v]) \in Nat
        /\ Len(trLine'[v]) <= Len(trLine[v]) + 1
        /\ MaxOthers \in Nat /\ trOthers \in Nat /\ trOthers' = trOthers + 1
        /\ Sent!LineBound \in Nat /\ Cardinality(Unsent) \in Nat
    <3>1. Len(trLine[v]) \in Nat /\ Len(trLine'[v]) \in Nat
      BY <2>2
    <3> QED
      BY <1>1, <1>2, <1>5, <3>1, RequestsFinite, UnsentFinite
  <2> QED
    BY ONLY <1>6, <2>1, <2>3
<1>8. trOthers' \in 0 .. MaxOthers /\ Cardinality(Unsent') \in Nat
  BY <1>1, <1>2, <1>6, UnsentFinite
<1> QED
  BY <1>1, <1>2, <1>3, <1>4, <1>7, <1>8, AcceptStep

\* The next transaction of a wallet is mined.
LEMMA MineStep ==
  ASSUME SentIInv, NEW w \in Sent!Wallet, Sent!Mine(w)
  PROVE  SentIInv'
<1>0. /\ Sent!TypeOK
      /\ trLine \in [Sent!Wallet -> Seq(Sent!Transaction)]
      /\ trAllowance \in Nat /\ trOwnerNonce \in Nat /\ trBalance \in 0 .. Funds
  BY RequestsFinite DEF SentIInv, Sent!TypeOK
<1>1. PICK i \in DOMAIN trLine[w], status \in {"success", "reverted"} :
        /\ trLine[w][i].status = "pending"
        /\ status = "success" /\ trLine[w][i].by # NoRequest =>
             Sent!Applies(trLine[w][i].by, trLine[w][i].step)
        /\ trLine' = [trLine EXCEPT ![w][i].status = status]
        /\ IF status = "success" /\ trLine[w][i].by # NoRequest /\ trLine[w][i].step = "permit"
                /\ Sent!WithPermit(trPayment[trLine[w][i].by])
             THEN /\ trAllowance' = AmountOf[trPayment[trLine[w][i].by]]
                  /\ trOwnerNonce' = trOwnerNonce + 1
                  /\ UNCHANGED trBalance
             ELSE IF status = "success" /\ trLine[w][i].by # NoRequest
                     /\ trLine[w][i].step = "transfer"
                     /\ Sent!WithPermit(trPayment[trLine[w][i].by])
               THEN /\ trAllowance' = trAllowance - AmountOf[trPayment[trLine[w][i].by]]
                    /\ trBalance' = trBalance - AmountOf[trPayment[trLine[w][i].by]]
                    /\ UNCHANGED trOwnerNonce
               ELSE UNCHANGED <<trAllowance, trOwnerNonce, trBalance>>
        /\ UNCHANGED <<trStage, trStep, trPayment, trSigned, trNonce, trDisplaced, trOthers>>
  BY DEF Sent!Mine, Sent!requestVars, Sent!tokenVars
<1>2. PICK b \in TransferRequest \cup {NoRequest}, s \in Sent!Step :
        trLine[w][i] = [by |-> b, step |-> s, status |-> "pending"]
  BY <1>0, <1>1, LineTypes
<1>3. /\ trLine' \in [Sent!Wallet -> Seq(Sent!Transaction)]
      /\ \A v \in Sent!Wallet : Len(trLine'[v]) = Len(trLine[v])
      /\ trLine'[w][i] = [by |-> b, step |-> s, status |-> status]
      /\ \A v \in Sent!Wallet : \A j \in DOMAIN trLine[v] :
           v # w \/ j # i => trLine'[v][j] = trLine[v][j]
  <2>1. /\ trLine' \in [Sent!Wallet -> Seq(Sent!Transaction)]
        /\ \A v \in Sent!Wallet : Len(trLine'[v]) = Len(trLine[v])
        /\ trLine'[w][i] = [by |-> trLine[w][i].by, step |-> trLine[w][i].step,
                            status |-> status]
        /\ \A v \in Sent!Wallet : \A j \in DOMAIN trLine[v] :
             v # w \/ j # i => trLine'[v][j] = trLine[v][j]
    BY ONLY <1>0, <1>1, w \in Sent!Wallet, LineMined
  <2>2. trLine[w][i].by = b /\ trLine[w][i].step = s
    BY <1>2
  <2> QED
    BY <2>1, <2>2
<1>4. \A v \in Sent!Wallet : DOMAIN trLine'[v] = DOMAIN trLine[v]
  <2> SUFFICES ASSUME NEW v \in Sent!Wallet PROVE DOMAIN trLine'[v] = DOMAIN trLine[v]
    OBVIOUS
  <2>1. trLine[v] \in Seq(Sent!Transaction) /\ trLine'[v] \in Seq(Sent!Transaction)
    BY <1>0, <1>3
  <2> QED
    BY <1>3, <2>1
\* Who sent what stays, and so does what became of it.
<1>5. \A v \in Sent!Wallet : \A j \in DOMAIN trLine[v] :
        /\ trLine'[v][j].by = trLine[v][j].by
        /\ trLine'[v][j].step = trLine[v][j].step
        /\ trLine[v][j].status # "pending" => trLine'[v][j] = trLine[v][j]
        /\ trLine'[v][j].status = "pending" => trLine[v][j].status = "pending"
        /\ trLine'[v][j].status \in {"pending", "success", "reverted"}
  <2> SUFFICES ASSUME NEW v \in Sent!Wallet, NEW j \in DOMAIN trLine[v]
               PROVE  /\ trLine'[v][j].by = trLine[v][j].by
                      /\ trLine'[v][j].step = trLine[v][j].step
                      /\ trLine[v][j].status # "pending" => trLine'[v][j] = trLine[v][j]
                      /\ trLine'[v][j].status = "pending" => trLine[v][j].status = "pending"
                      /\ trLine'[v][j].status \in {"pending", "success", "reverted"}
    OBVIOUS
  <2>1. CASE v = w /\ j = i
    BY ONLY <1>1, <1>2, <1>3, <2>1
  <2>2. CASE v # w \/ j # i
    <3>1. trLine'[v][j] = trLine[v][j]
      BY <1>3, <2>2
    <3>2. trLine[v][j].status \in {"pending", "success", "reverted"}
      BY <1>0, LineTypes
    <3> QED
      BY <3>1, <3>2
  <2> QED
    BY <2>1, <2>2
<1>6. PlacedOnce'
  <2> SUFFICES ASSUME NEW v \in Sent!Wallet, NEW k \in DOMAIN trLine'[v], NEW j \in DOMAIN trLine'[v],
                      trLine'[v][k].by = trLine'[v][j].by, trLine'[v][k].by # NoRequest,
                      trLine'[v][k].step = trLine'[v][j].step
               PROVE  k = j
    BY DEF PlacedOnce
  <2>1. k \in DOMAIN trLine[v] /\ j \in DOMAIN trLine[v] /\ PlacedOnce
    BY <1>4 DEF SentIInv
  <2>2. /\ trLine[v][k].by = trLine[v][j].by /\ trLine[v][k].by # NoRequest
        /\ trLine[v][k].step = trLine[v][j].step
    BY <1>5, <2>1
  <2> QED
    BY <2>1, <2>2 DEF PlacedOnce
\* The request of a pending transaction is still at it.
<1>7. b \in TransferRequest =>
        /\ PlacedOf(b) /\ AskedOf(b) /\ AnsweredOf(b)
        /\ trPayment[b] \in Payment
        /\ w = Sent!Sender(trPayment[b])
        /\ s = "permit" => Sent!WithPermit(trPayment[b]) /\ trStep[b] = "permit"
        /\ s = "transfer" => trStep[b] = "transfer" /\ trStage[b] # "failed"
  <2> SUFFICES ASSUME b \in TransferRequest
               PROVE  /\ PlacedOf(b) /\ AskedOf(b) /\ AnsweredOf(b)
                      /\ trPayment[b] \in Payment
                      /\ w = Sent!Sender(trPayment[b])
                      /\ s = "permit" => Sent!WithPermit(trPayment[b]) /\ trStep[b] = "permit"
                      /\ s = "transfer" => trStep[b] = "transfer" /\ trStage[b] # "failed"
    OBVIOUS
  <2>1. PlacedOf(b) /\ AskedOf(b) /\ AnsweredOf(b)
    BY DEF SentIInv, Placed, Asked, Answers
  <2>2. trStep[b] \in Sent!Step
    BY DEF SentIInv, Sent!TypeOK
  <2>3. trLine[w][i].by = b /\ trLine[w][i].step = s /\ trLine[w][i].status = "pending"
    BY <1>2
  <2> QED
    BY ONLY <1>1, <2>1, <2>2, <2>3, w \in Sent!Wallet DEF PlacedOf, Sent!Wallet, Sent!Step
<1>8. ASSUME NEW q \in TransferRequest
      PROVE  PlacedOf(q)' /\ AskedOf(q)' /\ (HasPermit(q) => HasPermit(q)')
  <2>1. PlacedOf(q) /\ AskedOf(q)
    BY DEF SentIInv, Placed, Asked
  <2>2. /\ trStage'[q] = trStage[q] /\ trStep'[q] = trStep[q]
        /\ trPayment'[q] = trPayment[q] /\ trNonce'[q] = trNonce[q]
        /\ trSigned'[q] = trSigned[q]
    BY <1>1
  <2>3. AskedOf(q)'
    BY ONLY <2>1, <2>2 DEF AskedOf, Sent!WithPermit
  <2>4. PlacedOf(q)'
    <3> SUFFICES ASSUME NEW v \in Sent!Wallet, NEW j \in DOMAIN trLine'[v], trLine'[v][j].by = q
                 PROVE  /\ trPayment[q] \in Payment
                        /\ v = Sent!Sender(trPayment[q])
                        /\ KindOf[trPayment[q]] # "validate"
                        /\ trLine'[v][j].step = "permit" =>
                             /\ Sent!WithPermit(trPayment[q])
                             /\ trStep[q] = "transfer" => trLine'[v][j].status # "pending"
                        /\ trLine'[v][j].step = "transfer" =>
                             /\ trStep[q] = "transfer"
                             /\ trStage[q] = "failed" => trLine'[v][j].status = "reverted"
                        /\ trLine'[v][j].step = trStep[q] =>
                             j = trNonce[q] /\ trStage[q] \notin {"idle", "prepare", "send"}
      BY <2>2 DEF PlacedOf, Sent!Sender, Sent!WithPermit
    <3>1. j \in DOMAIN trLine[v] /\ trLine[v][j].by = q
      BY <1>4, <1>5
    <3>2. /\ trLine'[v][j].step = trLine[v][j].step
          /\ trLine[v][j].status # "pending" => trLine'[v][j].status = trLine[v][j].status
          /\ trLine'[v][j].status = "pending" => trLine[v][j].status = "pending"
      BY <1>5, <3>1
    <3> QED
      BY ONLY <2>1, <3>1, <3>2, v \in Sent!Wallet DEF PlacedOf
  <2>5. ASSUME HasPermit(q) PROVE HasPermit(q)'
    <3>1. PICK j \in DOMAIN trLine["project"] :
            trLine["project"][j] = [by |-> q, step |-> "permit", status |-> "success"]
      BY <2>5 DEF HasPermit
    <3>2. j \in DOMAIN trLine'["project"] /\ trLine'["project"][j] = trLine["project"][j]
      BY <1>4, <1>5, <3>1
    <3> QED
      BY <3>1, <3>2 DEF HasPermit
  <2> QED
    BY <2>3, <2>4, <2>5
<1>9. ASSUME NEW q \in TransferRequest PROVE AnsweredOf(q)'
  <2>1. AnsweredOf(q) /\ AskedOf(q)
    BY DEF SentIInv, Answers, Asked
  <2>2. /\ trStage'[q] = trStage[q] /\ trStep'[q] = trStep[q]
        /\ trPayment'[q] = trPayment[q] /\ trNonce'[q] = trNonce[q]
        /\ trDisplaced' = trDisplaced
    BY <1>1
  <2> SUFFICES ASSUME q \notin trDisplaced, trStage[q] # "idle" PROVE AnsweredOf(q)'
    BY <2>2 DEF AnsweredOf
  <2>3. trPayment[q] \in Payment
    BY <2>1 DEF AskedOf
  <2>4. PICK v \in Sent!Wallet : v = Sent!Sender(trPayment[q])
    BY <2>3, Senders
  <2>5. \A j, t : Has(q, j, t) => Has(q, j, t)'
    <3> SUFFICES ASSUME NEW j, NEW t, Has(q, j, t) PROVE Has(q, j, t)'
      OBVIOUS
    <3>1. j \in DOMAIN trLine[v] /\ trLine[v][j].by = q /\ trLine[v][j].step = t
      BY <2>4 DEF Has
    <3>2. j \in DOMAIN trLine'[v] /\ trLine'[v][j].by = q /\ trLine'[v][j].step = t
      BY <1>4, <1>5, <3>1
    <3> QED
      BY <2>2, <2>4, <3>2 DEF Has, Sent!Sender
  <2>6. trStage'[q] = "wait" => Has(q, trNonce[q], trStep[q])'
    BY <2>1, <2>2, <2>5 DEF AnsweredOf
  <2>7. ASSUME trStage'[q] = "ok", KindOf[trPayment[q]] # "validate"
        PROVE  \E j \in Nat :
                 /\ Has(q, j, "transfer")'
                 /\ trLine'[Sent!Sender(trPayment[q])][j].status # "pending"
                 /\ KindOf[trPayment[q]] # "token" =>
                      trLine'[Sent!Sender(trPayment[q])][j].status = "success"
    <3>1. PICK j \in Nat :
            /\ Has(q, j, "transfer")
            /\ trLine[Sent!Sender(trPayment[q])][j].status # "pending"
            /\ KindOf[trPayment[q]] # "token" =>
                 trLine[Sent!Sender(trPayment[q])][j].status = "success"
      BY <2>1, <2>2, <2>7 DEF AnsweredOf
    <3>2. j \in DOMAIN trLine[v] /\ trLine'[v][j] = trLine[v][j]
      BY <1>5, <2>4, <3>1 DEF Has
    <3> QED
      BY <2>4, <2>5, <3>1, <3>2
  <2>8. trStep[q] = "transfer" /\ Sent!WithPermit(trPayment[q]) => HasPermit(q)'
    BY <1>8, <2>1 DEF AnsweredOf
  <2> QED
    BY ONLY <2>2, <2>6, <2>7, <2>8 DEF AnsweredOf, Has, Sent!Sender, Sent!WithPermit
<1>10. ASSUME NEW q \in TransferRequest, HasPermit(q)'
       PROVE  HasPermit(q) \/ (status = "success" /\ s = "permit" /\ q = b)
  <2>1. PICK j \in DOMAIN trLine["project"] :
          trLine'["project"][j] = [by |-> q, step |-> "permit", status |-> "success"]
    BY <1>4, <1>10 DEF HasPermit
  <2>2. CASE "project" = w /\ j = i
    BY <1>3, <2>1, <2>2
  <2>3. CASE "project" # w \/ j # i
    BY <1>3, <2>1, <2>3 DEF HasPermit
  <2> QED
    BY <2>2, <2>3
<1>11. ASSUME NEW q \in TransferRequest,
              \A j \in DOMAIN trLine["project"] :
                trLine["project"][j] # [by |-> q, step |-> "transfer", status |-> "success"],
              ~(status = "success" /\ s = "transfer" /\ q = b)
       PROVE  \A j \in DOMAIN trLine'["project"] :
                trLine'["project"][j] # [by |-> q, step |-> "transfer", status |-> "success"]
  <2> SUFFICES ASSUME NEW j \in DOMAIN trLine["project"],
                      trLine'["project"][j] = [by |-> q, step |-> "transfer", status |-> "success"]
               PROVE  FALSE
    BY <1>4
  <2>1. CASE "project" = w /\ j = i
    BY <1>3, <1>11, <2>1
  <2>2. CASE "project" # w \/ j # i
    BY <1>3, <1>11, <2>2
  <2> QED
    BY <2>1, <2>2
<1>12. /\ trOwnerNonce = Cardinality({q \in TransferRequest : HasPermit(q)})
       /\ \A q \in TransferRequest : HasPermit(q) => trSigned[q] < trOwnerNonce
       /\ \A p, q \in TransferRequest :
            HasPermit(p) /\ HasPermit(q) /\ p # q => trSigned[p] # trSigned[q]
  BY DEF SentIInv, Permits
<1>13. \A q \in TransferRequest : trSigned'[q] = trSigned[q] /\ trSigned[q] \in Nat
                                  /\ trPayment'[q] = trPayment[q]
  BY <1>1, <1>0 DEF Sent!TypeOK
<1>14. ASSUME NEW q \in TransferRequest, HasPermit(q)
       PROVE  trPayment[q] \in Payment /\ Sent!WithPermit(trPayment[q])
              /\ AmountOf[trPayment[q]] \in Nat
  <2>1. PICK j \in DOMAIN trLine["project"] :
          trLine["project"][j] = [by |-> q, step |-> "permit", status |-> "success"]
    BY <1>14 DEF HasPermit
  <2>2. PlacedOf(q)
    BY DEF SentIInv, Placed
  <2> QED
    BY <2>1, <2>2 DEF PlacedOf
<1>15. /\ trAllowance' \in Nat /\ trBalance' \in 0 .. Funds
       /\ Permits' /\ Leftover'
  <2>1. CASE status = "success" /\ b # NoRequest /\ s = "permit"
    <3>1. b \in TransferRequest /\ trPayment[b] \in Payment /\ w = "project"
          /\ Sent!WithPermit(trPayment[b]) /\ trStep[b] = "permit" /\ PlacedOf(b)
      BY <1>7, <2>1, Senders
    <3>2. /\ trSigned[b] = trOwnerNonce /\ trAllowance' = AmountOf[trPayment[b]]
          /\ trOwnerNonce' = trOwnerNonce + 1 /\ trBalance' = trBalance
      BY <1>1, <1>2, <2>1, <3>1 DEF Sent!Applies
    <3>3. ~HasPermit(b)
      <4>1. trSigned[b] \in Nat /\ (HasPermit(b) => trSigned[b] < trOwnerNonce)
        BY <1>12, <1>13, <3>1
      <4> QED
        BY ONLY <1>0, <3>2, <4>1
    <3>4. HasPermit(b)'
      BY <1>3, <1>4, <2>1, <3>1 DEF HasPermit
    <3>5. \A q \in TransferRequest : HasPermit(q)' <=> HasPermit(q) \/ q = b
      BY <1>8, <1>10, <3>4
    <3>6. {q \in TransferRequest : HasPermit(q)'} = {q \in TransferRequest : HasPermit(q)} \cup {b}
      BY <3>1, <3>5
    <3>7. trOwnerNonce' = Cardinality({q \in TransferRequest : HasPermit(q)'})
      <4>1. IsFiniteSet({q \in TransferRequest : HasPermit(q)})
        BY RequestsFinite, FS_Subset
      <4>2. b \notin {q \in TransferRequest : HasPermit(q)}
        BY <3>3
      <4>3. Cardinality({q \in TransferRequest : HasPermit(q)} \cup {b})
              = Cardinality({q \in TransferRequest : HasPermit(q)}) + 1
        BY <4>1, <4>2, FS_AddElement
      <4> QED
        BY <1>12, <3>2, <3>6, <4>3
    <3>8. ASSUME NEW q \in TransferRequest, HasPermit(q)'
          PROVE  trSigned'[q] < trOwnerNonce'
      <4>1. trSigned'[q] = trSigned[q] /\ trSigned[q] \in Nat
        BY <1>13
      <4>2. trSigned[q] < trOwnerNonce \/ trSigned[q] = trOwnerNonce
        BY <1>12, <3>2, <3>5, <3>8
      <4> QED
        BY ONLY <1>0, <3>2, <4>1, <4>2
    <3>9. \A p, q \in TransferRequest :
            HasPermit(p)' /\ HasPermit(q)' /\ p # q => trSigned'[p] # trSigned'[q]
      <4> SUFFICES ASSUME NEW p \in TransferRequest, NEW q \in TransferRequest,
                          HasPermit(p)', HasPermit(q)', p # q, trSigned[p] = trSigned[q]
                   PROVE  FALSE
        BY <1>13
      <4>1. (HasPermit(p) \/ p = b) /\ (HasPermit(q) \/ q = b)
        BY <3>5
      <4>2. /\ HasPermit(p) /\ HasPermit(q) => trSigned[p] # trSigned[q]
            /\ HasPermit(p) => trSigned[p] < trOwnerNonce
            /\ HasPermit(q) => trSigned[q] < trOwnerNonce
            /\ trSigned[p] \in Nat /\ trSigned[q] \in Nat
        BY <1>12, <1>13
      <4> QED
        BY ONLY <1>0, <3>2, <4>1, <4>2, p # q, trSigned[p] = trSigned[q]
    <3>10. Permits'
      BY <3>7, <3>8, <3>9 DEF Permits
    <3>11. \A j \in DOMAIN trLine["project"] :
             trLine["project"][j] # [by |-> b, step |-> "transfer", status |-> "success"]
      BY <3>1 DEF PlacedOf
    <3>12. AmountOf[trPayment[b]] \in Nat
      BY <3>1, Senders
    <3>13. Leftover'
      <4>1. \A j \in DOMAIN trLine'["project"] :
              trLine'["project"][j] # [by |-> b, step |-> "transfer", status |-> "success"]
        BY <1>11, <2>1, <3>1, <3>11
      <4> QED
        BY <1>13, <3>1, <3>2, <3>4, <3>12, <4>1 DEF Leftover
    <3> QED
      BY <1>0, <3>2, <3>10, <3>12, <3>13
  <2>2. CASE ~(status = "success" /\ b # NoRequest /\ s = "permit")
    <3>1. \A q \in TransferRequest : HasPermit(q)' <=> HasPermit(q)
      BY <1>8, <1>10, <2>2
    <3>2. {q \in TransferRequest : HasPermit(q)'} = {q \in TransferRequest : HasPermit(q)}
      BY <3>1
    <3>3. trOwnerNonce' = trOwnerNonce
      BY <1>1, <1>2, <2>2
    <3>4. Permits'
      <4>1. \A q \in TransferRequest : HasPermit(q)' => trSigned'[q] < trOwnerNonce'
        BY <1>12, <1>13, <3>1, <3>3
      <4>2. \A p, q \in TransferRequest :
              HasPermit(p)' /\ HasPermit(q)' /\ p # q => trSigned'[p] # trSigned'[q]
        BY <1>12, <1>13, <3>1
      <4>3. trOwnerNonce' = Cardinality({q \in TransferRequest : HasPermit(q)'})
        BY <1>12, <3>2, <3>3
      <4> QED
        BY <4>1, <4>2, <4>3 DEF Permits
    <3>5. CASE status = "success" /\ b # NoRequest /\ s = "transfer"
               /\ Sent!WithPermit(trPayment[b])
      <4>1. b \in TransferRequest /\ trPayment[b] \in Payment /\ AmountOf[trPayment[b]] \in Nat
        BY <1>7, <3>5, Senders
      <4>2. /\ trAllowance >= AmountOf[trPayment[b]] /\ trBalance >= AmountOf[trPayment[b]]
            /\ trAllowance' = trAllowance - AmountOf[trPayment[b]]
            /\ trBalance' = trBalance - AmountOf[trPayment[b]]
        BY <1>1, <1>2, <3>5 DEF Sent!Applies
      <4>3. trAllowance' \in Nat /\ trBalance' \in 0 .. Funds
        BY <1>0, <4>1, <4>2
      <4>4. Leftover'
        <5> SUFFICES ASSUME trAllowance' > 0 PROVE Leftover'
          BY DEF Leftover
        <5>1. PICK r \in TransferRequest :
                /\ HasPermit(r)
                /\ trAllowance <= AmountOf[trPayment[r]]
                /\ \A j \in DOMAIN trLine["project"] :
                     trLine["project"][j] # [by |-> r, step |-> "transfer", status |-> "success"]
          BY <1>0, <4>1, <4>2 DEF SentIInv, Leftover
        <5>2. AmountOf[trPayment[r]] \in Nat
          BY <1>14, <5>1
        <5>3. r # b /\ trAllowance' <= AmountOf[trPayment[r]]
          BY <1>0, <4>1, <4>2, <5>1, <5>2
        <5>4. \A j \in DOMAIN trLine'["project"] :
                trLine'["project"][j] # [by |-> r, step |-> "transfer", status |-> "success"]
          BY <1>11, <5>1, <5>3
        <5> QED
          BY <1>13, <3>1, <5>1, <5>3, <5>4 DEF Leftover
      <4> QED
        BY <3>4, <4>3, <4>4
    <3>6. CASE ~(status = "success" /\ b # NoRequest /\ s = "transfer"
                 /\ Sent!WithPermit(trPayment[b]))
      <4>1. trAllowance' = trAllowance /\ trBalance' = trBalance
        BY <1>1, <1>2, <2>2, <3>6
      <4>2. Leftover'
        <5> SUFFICES ASSUME trAllowance > 0 PROVE Leftover'
          BY <4>1 DEF Leftover
        <5>1. PICK r \in TransferRequest :
                /\ HasPermit(r)
                /\ trAllowance <= AmountOf[trPayment[r]]
                /\ \A j \in DOMAIN trLine["project"] :
                     trLine["project"][j] # [by |-> r, step |-> "transfer", status |-> "success"]
          BY DEF SentIInv, Leftover
        <5>2. Sent!WithPermit(trPayment[r]) /\ r # NoRequest
          BY <1>14, <5>1
        <5>3. ~(status = "success" /\ s = "transfer" /\ r = b)
          BY <3>6, <5>2
        <5>4. \A j \in DOMAIN trLine'["project"] :
                trLine'["project"][j] # [by |-> r, step |-> "transfer", status |-> "success"]
          BY <1>11, <5>1, <5>3
        <5> QED
          BY <1>13, <3>1, <4>1, <5>1, <5>4 DEF Leftover
      <4> QED
        BY <1>0, <3>4, <4>1, <4>2
    <3> QED
      BY <3>5, <3>6
  <2> QED
    BY <2>1, <2>2
<1>16. LinesBounded'
  <2>1. Unsent' = Unsent
    BY <1>1 DEF Unsent
  <2>2. \A v \in Sent!Wallet :
          Len(trLine[v]) + Cardinality(Unsent) + MaxOthers - trOthers <= Sent!LineBound
    BY DEF SentIInv, LinesBounded
  <2> QED
    BY <1>1, <1>3, <2>1, <2>2 DEF LinesBounded
<1>17. Sent!TypeOK'
  <2>1. trOwnerNonce' \in 0 .. Sent!NonceBound
    <3>1. /\ IsFiniteSet({q \in TransferRequest : HasPermit(q)'})
          /\ Cardinality({q \in TransferRequest : HasPermit(q)'}) <= Cardinality(TransferRequest)
      BY RequestsFinite, FS_Subset
    <3>2. Cardinality({q \in TransferRequest : HasPermit(q)'}) \in Nat
      BY <3>1, FS_CardinalityType
    <3>3. trOwnerNonce' = Cardinality({q \in TransferRequest : HasPermit(q)'})
      BY <1>15 DEF Permits
    <3> QED
      BY <3>1, <3>2, <3>3, RequestsFinite
  <2>2. ASSUME NEW q \in TransferRequest, trPayment[q] \in Payment
        PROVE  trNonce[q] <= Len(trLine'[Sent!Sender(trPayment[q])]) + 1
    BY <1>0, <1>3, <2>2, Senders DEF Sent!TypeOK
  <2>3. \A v \in Sent!Wallet : Len(trLine'[v]) <= Sent!LineBound
    BY <1>0, <1>3 DEF Sent!TypeOK
  <2> QED
    BY <1>0, <1>1, <1>3, <1>15, <2>1, <2>2, <2>3 DEF Sent!TypeOK, Sent!Sender
<1> QED
  BY <1>6, <1>8, <1>9, <1>15, <1>16, <1>17 DEF SentIInv, Placed, Asked, Answers

LEMMA InitSentIInv == Sent!Init => SentIInv
<1> SUFFICES ASSUME Sent!Init PROVE SentIInv
  OBVIOUS
<1>0. trLine = [w \in Sent!Wallet |-> << >>]
  BY DEF Sent!Init
<1>1. \A w \in Sent!Wallet : trLine[w] = << >> /\ DOMAIN trLine[w] = {} /\ Len(trLine[w]) = 0
  BY <1>0
<1>2. Sent!TypeOK
  <2>1. Sent!LineBound \in Nat /\ Sent!NonceBound \in Nat
    BY RequestsFinite
  <2>2. trLine \in [Sent!Wallet -> Seq(Sent!Transaction)]
    BY <1>0
  <2>3. \A r \in TransferRequest : trPayment[r] \notin Payment
    BY DEF Sent!Init
  <2> QED
    BY <1>1, <2>1, <2>2, <2>3 DEF Sent!Init, Sent!TypeOK
<1>3. Placed
  BY <1>1 DEF Placed, PlacedOf
<1>4. PlacedOnce
  BY <1>1 DEF PlacedOnce
<1>5. Asked
  BY DEF Sent!Init, Asked, AskedOf
<1>6. Answers
  BY DEF Sent!Init, Answers, AnsweredOf
<1>7. \A r \in TransferRequest : ~HasPermit(r)
  BY <1>1 DEF HasPermit
<1>8. Permits
  <2>1. {r \in TransferRequest : HasPermit(r)} = {}
    BY <1>7
  <2>2. Cardinality({}) = 0
    BY FS_EmptySet
  <2> QED
    BY <1>7, <2>1, <2>2 DEF Permits, Sent!Init
<1>9. Leftover
  BY DEF Leftover, Sent!Init
<1>10. LinesBounded
  <2>1. /\ Unsent \subseteq TransferRequest \X {"permit", "transfer"}
        /\ IsFiniteSet(TransferRequest \X {"permit", "transfer"})
        /\ Cardinality(TransferRequest \X {"permit", "transfer"})
             = 2 * Cardinality(TransferRequest)
    BY UnsentFinite DEF Unsent
  <2>2. Cardinality(Unsent) <= 2 * Cardinality(TransferRequest)
    BY <2>1, FS_Subset
  <2>3. trOthers = 0
    BY DEF Sent!Init
  <2>4. /\ Cardinality(Unsent) \in Nat /\ Cardinality(TransferRequest) \in Nat
        /\ MaxOthers \in Nat
        /\ Sent!LineBound = 2 * Cardinality(TransferRequest) + MaxOthers
    BY UnsentFinite, RequestsFinite
  <2> QED
    BY <1>1, <2>2, <2>3, <2>4 DEF LinesBounded
<1> QED
  BY <1>2, <1>3, <1>4, <1>5, <1>6, <1>8, <1>9, <1>10 DEF SentIInv

\* A step of another component leaves the transfers as they are.
LEMMA StutterSent ==
  ASSUME SentIInv, UNCHANGED trVars
  PROVE  SentIInv'
<1>1. /\ trStage' = trStage /\ trStep' = trStep /\ trPayment' = trPayment
      /\ trSigned' = trSigned /\ trNonce' = trNonce /\ trLine' = trLine
      /\ trDisplaced' = trDisplaced /\ trOthers' = trOthers
      /\ trAllowance' = trAllowance /\ trOwnerNonce' = trOwnerNonce /\ trBalance' = trBalance
  BY DEF trVars
<1>2. Sent!TypeOK'
  BY <1>1 DEF SentIInv, Sent!TypeOK, Sent!Sender, Sent!LineBound, Sent!NonceBound
<1>3. Placed' /\ PlacedOnce' /\ Asked'
  BY <1>1 DEF SentIInv, Placed, PlacedOf, PlacedOnce, Asked, AskedOf, Sent!Sender, Sent!WithPermit
<1>4. \A r \in TransferRequest : HasPermit(r)' <=> HasPermit(r)
  BY <1>1 DEF HasPermit
<1>5. Answers'
  BY <1>1, <1>4 DEF SentIInv, Answers, AnsweredOf, Has, Sent!Sender, Sent!WithPermit
<1>6. Permits'
  <2>1. {r \in TransferRequest : HasPermit(r)'} = {r \in TransferRequest : HasPermit(r)}
    BY <1>4
  <2> QED
    BY <1>1, <1>4, <2>1 DEF SentIInv, Permits
<1>7. Leftover'
  BY <1>1, <1>4 DEF SentIInv, Leftover
<1>8. LinesBounded'
  BY <1>1 DEF SentIInv, LinesBounded, Unsent, Sent!LineBound
<1> QED
  BY <1>2, <1>3, <1>5, <1>6, <1>7, <1>8 DEF SentIInv

LEMMA NextSentIInv == SentIInv /\ [Sent!Next]_trVars => SentIInv'
<1> SUFFICES ASSUME SentIInv, [Sent!Next]_trVars PROVE SentIInv'
  OBVIOUS
<1>1. CASE \E r \in TransferRequest, p \in Payment : Sent!Begin(r, p)
  BY <1>1, BeginStep
<1>2. ASSUME NEW r \in TransferRequest, Sent!Script(r) PROVE SentIInv'
  BY <1>2, ScriptEnds, PrepareStep, SendStep, ReceiptStep DEF Sent!Script
<1>3. CASE \E w \in Sent!Wallet : Sent!Mine(w)
  BY <1>3, MineStep
<1>4. CASE Sent!OtherSend
  BY <1>4, OtherStep
<1>5. CASE UNCHANGED trVars
  BY <1>5, StutterSent
<1> QED
  BY <1>1, <1>2, <1>3, <1>4, <1>5 DEF Sent!Next

\* The transfers in a behaviour of the whole.
LEMMA SentInvariant == SpecPart => []SentIInv
<1>1. InitPart => SentIInv
  BY InitSentIInv DEF InitPart
<1>2. SentIInv /\ [NextPart]_allVars => SentIInv'
  <2> SUFFICES ASSUME [NextPart]_allVars PROVE [Sent!Next]_trVars
    BY NextSentIInv
  <2> QED
    BY DEF NextPart, allVars
<1> QED
  BY <1>1, <1>2, PTL DEF SpecPart

-----------------------------------------------------------------------------

\* The places of a request's transfers that went through.
Places(r) ==
  {p \in UNION {{w} \X DOMAIN trLine[w] : w \in Sent!Wallet} :
     trLine[p[1]][p[2]] = [by |-> r, step |-> "transfer", status |-> "success"]}

\* A request's transfer goes through at one place at most.
LEMMA OnePlace ==
  ASSUME SentIInv, NEW r \in TransferRequest
  PROVE  /\ Sent!Moves(r) = Cardinality(Places(r))
         /\ Sent!Moves(r) \in {0, 1}
         /\ Sent!Moves(r) = 1 <=>
              \E w \in Sent!Wallet : \E i \in DOMAIN trLine[w] :
                trLine[w][i] = [by |-> r, step |-> "transfer", status |-> "success"]
<1>1. Sent!Moves(r) = Cardinality(Places(r))
  BY SentFinite DEF Sent!Moves, Places
<1>2. \A p \in Places(r) :
        /\ p[1] \in Sent!Wallet /\ p[2] \in DOMAIN trLine[p[1]] /\ p = <<p[1], p[2]>>
        /\ trLine[p[1]][p[2]] = [by |-> r, step |-> "transfer", status |-> "success"]
  BY DEF Places
<1>3. ASSUME NEW w \in Sent!Wallet, NEW i \in DOMAIN trLine[w],
             trLine[w][i] = [by |-> r, step |-> "transfer", status |-> "success"]
      PROVE  <<w, i>> \in Places(r)
  BY <1>3 DEF Places
<1>4. ASSUME NEW p \in Places(r), NEW q \in Places(r) PROVE p = q
  <2>1. PlacedOf(r) /\ PlacedOnce /\ r # NoRequest
    BY DEF SentIInv, Placed
  <2>2. PICK w \in Sent!Wallet : \E i \in DOMAIN trLine[w] : p = <<w, i>>
          /\ trLine[w][i] = [by |-> r, step |-> "transfer", status |-> "success"]
    BY <1>2
  <2>3. PICK i \in DOMAIN trLine[w] : p = <<w, i>>
          /\ trLine[w][i] = [by |-> r, step |-> "transfer", status |-> "success"]
    BY <2>2
  <2>4. PICK v \in Sent!Wallet : \E j \in DOMAIN trLine[v] : q = <<v, j>>
          /\ trLine[v][j] = [by |-> r, step |-> "transfer", status |-> "success"]
    BY <1>2
  <2>5. PICK j \in DOMAIN trLine[v] : q = <<v, j>>
          /\ trLine[v][j] = [by |-> r, step |-> "transfer", status |-> "success"]
    BY <2>4
  <2>6. w = v
    BY <2>1, <2>3, <2>5 DEF PlacedOf
  <2>7. i = j
    BY <2>1, <2>3, <2>5, <2>6 DEF PlacedOnce
  <2> QED
    BY <2>3, <2>5, <2>6, <2>7
<1>5. CASE Places(r) = {}
  <2>1. Cardinality({}) = 0
    BY FS_EmptySet
  <2> QED
    BY <1>1, <1>3, <1>5, <2>1
<1>6. CASE Places(r) # {}
  <2>1. PICK p \in Places(r) : TRUE
    BY <1>6
  <2>2. Places(r) = {p}
    BY <1>4
  <2>3. Cardinality({p}) = 1
    BY FS_Singleton
  <2> QED
    BY <1>1, <1>2, <2>1, <2>2, <2>3
<1> QED
  BY <1>5, <1>6

\* A request without such a place has moved nothing.
LEMMA NoPlace ==
  ASSUME SentIInv, NEW r \in TransferRequest,
         \A w \in Sent!Wallet : \A i \in DOMAIN trLine[w] :
           trLine[w][i] # [by |-> r, step |-> "transfer", status |-> "success"]
  PROVE  Sent!Moves(r) = 0
<1>1. Sent!Moves(r) \in {0, 1} /\ Sent!Moves(r) # 1
  BY OnePlace
<1> QED
  BY ONLY <1>1

LEMMA OkMoved == SentIInv => Sent!OkMeansMoved
<1> SUFFICES ASSUME SentIInv, NEW r \in TransferRequest,
                    trStage[r] = "ok", r \notin trDisplaced
             PROVE  CASE KindOf[trPayment[r]] = "validate" -> Sent!Moves(r) = 0
                      [] KindOf[trPayment[r]] = "token"    -> Sent!Mined(r)
                      [] OTHER                             -> Sent!Moves(r) = 1
  BY DEF Sent!OkMeansMoved
<1>1. PlacedOf(r) /\ AskedOf(r) /\ AnsweredOf(r)
  BY DEF SentIInv, Placed, Asked, Answers
<1>2. trPayment[r] \in Payment /\ Sent!Sender(trPayment[r]) \in Sent!Wallet
  BY <1>1, Senders DEF AskedOf
<1>3. ASSUME KindOf[trPayment[r]] = "validate" PROVE Sent!Moves(r) = 0
  <2>1. \A w \in Sent!Wallet : \A i \in DOMAIN trLine[w] : trLine[w][i].by # r
    BY ONLY <1>1, <1>3 DEF PlacedOf
  <2>2. \A w \in Sent!Wallet : \A i \in DOMAIN trLine[w] :
          trLine[w][i] # [by |-> r, step |-> "transfer", status |-> "success"]
    BY ONLY <2>1
  <2> QED
    BY <2>2, NoPlace
<1>4. ASSUME KindOf[trPayment[r]] # "validate"
      PROVE  \E w \in Sent!Wallet : \E i \in DOMAIN trLine[w] :
               /\ trLine[w][i].by = r /\ trLine[w][i].step = "transfer"
               /\ trLine[w][i].status # "pending"
               /\ KindOf[trPayment[r]] # "token" => trLine[w][i].status = "success"
  BY <1>1, <1>2, <1>4 DEF AnsweredOf, Has
<1>5. ASSUME KindOf[trPayment[r]] = "token" PROVE Sent!Mined(r)
  BY <1>4, <1>5 DEF Sent!Mined
<1>6. ASSUME KindOf[trPayment[r]] \notin {"validate", "token"} PROVE Sent!Moves(r) = 1
  <2>1. PICK w \in Sent!Wallet : \E i \in DOMAIN trLine[w] :
          /\ trLine[w][i].by = r /\ trLine[w][i].step = "transfer"
          /\ trLine[w][i].status = "success"
    BY <1>4, <1>6
  <2>2. PICK i \in DOMAIN trLine[w] :
          /\ trLine[w][i].by = r /\ trLine[w][i].step = "transfer"
          /\ trLine[w][i].status = "success"
    BY <2>1
  <2>3. trLine[w][i] = [by |-> r, step |-> "transfer", status |-> "success"]
    BY <2>2, LineTypes DEF SentIInv
  <2> QED
    BY <2>3, OnePlace
<1> QED
  BY <1>3, <1>5, <1>6

LEMMA FailedMoved == SentIInv => Sent!FailedMovedNothing
<1> SUFFICES ASSUME SentIInv, NEW r \in TransferRequest, trStage[r] = "failed"
             PROVE  Sent!Moves(r) = 0
  BY DEF Sent!FailedMovedNothing
<1>1. PlacedOf(r)
  BY DEF SentIInv, Placed
<1> QED
  <2>1. \A w \in Sent!Wallet : \A i \in DOMAIN trLine[w] :
          trLine[w][i] # [by |-> r, step |-> "transfer", status |-> "success"]
    BY <1>1 DEF PlacedOf
  <2> QED
    BY <2>1, NoPlace

\* An answer tells what happened to the transfer: ok that it went through
\* once, a refusal that it did not, for any number of requests and any order
\* in which the chain mines (runERC20PermitTransfer, erc20Transfer).
THEOREM AnswersTrue == SpecPart => []AnswersMeanMoves
<1>1. SentIInv => AnswersMeanMoves
  BY OkMoved, FailedMoved DEF AnswersMeanMoves
<1> QED
  BY <1>1, SentInvariant, PTL

\* A transfer of a permit route that went through had its request's permit.
LEMMA MovedByPermit ==
  ASSUME SentIInv, NEW r \in TransferRequest, trPayment[r] \in Payment,
         KindOf[trPayment[r]] = "permit", r \notin trDisplaced, Sent!Moves(r) > 0
  PROVE  HasPermit(r) /\ trSigned[r] = SignedNonce[trPayment[r]]
<1>1. PlacedOf(r) /\ AskedOf(r) /\ AnsweredOf(r)
  BY DEF SentIInv, Placed, Asked, Answers
<1>2. Sent!Moves(r) = 1
  <2>1. Sent!Moves(r) \in {0, 1}
    BY OnePlace
  <2> QED
    BY ONLY <2>1, Sent!Moves(r) > 0
<1>3. PICK w \in Sent!Wallet : \E i \in DOMAIN trLine[w] :
        trLine[w][i] = [by |-> r, step |-> "transfer", status |-> "success"]
  BY <1>2, OnePlace
<1>4. trStep[r] = "transfer"
  BY <1>1, <1>3 DEF PlacedOf
<1>5. trStage[r] # "idle"
  BY <1>3, IdleHasNone
<1>6. Sent!WithPermit(trPayment[r])
  BY Senders
<1> QED
  BY <1>1, <1>4, <1>5, <1>6 DEF AnsweredOf, AskedOf

LEMMA PaysOnce == SentIInv => Sent!SignaturePaysOnce
<1> SUFFICES ASSUME SentIInv, NEW p \in Payment, KindOf[p] = "permit",
                    {r \in TransferRequest : trPayment[r] = p} \cap trDisplaced = {}
             PROVE  Cardinality({r \in {q \in TransferRequest : trPayment[q] = p} :
                                   Sent!Moves(r) > 0}) <= 1
  BY SentFinite DEF Sent!SignaturePaysOnce
<1> DEFINE Paid == {r \in {q \in TransferRequest : trPayment[q] = p} : Sent!Moves(r) > 0}
<1>1. ASSUME NEW r \in Paid, NEW q \in Paid PROVE r = q
  <2>1. HasPermit(r) /\ HasPermit(q) /\ trSigned[r] = trSigned[q]
    BY MovedByPermit
  <2> QED
    BY <2>1 DEF SentIInv, Permits
<1>2. CASE Paid = {}
  BY <1>2, FS_EmptySet
<1>3. CASE Paid # {}
  <2>1. PICK r \in Paid : TRUE
    BY <1>3
  <2>2. Paid = {r}
    BY <1>1
  <2>3. Cardinality({r}) = 1
    BY FS_Singleton
  <2> QED
    BY <2>2, <2>3
<1> QED
  BY <1>2, <1>3

LEMMA LeftoverUnpaid == SentIInv => Sent!LeftoverIsUnpaid
<1> SUFFICES ASSUME SentIInv, \A r \in TransferRequest : trStage[r] \notin Sent!Running,
                    trAllowance > 0
             PROVE  \E r \in TransferRequest :
                      \/ r \in trDisplaced
                      \/ /\ trStage[r] # "ok"
                         /\ [by |-> r, step |-> "permit", status |-> "success"]
                              \in Sent!Range(trLine["project"])
  BY DEF Sent!LeftoverIsUnpaid
<1>1. PICK r \in TransferRequest :
        /\ HasPermit(r)
        /\ \A i \in DOMAIN trLine["project"] :
             trLine["project"][i] # [by |-> r, step |-> "transfer", status |-> "success"]
  BY DEF SentIInv, Leftover
<1>2. [by |-> r, step |-> "permit", status |-> "success"] \in Sent!Range(trLine["project"])
  BY <1>1 DEF HasPermit, Sent!Range
<1>3. ASSUME trStage[r] = "ok", r \notin trDisplaced PROVE FALSE
  <2>1. PlacedOf(r) /\ AskedOf(r) /\ AnsweredOf(r)
    BY DEF SentIInv, Placed, Asked, Answers
  <2>2. trPayment[r] \in Payment /\ Sent!WithPermit(trPayment[r])
    BY <1>1, <2>1 DEF HasPermit, PlacedOf
  <2>3. Sent!Sender(trPayment[r]) = "project" /\ KindOf[trPayment[r]] \in {"permit", "managed"}
    BY <2>2, Senders
  <2>4. PICK i \in Nat :
          /\ i \in DOMAIN trLine["project"]
          /\ trLine["project"][i].by = r /\ trLine["project"][i].step = "transfer"
          /\ trLine["project"][i].status = "success"
    BY <1>3, <2>1, <2>3 DEF AnsweredOf, Has
  <2>5. trLine["project"][i] = [by |-> r, step |-> "transfer", status |-> "success"]
    BY <2>4, LineTypes DEF SentIInv
  <2> QED
    BY <1>1, <2>4, <2>5
<1> QED
  BY <1>2, <1>3

\* A permit the owner signed pays once, whatever became of the earlier
\* attempts, and what an ok answer leaves of the allowance is nothing
\* (erc20-permit-transfer.ts).
THEOREM PaidOncePerSignature == SpecPart => []SignaturePaysOnce
<1>1. SentIInv => SignaturePaysOnce
  BY PaysOnce, LeftoverUnpaid DEF SignaturePaysOnce
<1> QED
  BY <1>1, SentInvariant, PTL

HIDE DEF Sent!KindAssumption, Sent!AmountAssumption,
    Sent!NonceAssumption, Sent!NobodyAssumption, Sent!FiniteAssumption,
    Sent!BoundAssumption, Sent!Wallet, Sent!Step, Sent!Stage, Sent!Running, Sent!Kind

-----------------------------------------------------------------------------
(* Submissions of proofs: the inductive invariant.                         *)

\* What a submission of a proof has reached.
ProofOf(r) ==
  /\ zkStage[r] \in {"idle", "creating"} => zkStatus[r] = "absent"
  /\ zkStatus[r] = "absent" => zkStage[r] \in {"idle", "creating", "error", "gone"}
  /\ zkStage[r] = "finishing" => r \in zkVerified
  /\ zkStage[r] \in {"listing", "ok"} => zkStatus[r] = "submitted"
  /\ zkStatus[r] = "submitted" => r \in zkVerified
  /\ zkStage[r] = "ok" /\ zkAnswer[r] # r =>
       /\ zkAnswer[r] \in ProofRequest
       /\ AppOf[zkAnswer[r]] = AppOf[r]
       /\ zkCreatedAt[zkAnswer[r]] >= zkCreatedAt[r]
       /\ zkStatus[zkAnswer[r]] # "absent"

Proofs == \A r \in ProofRequest : ProofOf(r)

ProofTypes ==
  /\ zkStage \in [ProofRequest -> Zk!Stage]
  /\ zkStatus \in [ProofRequest -> Zk!Status]
  /\ zkCreatedAt \in [ProofRequest -> 0 .. ProofMaxNow]
  /\ zkAnswer \in [ProofRequest -> ProofRequest \cup {NoRequest}]
  /\ zkVerified \subseteq zkSent
  /\ zkSent \subseteq ProofRequest
  /\ zkLost \subseteq ProofRequest
  /\ zkLost # {} => ProofFaults > 0
  /\ zkNow \in 0 .. ProofMaxNow

ProofIInv == ProofTypes /\ Proofs

USE ProofAssumption DEF Zk!RequestAssumption, Zk!AppAssumption, Zk!BoundAssumption,
    Zk!Stage, Zk!Working, Zk!Status

LEMMA ZkFinite ==
  /\ \A S : Zk!Cardinality(S) = Cardinality(S)
  /\ \A S : Zk!IsFiniteSet(S) <=> IsFiniteSet(S)
BY DEF Zk!Cardinality, Cardinality, Zk!IsFiniteSet, IsFiniteSet

\* A failure is only counted while the bound allows one.
LEMMA FaultsLeft ==
  ASSUME zkLost \subseteq ProofRequest, Zk!Cardinality(zkLost) < ProofFaults
  PROVE  ProofFaults > 0
<1>1. IsFiniteSet(ProofRequest)
  BY ZkFinite
<1>2. Cardinality(zkLost) \in Nat /\ Zk!Cardinality(zkLost) = Cardinality(zkLost)
  BY <1>1, FS_Subset, FS_CardinalityType, ZkFinite
<1> QED
  BY <1>2

LEMMA InitProofIInv == Zk!Init => ProofIInv
BY DEF Zk!Init, ProofIInv, ProofTypes, Proofs, ProofOf

\* A step of one request that changes nothing of another.
LEMMA ProofStep ==
  ASSUME ProofIInv, NEW r \in ProofRequest, NEW st \in Zk!Stage, NEW value \in Zk!Status,
         zkStage' = [zkStage EXCEPT ![r] = st],
         zkStatus' = [zkStatus EXCEPT ![r] = value],
         zkStatus[r] # "absent" => value # "absent",
         UNCHANGED <<zkCreatedAt, zkSent, zkVerified, zkNow>>,
         \/ UNCHANGED zkLost
         \/ zkLost' = zkLost \cup {r} /\ ProofFaults > 0,
         \/ UNCHANGED zkAnswer /\ st # "ok"
         \/ /\ \E s \in ProofRequest : zkAnswer' = [zkAnswer EXCEPT ![r] = s]
            /\ zkAnswer'[r] # r =>
                 /\ AppOf[zkAnswer'[r]] = AppOf[r]
                 /\ zkCreatedAt[zkAnswer'[r]] >= zkCreatedAt[r]
                 /\ zkStatus[zkAnswer'[r]] # "absent",
         st \in {"idle", "creating"} => value = "absent",
         value = "absent" => st \in {"idle", "creating", "error", "gone"},
         st = "finishing" => r \in zkVerified,
         st \in {"listing", "ok"} => value = "submitted",
         value = "submitted" => r \in zkVerified
  PROVE  ProofIInv'
<1>1. ProofTypes
  BY DEF ProofIInv
<1>2. ProofTypes'
  BY <1>1 DEF ProofTypes
<1>3. /\ zkStage'[r] = st /\ zkStatus'[r] = value
      /\ \A q \in ProofRequest \ {r} :
           zkStage'[q] = zkStage[q] /\ zkStatus'[q] = zkStatus[q] /\ zkAnswer'[q] = zkAnswer[q]
      /\ \A q \in ProofRequest : zkStatus[q] # "absent" => zkStatus'[q] # "absent"
  BY <1>1 DEF ProofTypes
<1>4. ASSUME NEW q \in ProofRequest \ {r} PROVE ProofOf(q)'
  <2>1. ProofOf(q) /\ q \in ProofRequest
    BY DEF ProofIInv, Proofs
  <2>2. /\ zkStage'[q] = zkStage[q] /\ zkStatus'[q] = zkStatus[q] /\ zkAnswer'[q] = zkAnswer[q]
        /\ zkVerified' = zkVerified /\ zkCreatedAt' = zkCreatedAt
    BY <1>3
  <2> QED
    BY ONLY <1>3, <2>1, <2>2 DEF ProofOf
<1>5. ProofOf(r)'
  <2>1. zkAnswer \in [ProofRequest -> ProofRequest \cup {NoRequest}]
    BY <1>1 DEF ProofTypes
  <2>2. zkCreatedAt' = zkCreatedAt /\ zkVerified' = zkVerified
    OBVIOUS
  <2>3. st = "ok" /\ zkAnswer'[r] # r =>
          /\ zkAnswer'[r] \in ProofRequest
          /\ AppOf[zkAnswer'[r]] = AppOf[r]
          /\ zkCreatedAt'[zkAnswer'[r]] >= zkCreatedAt'[r]
          /\ zkStatus'[zkAnswer'[r]] # "absent"
    BY <1>3, <2>1, <2>2
  <2>4. /\ st \in {"idle", "creating"} => value = "absent"
        /\ value = "absent" => st \in {"idle", "creating", "error", "gone"}
        /\ st = "finishing" => r \in zkVerified'
        /\ st \in {"listing", "ok"} => value = "submitted"
        /\ value = "submitted" => r \in zkVerified'
    BY <2>2
  <2> QED
    BY ONLY <1>3, <2>3, <2>4 DEF ProofOf
<1> QED
  BY <1>2, <1>4, <1>5 DEF ProofIInv, Proofs

\* A write of a record's status, which may fail on either side of it.
LEMMA WriteStep ==
  ASSUME ProofIInv, NEW r \in ProofRequest, NEW value \in Zk!Status \ {"absent"},
         NEW st \in Zk!Stage \ {"idle", "creating", "ok"},
         Zk!Write(r, value, st),
         UNCHANGED <<zkCreatedAt, zkAnswer, zkSent, zkVerified, zkNow>>,
         st = "finishing" => r \in zkVerified,
         st = "listing" => value = "submitted",
         value = "submitted" => r \in zkVerified
  PROVE  ProofIInv'
<1>0. ProofTypes /\ ProofOf(r)
  BY DEF ProofIInv, Proofs
<1>1. CASE /\ zkStatus' = [zkStatus EXCEPT ![r] = value]
           /\ zkStage' = [zkStage EXCEPT ![r] = st]
           /\ UNCHANGED zkLost
  BY <1>1, ProofStep
<1>2. CASE /\ Zk!Cardinality(zkLost) < ProofFaults
           /\ zkLost' = zkLost \cup {r}
           /\ zkStage' = [zkStage EXCEPT ![r] = "error"]
           /\ zkStatus' \in {zkStatus, [zkStatus EXCEPT ![r] = value]}
  <2>1. ProofFaults > 0
    BY <1>0, <1>2, FaultsLeft DEF ProofTypes
  <2>2. CASE zkStatus' = [zkStatus EXCEPT ![r] = value]
    BY <1>2, <2>1, <2>2, ProofStep
  <2>3. CASE zkStatus' = zkStatus
    <3>1. zkStatus' = [zkStatus EXCEPT ![r] = zkStatus[r]] /\ zkStatus[r] \in Zk!Status
      BY <1>0, <2>3 DEF ProofTypes
    <3>2. zkStatus[r] = "submitted" => r \in zkVerified
      BY <1>0 DEF ProofOf
    <3> QED
      BY <1>2, <2>1, <3>1, <3>2, ProofStep
  <2> QED
    BY <1>2, <2>2, <2>3
<1> QED
  BY <1>1, <1>2 DEF Zk!Write

\* What the engine and zkVerify do for one request.
LEMMA ServeStep ==
  ASSUME ProofIInv, NEW r \in ProofRequest, Zk!Serve(r)
  PROVE  ProofIInv'
<1>0. ProofTypes /\ ProofOf(r)
  BY DEF ProofIInv, Proofs
<1>1. CASE Zk!CreateZKProofSubmission(r)
  BY <1>1, WriteStep DEF Zk!CreateZKProofSubmission
<1>2. zkStatus' = zkStatus => zkStatus' = [zkStatus EXCEPT ![r] = zkStatus[r]]
  BY <1>0 DEF ProofTypes
<1>3. CASE Zk!ScriptDone(r) \/ Zk!ScriptFails(r)
  <2>1. /\ zkStage[r] = "running" /\ zkStatus[r] \in Zk!Status \ {"absent"}
        /\ zkStatus[r] = "submitted" => r \in zkVerified
    BY <1>0, <1>3 DEF Zk!ScriptDone, Zk!ScriptFails, ProofTypes, ProofOf
  <2>2. PICK st \in {"finishing", "failing"} :
          zkStage' = [zkStage EXCEPT ![r] = st] /\ (st = "finishing" => r \in zkVerified)
    BY <1>3 DEF Zk!ScriptDone, Zk!ScriptFails, Zk!Result
  <2>3. UNCHANGED <<zkStatus, zkCreatedAt, zkAnswer, zkSent, zkVerified, zkLost, zkNow>>
    BY <1>3 DEF Zk!ScriptDone, Zk!ScriptFails
  <2> QED
    BY <1>2, <2>1, <2>2, <2>3, ProofStep
<1>4. CASE Zk!MarkZKProofSubmissionFailed(r)
  BY <1>4, WriteStep DEF Zk!MarkZKProofSubmissionFailed
<1>5. CASE Zk!MarkZKProofSubmissionSubmitted(r)
  <2>1. r \in zkVerified
    BY <1>0, <1>5 DEF Zk!MarkZKProofSubmissionSubmitted, ProofOf
  <2> QED
    BY <1>5, <2>1, WriteStep DEF Zk!MarkZKProofSubmissionSubmitted
<1>6. CASE Zk!Answer(r)
  <2>1. PICK s \in Zk!Newest(r) \cup {r} : zkAnswer' = [zkAnswer EXCEPT ![r] = s]
    BY <1>6 DEF Zk!Answer
  <2>2. /\ zkStage[r] = "listing"
        /\ zkStage' = [zkStage EXCEPT ![r] = "ok"]
        /\ UNCHANGED <<zkStatus, zkCreatedAt, zkSent, zkVerified, zkLost, zkNow>>
    BY <1>6 DEF Zk!Answer
  <2>3. zkStatus[r] = "submitted" /\ r \in zkVerified
    BY <1>0, <2>2 DEF ProofOf
  <2>4. s \in ProofRequest /\ zkAnswer'[r] = s
    BY <1>0, <2>1 DEF ProofTypes, Zk!Newest
  <2>5. s # r => AppOf[s] = AppOf[r] /\ zkStatus[s] # "absent" /\ zkCreatedAt[s] >= zkCreatedAt[r]
    BY <1>0, <2>1, <2>3, <2>4 DEF ProofTypes, Zk!Newest
  <2> QED
    BY <1>2, <2>1, <2>2, <2>3, <2>4, <2>5, ProofStep
<1> QED
  BY <1>1, <1>3, <1>4, <1>5, <1>6 DEF Zk!Serve

LEMMA NextProofIInv == ProofIInv /\ [Zk!Next]_zkVars => ProofIInv'
<1> SUFFICES ASSUME ProofIInv, [Zk!Next]_zkVars PROVE ProofIInv'
  OBVIOUS
<1>0. ProofTypes /\ \A q \in ProofRequest : ProofOf(q)
  BY DEF ProofIInv, Proofs
<1>1. ASSUME NEW r \in ProofRequest, Zk!Ask(r) PROVE ProofIInv'
  <2>1. /\ zkStage[r] = "idle" /\ zkStatus[r] = "absent"
        /\ zkStage' = [zkStage EXCEPT ![r] = "creating"]
        /\ zkCreatedAt' = [zkCreatedAt EXCEPT ![r] = zkNow]
        /\ UNCHANGED <<zkStatus, zkAnswer, zkSent, zkVerified, zkLost, zkNow>>
    BY <1>0, <1>1 DEF Zk!Ask, ProofOf
  <2>2. ProofTypes'
    BY <1>0, <2>1 DEF ProofTypes
  <2>3. /\ zkStage'[r] = "creating"
        /\ \A q \in ProofRequest \ {r} :
             zkStage'[q] = zkStage[q] /\ zkCreatedAt'[q] = zkCreatedAt[q]
    BY <1>0, <2>1 DEF ProofTypes
  <2>4. ASSUME NEW q \in ProofRequest PROVE ProofOf(q)'
    <3>1. ProofOf(q)
      BY <1>0
    <3>2. CASE q = r
      BY ONLY <2>1, <2>3, <3>2 DEF ProofOf
    <3>3. CASE q # r
      BY ONLY <2>1, <2>3, <3>1, <3>3, q \in ProofRequest DEF ProofOf
    <3> QED
      BY <3>2, <3>3
  <2> QED
    BY <2>2, <2>4 DEF ProofIInv, Proofs
<1>2. ASSUME NEW r \in ProofRequest, Zk!Send(r) \/ Zk!Finalise(r) PROVE ProofIInv'
  <2>1. /\ UNCHANGED <<zkStage, zkStatus, zkCreatedAt, zkAnswer, zkLost, zkNow>>
        /\ zkVerified \subseteq zkVerified' /\ zkVerified' \subseteq zkSent'
        /\ zkSent' \subseteq ProofRequest
    BY <1>0, <1>2 DEF Zk!Send, Zk!Finalise, ProofTypes
  <2>2. ProofTypes'
    BY <1>0, <2>1 DEF ProofTypes
  <2>3. ASSUME NEW q \in ProofRequest PROVE ProofOf(q)'
    <3>1. ProofOf(q)
      BY <1>0
    <3> QED
      BY ONLY <2>1, <3>1 DEF ProofOf
  <2> QED
    BY <2>2, <2>3 DEF ProofIInv, Proofs
<1>3. ASSUME NEW r \in ProofRequest, Zk!Serve(r) PROVE ProofIInv'
  BY <1>3, ServeStep
<1>4. CASE Zk!EngineStops
  <2> DEFINE cut == {r \in ProofRequest : zkStage[r] \in Zk!Working}
  <2>1. /\ Zk!Cardinality(zkLost) < ProofFaults
        /\ zkLost' = zkLost \cup cut
        /\ zkStage' = [r \in ProofRequest |-> IF r \in cut THEN "gone" ELSE zkStage[r]]
        /\ UNCHANGED <<zkStatus, zkCreatedAt, zkAnswer, zkSent, zkVerified, zkNow>>
    BY <1>4 DEF Zk!EngineStops
  <2>2. ProofFaults > 0
    BY <1>0, <2>1, FaultsLeft DEF ProofTypes
  <2>3. ProofTypes'
    BY <1>0, <2>1, <2>2 DEF ProofTypes
  <2>4. \A q \in ProofRequest : zkStage'[q] = "gone" \/ zkStage'[q] = zkStage[q]
    BY <2>1
  <2> HIDE DEF cut
  <2>5. ASSUME NEW q \in ProofRequest PROVE ProofOf(q)'
    <3>1. ProofOf(q)
      BY <1>0
    <3> QED
      BY ONLY <2>1, <2>4, <3>1, q \in ProofRequest DEF ProofOf
  <2> QED
    BY <2>3, <2>5 DEF ProofIInv, Proofs
<1>5. CASE Zk!Tick \/ UNCHANGED zkVars
  <2>1. /\ UNCHANGED <<zkStage, zkStatus, zkCreatedAt, zkAnswer, zkSent, zkVerified, zkLost>>
        /\ zkNow' \in 0 .. ProofMaxNow
    BY <1>0, <1>5 DEF Zk!Tick, zkVars, ProofTypes
  <2>2. ProofTypes'
    BY <1>0, <2>1 DEF ProofTypes
  <2>3. ASSUME NEW q \in ProofRequest PROVE ProofOf(q)'
    <3>1. ProofOf(q)
      BY <1>0
    <3> QED
      BY ONLY <2>1, <3>1 DEF ProofOf
  <2> QED
    BY <2>2, <2>3 DEF ProofIInv, Proofs
<1> QED
  BY <1>1, <1>2, <1>3, <1>4, <1>5 DEF Zk!Next

LEMMA ProofInvariant == SpecPart => []ProofIInv
<1>1. InitPart => ProofIInv
  BY InitProofIInv DEF InitPart
<1>2. ProofIInv /\ [NextPart]_allVars => ProofIInv'
  <2> SUFFICES ASSUME [NextPart]_allVars PROVE [Zk!Next]_zkVars
    BY NextProofIInv
  <2> QED
    BY DEF NextPart, allVars
<1> QED
  BY <1>1, <1>2, PTL DEF SpecPart

\* A proof answered with 202 was verified, and the record in the answer is the
\* request's own or a newer one of its app (createZKProof).
THEOREM ProofAnswersHold == SpecPart => []ProofAnswersTrue
<1>1. ProofIInv => ProofAnswersTrue
  <2> SUFFICES ASSUME ProofIInv PROVE ProofAnswersTrue
    OBVIOUS
  <2>1. \A r \in ProofRequest : ProofOf(r)
    BY DEF ProofIInv, Proofs
  <2>2. Zk!OkIsVerified
    BY <2>1 DEF Zk!OkIsVerified, ProofOf
  <2>3. Zk!AnswerIsOwnUnlessNewer
    BY <2>1 DEF Zk!AnswerIsOwnUnlessNewer, ProofOf
  <2> QED
    BY <2>2, <2>3 DEF ProofAnswersTrue
<1> QED
  BY <1>1, ProofInvariant, PTL

LEMMA ProofTypeOK == ProofIInv => Zk!TypeOK
<1> SUFFICES ASSUME ProofIInv PROVE Zk!TypeOK
  OBVIOUS
<1>1. IsFiniteSet(ProofRequest) /\ Cardinality(ProofRequest) \in Nat
  BY ZkFinite, FS_CardinalityType
<1>2. Cardinality(zkLost) <= Cardinality(ProofRequest) /\ Cardinality(zkLost) \in Nat
  BY <1>1, FS_Subset, FS_CardinalityType DEF ProofIInv, ProofTypes
<1>3. zkLost = {} \/ ProofFaults > 0
  BY DEF ProofIInv, ProofTypes
<1>4. Cardinality(zkLost) <= ProofFaults * Cardinality(ProofRequest)
  <2> DEFINE n == Cardinality(ProofRequest)
             m == Cardinality(zkLost)
  <2>1. ProofFaults \in Nat /\ n \in Nat /\ m \in Nat /\ m <= n
    BY <1>1, <1>2
  <2>2. m = 0 \/ ProofFaults > 0
    BY <1>3, FS_EmptySet
  <2> HIDE DEF n, m
  <2>3. ASSUME ProofFaults > 0 PROVE n <= ProofFaults * n
    <3>1. ProofFaults * n = n + (ProofFaults - 1) * n /\ (ProofFaults - 1) * n \in Nat
      BY ONLY <2>1, <2>3
    <3> QED
      BY ONLY <2>1, <3>1
  <2>4. ProofFaults * n \in Nat
    BY ONLY <2>1
  <2>5. m <= ProofFaults * n
    BY ONLY <2>1, <2>2, <2>3, <2>4
  <2> QED
    BY <2>5 DEF m, n
<1>5. \A r \in ProofRequest : zkStatus[r] = "absent" =>
        zkStage[r] \in {"idle", "creating", "error", "gone"}
  BY DEF ProofIInv, Proofs, ProofOf
<1> QED
  BY <1>4, <1>5, ZkFinite DEF Zk!TypeOK, ProofIInv, ProofTypes

HIDE DEF Zk!RequestAssumption, Zk!AppAssumption, Zk!BoundAssumption,
    Zk!Stage, Zk!Working, Zk!Status

-----------------------------------------------------------------------------
(* The token console: the inductive invariant.                             *)

ConsoleTransaction ==
  [by : ConsoleRequest, entry : Nat, wallet : ConsoleWallet \cup {NoWallet},
   method : Console!Action, amount : {Console!BaseUnits(a) : a \in Amount}]

ConsoleTypes ==
  /\ tcStage \in [ConsoleRequest -> {"idle", "queuing", "accepted", "refused"}]
  /\ tcAction \in [ConsoleRequest -> Console!Action]
  /\ tcEntries \in [ConsoleRequest -> Seq(Console!Entry)]
  /\ tcWallet \in [ConsoleRequest -> ConsoleWallet \cup {NoWallet}]
  /\ tcAt \in [ConsoleRequest -> Nat \ {0}]
  /\ tcDefault \in ConsoleWallet \cup {NoWallet}
  /\ tcQueue \in Seq(ConsoleTransaction)
  /\ tcFaults \in 0 .. ConsoleFaults

\* Each transaction in the queue is of an entry its request still holds.
EntryOf(t) ==
  /\ tcStage[t.by] # "idle"
  /\ t.entry \in 1 .. Len(tcEntries[t.by])
  /\ t.wallet = tcWallet[t.by]
  /\ Console!IsAmount(tcEntries[t.by][t.entry].amount)
  /\ t.amount = Console!BaseUnits(tcEntries[t.by][t.entry].amount)
  /\ t.method # "burn" => tcEntries[t.by][t.entry].recipient # NoAddress

\* A request has queued the first n entries of its list, in their order.
QueuedFirst(r, n) ==
  /\ {tcQueue[i].entry : i \in Console!Queued(r)} = 1 .. n
  /\ \A i, j \in Console!Queued(r) : i < j => tcQueue[i].entry < tcQueue[j].entry

\* How far a request has come with its list.
ListOf(r) ==
  /\ Len(tcEntries[r]) <= MaxEntries
  /\ tcAt[r] <= Len(tcEntries[r]) + 1
  /\ tcStage[r] = "idle" => tcAt[r] = 1
  /\ tcStage[r] = "queuing" => tcWallet[r] # NoWallet
  /\ tcStage[r] = "accepted" => tcAt[r] = Len(tcEntries[r]) + 1 /\ tcAt[r] > 1
  /\ \/ QueuedFirst(r, tcAt[r] - 1)
     \/ /\ QueuedFirst(r, tcAt[r])
        /\ tcStage[r] = "refused" /\ tcFaults > 0

ConsoleIInv ==
  /\ ConsoleTypes
  /\ \A i \in DOMAIN tcQueue : EntryOf(tcQueue[i])
  /\ \A r \in ConsoleRequest : ListOf(r)

USE ConsoleAssumption DEF Console!NobodyAssumption, Console!AmountAssumption,
    Console!FiniteAssumption, Console!BoundAssumption, Console!Action

LEMMA ConsoleFinite ==
  /\ \A S : Console!Cardinality(S) = Cardinality(S)
  /\ \A S : Console!IsFiniteSet(S) <=> IsFiniteSet(S)
BY DEF Console!Cardinality, Cardinality, Console!IsFiniteSet, IsFiniteSet

\* What the queue holds.
LEMMA QueueTypes ==
  ASSUME ConsoleTypes, NEW i \in DOMAIN tcQueue
  PROVE  /\ tcQueue[i].by \in ConsoleRequest /\ tcQueue[i].entry \in Nat
         /\ i \in Nat \ {0} /\ i <= Len(tcQueue)
<1>1. tcQueue \in Seq(ConsoleTransaction)
  BY DEF ConsoleTypes
<1>2. tcQueue[i] \in ConsoleTransaction /\ i \in Nat \ {0} /\ i <= Len(tcQueue)
  BY <1>1
<1> QED
  BY <1>2 DEF ConsoleTransaction

LEMMA InitConsoleIInv == Console!Init => ConsoleIInv
<1> SUFFICES ASSUME Console!Init PROVE ConsoleIInv
  OBVIOUS
<1>1. tcQueue = << >> /\ DOMAIN tcQueue = {} /\ tcQueue \in Seq(ConsoleTransaction)
  BY DEF Console!Init
<1>2. \A r \in ConsoleRequest : tcEntries[r] = << >> /\ Len(tcEntries[r]) = 0 /\ tcAt[r] = 1
                                /\ tcStage[r] = "idle"
  BY DEF Console!Init
<1>3. ConsoleTypes
  BY <1>1 DEF Console!Init, ConsoleTypes
<1>4. ASSUME NEW r \in ConsoleRequest PROVE ListOf(r)
  <2>1. Console!Queued(r) = {}
    BY <1>1 DEF Console!Queued
  <2>2. {tcQueue[i].entry : i \in {}} = {} /\ 1 .. 0 = {} /\ 1 - 1 = 0
    OBVIOUS
  <2>3. QueuedFirst(r, 0)
    BY <2>1, <2>2 DEF QueuedFirst
  <2>4. QueuedFirst(r, tcAt[r] - 1)
    BY <1>2, <2>2, <2>3
  <2> QED
    BY <1>2, <2>4 DEF ListOf
<1> QED
  BY <1>1, <1>3, <1>4 DEF ConsoleIInv

\* A step of one request that queues nothing.
LEMMA ConsoleStep ==
  ASSUME ConsoleIInv, NEW r \in ConsoleRequest, ConsoleTypes', tcQueue' = tcQueue,
         tcFaults <= tcFaults',
         \A q \in ConsoleRequest \ {r} :
           /\ tcStage'[q] = tcStage[q] /\ tcEntries'[q] = tcEntries[q]
           /\ tcWallet'[q] = tcWallet[q] /\ tcAt'[q] = tcAt[q],
         tcStage[r] # "idle" =>
           tcEntries'[r] = tcEntries[r] /\ tcWallet'[r] = tcWallet[r] /\ tcStage'[r] # "idle",
         ListOf(r)'
  PROVE  ConsoleIInv'
<1>1. ASSUME NEW i \in DOMAIN tcQueue PROVE EntryOf(tcQueue[i])'
  <2>1. EntryOf(tcQueue[i]) /\ tcQueue[i].by \in ConsoleRequest
    BY QueueTypes DEF ConsoleIInv
  <2>2. /\ tcStage'[tcQueue[i].by] # "idle"
        /\ tcEntries'[tcQueue[i].by] = tcEntries[tcQueue[i].by]
        /\ tcWallet'[tcQueue[i].by] = tcWallet[tcQueue[i].by]
    BY <2>1 DEF EntryOf
  <2> QED
    BY ONLY <2>1, <2>2, tcQueue' = tcQueue DEF EntryOf
<1>2. ASSUME NEW q \in ConsoleRequest \ {r} PROVE ListOf(q)'
  <2>1. ListOf(q) /\ tcFaults \in Nat /\ tcFaults' \in Nat
    BY DEF ConsoleIInv, ConsoleTypes
  <2>2. \A n : QueuedFirst(q, n) => QueuedFirst(q, n)'
    BY ONLY tcQueue' = tcQueue DEF QueuedFirst, Console!Queued
  <2>3. /\ tcStage'[q] = tcStage[q] /\ tcEntries'[q] = tcEntries[q]
        /\ tcWallet'[q] = tcWallet[q] /\ tcAt'[q] = tcAt[q]
    OBVIOUS
  <2>4. tcFaults > 0 => tcFaults' > 0
    BY ONLY <2>1, tcFaults <= tcFaults'
  <2> QED
    BY ONLY <2>1, <2>2, <2>3, <2>4 DEF ListOf
<1>3. \A i \in DOMAIN tcQueue' : EntryOf(tcQueue[i])'
  BY <1>1
<1> QED
  BY <1>2, <1>3 DEF ConsoleIInv

\* The entry a request is at joins the queue.
LEMMA ConsoleAppend ==
  ASSUME ConsoleIInv, NEW r \in ConsoleRequest,
         tcStage[r] = "queuing", tcAt[r] <= Len(tcEntries[r]), Console!IsEntry(r),
         tcQueue' = Append(tcQueue, Console!Transaction(r)),
         UNCHANGED <<tcAction, tcEntries, tcWallet, tcDefault>>,
         tcFaults' \in 0 .. ConsoleFaults, tcFaults <= tcFaults',
         \/ tcAt' = [tcAt EXCEPT ![r] = @ + 1] /\ UNCHANGED tcStage
         \/ /\ UNCHANGED tcAt /\ tcStage' = [tcStage EXCEPT ![r] = "refused"]
            /\ tcFaults' > 0
  PROVE  ConsoleIInv'
<1>0. ConsoleTypes /\ ListOf(r)
  BY DEF ConsoleIInv
<1>n. PICK n \in Nat \ {0} : n = tcAt[r]
  BY <1>0 DEF ConsoleTypes
<1> DEFINE t == Console!Transaction(r)
           e == tcEntries[r][n]
<1>1. /\ n \in Nat \ {0} /\ n \in 1 .. Len(tcEntries[r]) /\ Len(tcEntries[r]) \in Nat
      /\ e \in Console!Entry
  <2>1. tcEntries[r] \in Seq(Console!Entry) /\ n \in Nat \ {0}
    BY <1>0 DEF ConsoleTypes
  <2>2. Len(tcEntries[r]) \in Nat
    BY <2>1
  <2>3. n \in 1 .. Len(tcEntries[r])
    BY ONLY <1>n, <2>1, <2>2, tcAt[r] <= Len(tcEntries[r])
  <2> QED
    BY <2>1, <2>2, <2>3
<1>2. /\ t.by = r /\ t.entry = n /\ t.wallet = tcWallet[r]
      /\ t.amount = Console!BaseUnits(e.amount)
      /\ t.method = IF tcAction[r] = "airdrop" THEN "transfer" ELSE tcAction[r]
      /\ t = [by |-> r, entry |-> n, wallet |-> tcWallet[r],
              method |-> IF tcAction[r] = "airdrop" THEN "transfer" ELSE tcAction[r],
              amount |-> Console!BaseUnits(e.amount)]
  BY <1>n DEF Console!Transaction
<1>3. t \in ConsoleTransaction
  <2>1. e.amount \in Amount /\ tcAction[r] \in Console!Action
        /\ tcWallet[r] \in ConsoleWallet \cup {NoWallet}
    BY <1>0, <1>1 DEF ConsoleTypes, Console!Entry
  <2>2. Console!BaseUnits(e.amount) \in {Console!BaseUnits(a) : a \in Amount}
    BY <2>1
  <2> QED
    BY <1>1, <1>2, <2>1, <2>2 DEF ConsoleTransaction
<1>4. Console!IsAmount(e.amount) /\ (t.method # "burn" => e.recipient # NoAddress)
  BY <1>n, <1>2 DEF Console!IsEntry
<1> HIDE DEF t
<1> DEFINE m == Len(tcQueue) + 1
<1>5. /\ tcQueue' \in Seq(ConsoleTransaction)
      /\ DOMAIN tcQueue' = DOMAIN tcQueue \cup {m}
      /\ tcQueue'[m] = t /\ m \in Nat /\ m \notin DOMAIN tcQueue
      /\ \A i \in DOMAIN tcQueue : tcQueue'[i] = tcQueue[i] /\ i < m
  <2>1. tcQueue \in Seq(ConsoleTransaction) /\ tcQueue' = Append(tcQueue, t)
    BY <1>0 DEF ConsoleTypes, t
  <2> QED
    BY ONLY <1>3, <2>1
<1> HIDE DEF m
<1>6. ConsoleTypes'
  <2>1. tcStage' \in [ConsoleRequest -> {"idle", "queuing", "accepted", "refused"}]
    BY <1>0 DEF ConsoleTypes
  <2>2. tcAt' \in [ConsoleRequest -> Nat \ {0}]
    <3>1. tcAt \in [ConsoleRequest -> Nat \ {0}] /\ tcAt[r] + 1 \in Nat \ {0}
      BY <1>0, <1>1 DEF ConsoleTypes
    <3> QED
      BY ONLY <3>1, \/ tcAt' = [tcAt EXCEPT ![r] = @ + 1] /\ UNCHANGED tcStage
                    \/ /\ UNCHANGED tcAt /\ tcStage' = [tcStage EXCEPT ![r] = "refused"]
                       /\ tcFaults' > 0
  <2> QED
    BY <1>0, <1>5, <2>1, <2>2 DEF ConsoleTypes
<1>7. tcStage'[r] # "idle" /\ \A q \in ConsoleRequest \ {r} :
        tcStage'[q] = tcStage[q] /\ tcAt'[q] = tcAt[q]
  BY <1>0 DEF ConsoleTypes
<1>8. ASSUME NEW i \in DOMAIN tcQueue' PROVE EntryOf(tcQueue[i])'
  <2>1. CASE i = m
    BY ONLY <1>1, <1>2, <1>4, <1>5, <1>7, <2>1,
            tcEntries' = tcEntries, tcWallet' = tcWallet DEF EntryOf
  <2>2. CASE i # m
    <3>1. i \in DOMAIN tcQueue /\ tcQueue'[i] = tcQueue[i]
      BY <1>5, <2>2
    <3>2. EntryOf(tcQueue[i]) /\ tcQueue[i].by \in ConsoleRequest
      BY <1>0, <3>1, QueueTypes DEF ConsoleIInv
    <3>3. tcStage'[tcQueue[i].by] # "idle"
      BY <1>7, <3>2 DEF EntryOf
    <3> QED
      BY ONLY <3>1, <3>2, <3>3, tcEntries' = tcEntries, tcWallet' = tcWallet DEF EntryOf
  <2> QED
    BY <2>1, <2>2
<1>9. ASSUME NEW q \in ConsoleRequest \ {r} PROVE ListOf(q)'
  <2>1. ListOf(q) /\ tcFaults \in Nat /\ tcFaults' \in Nat
    BY <1>0 DEF ConsoleIInv, ConsoleTypes
  <2>2. Console!Queued(q)' = Console!Queued(q)
    BY <1>2, <1>5 DEF Console!Queued
  <2>3. \A i \in Console!Queued(q) : tcQueue'[i] = tcQueue[i]
    BY <1>5 DEF Console!Queued
  <2>4. ASSUME NEW k, QueuedFirst(q, k) PROVE QueuedFirst(q, k)'
    <3>1. {tcQueue'[i].entry : i \in Console!Queued(q)} = {tcQueue[i].entry : i \in Console!Queued(q)}
      BY <2>3
    <3> QED
      BY ONLY <2>2, <2>3, <2>4, <3>1 DEF QueuedFirst
  <2>5. /\ tcStage'[q] = tcStage[q] /\ tcEntries'[q] = tcEntries[q]
        /\ tcWallet'[q] = tcWallet[q] /\ tcAt'[q] = tcAt[q]
    BY <1>7
  <2>6. tcFaults > 0 => tcFaults' > 0
    BY ONLY <2>1, tcFaults <= tcFaults'
  <2> QED
    BY ONLY <2>1, <2>4, <2>5, <2>6 DEF ListOf
<1>10. QueuedFirst(r, n)'
  <2>1. QueuedFirst(r, n - 1)
    BY <1>0, <1>n DEF ListOf
  <2>2. Console!Queued(r)' = Console!Queued(r) \cup {m}
    BY <1>2, <1>5 DEF Console!Queued
  <2>3. \A i \in Console!Queued(r) : tcQueue'[i] = tcQueue[i] /\ i < m /\ i \in Nat
    BY <1>0, <1>5, QueueTypes DEF Console!Queued
  <2>4. \A i \in Console!Queued(r) : tcQueue[i].entry \in 1 .. n - 1
    BY <2>1 DEF QueuedFirst
  <2>5. {tcQueue'[i].entry : i \in Console!Queued(r) \cup {m}}
          = {tcQueue[i].entry : i \in Console!Queued(r)} \cup {n}
    BY ONLY <1>2, <1>5, <2>3
  <2>6. {tcQueue[i].entry : i \in Console!Queued(r)} = 1 .. n - 1
    BY <2>1 DEF QueuedFirst
  <2>7. (1 .. n - 1) \cup {n} = 1 .. n
    BY <1>1
  <2>8. ASSUME NEW i \in Console!Queued(r) \cup {m}, NEW j \in Console!Queued(r) \cup {m}, i < j
        PROVE  tcQueue'[i].entry < tcQueue'[j].entry
    <3>1. i # m
      BY <1>5, <2>3, <2>8
    <3>2. CASE j = m
      <4>1. i \in Console!Queued(r) /\ tcQueue'[i] = tcQueue[i] /\ tcQueue[i].entry \in 1 .. n - 1
        BY <2>3, <2>4, <3>1
      <4>2. tcQueue'[j].entry = n
        BY <1>2, <1>5, <3>2
      <4> QED
        BY ONLY <1>1, <4>1, <4>2
    <3>3. CASE j # m
      <4>1. tcQueue[i].entry < tcQueue[j].entry
        BY <2>1, <2>8, <3>1, <3>3 DEF QueuedFirst
      <4> QED
        BY <2>3, <3>1, <3>3, <4>1
    <3> QED
      BY <3>2, <3>3
  <2>9. {tcQueue'[i].entry : i \in Console!Queued(r) \cup {m}} = 1 .. n
    BY ONLY <2>5, <2>6, <2>7
  <2>10. \A i, j \in Console!Queued(r) \cup {m} : i < j => tcQueue'[i].entry < tcQueue'[j].entry
    BY ONLY <2>8
  <2> QED
    BY ONLY <2>2, <2>9, <2>10 DEF QueuedFirst
<1>11. ListOf(r)'
  <2>1. Len(tcEntries[r]) <= MaxEntries /\ tcEntries' = tcEntries /\ tcWallet' = tcWallet
        /\ tcWallet[r] # NoWallet /\ n <= Len(tcEntries[r])
    BY <1>0, <1>n, <1>1 DEF ListOf
  <2>2. CASE tcAt' = [tcAt EXCEPT ![r] = @ + 1] /\ UNCHANGED tcStage
    <3>1. tcAt'[r] = n + 1 /\ (n + 1) - 1 = n /\ tcStage'[r] = "queuing" /\ n + 1 <= Len(tcEntries[r]) + 1
      BY <1>0, <1>n, <1>1, <2>1, <2>2 DEF ConsoleTypes
    <3>2. QueuedFirst(r, (n + 1) - 1)'
      BY <1>10, <3>1
    <3> QED
      BY ONLY <2>1, <3>1, <3>2 DEF ListOf
  <2>3. CASE UNCHANGED tcAt /\ tcStage' = [tcStage EXCEPT ![r] = "refused"] /\ tcFaults' > 0
    <3>1. tcAt'[r] = n /\ tcStage'[r] = "refused" /\ tcFaults' > 0 /\ n <= Len(tcEntries[r]) + 1
      BY <1>0, <1>n, <1>1, <2>1, <2>3 DEF ConsoleTypes
    <3> QED
      BY ONLY <1>10, <2>1, <3>1 DEF ListOf
  <2> QED
    BY <2>2, <2>3
<1> QED
  BY <1>6, <1>8, <1>9, <1>11 DEF ConsoleIInv

LEMMA AskStep ==
  ASSUME ConsoleIInv, NEW r \in ConsoleRequest, Console!Ask(r)
  PROVE  ConsoleIInv'
<1>0. ConsoleTypes /\ ListOf(r)
  BY DEF ConsoleIInv
<1>1. PICK a \in Console!Action, n \in 0 .. MaxEntries :
        \E list \in [1 .. n -> Console!Entry] :
          /\ tcAction' = [tcAction EXCEPT ![r] = a]
          /\ tcEntries' = [tcEntries EXCEPT ![r] = list]
          /\ tcStage' = [tcStage EXCEPT ![r] = IF Console!Served(a) THEN "queuing" ELSE "refused"]
  BY DEF Console!Ask
<1>2. PICK list \in [1 .. n -> Console!Entry] :
          /\ tcAction' = [tcAction EXCEPT ![r] = a]
          /\ tcEntries' = [tcEntries EXCEPT ![r] = list]
          /\ tcStage' = [tcStage EXCEPT ![r] = IF Console!Served(a) THEN "queuing" ELSE "refused"]
  BY <1>1
<1>3. /\ tcStage[r] = "idle"
      /\ tcWallet' = [tcWallet EXCEPT ![r] = tcDefault]
      /\ UNCHANGED <<tcAt, tcDefault, tcQueue, tcFaults>>
  BY DEF Console!Ask
<1>4. list \in Seq(Console!Entry) /\ Len(list) = n /\ n \in Nat /\ n <= MaxEntries
  <2>1. n \in Nat /\ n <= MaxEntries
    OBVIOUS
  <2>2. list \in Seq(Console!Entry)
    BY <2>1
  <2>3. Len(list) = n
    BY <2>1, <2>2
  <2> QED
    BY <2>1, <2>2, <2>3
<1>5. ConsoleTypes'
  BY <1>0, <1>2, <1>3, <1>4 DEF ConsoleTypes
<1>6. ListOf(r)'
  <2>1. tcAt[r] = 1 /\ QueuedFirst(r, tcAt[r] - 1) /\ tcEntries'[r] = list
        /\ tcWallet'[r] = tcDefault
    BY <1>0, <1>2, <1>3 DEF ListOf, ConsoleTypes
  <2>2. /\ tcStage'[r] \in {"queuing", "refused"}
        /\ tcStage'[r] = "queuing" => tcDefault # NoWallet
    BY <1>0, <1>2 DEF ConsoleTypes, Console!Served
  <2>3. QueuedFirst(r, tcAt[r] - 1)'
    BY ONLY <1>3, <2>1 DEF QueuedFirst, Console!Queued
  <2>4. 1 <= Len(list) + 1
    BY ONLY <1>4
  <2> QED
    BY ONLY <1>3, <1>4, <2>1, <2>2, <2>3, <2>4 DEF ListOf
<1>7. \A q \in ConsoleRequest \ {r} :
           /\ tcStage'[q] = tcStage[q] /\ tcEntries'[q] = tcEntries[q]
           /\ tcWallet'[q] = tcWallet[q] /\ tcAt'[q] = tcAt[q]
  BY <1>0, <1>2, <1>3 DEF ConsoleTypes
<1>8. tcFaults <= tcFaults' /\ tcQueue' = tcQueue
  BY <1>0, <1>3 DEF ConsoleTypes
<1> QED
  BY <1>3, <1>5, <1>6, <1>7, <1>8, ConsoleStep

\* A request ends.
LEMMA EndStep ==
  ASSUME ConsoleIInv, NEW r \in ConsoleRequest, Console!Invalid(r) \/ Console!Finish(r)
  PROVE  ConsoleIInv'
<1>0. ConsoleTypes /\ ListOf(r)
  BY DEF ConsoleIInv
<1>1. PICK st \in {"refused", "accepted"} : tcStage' = [tcStage EXCEPT ![r] = st]
          /\ (st = "accepted" => tcAt[r] > Len(tcEntries[r]) /\ tcAt[r] # 1)
  BY DEF Console!Invalid, Console!Finish, Console!Stop
<1>2. /\ tcStage[r] = "queuing"
      /\ UNCHANGED <<tcAction, tcEntries, tcWallet, tcAt, tcDefault, tcQueue, tcFaults>>
  BY DEF Console!Invalid, Console!Finish, Console!Stop
<1>3. ConsoleTypes'
  BY <1>0, <1>1, <1>2 DEF ConsoleTypes
<1>4. /\ tcStage'[r] = st
      /\ \A q \in ConsoleRequest \ {r} :
           /\ tcStage'[q] = tcStage[q] /\ tcEntries'[q] = tcEntries[q]
           /\ tcWallet'[q] = tcWallet[q] /\ tcAt'[q] = tcAt[q]
  BY <1>0, <1>1, <1>2 DEF ConsoleTypes
<1>5. tcAt[r] \in Nat \ {0} /\ Len(tcEntries[r]) \in Nat /\ tcFaults \in Nat
  <2>1. tcEntries[r] \in Seq(Console!Entry)
    BY <1>0 DEF ConsoleTypes
  <2>2. Len(tcEntries[r]) \in Nat
    BY <2>1
  <2> QED
    BY <1>0, <2>2 DEF ConsoleTypes
<1>6. ListOf(r)'
  <2>1. /\ Len(tcEntries[r]) <= MaxEntries /\ tcAt[r] <= Len(tcEntries[r]) + 1
        /\ QueuedFirst(r, tcAt[r] - 1)
    BY <1>0, <1>2 DEF ListOf
  <2>2. st = "accepted" => tcAt[r] = Len(tcEntries[r]) + 1 /\ tcAt[r] > 1
    BY ONLY <1>1, <1>5, <2>1
  <2>3. QueuedFirst(r, tcAt[r] - 1)'
    BY ONLY <1>2, <2>1 DEF QueuedFirst, Console!Queued
  <2> QED
    BY ONLY <1>2, <1>4, <2>1, <2>2, <2>3, st \in {"refused", "accepted"} DEF ListOf
<1>7. tcFaults <= tcFaults' /\ tcQueue' = tcQueue /\ st # "idle"
  BY <1>2, <1>5
<1> QED
  BY <1>2, <1>3, <1>4, <1>6, <1>7, ConsoleStep

LEMMA NextConsoleIInv == ConsoleIInv /\ [Console!Next]_tcVars => ConsoleIInv'
<1> SUFFICES ASSUME ConsoleIInv, [Console!Next]_tcVars PROVE ConsoleIInv'
  OBVIOUS
<1>0. ConsoleTypes /\ tcFaults \in 0 .. ConsoleFaults
  BY DEF ConsoleIInv, ConsoleTypes
<1>1. ASSUME NEW r \in ConsoleRequest, Console!Ask(r) PROVE ConsoleIInv'
  BY <1>1, AskStep
<1>2. ASSUME NEW r \in ConsoleRequest, Console!Enqueue(r) PROVE ConsoleIInv'
  <2>1. /\ tcStage[r] = "queuing" /\ tcAt[r] <= Len(tcEntries[r]) /\ Console!IsEntry(r)
        /\ tcQueue' = Append(tcQueue, Console!Transaction(r))
        /\ tcAt' = [tcAt EXCEPT ![r] = @ + 1] /\ UNCHANGED tcStage
        /\ UNCHANGED <<tcAction, tcEntries, tcWallet, tcDefault>>
        /\ tcFaults' = tcFaults
    BY <1>2 DEF Console!Enqueue
  <2>2. tcFaults' \in 0 .. ConsoleFaults /\ tcFaults <= tcFaults'
    BY <1>0, <2>1
  <2> QED
    BY <2>1, <2>2, ConsoleAppend
<1>3. ASSUME NEW r \in ConsoleRequest, Console!Invalid(r) \/ Console!Finish(r) PROVE ConsoleIInv'
  BY <1>3, EndStep
<1>4. ASSUME NEW r \in ConsoleRequest, Console!EnqueueFails(r) PROVE ConsoleIInv'
  <2>1. /\ tcStage[r] = "queuing" /\ tcAt[r] <= Len(tcEntries[r]) /\ Console!IsEntry(r)
        /\ UNCHANGED <<tcAction, tcEntries, tcWallet, tcDefault>>
        /\ UNCHANGED tcAt /\ tcStage' = [tcStage EXCEPT ![r] = "refused"]
        /\ tcFaults < ConsoleFaults /\ tcFaults' = tcFaults + 1
    BY <1>4 DEF Console!EnqueueFails, Console!Stop
  <2>2. tcFaults' \in 0 .. ConsoleFaults /\ tcFaults <= tcFaults' /\ tcFaults' > 0
    BY <1>0, <2>1
  <2>3. CASE tcQueue' = Append(tcQueue, Console!Transaction(r))
    BY <2>1, <2>2, <2>3, ConsoleAppend
  <2>4. CASE tcQueue' = tcQueue
    <3>1. ListOf(r)
      BY DEF ConsoleIInv
    <3>2. /\ tcStage'[r] = "refused"
          /\ \A q \in ConsoleRequest \ {r} :
               /\ tcStage'[q] = tcStage[q] /\ tcEntries'[q] = tcEntries[q]
               /\ tcWallet'[q] = tcWallet[q] /\ tcAt'[q] = tcAt[q]
      BY <1>0, <2>1 DEF ConsoleTypes
    <3>3. QueuedFirst(r, tcAt[r] - 1)
      BY <2>1, <3>1 DEF ListOf
    <3>4. QueuedFirst(r, tcAt[r] - 1)'
      BY ONLY <2>1, <2>4, <3>3 DEF QueuedFirst, Console!Queued
    <3>5. ListOf(r)'
      BY ONLY <2>1, <3>1, <3>2, <3>4 DEF ListOf
    <3>6. ConsoleTypes'
      BY <1>0, <2>1, <2>2, <2>4 DEF ConsoleTypes
    <3> QED
      BY <2>1, <2>2, <2>4, <3>2, <3>5, <3>6, ConsoleStep
  <2> QED
    BY <1>4, <2>3, <2>4 DEF Console!EnqueueFails
<1>5. CASE Console!ChangeDefault \/ UNCHANGED tcVars
  <2>1. /\ UNCHANGED <<tcStage, tcAction, tcEntries, tcWallet, tcAt, tcQueue, tcFaults>>
        /\ tcDefault' \in ConsoleWallet \cup {NoWallet}
    BY <1>0, <1>5 DEF Console!ChangeDefault, tcVars, ConsoleTypes
  <2>2. ConsoleTypes'
    BY <1>0, <2>1 DEF ConsoleTypes
  <2>3. ASSUME NEW r \in ConsoleRequest PROVE ListOf(r)'
    <3>1. ListOf(r)
      BY DEF ConsoleIInv
    <3>2. \A n : QueuedFirst(r, n) => QueuedFirst(r, n)'
      BY ONLY <2>1 DEF QueuedFirst, Console!Queued
    <3> QED
      BY ONLY <2>1, <3>1, <3>2 DEF ListOf
  <2>4. ASSUME NEW i \in DOMAIN tcQueue' PROVE EntryOf(tcQueue[i])'
    <3>1. EntryOf(tcQueue[i])
      BY <2>1 DEF ConsoleIInv
    <3> QED
      BY ONLY <2>1, <3>1 DEF EntryOf
  <2> QED
    BY <2>2, <2>3, <2>4 DEF ConsoleIInv
<1> QED
  BY <1>1, <1>2, <1>3, <1>4, <1>5 DEF Console!Next

LEMMA ConsoleInvariant == SpecPart => []ConsoleIInv
<1>1. InitPart => ConsoleIInv
  BY InitConsoleIInv DEF InitPart
<1>2. ConsoleIInv /\ [NextPart]_allVars => ConsoleIInv'
  <2> SUFFICES ASSUME [NextPart]_allVars PROVE [Console!Next]_tcVars
    BY NextConsoleIInv
  <2> QED
    BY DEF NextPart, allVars
<1> QED
  BY <1>1, <1>2, PTL DEF SpecPart

-----------------------------------------------------------------------------

\* As many transactions as entries.
LEMMA QueuedCount ==
  ASSUME ConsoleIInv, NEW r \in ConsoleRequest, NEW n \in Nat, QueuedFirst(r, n)
  PROVE  Console!Cardinality(Console!Queued(r)) = n
<1> DEFINE Q == Console!Queued(r)
           entry == [i \in Q |-> tcQueue[i].entry]
<1>1. \A i \in Q : i \in Nat
  BY QueueTypes DEF ConsoleIInv, Console!Queued
<1>2. entry \in [Q -> 1 .. n]
  BY DEF QueuedFirst
<1>3. \A i, j \in Q : i # j => entry[i] # entry[j]
  <2> SUFFICES ASSUME NEW i \in Q, NEW j \in Q, i # j PROVE entry[i] # entry[j]
    OBVIOUS
  <2>1. i \in Nat /\ j \in Nat /\ tcQueue[i].entry \in Nat /\ tcQueue[j].entry \in Nat
    BY <1>1, QueueTypes DEF ConsoleIInv, Console!Queued
  <2>2. i < j \/ j < i
    BY ONLY <2>1, i # j
  <2>3. tcQueue[i].entry < tcQueue[j].entry \/ tcQueue[j].entry < tcQueue[i].entry
    BY <2>2 DEF QueuedFirst
  <2> QED
    BY <2>1, <2>3
<1>4. \A k \in 1 .. n : \E i \in Q : entry[i] = k
  BY DEF QueuedFirst
<1> HIDE DEF Q, entry
<1>5. entry \in Injection(Q, 1 .. n) /\ entry \in Surjection(Q, 1 .. n)
  BY ONLY <1>2, <1>3, <1>4 DEF Injection, Surjection, IsInjective
<1>6. IsFiniteSet(1 .. n) /\ Cardinality(1 .. n) = n
  BY FS_Interval
<1>7. IsFiniteSet(Q) /\ Cardinality(Q) = n
  BY <1>5, <1>6, FS_Injection
<1> QED
  BY <1>7, ConsoleFinite DEF Q

LEMMA PrefixQueued == ConsoleIInv => Console!QueuedIsPrefix
<1> SUFFICES ASSUME ConsoleIInv, NEW r \in ConsoleRequest
             PROVE  LET n == Console!Cardinality(Console!Queued(r))
                    IN /\ {tcQueue[i].entry : i \in Console!Queued(r)} = 1 .. n
                       /\ \A i, j \in Console!Queued(r) :
                            i < j => tcQueue[i].entry < tcQueue[j].entry
                       /\ tcStage[r] = "accepted" => n = Len(tcEntries[r]) /\ n > 0
                       /\ tcStage[r] = "refused" => n \in {tcAt[r] - 1, tcAt[r]}
                       /\ n = tcAt[r] => tcFaults > 0
  BY DEF Console!QueuedIsPrefix
<1>1. ListOf(r) /\ tcAt[r] \in Nat \ {0} /\ Len(tcEntries[r]) \in Nat
  <2>1. tcEntries[r] \in Seq(Console!Entry)
    BY DEF ConsoleIInv, ConsoleTypes
  <2>2. Len(tcEntries[r]) \in Nat
    BY <2>1
  <2> QED
    BY <2>2 DEF ConsoleIInv, ConsoleTypes
<1>2. PICK n \in Nat :
        /\ QueuedFirst(r, n)
        /\ \/ n = tcAt[r] - 1
           \/ n = tcAt[r] /\ tcStage[r] = "refused" /\ tcFaults > 0
  BY <1>1 DEF ListOf
<1>3. Console!Cardinality(Console!Queued(r)) = n
  BY <1>2, QueuedCount
<1>4. /\ tcStage[r] = "accepted" => n = Len(tcEntries[r]) /\ n > 0
      /\ tcStage[r] = "refused" => n \in {tcAt[r] - 1, tcAt[r]}
      /\ n = tcAt[r] => tcFaults > 0
  BY <1>1, <1>2 DEF ListOf
<1> QED
  BY ONLY <1>2, <1>3, <1>4 DEF QueuedFirst

LEMMA SignerIsOne == ConsoleIInv => Console!OneSigner
BY DEF ConsoleIInv, EntryOf, Console!OneSigner

\* A decimal number in base units is the number without its dot, times what
\* its fraction lacks to the token's decimals.
LEMMA BaseUnitsExact ==
  ASSUME NEW a \in Amount, Console!IsAmount(a)
  PROVE  Console!BaseUnits(a) * Console!Power[Len(Console!Fraction(a))]
           = Console!Number(a[1] \o Console!Fraction(a)) * Console!Power[Decimals]
<1> DEFINE f == Console!Fraction(a)
           d == Len(f)
           zeros == [i \in 1 .. Decimals - d |-> 0]
           P == Console!Power
           N(s) == Console!Number(s)
<1>1. a[1] \in Seq(Nat) /\ f \in Seq(Nat) /\ d \in Nat /\ d <= Decimals
  <2>1. a \in Seq(Seq(0 .. Console!NotDigit)) /\ a # << >>
    OBVIOUS
  <2>2. 1 \in DOMAIN a /\ (Len(a) = 2 => 2 \in DOMAIN a)
    BY <2>1
  <2>3. ASSUME NEW i \in DOMAIN a PROVE a[i] \in Seq(Nat)
    <3>1. PICK s \in Seq(0 .. 10) : s = a[i]
      BY <2>1, <2>3 DEF Console!NotDigit
    <3>2. s \in [1 .. Len(s) -> 0 .. 10] /\ Len(s) \in Nat
      BY ONLY s \in Seq(0 .. 10)
    <3>3. s \in [1 .. Len(s) -> Nat]
      BY ONLY <3>2
    <3>4. s \in Seq(Nat)
      BY <3>2, <3>3
    <3> QED
      BY <3>1, <3>4
  <2>4. f \in Seq(Nat)
    BY <2>2, <2>3 DEF Console!Fraction
  <2> HIDE DEF f
  <2>5. d \in Nat
    BY <2>4
  <2>6. d <= Decimals
    BY DEF Console!IsAmount, f
  <2> QED
    BY <2>2, <2>3, <2>4, <2>5, <2>6
<1>2. Console!BaseUnits(a) = N(a[1]) * P[Decimals] + N(f \o zeros)
  BY DEF Console!BaseUnits
<1> HIDE DEF f, d
<1>3. zeros \in Seq(Nat) /\ Len(zeros) = Decimals - d /\ Decimals - d \in Nat
      /\ \A i \in 1 .. Len(zeros) : zeros[i] = 0
  <2>1. Decimals - d \in Nat
    BY <1>1
  <2>2. zeros \in Seq(Nat)
    BY <2>1
  <2>3. Len(zeros) = Decimals - d
    BY <2>1, <2>2
  <2> QED
    BY <2>1, <2>2, <2>3
<1> HIDE DEF zeros
<1>4. N(f \o zeros) = N(f) * P[Decimals - d] + 0
  BY <1>1, <1>3, NumberConcat, NumberZeros
<1>5. N(a[1] \o f) = N(a[1]) * P[d] + N(f) /\ N(a[1]) \in Nat /\ N(f) \in Nat
  BY <1>1, NumberConcat DEF d
<1>6. P[Decimals] = P[Decimals - d] * P[d]
  <2>1. (Decimals - d) + d = Decimals
    BY <1>1
  <2> QED
    BY <1>1, <1>3, <2>1, PowerSum
<1>7. P[d] \in Nat /\ P[Decimals] \in Nat /\ P[Decimals - d] \in Nat
  BY <1>1, <1>3, Powers
<1> HIDE DEF P, N
<1>8. PICK x \in Nat, y \in Nat, u \in Nat, v \in Nat, w \in Nat :
        x = N(a[1]) /\ y = N(f) /\ u = P[d] /\ v = P[Decimals - d] /\ w = P[Decimals]
  BY <1>5, <1>7
<1>9. (x * w + (y * v + 0)) * u = (x * u + y) * w
  <2>1. w = v * u
    BY <1>6, <1>8
  <2>2. (x * (v * u) + (y * v + 0)) * u = (x * u + y) * (v * u)
    BY ONLY x \in Nat, y \in Nat, u \in Nat, v \in Nat
  <2> QED
    BY ONLY <2>1, <2>2
<1>10. Console!BaseUnits(a) * P[d] = N(a[1] \o f) * P[Decimals]
  BY ONLY <1>2, <1>4, <1>5, <1>8, <1>9
<1> QED
  BY <1>10 DEF P, N, d, f

LEMMA AskedQueued == ConsoleIInv => Console!QueuedIsWhatWasAsked
<1> SUFFICES ASSUME ConsoleIInv, NEW i \in DOMAIN tcQueue
             PROVE  LET t == tcQueue[i]
                        e == tcEntries[t.by][t.entry]
                        digits == Len(Console!Fraction(e.amount))
                    IN /\ t.method # "burn" => e.recipient # NoAddress
                       /\ t.amount * Console!Power[digits]
                            = Console!Number(e.amount[1] \o Console!Fraction(e.amount))
                                * Console!Power[Decimals]
  BY Zenon DEF Console!QueuedIsWhatWasAsked
<1> DEFINE t == tcQueue[i]
           e == tcEntries[t.by][t.entry]
<1>1. EntryOf(t) /\ t.by \in ConsoleRequest
  BY QueueTypes DEF ConsoleIInv
<1>2. e \in Console!Entry
  <2>1. tcEntries[t.by] \in Seq(Console!Entry)
    BY <1>1 DEF ConsoleIInv, ConsoleTypes
  <2> QED
    BY <1>1, <2>1 DEF EntryOf
<1>3. e.amount \in Amount /\ Console!IsAmount(e.amount) /\ t.amount = Console!BaseUnits(e.amount)
      /\ (t.method # "burn" => e.recipient # NoAddress)
  BY <1>1, <1>2 DEF Console!Entry, EntryOf
<1> HIDE DEF e
<1>4. Console!BaseUnits(e.amount) * Console!Power[Len(Console!Fraction(e.amount))]
        = Console!Number(e.amount[1] \o Console!Fraction(e.amount)) * Console!Power[Decimals]
  BY <1>3, BaseUnitsExact
<1> QED
  BY <1>3, <1>4 DEF e

\* What a console request has queued is its list from the start, each entry
\* for exactly the amount that was entered and all of one signer, however the
\* requests interleave and whichever call of the store fails
\* (enqueueERC20ConsoleWrite, decimalStringToBaseUnits).
THEOREM ListsKept == SpecPart => []ListsAsAsked
<1>1. ConsoleIInv => ListsAsAsked
  BY PrefixQueued, AskedQueued, SignerIsOne DEF ListsAsAsked
<1> QED
  BY <1>1, ConsoleInvariant, PTL

LEMMA ConsoleTypeOK == ConsoleIInv => Console!TypeOK
<1> SUFFICES ASSUME ConsoleIInv PROVE Console!TypeOK
  OBVIOUS
<1> DEFINE Taken == DOMAIN tcQueue
           Room == ConsoleRequest \X (1 .. MaxEntries)
           f == [i \in Taken |-> <<tcQueue[i].by, tcQueue[i].entry>>]
<1>0. ConsoleTypes /\ \A r \in ConsoleRequest : ListOf(r)
  BY DEF ConsoleIInv
<1>1. \A r \in ConsoleRequest : tcEntries[r] \in Seq(Console!Entry) /\ Len(tcEntries[r]) \in Nat
                                /\ Len(tcEntries[r]) <= MaxEntries /\ tcAt[r] \in Nat \ {0}
                                /\ tcAt[r] <= Len(tcEntries[r]) + 1
  <2> SUFFICES ASSUME NEW r \in ConsoleRequest
               PROVE  tcEntries[r] \in Seq(Console!Entry) /\ Len(tcEntries[r]) \in Nat
                      /\ Len(tcEntries[r]) <= MaxEntries /\ tcAt[r] \in Nat \ {0}
                      /\ tcAt[r] <= Len(tcEntries[r]) + 1
    OBVIOUS
  <2>1. tcEntries[r] \in Seq(Console!Entry)
    BY <1>0 DEF ConsoleTypes
  <2>2. Len(tcEntries[r]) \in Nat
    BY <2>1
  <2> QED
    BY <1>0, <2>1, <2>2 DEF ConsoleTypes, ListOf
<1>2. ASSUME NEW i \in Taken PROVE f[i] \in Room
  <2>1. tcQueue[i].by \in ConsoleRequest /\ EntryOf(tcQueue[i])
    BY <1>0, QueueTypes DEF ConsoleIInv
  <2>2. tcQueue[i].entry \in 1 .. MaxEntries
    BY <1>1, <2>1 DEF EntryOf
  <2> QED
    BY <2>1, <2>2
<1>3. ASSUME NEW i \in Taken, NEW j \in Taken, i # j PROVE f[i] # f[j]
  <2> SUFFICES ASSUME tcQueue[i].by = tcQueue[j].by, tcQueue[i].entry = tcQueue[j].entry
               PROVE  FALSE
    OBVIOUS
  <2>1. PICK r \in ConsoleRequest : r = tcQueue[i].by
    BY <1>0, QueueTypes
  <2>2. i \in Console!Queued(r) /\ j \in Console!Queued(r)
    BY <2>1 DEF Console!Queued
  <2>3. \A k, l \in Console!Queued(r) : k < l => tcQueue[k].entry < tcQueue[l].entry
    BY <1>0 DEF ListOf, QueuedFirst
  <2>4. i \in Nat /\ j \in Nat /\ tcQueue[i].entry \in Nat /\ tcQueue[j].entry \in Nat
    BY <1>0, QueueTypes
  <2>5. i < j \/ j < i
    BY ONLY <1>3, <2>4
  <2>6. tcQueue[i].entry < tcQueue[j].entry \/ tcQueue[j].entry < tcQueue[i].entry
    BY <2>2, <2>3, <2>5
  <2> QED
    BY ONLY <2>4, <2>6, tcQueue[i].entry = tcQueue[j].entry
<1>4. IsFiniteSet(ConsoleRequest) /\ Cardinality(ConsoleRequest) \in Nat
  BY ConsoleFinite, FS_CardinalityType
<1>5. IsFiniteSet(Room) /\ Cardinality(Room) = Cardinality(ConsoleRequest) * MaxEntries
  <2>1. IsFiniteSet(1 .. MaxEntries) /\ Cardinality(1 .. MaxEntries) = MaxEntries
    BY FS_Interval
  <2> QED
    BY <1>4, <2>1, FS_Product
<1>6. Len(tcQueue) \in Nat /\ Taken = 1 .. Len(tcQueue)
  <2>1. tcQueue \in Seq(ConsoleTransaction)
    BY <1>0 DEF ConsoleTypes
  <2> QED
    BY <2>1
<1>7. IsFiniteSet(Taken) /\ Cardinality(Taken) = Len(tcQueue)
  <2>1. PICK n \in Nat : n = Len(tcQueue)
    BY <1>6
  <2>2. IsFiniteSet(1 .. n) /\ Cardinality(1 .. n) = n
    BY ONLY FS_Interval, n \in Nat
  <2> QED
    BY ONLY <1>6, <2>1, <2>2
<1> HIDE DEF Taken, Room
<1>8. f \in Injection(Taken, Room)
  BY <1>2, <1>3 DEF Injection, IsInjective
<1>9. Cardinality(Taken) <= Cardinality(Room)
  BY <1>5, <1>8, FS_Injection
<1>10. Len(tcQueue) <= MaxEntries * Console!Cardinality(ConsoleRequest)
  <2>1. Cardinality(ConsoleRequest) * MaxEntries = MaxEntries * Cardinality(ConsoleRequest)
    BY <1>4
  <2> QED
    BY <1>5, <1>7, <1>9, <2>1, ConsoleFinite
<1> QED
  BY <1>0, <1>1, <1>10 DEF Console!TypeOK, ConsoleTypes, ListOf

HIDE DEF Console!NobodyAssumption, Console!AmountAssumption,
    Console!FiniteAssumption, Console!BoundAssumption, Console!Action

-----------------------------------------------------------------------------

\* Every variable keeps its type (rateLimiter.allow and the handlers of the
\* transfers, the console and the submissions).
THEOREM TypesCorrect == SpecPart => []TypesOK
<1>1. SentIInv => Sent!TypeOK
  BY DEF SentIInv
<1>2. SpecPart => []TypeOK
  BY LimiterInPart, TypeCorrect, PTL
<1>3. TypeOK /\ SentIInv /\ ConsoleIInv /\ ProofIInv => TypesOK
  BY <1>1, ConsoleTypeOK, ProofTypeOK DEF TypesOK
<1> QED
  BY <1>2, <1>3, SentInvariant, ConsoleInvariant, ProofInvariant, PTL
=============================================================================
