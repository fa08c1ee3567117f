--------------------------- MODULE ContractsProofs ---------------------------
(***************************************************************************)
(* Machine-checked proofs about the vault of shielded trading, for a tree  *)
(* of any height and a ring of any size, and about the bundler and its     *)
(* paymaster, for any operations, requests, restarts and replacements.     *)
(*                                                                         *)
(* The vault keeps of its Merkle tree one node of each row and the last    *)
(* roots.  That a walk over them yields the root of all leaves is the      *)
(* invariant FilledInv: where the next leaf's ancestor is a right child,   *)
(* its left neighbour is kept.  It is proved row by row (UpTheTree), from  *)
(* what the recursive functions of the tree are (ZerosDef ... RowsDef),    *)
(* from what lies right of the last leaf (RightIsEmpty) and from what a    *)
(* new leaf leaves alone (BesideIsKept).  RingInv says which root lies     *)
(* where in the ring; that exactly the last are known needs that trees of  *)
(* different numbers of leaves have different roots (RootsDiffer).         *)
(* Books relates the tokens, the batches' counts and the spent notes.      *)
(*                                                                         *)
(* The bundler's invariant (BundlerIInv) says that the operations of a     *)
(* sender that ran have the nonces from 0 on, and what an operation that   *)
(* passed once keeps (Vetted): its nonce is next or taken, its sponsorship *)
(* was signed, and it is still sponsored unless the owner did something.   *)
(***************************************************************************)
EXTENDS Contracts, FiniteSetTheorems, SequenceTheorems, WellFoundedInduction, TLAPS

\* The order of the natural numbers, and induction along it.
Less == {p \in Nat \X Nat : p[1] < p[2]}

\* The naturals have no endless descent.
LEMMA LessWellFounded == IsWellFoundedOn(Less, Nat)
<1>1. OpToRel(<, Nat) = Less
  BY DEF OpToRel, Less
<1> QED
  BY <1>1, NatLessThanWellFounded

\* What holds of 0 and of each successor holds of every natural.
LEMMA Induction ==
  ASSUME NEW S \in SUBSET Nat, 0 \in S, \A n \in S : n + 1 \in S
  PROVE  S = Nat
<1> SUFFICES ASSUME S # Nat PROVE FALSE
  OBVIOUS
<1> DEFINE Rest == Nat \ S
<1>1. Rest # {} /\ Rest \subseteq Nat
  OBVIOUS
<1> HIDE DEF Rest
<1>2. PICK m \in Rest : \A y \in Rest : ~(<<y, m>> \in Less)
  BY LessWellFounded, <1>1, WFMin
<1>3. m \in Nat /\ m # 0
  BY <1>1 DEF Rest
<1>4. m - 1 \in Rest
  BY <1>3 DEF Rest
<1>5. <<m - 1, m>> \in Less
  BY <1>3 DEF Less
<1> QED
  BY <1>2, <1>4, <1>5

\* What holds at height 0 and one height up holds at every height.
LEMMA UpTheTree ==
  ASSUME NEW H \in SUBSET (0 .. TreeLevels), 0 \in H,
         \A l \in 1 .. TreeLevels : l - 1 \in H => l \in H
  PROVE  H = 0 .. TreeLevels
<1> DEFINE N == {n \in Nat : n <= TreeLevels => n \in H}
<1>1. TreeLevels \in Nat
  BY VaultAssumption DEF SizeAssumption
<1>2. 0 \in N
  OBVIOUS
<1>3. ASSUME NEW n \in N PROVE n + 1 \in N
  <2> SUFFICES ASSUME n + 1 <= TreeLevels PROVE n + 1 \in H
    OBVIOUS
  <2>1. n \in Nat /\ n \in H /\ n + 1 \in 1 .. TreeLevels /\ (n + 1) - 1 = n
    BY <1>1
  <2> QED
    BY <2>1
<1>4. N = Nat
  <2>1. N \in SUBSET Nat
    OBVIOUS
  <2> HIDE DEF N
  <2> QED
    BY ONLY <1>2, <1>3, <2>1, Induction
<1>5. ASSUME NEW l \in 0 .. TreeLevels PROVE l \in H
  <2>1. l \in N /\ l <= TreeLevels
    BY <1>1, <1>4
  <2> QED
    BY <2>1
<1> QED
  BY <1>5

-----------------------------------------------------------------------------
(* The recursive functions of the tree.                                    *)

\* The bounds of the vault.
LEMMA VaultValues ==
  /\ TreeLevels \in Nat /\ TreeLevels >= 1
  /\ RootHistorySize \in Nat /\ RootHistorySize >= 1
  /\ MaxNow \in Nat /\ IsFiniteSet(Order) /\ Zero \notin Note /\ NoBatch \notin Batch
BY VaultAssumption DEF NamesAssumption, SizeAssumption, TimeAssumption, FiniteAssumption

\* The roots of empty subtrees.
LEMMA ZerosDef ==
  /\ zeros[0] = Zero
  /\ \A l \in 1 .. TreeLevels : zeros[l] = Hash(zeros[l - 1], zeros[l - 1])
<1> DEFINE One(z, n) == Hash(z, z)
           Is(f, k) == f = [n \in 0 .. k |-> IF n = 0 THEN Zero ELSE One(f[n - 1], n)]
           N == {k \in Nat : \E f : Is(f, k)}
<1> HIDE DEF One
<1>1. 0 \in N
  <2> DEFINE f == [n \in 0 .. 0 |-> Zero]
  <2>1. Is(f, 0)
    OBVIOUS
  <2> QED
    BY <2>1
<1>2. ASSUME NEW k \in N PROVE k + 1 \in N
  <2>1. k \in Nat /\ k + 1 \in Nat
    OBVIOUS
  <2>2. PICK f : Is(f, k)
    OBVIOUS
  <2> DEFINE g == [n \in 0 .. k + 1 |-> IF n = 0 THEN Zero ELSE One(f[n - 1], n)]
  <2>3. \A n \in 0 .. k : f[n] = IF n = 0 THEN Zero ELSE One(f[n - 1], n)
    BY <2>2
  <2>4. \A n \in 0 .. k : g[n] = f[n]
    BY <2>1, <2>3
  <2>5. \A n \in 0 .. k + 1 : n # 0 => n - 1 \in 0 .. k
    BY <2>1
  <2>6. Is(g, k + 1)
    BY <2>4, <2>5
  <2> QED
    BY <2>1, <2>6
<1>3. N = Nat
  <2>1. N \in SUBSET Nat
    OBVIOUS
  <2> HIDE DEF N
  <2> QED
    BY ONLY <1>1, <1>2, <2>1, Induction
<1>4. Is(zeros, TreeLevels)
  <2>1. zeros = CHOOSE f : Is(f, TreeLevels)
    BY DEF zeros, One
  <2>2. \E f : Is(f, TreeLevels)
    BY <1>3, VaultValues
  <2> HIDE DEF Is
  <2> QED
    BY <2>1, <2>2
<1> QED
  BY <1>4, VaultValues DEF One

\* The widths of subtrees.
LEMMA WidthDef ==
  /\ Width[0] = 1
  /\ \A l \in 1 .. TreeLevels : Width[l] = 2 * Width[l - 1]
<1> DEFINE One(w, n) == 2 * w
           Is(f, k) == f = [n \in 0 .. k |-> IF n = 0 THEN 1 ELSE One(f[n - 1], n)]
           N == {k \in Nat : \E f : Is(f, k)}
<1> HIDE DEF One
<1>1. 0 \in N
  <2> DEFINE f == [n \in 0 .. 0 |-> 1]
  <2>1. Is(f, 0)
    OBVIOUS
  <2> QED
    BY <2>1
<1>2. ASSUME NEW k \in N PROVE k + 1 \in N
  <2>1. k \in Nat /\ k + 1 \in Nat
    OBVIOUS
  <2>2. PICK f : Is(f, k)
    OBVIOUS
  <2> DEFINE g == [n \in 0 .. k + 1 |-> IF n = 0 THEN 1 ELSE One(f[n - 1], n)]
  <2>3. \A n \in 0 .. k : f[n] = IF n = 0 THEN 1 ELSE One(f[n - 1], n)
    BY <2>2
  <2>4. \A n \in 0 .. k : g[n] = f[n]
    BY <2>1, <2>3
  <2>5. \A n \in 0 .. k + 1 : n # 0 => n - 1 \in 0 .. k
    BY <2>1
  <2>6. Is(g, k + 1)
    BY <2>4, <2>5
  <2> QED
    BY <2>1, <2>6
<1>3. N = Nat
  <2>1. N \in SUBSET Nat
    OBVIOUS
  <2> HIDE DEF N
  <2> QED
    BY ONLY <1>1, <1>2, <2>1, Induction
<1>4. Is(Width, TreeLevels)
  <2>1. Width = CHOOSE f : Is(f, TreeLevels)
    BY DEF Width, One
  <2>2. \E f : Is(f, TreeLevels)
    BY <1>3, VaultValues
  <2> HIDE DEF Is
  <2> QED
    BY <2>1, <2>2
<1> QED
  BY <1>4, VaultValues DEF One

\* The ancestors of a leaf.
LEMMA AncestorsDef ==
  ASSUME NEW index
  PROVE  /\ Ancestors(index)[0] = index
         /\ \A l \in 1 .. TreeLevels : Ancestors(index)[l] = Ancestors(index)[l - 1] \div 2
<1> DEFINE One(a, n) == a \div 2
           Is(f, k) == f = [n \in 0 .. k |-> IF n = 0 THEN index ELSE One(f[n - 1], n)]
           N == {k \in Nat : \E f : Is(f, k)}
<1> HIDE DEF One
<1>1. 0 \in N
  <2> DEFINE f == [n \in 0 .. 0 |-> index]
  <2>1. Is(f, 0)
    OBVIOUS
  <2> QED
    BY <2>1
<1>2. ASSUME NEW k \in N PROVE k + 1 \in N
  <2>1. k \in Nat /\ k + 1 \in Nat
    OBVIOUS
  <2>2. PICK f : Is(f, k)
    OBVIOUS
  <2> DEFINE g == [n \in 0 .. k + 1 |-> IF n = 0 THEN index ELSE One(f[n - 1], n)]
  <2>3. \A n \in 0 .. k : f[n] = IF n = 0 THEN index ELSE One(f[n - 1], n)
    BY <2>2
  <2>4. \A n \in 0 .. k : g[n] = f[n]
    BY <2>1, <2>3
  <2>5. \A n \in 0 .. k + 1 : n # 0 => n - 1 \in 0 .. k
    BY <2>1
  <2>6. Is(g, k + 1)
    BY <2>4, <2>5
  <2> QED
    BY <2>1, <2>6
<1>3. N = Nat
  <2>1. N \in SUBSET Nat
    OBVIOUS
  <2> HIDE DEF N
  <2> QED
    BY ONLY <1>1, <1>2, <2>1, Induction
<1> DEFINE at == Ancestors(index)
<1>4. Is(at, TreeLevels)
  <2>1. at = CHOOSE f : Is(f, TreeLevels)
    BY DEF Ancestors, One
  <2>2. \E f : Is(f, TreeLevels)
    BY <1>3, VaultValues
  <2> HIDE DEF Is, at
  <2> QED
    BY <2>1, <2>2
<1> HIDE DEF at
<1>5. /\ at[0] = index
      /\ \A l \in 1 .. TreeLevels : at[l] = One(at[l - 1], l)
  BY <1>4, VaultValues
<1> QED
  BY <1>5 DEF at, One

\* The walk from a leaf to the root.
LEMMA WalkDef ==
  ASSUME NEW leaf, NEW index
  PROVE  /\ Walk(leaf, index)[0] = leaf
         /\ \A l \in 1 .. TreeLevels :
              Walk(leaf, index)[l] =
                IF IsLeft(index, l - 1)
                THEN Hash(Walk(leaf, index)[l - 1], zeros[l - 1])
                ELSE Hash(filledSubtrees[l - 1], Walk(leaf, index)[l - 1])
<1> DEFINE One(c, n) == IF IsLeft(index, n - 1) THEN Hash(c, zeros[n - 1])
                        ELSE Hash(filledSubtrees[n - 1], c)
           Is(f, k) == f = [n \in 0 .. k |-> IF n = 0 THEN leaf ELSE One(f[n - 1], n)]
           N == {k \in Nat : \E f : Is(f, k)}
<1> HIDE DEF One
<1>1. 0 \in N
  <2> DEFINE f == [n \in 0 .. 0 |-> leaf]
  <2>1. Is(f, 0)
    OBVIOUS
  <2> QED
    BY <2>1
<1>2. ASSUME NEW k \in N PROVE k + 1 \in N
  <2>1. k \in Nat /\ k + 1 \in Nat
    OBVIOUS
  <2>2. PICK f : Is(f, k)
    OBVIOUS
  <2> DEFINE g == [n \in 0 .. k + 1 |-> IF n = 0 THEN leaf ELSE One(f[n - 1], n)]
  <2>3. \A n \in 0 .. k : f[n] = IF n = 0 THEN leaf ELSE One(f[n - 1], n)
    BY <2>2
  <2>4. \A n \in 0 .. k : g[n] = f[n]
    BY <2>1, <2>3
  <2>5. \A n \in 0 .. k + 1 : n # 0 => n - 1 \in 0 .. k
    BY <2>1
  <2>6. Is(g, k + 1)
    BY <2>4, <2>5
  <2> QED
    BY <2>1, <2>6
<1>3. N = Nat
  <2>1. N \in SUBSET Nat
    OBVIOUS
  <2> HIDE DEF N
  <2> QED
    BY ONLY <1>1, <1>2, <2>1, Induction
<1> DEFINE walk == Walk(leaf, index)
<1>4. Is(walk, TreeLevels)
  <2>1. walk = CHOOSE f : Is(f, TreeLevels)
    BY DEF Walk, One
  <2>2. \E f : Is(f, TreeLevels)
    BY <1>3, VaultValues
  <2> HIDE DEF Is, walk
  <2> QED
    BY <2>1, <2>2
<1> HIDE DEF walk
<1>5. /\ walk[0] = leaf
      /\ \A l \in 1 .. TreeLevels : walk[l] = One(walk[l - 1], l)
  BY <1>4, VaultValues
<1> QED
  BY <1>5 DEF walk, One

\* The rows of the tree of a sequence of leaves.
LEMMA RowsDef ==
  ASSUME NEW s
  PROVE  /\ \A i \in Places(0) : Rows(s)[0][i] = IF i < Len(s) THEN s[i + 1] ELSE Zero
         /\ \A l \in 1 .. TreeLevels : \A i \in Places(l) :
              Rows(s)[l][i] = Hash(Rows(s)[l - 1][2 * i], Rows(s)[l - 1][2 * i + 1])
<1> DEFINE Start == [i \in Places(0) |-> IF i < Len(s) THEN s[i + 1] ELSE Zero]
           One(r, n) == [i \in Places(n) |-> Hash(r[2 * i], r[2 * i + 1])]
           Is(f, k) == f = [n \in 0 .. k |-> IF n = 0 THEN Start ELSE One(f[n - 1], n)]
           N == {k \in Nat : \E f : Is(f, k)}
<1> HIDE DEF Start, One
<1>1. 0 \in N
  <2> DEFINE f == [n \in 0 .. 0 |-> Start]
  <2>1. Is(f, 0)
    OBVIOUS
  <2> QED
    BY <2>1
<1>2. ASSUME NEW k \in N PROVE k + 1 \in N
  <2>1. k \in Nat /\ k + 1 \in Nat
    OBVIOUS
  <2>2. PICK f : Is(f, k)
    OBVIOUS
  <2> DEFINE g == [n \in 0 .. k + 1 |-> IF n = 0 THEN Start ELSE One(f[n - 1], n)]
  <2>3. \A n \in 0 .. k : f[n] = IF n = 0 THEN Start ELSE One(f[n - 1], n)
    BY <2>2
  <2>4. \A n \in 0 .. k : g[n] = f[n]
    BY <2>1, <2>3
  <2>5. \A n \in 0 .. k + 1 : n # 0 => n - 1 \in 0 .. k
    BY <2>1
  <2>6. Is(g, k + 1)
    BY <2>4, <2>5
  <2> QED
    BY <2>1, <2>6
<1>3. N = Nat
  <2>1. N \in SUBSET Nat
    OBVIOUS
  <2> HIDE DEF N
  <2> QED
    BY ONLY <1>1, <1>2, <2>1, Induction
<1> DEFINE rows == Rows(s)
<1>4. Is(rows, TreeLevels)
  <2>1. rows = CHOOSE f : Is(f, TreeLevels)
    BY DEF Rows, Start, One
  <2>2. \E f : Is(f, TreeLevels)
    BY <1>3, VaultValues
  <2> HIDE DEF Is, rows
  <2> QED
    BY <2>1, <2>2
<1> HIDE DEF rows
<1>5. /\ rows[0] = Start
      /\ \A l \in 1 .. TreeLevels : rows[l] = One(rows[l - 1], l)
  BY <1>4, VaultValues
<1>6. \A i \in Places(0) : rows[0][i] = IF i < Len(s) THEN s[i + 1] ELSE Zero
  BY <1>5 DEF Start
<1>7. \A l \in 1 .. TreeLevels : \A i \in Places(l) :
        rows[l][i] = Hash(rows[l - 1][2 * i], rows[l - 1][2 * i + 1])
  BY <1>5 DEF One
<1> QED
  BY <1>6, <1>7 DEF rows

-----------------------------------------------------------------------------
(* The shape of the tree.                                                  *)

\* A number is twice its half, and one more when it is odd.
LEMMA Halves ==
  ASSUME NEW n \in Nat
  PROVE  n \div 2 \in Nat /\ n % 2 \in {0, 1} /\ n = 2 * (n \div 2) + (n % 2)
<1>1. n \div 2 \in Nat
  OBVIOUS
<1>2. n % 2 \in 0 .. 1
  OBVIOUS
<1>3. n % 2 = 0 => n = 2 * (n \div 2)
  OBVIOUS
<1>4. n % 2 = 1 => n = 2 * (n \div 2) + 1
  OBVIOUS
<1> QED
  BY <1>1, <1>2, <1>3, <1>4

\* Rows are as wide as trees of the height above them have leaves.
LEMMA WidthPositive == \A l \in 0 .. TreeLevels : Width[l] \in Nat /\ Width[l] >= 1
<1> DEFINE H == {l \in 0 .. TreeLevels : Width[l] \in Nat /\ Width[l] >= 1}
<1>1. 0 \in H
  BY WidthDef, VaultValues
<1>2. ASSUME NEW l \in 1 .. TreeLevels, l - 1 \in H PROVE l \in H
  <2>1. Width[l] = 2 * Width[l - 1] /\ Width[l - 1] \in Nat /\ Width[l - 1] >= 1
    BY <1>2, WidthDef
  <2>2. l \in 0 .. TreeLevels
    BY VaultValues
  <2> QED
    BY <2>1, <2>2
<1>3. H \in SUBSET (0 .. TreeLevels)
  OBVIOUS
<1> HIDE DEF H
<1>4. H = 0 .. TreeLevels
  BY ONLY <1>1, <1>2, <1>3, UpTheTree
<1> QED
  BY <1>4 DEF H

\* A row has half the places of the one below; the root has one.
LEMMA PlacesOfRows ==
  /\ Places(TreeLevels) = {0}
  /\ Places(0) = 0 .. Width[TreeLevels] - 1
  /\ \A l \in 0 .. TreeLevels : Places(l) \subseteq Nat
  /\ \A l \in 1 .. TreeLevels :
       /\ \A i \in Places(l) : 2 * i \in Places(l - 1) /\ 2 * i + 1 \in Places(l - 1)
       /\ \A i \in Places(l - 1) : i \div 2 \in Places(l)
<1>1. Places(TreeLevels) = {0}
  <2>1. TreeLevels - TreeLevels = 0
    BY VaultValues
  <2>2. Places(TreeLevels) = 0 .. 0
    BY <2>1, WidthDef DEF Places
  <2> QED
    BY <2>2
<1>2. Places(0) = 0 .. Width[TreeLevels] - 1
  BY VaultValues DEF Places
<1>3. ASSUME NEW l \in 0 .. TreeLevels PROVE Places(l) \subseteq Nat
  BY DEF Places
<1>4. ASSUME NEW l \in 1 .. TreeLevels
      PROVE  /\ \A i \in Places(l) : 2 * i \in Places(l - 1) /\ 2 * i + 1 \in Places(l - 1)
             /\ \A i \in Places(l - 1) : i \div 2 \in Places(l)
  <2> DEFINE h == TreeLevels - l
             w == Width[h]
  <2>1. h + 1 \in 1 .. TreeLevels /\ h \in 0 .. TreeLevels /\ TreeLevels - (l - 1) = h + 1
        /\ (h + 1) - 1 = h
    BY VaultValues
  <2>2. Width[h + 1] = 2 * w /\ w \in Nat
    BY <2>1, WidthDef, WidthPositive
  <2>3. Places(l) = 0 .. w - 1 /\ Places(l - 1) = 0 .. 2 * w - 1
    BY <2>1, <2>2 DEF Places
  <2> HIDE DEF w, h
  <2>4. \A i \in 0 .. w - 1 : 2 * i \in 0 .. 2 * w - 1 /\ 2 * i + 1 \in 0 .. 2 * w - 1
    BY <2>2
  <2>5. \A i \in 0 .. 2 * w - 1 : i \div 2 \in 0 .. w - 1
    BY <2>2, Halves
  <2> QED
    BY <2>3, <2>4, <2>5
<1> QED
  BY <1>1, <1>2, <1>3, <1>4

\* Ancestors are numbers, those of the first leaf are the first of their rows,
\* and those of the next leaf are the same or the next.
LEMMA AncestorsNext ==
  ASSUME NEW n \in Nat
  PROVE  \A l \in 0 .. TreeLevels :
           /\ Ancestors(n)[l] \in Nat
           /\ Ancestors(0)[l] = 0
           /\ Ancestors(n + 1)[l] \in {Ancestors(n)[l], Ancestors(n)[l] + 1}
<1> DEFINE a == Ancestors(n)
           b == Ancestors(n + 1)
           z == Ancestors(0)
           H == {l \in 0 .. TreeLevels : a[l] \in Nat /\ z[l] = 0 /\ b[l] \in {a[l], a[l] + 1}}
<1>1. /\ a[0] = n /\ z[0] = 0 /\ b[0] = n + 1
      /\ \A l \in 1 .. TreeLevels : /\ a[l] = a[l - 1] \div 2
                                    /\ z[l] = z[l - 1] \div 2
                                    /\ b[l] = b[l - 1] \div 2
  BY AncestorsDef
<1> HIDE DEF a, b, z
<1>2. 0 \in H
  BY <1>1, VaultValues
<1>3. ASSUME NEW l \in 1 .. TreeLevels, l - 1 \in H PROVE l \in H
  <2> DEFINE x == a[l - 1]
             y == b[l - 1]
  <2>1. x \in Nat /\ y \in {x, x + 1} /\ z[l - 1] = 0
    BY <1>3
  <2>2. a[l] = x \div 2 /\ b[l] = y \div 2 /\ z[l] = z[l - 1] \div 2
    BY <1>1
  <2>3. l \in 0 .. TreeLevels
    BY VaultValues
  <2> HIDE DEF x, y
  <2>4. x \div 2 \in Nat /\ y \div 2 \in {x \div 2, x \div 2 + 1}
    BY <2>1
  <2>5. z[l] = 0
    BY <2>1, <2>2
  <2> QED
    BY <2>2, <2>3, <2>4, <2>5
<1>4. H \in SUBSET (0 .. TreeLevels)
  OBVIOUS
<1> HIDE DEF H
<1>5. H = 0 .. TreeLevels
  BY ONLY <1>2, <1>3, <1>4, UpTheTree
<1> QED
  BY <1>5 DEF H, a, b, z

\* The ancestors of a leaf that there is room for have places.
LEMMA AncestorsHavePlaces ==
  ASSUME NEW n \in Nat, n < Width[TreeLevels]
  PROVE  \A l \in 0 .. TreeLevels : Ancestors(n)[l] \in Places(l)
<1> DEFINE a == Ancestors(n)
           H == {l \in 0 .. TreeLevels : a[l] \in Places(l)}
<1>1. a[0] = n /\ \A l \in 1 .. TreeLevels : a[l] = a[l - 1] \div 2
  BY AncestorsDef
<1> HIDE DEF a
<1>2. 0 \in H
  <2>1. Width[TreeLevels] \in Nat
    BY WidthPositive, VaultValues
  <2>2. n \in 0 .. Width[TreeLevels] - 1
    BY <2>1
  <2>3. a[0] \in Places(0)
    BY <1>1, <2>2, PlacesOfRows
  <2> QED
    BY <2>3, VaultValues
<1>3. ASSUME NEW l \in 1 .. TreeLevels, l - 1 \in H PROVE l \in H
  BY <1>1, <1>3, PlacesOfRows, VaultValues
<1>4. H \in SUBSET (0 .. TreeLevels)
  OBVIOUS
<1> HIDE DEF H
<1>5. H = 0 .. TreeLevels
  BY ONLY <1>2, <1>3, <1>4, UpTheTree
<1> QED
  BY <1>5 DEF H, a

\* What lies right of the last leaf's ancestors is empty.
LEMMA RightIsEmpty ==
  ASSUME NEW s \in Seq(Note), NEW n \in Nat, Len(s) = n + 1
  PROVE  \A l \in 0 .. TreeLevels : \A i \in Places(l) :
           i > Ancestors(n)[l] => Rows(s)[l][i] = zeros[l]
<1> DEFINE a == Ancestors(n)
           rows == Rows(s)
           H == {l \in 0 .. TreeLevels : \A i \in Places(l) : i > a[l] => rows[l][i] = zeros[l]}
<1>1. a[0] = n /\ \A l \in 1 .. TreeLevels : a[l] = a[l - 1] \div 2
  BY AncestorsDef
<1>2. \A l \in 0 .. TreeLevels : a[l] \in Nat
  BY AncestorsNext
<1>3. /\ \A i \in Places(0) : rows[0][i] = IF i < Len(s) THEN s[i + 1] ELSE Zero
      /\ \A l \in 1 .. TreeLevels : \A i \in Places(l) :
           rows[l][i] = Hash(rows[l - 1][2 * i], rows[l - 1][2 * i + 1])
  BY RowsDef
<1> HIDE DEF a, rows
<1>4. 0 \in H
  <2>1. ASSUME NEW i \in Places(0), i > a[0] PROVE rows[0][i] = zeros[0]
    <3>1. i \in Nat /\ ~(i < Len(s))
      BY <1>1, <2>1, PlacesOfRows, VaultValues
    <3> QED
      BY <1>3, <3>1, ZerosDef
  <2> QED
    BY <2>1, VaultValues
<1>5. ASSUME NEW l \in 1 .. TreeLevels, l - 1 \in H PROVE l \in H
  <2>1. l \in 0 .. TreeLevels /\ l - 1 \in 0 .. TreeLevels
    BY VaultValues
  <2>2. ASSUME NEW i \in Places(l), i > a[l] PROVE rows[l][i] = zeros[l]
    <3>1. i \in Nat /\ 2 * i \in Places(l - 1) /\ 2 * i + 1 \in Places(l - 1)
      BY <2>1, PlacesOfRows
    <3>2. a[l - 1] \in Nat /\ a[l] = a[l - 1] \div 2
      BY <1>1, <1>2, <2>1
    <3>3. 2 * i > a[l - 1] /\ 2 * i + 1 > a[l - 1]
      BY <2>2, <3>1, <3>2
    <3>4. rows[l - 1][2 * i] = zeros[l - 1] /\ rows[l - 1][2 * i + 1] = zeros[l - 1]
      BY <1>5, <3>1, <3>3
    <3> QED
      BY <1>3, <3>4, ZerosDef
  <2> QED
    BY <2>1, <2>2
<1>6. H \in SUBSET (0 .. TreeLevels)
  OBVIOUS
<1> HIDE DEF H
<1>7. H = 0 .. TreeLevels
  BY ONLY <1>4, <1>5, <1>6, UpTheTree
<1> QED
  BY <1>7 DEF H, a, rows

\* Without leaves everything is empty.
LEMMA NoLeaves ==
  \A l \in 0 .. TreeLevels : \A i \in Places(l) : Rows(<< >>)[l][i] = zeros[l]
<1> DEFINE rows == Rows(<< >>)
           H == {l \in 0 .. TreeLevels : \A i \in Places(l) : rows[l][i] = zeros[l]}
<1>1. /\ \A i \in Places(0) : rows[0][i] = IF i < Len(<< >>) THEN << >>[i + 1] ELSE Zero
      /\ \A l \in 1 .. TreeLevels : \A i \in Places(l) :
           rows[l][i] = Hash(rows[l - 1][2 * i], rows[l - 1][2 * i + 1])
  BY RowsDef
<1> HIDE DEF rows
<1>2. 0 \in H
  <2>1. \A i \in Places(0) : ~(i < Len(<< >>))
    BY PlacesOfRows, VaultValues
  <2> QED
    BY <1>1, <2>1, ZerosDef, VaultValues
<1>3. ASSUME NEW l \in 1 .. TreeLevels, l - 1 \in H PROVE l \in H
  <2>1. l \in 0 .. TreeLevels
    BY VaultValues
  <2>2. ASSUME NEW i \in Places(l) PROVE rows[l][i] = zeros[l]
    BY <1>1, <1>3, PlacesOfRows, ZerosDef
  <2> QED
    BY <2>1, <2>2
<1>4. H \in SUBSET (0 .. TreeLevels)
  OBVIOUS
<1> HIDE DEF H
<1>5. H = 0 .. TreeLevels
  BY ONLY <1>2, <1>3, <1>4, UpTheTree
<1> QED
  BY <1>5 DEF H, rows

\* A new leaf changes its ancestors and nothing beside them.
LEMMA BesideIsKept ==
  ASSUME NEW s \in Seq(Note), NEW x \in Note
  PROVE  \A l \in 0 .. TreeLevels : \A i \in Places(l) :
           i # Ancestors(Len(s))[l] => Rows(Append(s, x))[l][i] = Rows(s)[l][i]
<1> DEFINE n == Len(s)
           a == Ancestors(n)
           t == Append(s, x)
           old == Rows(s)
           new == Rows(t)
           H == {l \in 0 .. TreeLevels : \A i \in Places(l) : i # a[l] => new[l][i] = old[l][i]}
<1>1. a[0] = n /\ \A l \in 1 .. TreeLevels : a[l] = a[l - 1] \div 2
  BY AncestorsDef
<1>2. \A l \in 0 .. TreeLevels : a[l] \in Nat
  BY AncestorsNext
<1>3. /\ \A i \in Places(0) : old[0][i] = IF i < Len(s) THEN s[i + 1] ELSE Zero
      /\ \A l \in 1 .. TreeLevels : \A i \in Places(l) :
           old[l][i] = Hash(old[l - 1][2 * i], old[l - 1][2 * i + 1])
  BY RowsDef
<1>4. /\ \A i \in Places(0) : new[0][i] = IF i < Len(t) THEN t[i + 1] ELSE Zero
      /\ \A l \in 1 .. TreeLevels : \A i \in Places(l) :
           new[l][i] = Hash(new[l - 1][2 * i], new[l - 1][2 * i + 1])
  BY RowsDef
<1>5. n \in Nat /\ Len(t) = n + 1 /\ \A i \in 1 .. n : t[i] = s[i]
  OBVIOUS
<1> HIDE DEF a, old, new, t
<1>6. 0 \in H
  <2>1. ASSUME NEW i \in Places(0), i # a[0] PROVE new[0][i] = old[0][i]
    <3>1. i \in Nat
      BY PlacesOfRows, VaultValues
    <3>2. CASE i < n
      <4>1. i + 1 \in 1 .. n /\ i < Len(t) /\ i < Len(s)
        BY <1>5, <3>1, <3>2
      <4> QED
        BY <1>3, <1>4, <1>5, <4>1
    <3>3. CASE ~(i < n)
      <4>1. ~(i < Len(t)) /\ ~(i < Len(s))
        BY <1>1, <1>5, <2>1, <3>1, <3>3
      <4> QED
        BY <1>3, <1>4, <4>1
    <3> QED
      BY <3>2, <3>3
  <2> QED
    BY <2>1, VaultValues
<1>7. ASSUME NEW l \in 1 .. TreeLevels, l - 1 \in H PROVE l \in H
  <2>1. l \in 0 .. TreeLevels /\ l - 1 \in 0 .. TreeLevels
    BY VaultValues
  <2>2. ASSUME NEW i \in Places(l), i # a[l] PROVE new[l][i] = old[l][i]
    <3>1. i \in Nat /\ 2 * i \in Places(l - 1) /\ 2 * i + 1 \in Places(l - 1)
      BY <2>1, PlacesOfRows
    <3>2. a[l - 1] \in Nat /\ a[l] = a[l - 1] \div 2
      BY <1>1, <1>2, <2>1
    <3>3. 2 * i # a[l - 1] /\ 2 * i + 1 # a[l - 1]
      BY <2>2, <3>1, <3>2
    <3>4. /\ new[l - 1][2 * i] = old[l - 1][2 * i]
          /\ new[l - 1][2 * i + 1] = old[l - 1][2 * i + 1]
      BY <1>7, <3>1, <3>3
    <3> QED
      BY <1>3, <1>4, <3>4
  <2> QED
    BY <2>1, <2>2
<1>8. H \in SUBSET (0 .. TreeLevels)
  OBVIOUS
<1> HIDE DEF H
<1>9. H = 0 .. TreeLevels
  BY ONLY <1>6, <1>7, <1>8, UpTheTree
<1> QED
  BY <1>9 DEF H, a, old, new, t

\* Trees of different numbers of leaves have different roots.
LEMMA RootsDiffer ==
  ASSUME NEW s \in Seq(Note), NEW t \in Seq(Note), Len(s) <= Width[TreeLevels],
         Len(t) <= Width[TreeLevels], Root(s) = Root(t)
  PROVE  Len(s) = Len(t)
<1> DEFINE a == Rows(s)
           b == Rows(t)
           Same(l) == \A i \in Places(l) : a[l][i] = b[l][i]
           H == {k \in 0 .. TreeLevels : Same(TreeLevels - k)}
<1>1. \A i \in Places(0) : /\ a[0][i] = IF i < Len(s) THEN s[i + 1] ELSE Zero
                           /\ b[0][i] = IF i < Len(t) THEN t[i + 1] ELSE Zero
  BY RowsDef
<1>2. \A l \in 1 .. TreeLevels : \A i \in Places(l) :
        /\ a[l][i] = <<a[l - 1][2 * i], a[l - 1][2 * i + 1]>>
        /\ b[l][i] = <<b[l - 1][2 * i], b[l - 1][2 * i + 1]>>
  BY RowsDef DEF Hash
<1>3. a[TreeLevels][0] = b[TreeLevels][0]
  BY DEF Root
<1> HIDE DEF a, b
<1>4. 0 \in H
  <2>1. TreeLevels - 0 = TreeLevels
    BY VaultValues
  <2>2. Same(TreeLevels)
    BY <1>3, PlacesOfRows
  <2> QED
    BY <2>1, <2>2, VaultValues
<1>5. ASSUME NEW k \in 1 .. TreeLevels, k - 1 \in H PROVE k \in H
  <2> DEFINE l == TreeLevels - (k - 1)
  <2>1. l \in 1 .. TreeLevels /\ l - 1 \in 0 .. TreeLevels /\ TreeLevels - k = l - 1
    BY VaultValues
  <2>2. Same(l)
    BY <1>5
  <2> HIDE DEF l
  <2>3. ASSUME NEW i \in Places(l - 1) PROVE a[l - 1][i] = b[l - 1][i]
    <3> DEFINE p == i \div 2
    <3>1. p \in Places(l) /\ i \in Nat
      BY <2>1, PlacesOfRows
    <3>2. i = 2 * p \/ i = 2 * p + 1
      BY <3>1
    <3> HIDE DEF p
    <3>3. a[l][p] = b[l][p]
      BY <2>2, <3>1
    <3>4. a[l - 1][2 * p] = b[l - 1][2 * p] /\ a[l - 1][2 * p + 1] = b[l - 1][2 * p + 1]
      BY <1>2, <2>1, <3>1, <3>3
    <3> QED
      BY <3>2, <3>4
  <2>4. k \in 0 .. TreeLevels
    BY VaultValues
  <2> QED
    BY <2>1, <2>3, <2>4
<1>6. H \in SUBSET (0 .. TreeLevels)
  OBVIOUS
<1> HIDE DEF H
<1>7. H = 0 .. TreeLevels
  BY ONLY <1>4, <1>5, <1>6, UpTheTree
<1>8. Same(0)
  <2>1. TreeLevels \in H /\ TreeLevels - TreeLevels = 0
    BY <1>7, VaultValues
  <2> QED
    BY <2>1 DEF H
<1>9. Len(s) \in Nat /\ Len(t) \in Nat /\ Width[TreeLevels] \in Nat
  BY WidthPositive, VaultValues
<1>10. ~(Len(s) < Len(t))
  <2> SUFFICES ASSUME Len(s) < Len(t) PROVE FALSE
    OBVIOUS
  <2> DEFINE i == Len(s)
  <2>1. i \in Places(0) /\ ~(i < Len(s)) /\ i < Len(t) /\ i + 1 \in 1 .. Len(t)
    BY <1>9, PlacesOfRows
  <2>2. t[i + 1] \in Note
    BY <2>1
  <2> QED
    BY <1>1, <1>8, <2>1, <2>2, VaultValues
<1>11. ~(Len(t) < Len(s))
  <2> SUFFICES ASSUME Len(t) < Len(s) PROVE FALSE
    OBVIOUS
  <2> DEFINE i == Len(t)
  <2>1. i \in Places(0) /\ ~(i < Len(t)) /\ i < Len(s) /\ i + 1 \in 1 .. Len(s)
    BY <1>9, PlacesOfRows
  <2>2. s[i + 1] \in Note
    BY <2>1
  <2> QED
    BY <1>1, <1>8, <2>1, <2>2, VaultValues
<1> QED
  BY <1>9, <1>10, <1>11

-----------------------------------------------------------------------------
(* The tree of the vault.                                                  *)

\* Where the next leaf's ancestor is a right child, its left neighbour is kept.
FilledInv ==
  \A l \in Level : ~IsLeft(Len(leaves), l) =>
    filledSubtrees[l] = Rows(leaves)[l][Ancestors(Len(leaves))[l] - 1]

\* The place in the ring of the root before the last j insertions.
Slot(c, j) == IF j <= c THEN c - j ELSE c - j + RootHistorySize

\* The root of the first k leaves.
Prefix(s, k) == Root(SubSeq(s, 1, k))

\* The ring holds the last roots, newest first, and nothing else.
RingInv ==
  \A j \in RootIndex :
    roots[Slot(currentRootIndex, j)] =
      IF j <= Len(leaves) THEN Prefix(leaves, Len(leaves) - j) ELSE NoRoot

\* What the tree needs of the types.
TreeTypes ==
  /\ leaves \in Seq(Note) /\ Len(leaves) <= Width[TreeLevels]
  /\ DOMAIN filledSubtrees = Level
  /\ DOMAIN roots = RootIndex
  /\ currentRootIndex \in RootIndex

TreeIInv == TreeTypes /\ FilledInv /\ RingInv /\ KnownRootsAreRecent

\* The walk computes the new leaf's ancestors.
LEMMA WalkIsRow ==
  ASSUME TreeTypes, FilledInv, HasRoom, NEW x \in Note
  PROVE  \A l \in 0 .. TreeLevels :
           Walk(x, Len(leaves))[l] =
             Rows(Append(leaves, x))[l][Ancestors(Len(leaves))[l]]
<1> DEFINE n == Len(leaves)
           a == Ancestors(n)
           t == Append(leaves, x)
           w == Walk(x, n)
           old == Rows(leaves)
           new == Rows(t)
           H == {l \in 0 .. TreeLevels : w[l] = new[l][a[l]]}
<1>1. n \in Nat /\ n < Width[TreeLevels] /\ leaves \in Seq(Note)
  BY DEF TreeTypes, HasRoom
<1>2. t \in Seq(Note) /\ Len(t) = n + 1 /\ t[n + 1] = x
  BY <1>1
<1>3. a[0] = n /\ \A l \in 1 .. TreeLevels : a[l] = a[l - 1] \div 2
  BY AncestorsDef
<1>4. \A l \in 0 .. TreeLevels : a[l] \in Nat /\ a[l] \in Places(l)
  BY <1>1, AncestorsNext, AncestorsHavePlaces
<1>5. /\ \A i \in Places(0) : new[0][i] = IF i < Len(t) THEN t[i + 1] ELSE Zero
      /\ \A l \in 1 .. TreeLevels : \A i \in Places(l) :
           new[l][i] = Hash(new[l - 1][2 * i], new[l - 1][2 * i + 1])
  BY RowsDef
<1>6. /\ w[0] = x
      /\ \A l \in 1 .. TreeLevels :
           w[l] = IF a[l - 1] % 2 = 0 THEN Hash(w[l - 1], zeros[l - 1])
                  ELSE Hash(filledSubtrees[l - 1], w[l - 1])
  BY WalkDef DEF IsLeft
<1>7. \A l \in 0 .. TreeLevels : \A i \in Places(l) : i > a[l] => new[l][i] = zeros[l]
  BY <1>1, <1>2, RightIsEmpty
<1>8. \A l \in 0 .. TreeLevels : \A i \in Places(l) : i # a[l] => new[l][i] = old[l][i]
  BY <1>1, BesideIsKept
<1>9. \A l \in Level : a[l] % 2 # 0 => filledSubtrees[l] = old[l][a[l] - 1]
  BY DEF FilledInv, IsLeft
<1> HIDE DEF n, a, t, w, old, new
<1>10. 0 \in H
  <2>1. 0 \in 0 .. TreeLevels
    BY VaultValues
  <2>2. a[0] \in Places(0) /\ a[0] < Len(t)
    BY <1>1, <1>2, <1>3, <1>4, <2>1
  <2>3. new[0][a[0]] = t[a[0] + 1]
    BY <1>5, <2>2
  <2> QED
    BY <1>2, <1>3, <1>6, <2>1, <2>3
<1>11. ASSUME NEW l \in 1 .. TreeLevels, l - 1 \in H PROVE l \in H
  <2> DEFINE c == a[l - 1]
             p == a[l]
  <2>1. l \in 0 .. TreeLevels /\ l - 1 \in 0 .. TreeLevels /\ l - 1 \in Level
    BY VaultValues DEF Level
  <2>2. c \in Nat /\ p \in Nat /\ p \in Places(l) /\ p = c \div 2
    BY <1>3, <1>4, <2>1
  <2>3. 2 * p \in Places(l - 1) /\ 2 * p + 1 \in Places(l - 1)
    BY <2>2, PlacesOfRows
  <2>4. new[l][p] = Hash(new[l - 1][2 * p], new[l - 1][2 * p + 1])
    BY <1>5, <2>2
  <2>5. w[l - 1] = new[l - 1][c]
    BY <1>11
  <2>6. w[l] = IF c % 2 = 0 THEN Hash(w[l - 1], zeros[l - 1])
               ELSE Hash(filledSubtrees[l - 1], w[l - 1])
    BY <1>6
  <2> HIDE DEF c, p
  <2>7. CASE c % 2 = 0
    <3>1. c = 2 * p
      BY <2>2, <2>7, Halves
    <3>2. new[l - 1][2 * p + 1] = zeros[l - 1]
      <4>1. 2 * p + 1 > c
        BY <2>2, <3>1
      <4> QED
        BY <1>7, <2>1, <2>3, <4>1 DEF c
    <3>3. w[l] = new[l][p]
      BY <2>4, <2>5, <2>6, <2>7, <3>1, <3>2
    <3> QED
      BY <2>1, <3>3 DEF p
  <2>8. CASE c % 2 # 0
    <3>1. c = 2 * p + 1 /\ c - 1 = 2 * p
      BY <2>2, <2>8, Halves
    <3>2. filledSubtrees[l - 1] = old[l - 1][c - 1]
      BY <1>9, <2>1, <2>8 DEF c
    <3>3. new[l - 1][2 * p] = old[l - 1][2 * p]
      <4>1. 2 * p # c
        BY <2>2, <3>1
      <4> QED
        BY <1>8, <2>1, <2>3, <4>1 DEF c
    <3>4. w[l] = new[l][p]
      BY <2>4, <2>5, <2>6, <2>8, <3>1, <3>2, <3>3
    <3> QED
      BY <2>1, <3>4 DEF p
  <2> QED
    BY <2>7, <2>8
<1>12. H \in SUBSET (0 .. TreeLevels)
  OBVIOUS
<1> HIDE DEF H
<1>13. H = 0 .. TreeLevels
  BY ONLY <1>10, <1>11, <1>12, UpTheTree
<1> QED
  BY <1>13 DEF H, n, a, t, w, new

\* So the root it ends at is the root of the tree with the new leaf.
LEMMA WalkIsRoot ==
  ASSUME TreeTypes, FilledInv, HasRoom, NEW x \in Note
  PROVE  Walk(x, Len(leaves))[TreeLevels] = Root(Append(leaves, x))
<1>1. Len(leaves) \in Nat /\ Len(leaves) < Width[TreeLevels]
  BY DEF TreeTypes, HasRoom
<1>2. TreeLevels \in 0 .. TreeLevels
  BY VaultValues
<1>3. Ancestors(Len(leaves))[TreeLevels] = 0
  BY <1>1, <1>2, AncestorsHavePlaces, PlacesOfRows
<1> QED
  BY <1>2, <1>3, WalkIsRow DEF Root

\* What it keeps are the left neighbours that the leaf after it needs.
LEMMA FilledKept ==
  ASSUME TreeTypes, FilledInv, HasRoom, NEW x \in Note,
         leaves' = Append(leaves, x), filledSubtrees' = Filled(x, Len(leaves))
  PROVE  FilledInv'
<1> DEFINE n == Len(leaves)
           a == Ancestors(n)
           b == Ancestors(n + 1)
<1>1. n \in Nat /\ n < Width[TreeLevels] /\ leaves \in Seq(Note) /\ Len(leaves') = n + 1
  BY DEF TreeTypes, HasRoom
<1> SUFFICES ASSUME NEW l \in Level, ~IsLeft(n + 1, l)
    PROVE  filledSubtrees'[l] = Rows(Append(leaves, x))[l][b[l] - 1]
  BY <1>1 DEF FilledInv
<1>2. l \in 0 .. TreeLevels
  BY VaultValues DEF Level
<1>3. a[l] \in Nat /\ a[l] \in Places(l) /\ b[l] \in {a[l], a[l] + 1} /\ Places(l) \subseteq Nat
  BY <1>1, <1>2, AncestorsNext, AncestorsHavePlaces, PlacesOfRows
<1>4. b[l] % 2 # 0 /\ (IsLeft(n, l) <=> a[l] % 2 = 0)
  BY DEF IsLeft
<1>5. filledSubtrees'[l] = IF IsLeft(n, l) THEN Walk(x, n)[l] ELSE filledSubtrees[l]
  BY DEF Filled
<1>6. Walk(x, n)[l] = Rows(Append(leaves, x))[l][a[l]]
  BY <1>2, WalkIsRow
<1>7. ~IsLeft(n, l) => filledSubtrees[l] = Rows(leaves)[l][a[l] - 1]
  BY DEF FilledInv
<1>8. \A i \in Places(l) : i # a[l] => Rows(Append(leaves, x))[l][i] = Rows(leaves)[l][i]
  BY <1>1, <1>2, BesideIsKept
<1>9. \A i \in Nat : i <= a[l] => i \in Places(l)
  <2> DEFINE w == Width[TreeLevels - l]
  <2>1. w \in Nat
    BY <1>2, WidthPositive, VaultValues
  <2>2. Places(l) = 0 .. w - 1
    BY DEF Places
  <2>3. a[l] \in 0 .. w - 1
    BY <1>3, <2>2
  <2> HIDE DEF w, a
  <2> QED
    BY <2>1, <2>2, <2>3
<1> HIDE DEF n, a, b
<1>10. CASE a[l] % 2 = 0
  <2>1. b[l] - 1 = a[l]
    BY <1>3, <1>4, <1>10
  <2> QED
    BY <1>4, <1>5, <1>6, <1>10, <2>1
<1>11. CASE a[l] % 2 # 0
  <2>1. b[l] = a[l] /\ a[l] - 1 \in Nat /\ a[l] - 1 # a[l] /\ a[l] - 1 <= a[l]
    BY <1>3, <1>4, <1>11, Halves
  <2>2. a[l] - 1 \in Places(l)
    BY <1>9, <2>1
  <2> QED
    BY <1>4, <1>5, <1>7, <1>8, <1>11, <2>1, <2>2
<1> QED
  BY <1>10, <1>11

\* A root is a pair, so it is not an empty place of the ring.
LEMMA RootIsPair == \A s : Root(s) # NoRoot
<1> TAKE s
<1>1. TreeLevels \in 1 .. TreeLevels /\ 0 \in Places(TreeLevels)
  BY VaultValues, PlacesOfRows
<1> DEFINE below == Rows(s)[TreeLevels - 1]
<1>2. Root(s) = <<below[2 * 0], below[2 * 0 + 1]>>
  BY <1>1, RowsDef DEF Root, Hash
<1> HIDE DEF below
<1> QED
  BY <1>2 DEF NoRoot

\* The first leaves stay the first.
LEMMA PrefixKept ==
  ASSUME NEW s \in Seq(Note), NEW x \in Note, NEW k \in 0 .. Len(s)
  PROVE  SubSeq(Append(s, x), 1, k) = SubSeq(s, 1, k)
<1> DEFINE t == Append(s, x)
<1>1. t \in Seq(Note) /\ k \in Int /\ \A i \in 1 .. k : t[i] \in Note /\ s[i] \in Note /\ t[i] = s[i]
  OBVIOUS
<1> HIDE DEF t
<1>2. /\ SubSeq(t, 1, k) \in Seq(Note) /\ SubSeq(s, 1, k) \in Seq(Note)
      /\ Len(SubSeq(t, 1, k)) = IF 1 <= k THEN k - 1 + 1 ELSE 0
      /\ Len(SubSeq(s, 1, k)) = IF 1 <= k THEN k - 1 + 1 ELSE 0
      /\ \A i \in 1 .. k - 1 + 1 : SubSeq(t, 1, k)[i] = t[1 + i - 1]
      /\ \A i \in 1 .. k - 1 + 1 : SubSeq(s, 1, k)[i] = s[1 + i - 1]
  BY <1>1, SubSeqProperties
<1> DEFINE p == SubSeq(t, 1, k)
           q == SubSeq(s, 1, k)
<1>3. p \in Seq(Note) /\ q \in Seq(Note) /\ Len(p) = k /\ Len(q) = k
  BY <1>2
<1>4. \A i \in 1 .. k : p[i] = t[i] /\ q[i] = s[i]
  <2> TAKE i \in 1 .. k
  <2>1. i \in 1 .. k - 1 + 1 /\ 1 + i - 1 = i
    OBVIOUS
  <2> QED
    BY <1>2, <2>1
<1> HIDE DEF p, q
<1>5. \A i \in 1 .. k : p[i] = q[i]
  BY <1>1, <1>4
<1>6. p = q
  BY <1>3, <1>5
<1> QED
  BY <1>6 DEF p, q, t

\* A prefix has as many leaves as it is named for.
LEMMA PrefixLength ==
  ASSUME NEW s \in Seq(Note), NEW k \in 0 .. Len(s)
  PROVE  /\ SubSeq(s, 1, k) \in Seq(Note)
         /\ Len(SubSeq(s, 1, k)) = k
<1>1. k \in Int /\ \A i \in 1 .. k : s[i] \in Note
  OBVIOUS
<1>2. /\ SubSeq(s, 1, k) \in Seq(Note)
      /\ Len(SubSeq(s, 1, k)) = IF 1 <= k THEN k - 1 + 1 ELSE 0
  BY <1>1, SubSeqProperties
<1> QED
  BY <1>2

\* Prefixes of different lengths have different roots.
LEMMA PrefixesDiffer ==
  ASSUME NEW s \in Seq(Note), Len(s) <= Width[TreeLevels],
         NEW j \in 0 .. Len(s), NEW k \in 0 .. Len(s), Prefix(s, j) = Prefix(s, k)
  PROVE  j = k
<1> DEFINE p == SubSeq(s, 1, j)
           q == SubSeq(s, 1, k)
<1>1. Width[TreeLevels] \in Nat /\ j <= Width[TreeLevels] /\ k <= Width[TreeLevels]
  BY WidthPositive, VaultValues
<1>2. p \in Seq(Note) /\ Len(p) = j
  BY PrefixLength
<1>3. q \in Seq(Note) /\ Len(q) = k
  BY PrefixLength
<1>4. Root(p) = Root(q)
  BY DEF Prefix
<1> HIDE DEF p, q
<1>5. Len(p) <= Width[TreeLevels] /\ Len(q) <= Width[TreeLevels]
  BY <1>1, <1>2, <1>3
<1>6. Len(p) = Len(q)
  BY ONLY <1>2, <1>3, <1>4, <1>5, RootsDiffer
<1> QED
  BY <1>2, <1>3, <1>6

\* A number below another is what is left of it.
LEMMA Remainder ==
  ASSUME NEW R \in Nat, R >= 1
  PROVE  /\ R % R = 0
         /\ \A x \in 0 .. R - 1 : x % R = x
<1>1. ASSUME NEW x \in 0 .. R PROVE x % R = IF x = R THEN 0 ELSE x
  <2> DEFINE q == x \div R
             m == x % R
  <2>1. q \in Int /\ m \in 0 .. R - 1 /\ x = R * q + m
    OBVIOUS
  <2> HIDE DEF q, m
  <2>2. q >= 0
    <3> SUFFICES ASSUME q <= -1 PROVE FALSE
      BY <2>1
    <3>1. R * q <= R * (-1)
      BY <2>1
    <3> QED
      BY <2>1, <3>1
  <2>3. q <= 1
    <3> SUFFICES ASSUME q >= 2 PROVE FALSE
      BY <2>1
    <3>1. R * q >= R * 2
      BY <2>1
    <3> QED
      BY <2>1, <3>1
  <2>4. q = 0 \/ q = 1
    BY <2>1, <2>2, <2>3
  <2>5. CASE q = 0
    <3>1. R * q = 0
      BY <2>5
    <3> QED
      BY <2>1, <3>1 DEF m
  <2>6. CASE q = 1
    <3>1. R * q = R
      BY <2>6
    <3> QED
      BY <2>1, <3>1 DEF m
  <2> QED
    BY <2>4, <2>5, <2>6
<1> QED
  BY <1>1

\* The place after a place of the ring.
LEMMA NextPlace ==
  ASSUME NEW c \in RootIndex
  PROVE  (c + 1) % RootHistorySize = IF c = RootHistorySize - 1 THEN 0 ELSE c + 1
<1> DEFINE R == RootHistorySize
           x == c + 1
<1>1. R \in Nat /\ R >= 1 /\ c \in Nat /\ c <= R - 1
  BY VaultValues DEF RootIndex
<1>2. R % R = 0 /\ \A y \in 0 .. R - 1 : y % R = y
  BY <1>1, Remainder
<1>3. CASE c = R - 1
  <2>1. x = R
    BY <1>1, <1>3
  <2> QED
    BY <1>2, <1>3, <2>1
<1>4. CASE c # R - 1
  <2>1. x \in 0 .. R - 1
    BY <1>1, <1>4
  <2>2. x % R = x
    BY <1>2, <2>1
  <2> QED
    BY <1>4, <2>2
<1> QED
  BY <1>3, <1>4

\* The places of the ring before and after it turns by one.
LEMMA RingTurns ==
  ASSUME NEW c \in RootIndex
  PROVE  /\ (c + 1) % RootHistorySize \in RootIndex
         /\ RootHistorySize - 1 \in RootIndex
         /\ Slot(c, RootHistorySize - 1) = (c + 1) % RootHistorySize
         /\ Slot((c + 1) % RootHistorySize, 0) = (c + 1) % RootHistorySize
         /\ \A j \in RootIndex : j # 0 =>
              /\ j - 1 \in RootIndex
              /\ Slot(c, j - 1) \in RootIndex
              /\ Slot((c + 1) % RootHistorySize, j) = Slot(c, j - 1)
              /\ Slot(c, j - 1) # (c + 1) % RootHistorySize
<1> DEFINE R == RootHistorySize
           d == (c + 1) % R
<1>1. R \in Nat /\ R >= 1 /\ c \in Nat /\ c <= R - 1 /\ RootIndex = 0 .. R - 1
  BY VaultValues DEF RootIndex
<1>2. d = IF c = R - 1 THEN 0 ELSE c + 1
  BY NextPlace
<1> HIDE DEF R, d
<1>3. d \in RootIndex /\ R - 1 \in RootIndex
  BY <1>1, <1>2
<1>4. \A x, j : Slot(x, j) = IF j <= x THEN x - j ELSE x - j + R
  BY DEF Slot, R
<1>5. Slot(c, R - 1) = d
  BY <1>1, <1>2, <1>4
<1>6. Slot(d, 0) = d
  BY <1>1, <1>2, <1>4
<1>7. ASSUME NEW j \in RootIndex, j # 0
      PROVE  /\ j - 1 \in RootIndex
             /\ Slot(c, j - 1) \in RootIndex
             /\ Slot(d, j) = Slot(c, j - 1)
             /\ Slot(c, j - 1) # d
  <2>1. j \in 1 .. R - 1
    BY <1>1, <1>7
  <2>2. Slot(c, j - 1) = IF j - 1 <= c THEN c - (j - 1) ELSE c - (j - 1) + R
    BY <1>4
  <2>3. Slot(d, j) = IF j <= d THEN d - j ELSE d - j + R
    BY <1>4
  <2> QED
    BY <1>1, <1>2, <2>1, <2>2, <2>3
<1> QED
  BY <1>3, <1>5, <1>6, <1>7 DEF R, d

\* The prefixes of a longer sequence.
LEMMA PrefixesGrow ==
  ASSUME NEW s \in Seq(Note), NEW x \in Note
  PROVE  /\ Append(s, x) \in Seq(Note)
         /\ Len(Append(s, x)) = Len(s) + 1
         /\ Prefix(Append(s, x), Len(s) + 1) = Root(Append(s, x))
         /\ \A k \in 0 .. Len(s) : Prefix(Append(s, x), k) = Prefix(s, k)
<1>1. Append(s, x) \in Seq(Note) /\ Len(Append(s, x)) = Len(s) + 1
  OBVIOUS
<1>2. SubSeq(Append(s, x), 1, Len(s) + 1) = Append(s, x)
  BY <1>1, SubSeqFull
<1> QED
  BY <1>1, <1>2, PrefixKept DEF Prefix

\* The root of no leaves is the root of an empty tree.
LEMMA EmptyRoot == Prefix(<< >>, 0) = zeros[TreeLevels]
<1>1. << >> \in Seq(Note) /\ Len(<< >>) = 0 /\ SubSeq(<< >>, 1, 0) = << >>
  OBVIOUS
<1>2. 0 \in Places(TreeLevels) /\ TreeLevels \in 0 .. TreeLevels
  BY PlacesOfRows, VaultValues
<1>3. Root(<< >>) = zeros[TreeLevels]
  BY <1>2, NoLeaves DEF Root
<1> QED
  BY <1>1, <1>3 DEF Prefix

\* The oldest root that is still known, by its number of leaves.
Oldest(n) == IF n < RootHistorySize THEN 0 ELSE n - RootHistorySize + 1

\* The known roots by the prefixes they are of.
LEMMA KnownDef ==
  KnownRootsAreRecent <=>
    \A r : r \in knownRoots <=> \E k \in Oldest(Len(leaves)) .. Len(leaves) : r = Prefix(leaves, k)
BY DEF KnownRootsAreRecent, Oldest, Prefix

\* The constructor leaves a sound tree.
LEMMA TreeInit == Init => TreeIInv
<1> SUFFICES ASSUME Init PROVE TreeIInv
  OBVIOUS
<1>1. /\ leaves = << >> /\ Len(leaves) = 0 /\ currentRootIndex = 0
      /\ filledSubtrees = [level \in Level |-> zeros[level]]
      /\ roots = [i \in RootIndex |-> IF i = 0 THEN zeros[TreeLevels] ELSE NoRoot]
      /\ knownRoots = {zeros[TreeLevels]}
  BY DEF Init
<1>2. 0 \in RootIndex
  BY VaultValues DEF RootIndex
<1>3. TreeTypes
  <2>1. leaves \in Seq(Note)
    BY <1>1
  <2>2. Len(leaves) <= Width[TreeLevels]
    BY <1>1, WidthPositive, VaultValues
  <2> QED
    BY <1>1, <1>2, <2>1, <2>2 DEF TreeTypes
<1>4. FilledInv
  <2> SUFFICES ASSUME NEW l \in Level PROVE IsLeft(0, l)
    BY <1>1 DEF FilledInv
  <2>1. l \in 0 .. TreeLevels
    BY VaultValues DEF Level
  <2>2. Ancestors(0)[l] = 0
    BY <2>1, AncestorsNext
  <2> QED
    BY <2>2 DEF IsLeft
<1>5. RingInv
  <2> SUFFICES ASSUME NEW j \in RootIndex
      PROVE roots[Slot(0, j)] = IF j <= 0 THEN Prefix(<< >>, 0 - j) ELSE NoRoot
    BY <1>1 DEF RingInv
  <2>1. j \in Nat /\ RootHistorySize \in Nat /\ RootIndex = 0 .. RootHistorySize - 1
    BY VaultValues DEF RootIndex
  <2>2. CASE j = 0
    <3>1. Slot(0, j) = 0 /\ 0 - j = 0 /\ j <= 0
      BY <2>2 DEF Slot
    <3> QED
      BY <1>1, <1>2, <2>2, <3>1, EmptyRoot
  <2>3. CASE j # 0
    <3>1. Slot(0, j) = 0 - j + RootHistorySize /\ ~(j <= 0)
      BY <2>1, <2>3 DEF Slot
    <3>2. Slot(0, j) \in RootIndex /\ Slot(0, j) # 0
      BY <2>1, <2>3, <3>1
    <3> QED
      BY <1>1, <3>1, <3>2
  <2> QED
    BY <2>2, <2>3
<1>6. KnownRootsAreRecent
  <2>1. Oldest(0) = 0
    BY VaultValues DEF Oldest
  <2>2. \A r : r \in knownRoots <=> \E k \in 0 .. 0 : r = Prefix(<< >>, k)
    BY <1>1, EmptyRoot
  <2> QED
    BY <1>1, <2>1, <2>2, KnownDef
<1> QED
  BY <1>3, <1>4, <1>5, <1>6 DEF TreeIInv

\* A deposit turns the ring by one and the new root replaces the oldest.
LEMMA DepositKeepsTree ==
  ASSUME TreeIInv, NEW x \in Note, Deposit(x)
  PROVE  TreeIInv'
<1> DEFINE n == Len(leaves)
           c == currentRootIndex
           R == RootHistorySize
           d == (c + 1) % R
           t == Append(leaves, x)
<1>1. TreeTypes /\ FilledInv /\ RingInv /\ KnownRootsAreRecent /\ HasRoom
  BY DEF TreeIInv, Deposit
<1>2. /\ leaves' = t /\ filledSubtrees' = Filled(x, n)
      /\ AddRoot(Walk(x, n)[TreeLevels])
  BY DEF Deposit
<1>3. Walk(x, n)[TreeLevels] = Root(t)
  BY <1>1, WalkIsRoot
<1>4. /\ roots' = [roots EXCEPT ![d] = Root(t)]
      /\ knownRoots' = (knownRoots \ ({roots[d]} \ {NoRoot})) \cup {Root(t)}
      /\ currentRootIndex' = d
  BY <1>2, <1>3 DEF AddRoot
<1>5. /\ leaves \in Seq(Note) /\ n \in Nat /\ n < Width[TreeLevels]
      /\ DOMAIN roots = RootIndex /\ c \in RootIndex
  BY <1>1 DEF TreeTypes, HasRoom
<1>6. /\ t \in Seq(Note) /\ Len(t) = n + 1 /\ Prefix(t, n + 1) = Root(t)
      /\ \A k \in 0 .. n : Prefix(t, k) = Prefix(leaves, k)
  BY <1>5, PrefixesGrow
<1>7. /\ d \in RootIndex /\ R - 1 \in RootIndex /\ Slot(c, R - 1) = d /\ Slot(d, 0) = d
      /\ \A j \in RootIndex : j # 0 => /\ j - 1 \in RootIndex /\ Slot(c, j - 1) \in RootIndex
                                       /\ Slot(d, j) = Slot(c, j - 1) /\ Slot(c, j - 1) # d
  BY <1>5, RingTurns
<1>8. R \in Nat /\ R >= 1 /\ Width[TreeLevels] \in Nat /\ RootIndex = 0 .. R - 1
  BY WidthPositive, VaultValues DEF RootIndex
<1>9. \A j \in RootIndex :
        roots[Slot(c, j)] = IF j <= n THEN Prefix(leaves, n - j) ELSE NoRoot
  BY <1>1 DEF RingInv
<1>10. \A r : r \in knownRoots <=> \E k \in Oldest(n) .. n : r = Prefix(leaves, k)
  BY <1>1, KnownDef
<1>11. \A m : Oldest(m) = IF m < R THEN 0 ELSE m - R + 1
  BY DEF Oldest
<1>12. FilledInv'
  BY <1>1, <1>2, FilledKept
<1> HIDE DEF n, c, R, d, t
<1>13. TreeTypes'
  <2>1. leaves' \in Seq(Note) /\ Len(leaves') <= Width[TreeLevels]
    BY <1>2, <1>5, <1>6, <1>8
  <2>2. DOMAIN filledSubtrees' = Level
    BY <1>2 DEF Filled
  <2>3. DOMAIN roots' = RootIndex /\ currentRootIndex' \in RootIndex
    BY <1>4, <1>5, <1>7
  <2> QED
    BY <2>1, <2>2, <2>3 DEF TreeTypes
<1>14. RingInv'
  <2> SUFFICES \A j \in RootIndex :
        roots'[Slot(d, j)] = IF j <= n + 1 THEN Prefix(t, n + 1 - j) ELSE NoRoot
    <3>1. leaves' = t /\ Len(leaves') = n + 1 /\ currentRootIndex' = d
      BY <1>2, <1>4, <1>6
    <3>2. RingInv' <=> \A j \in RootIndex :
            roots'[Slot(currentRootIndex', j)] =
              IF j <= Len(leaves') THEN Prefix(leaves', Len(leaves') - j) ELSE NoRoot
      BY DEF RingInv
    <3>3. PICK ls, cr, m : ls = leaves' /\ cr = currentRootIndex' /\ m = Len(leaves')
      OBVIOUS
    <3>4. ls = t /\ cr = d /\ m = n + 1
      BY <3>1, <3>3
    <3>5. \A i \in RootIndex :
            roots'[Slot(d, i)] = IF i <= n + 1 THEN Prefix(t, n + 1 - i) ELSE NoRoot
      OBVIOUS
    <3>6. \A i \in RootIndex :
            roots'[Slot(cr, i)] = IF i <= m THEN Prefix(ls, m - i) ELSE NoRoot
      BY <1>5, <1>8, <3>4, <3>5
    <3> QED
      BY ONLY <3>2, <3>3, <3>6
  <2> TAKE j \in RootIndex
  <2>1. j \in Nat
    BY <1>8
  <2>2. CASE j = 0
    <3>1. j <= n + 1 /\ n + 1 - j = n + 1
      BY <1>5, <2>2
    <3> QED
      BY <1>4, <1>5, <1>6, <1>7, <2>2, <3>1
  <2>3. CASE j # 0
    <3>1. roots'[Slot(d, j)] = roots[Slot(c, j - 1)]
      BY <1>4, <1>5, <1>7, <2>3
    <3>2. roots[Slot(c, j - 1)] = IF j - 1 <= n THEN Prefix(leaves, n - (j - 1)) ELSE NoRoot
      BY <1>7, <1>9, <2>3
    <3>3. (j - 1 <= n <=> j <= n + 1) /\ n - (j - 1) = n + 1 - j
          /\ (j <= n + 1 => n + 1 - j \in 0 .. n)
      BY <1>5, <2>1, <2>3
    <3> QED
      BY <1>6, <3>1, <3>2, <3>3
  <2> QED
    BY <2>2, <2>3
<1>15. roots[d] = IF R - 1 <= n THEN Prefix(leaves, n - (R - 1)) ELSE NoRoot
  BY <1>7, <1>9
<1>16. \A r : r \in knownRoots' <=> \E k \in Oldest(n + 1) .. n + 1 : r = Prefix(t, k)
  <2> TAKE r
  <2>1. \A k \in 0 .. n : Prefix(leaves, k) # NoRoot
    BY RootIsPair DEF Prefix
  <2>2. (\E k \in Oldest(n + 1) .. n + 1 : r = Prefix(t, k)) <=>
          r = Root(t) \/ \E k \in Oldest(n + 1) .. n : r = Prefix(leaves, k)
    <3>1. Oldest(n + 1) \in Nat /\ Oldest(n + 1) <= n + 1
      BY <1>5, <1>8, <1>11
    <3>2. \A k \in Oldest(n + 1) .. n + 1 : k = n + 1 \/ k \in Oldest(n + 1) .. n
      BY <1>5, <3>1
    <3>3. \A k \in Oldest(n + 1) .. n : k \in 0 .. n /\ k \in Oldest(n + 1) .. n + 1
      BY <1>5, <3>1
    <3>4. n + 1 \in Oldest(n + 1) .. n + 1
      BY <1>5, <3>1
    <3> QED
      BY <1>6, <3>2, <3>3, <3>4
  <2>3. CASE ~(R - 1 <= n)
    <3>1. Oldest(n) = 0 /\ Oldest(n + 1) = 0
      BY <1>5, <1>8, <1>11, <2>3
    <3>2. knownRoots' = knownRoots \cup {Root(t)}
      BY <1>4, <1>15, <2>3
    <3> QED
      BY <1>10, <2>2, <3>1, <3>2
  <2>4. CASE R - 1 <= n
    <3> DEFINE o == n - (R - 1)
    <3>1. o \in 0 .. n /\ Oldest(n) = o /\ Oldest(n + 1) = o + 1
      BY <1>5, <1>8, <1>11, <2>4
    <3>2. roots[d] = Prefix(leaves, o)
      BY <1>15, <2>4
    <3> HIDE DEF o
    <3>3. knownRoots' = (knownRoots \ {Prefix(leaves, o)}) \cup {Root(t)}
      BY <1>4, <2>1, <3>1, <3>2
    <3>4. \A k \in o .. n : k = o \/ (k \in o + 1 .. n /\ Prefix(leaves, k) # Prefix(leaves, o))
      <4> TAKE k \in o .. n
      <4>1. k \in 0 .. n /\ (k = o \/ (k \in o + 1 .. n /\ k # o))
        BY <1>5, <3>1
      <4>2. n <= Width[TreeLevels] /\ n = Len(leaves)
        BY <1>5, <1>8 DEF n
      <4> QED
        BY <1>5, <3>1, <4>1, <4>2, PrefixesDiffer
    <3>5. \A k \in o + 1 .. n : k \in o .. n /\ k # o
      BY <1>5, <3>1
    <3> QED
      BY <1>10, <2>2, <3>1, <3>3, <3>4, <3>5
  <2> QED
    BY <2>3, <2>4
<1>17. KnownRootsAreRecent'
  <2>1. KnownRootsAreRecent' <=>
          \A r : r \in knownRoots' <=>
            \E k \in Oldest(Len(leaves')) .. Len(leaves') : r = Prefix(leaves', k)
    BY DEF KnownRootsAreRecent, Oldest, Prefix
  <2> QED
    BY <1>2, <1>6, <1>16, <2>1
<1> QED
  BY <1>12, <1>13, <1>14, <1>17 DEF TreeIInv

-----------------------------------------------------------------------------
(* The books of the vault.                                                 *)

InBatch(b) == {o \in Order : acceptedIn[o] = b}
SettledOrders == {o \in Accepted : batches[acceptedIn[o]].settled}
WaitingOrders == {o \in Accepted : ~batches[acceptedIn[o]].settled}
Deposited == {leaves[i] : i \in DOMAIN leaves}

\* What the counts need of the types.
BookTypes ==
  /\ leaves \in Seq(Note)
  /\ acceptedIn \in [Order -> Batch \cup {NoBatch}]
  /\ batches \in [Batch -> Record]
  /\ balance \in Nat /\ escrow \in Nat

\* An order spends a note of its own, and a note is one of the deposited.
SpentInv ==
  /\ usedNullifiers \subseteq Deposited
  /\ Cardinality(Accepted) = Cardinality(usedNullifiers)

\* A batch counts its orders, and one that may be opened has none.
BatchInv ==
  \A b \in Batch :
    /\ batches[b].orderCount = Cardinality(InBatch(b))
    /\ batches[b].collateral = batches[b].orderCount
    /\ batches[b].open => ~batches[b].settled
    /\ ~batches[b].open /\ ~batches[b].settled => batches[b].orderCount = 0

\* The vault and the escrow share the deposits.
MoneyInv ==
  /\ balance + escrow = Len(leaves)
  /\ escrow = Cardinality(SettledOrders)

Books == BookTypes /\ SpentInv /\ BatchInv /\ MoneyInv

\* What is spent or accepted is finite.
LEMMA BooksFinite ==
  ASSUME BookTypes
  PROVE  /\ IsFiniteSet(Deposited) /\ Cardinality(Deposited) <= Len(leaves)
         /\ IsFiniteSet(Accepted) /\ Accepted \subseteq Order
         /\ \A T \in SUBSET Order : IsFiniteSet(T) /\ Cardinality(T) \in Nat
<1>1. IsFiniteSet(Order)
  BY VaultValues
<1>2. \A T \in SUBSET Order : IsFiniteSet(T) /\ Cardinality(T) \in Nat
  BY <1>1, FS_Subset, FS_CardinalityType
<1>3. Accepted \in SUBSET Order
  BY DEF Accepted
<1>4. Len(leaves) \in Nat /\ DOMAIN leaves = 1 .. Len(leaves)
  BY DEF BookTypes
<1>5. IsFiniteSet(1 .. Len(leaves)) /\ Cardinality(1 .. Len(leaves)) = Len(leaves)
  <2> DEFINE n == Len(leaves)
  <2>1. n \in Nat
    BY <1>4
  <2> HIDE DEF n
  <2>2. IsFiniteSet(1 .. n) /\ Cardinality(1 .. n) = IF 1 > n THEN 0 ELSE n - 1 + 1
    BY <2>1, FS_Interval
  <2>3. Cardinality(1 .. n) = n
    BY <2>1, <2>2
  <2> QED
    BY <2>2, <2>3 DEF n
<1> DEFINE f == [i \in 1 .. Len(leaves) |-> leaves[i]]
<1>6. f \in Surjection(1 .. Len(leaves), Deposited)
  BY <1>4 DEF Surjection, Deposited
<1> HIDE DEF f
<1>7. IsFiniteSet(Deposited) /\ Cardinality(Deposited) <= Len(leaves)
  BY <1>5, <1>6, FS_Surjection
<1> QED
  BY <1>2, <1>3, <1>7

\* Every token is accounted for.
LEMMA BooksAddUp == Books => CollateralAddsUp
<1> SUFFICES ASSUME Books PROVE CollateralAddsUp
  OBVIOUS
<1>1. BookTypes /\ SpentInv /\ MoneyInv
  BY DEF Books
<1>2. /\ IsFiniteSet(Deposited) /\ Cardinality(Deposited) <= Len(leaves)
      /\ IsFiniteSet(Accepted) /\ Accepted \subseteq Order
      /\ \A T \in SUBSET Order : IsFiniteSet(T) /\ Cardinality(T) \in Nat
  BY <1>1, BooksFinite
<1>3. Accepted = SettledOrders \cup WaitingOrders /\ SettledOrders \cap WaitingOrders = {}
      /\ SettledOrders \in SUBSET Order /\ WaitingOrders \in SUBSET Order
  BY <1>2 DEF SettledOrders, WaitingOrders
<1>4. /\ IsFiniteSet(SettledOrders) /\ IsFiniteSet(WaitingOrders)
      /\ Cardinality(SettledOrders) \in Nat /\ Cardinality(WaitingOrders) \in Nat
      /\ Cardinality(Accepted) \in Nat
  BY <1>2, <1>3
<1>5. Cardinality(Accepted) =
        Cardinality(SettledOrders) + Cardinality(WaitingOrders) - Cardinality({})
  BY <1>3, <1>4, FS_Union
<1>6. Cardinality({}) = 0
  BY FS_EmptySet
<1>7. Cardinality(usedNullifiers) <= Cardinality(Deposited)
      /\ Cardinality(Deposited) \in Nat
  BY <1>1, <1>2, FS_Subset, FS_CardinalityType DEF SpentInv
<1>8. Cardinality(Accepted) = Cardinality(usedNullifiers)
  BY <1>1 DEF SpentInv
<1>9. balance + escrow = Len(leaves) /\ escrow = Cardinality(SettledOrders)
      /\ balance \in Nat /\ escrow \in Nat /\ Len(leaves) \in Nat
  BY <1>1 DEF MoneyInv, BookTypes
<1>10. balance >= Cardinality(WaitingOrders)
  BY <1>2, <1>4, <1>5, <1>6, <1>7, <1>8, <1>9
<1> QED
  BY <1>9, <1>10 DEF CollateralAddsUp, SettledOrders, WaitingOrders

\* The books are balanced at first.
LEMMA BooksInit == Init => Books
<1> SUFFICES ASSUME Init PROVE Books
  OBVIOUS
<1>1. /\ leaves = << >> /\ Len(leaves) = 0 /\ usedNullifiers = {}
      /\ acceptedIn = [o \in Order |-> NoBatch] /\ batches = [b \in Batch |-> NotOpened]
      /\ balance = 0 /\ escrow = 0
  BY DEF Init
<1>2. /\ NotOpened \in Record /\ ~NotOpened.open /\ ~NotOpened.settled
      /\ NotOpened.orderCount = 0 /\ NotOpened.collateral = 0
  BY DEF NotOpened, Record
<1>3. Cardinality({}) = 0
  BY FS_EmptySet
<1>4. Accepted = {} /\ SettledOrders = {}
  BY <1>1 DEF Accepted, SettledOrders
<1>5. \A b \in Batch : InBatch(b) = {}
  BY <1>1, VaultValues DEF InBatch
<1>6. BookTypes
  <2>1. leaves \in Seq(Note)
    BY <1>1
  <2> QED
    BY <1>1, <1>2, <2>1 DEF BookTypes
<1>7. SpentInv
  BY <1>1, <1>3, <1>4 DEF SpentInv
<1>8. BatchInv
  BY <1>1, <1>2, <1>3, <1>5 DEF BatchInv
<1>9. MoneyInv
  BY <1>1, <1>3, <1>4 DEF MoneyInv
<1> QED
  BY <1>6, <1>7, <1>8, <1>9 DEF Books

\* A deposit pays for its leaf.
LEMMA DepositKeepsBooks ==
  ASSUME Books, NEW x \in Note, Deposit(x)
  PROVE  Books'
<1>1. /\ leaves' = Append(leaves, x) /\ balance' = balance + 1 /\ escrow' = escrow
      /\ usedNullifiers' = usedNullifiers /\ acceptedIn' = acceptedIn /\ batches' = batches
  BY DEF Deposit, orderVars
<1>2. /\ leaves \in Seq(Note) /\ acceptedIn \in [Order -> Batch \cup {NoBatch}]
      /\ batches \in [Batch -> Record] /\ balance \in Nat /\ escrow \in Nat
  BY DEF Books, BookTypes
<1>3. leaves' \in Seq(Note) /\ Len(leaves') = Len(leaves) + 1 /\ Len(leaves) \in Nat
      /\ \A i \in DOMAIN leaves : i \in DOMAIN leaves' /\ leaves'[i] = leaves[i]
  BY <1>1, <1>2
<1>4. BookTypes'
  BY <1>1, <1>2, <1>3 DEF BookTypes
<1>5. Accepted' = Accepted /\ SettledOrders' = SettledOrders
      /\ \A b : InBatch(b)' = InBatch(b)
  BY <1>1 DEF Accepted, SettledOrders, InBatch
<1>6. SpentInv'
  <2>1. Deposited \subseteq Deposited'
    BY <1>3 DEF Deposited
  <2> QED
    BY <1>1, <1>5, <2>1 DEF Books, SpentInv
<1>7. BatchInv'
  BY <1>1, <1>5 DEF Books, BatchInv
<1>8. MoneyInv'
  <2>1. balance + escrow = Len(leaves) /\ escrow = Cardinality(SettledOrders)
    BY DEF Books, MoneyInv
  <2>2. balance' + escrow' = Len(leaves')
    <3>1. balance' = balance + 1 /\ escrow' = escrow /\ Len(leaves') = Len(leaves) + 1
      BY <1>1, <1>3
    <3>2. balance \in Nat /\ escrow \in Nat /\ Len(leaves) \in Nat
      BY <1>2, <1>3
    <3> QED
      BY ONLY <2>1, <3>1, <3>2
  <2> QED
    BY <1>1, <1>5, <2>1, <2>2 DEF MoneyInv
<1> QED
  BY <1>4, <1>6, <1>7, <1>8 DEF Books

\* The record of a batch changes field by field.
LEMMA RecordFields ==
  ASSUME NEW r \in Record
  PROVE  /\ r.executeAfter \in Nat /\ r.orderCount \in Nat /\ r.collateral \in Nat
         /\ r.open \in BOOLEAN /\ r.settled \in BOOLEAN
BY DEF Record

\* Opening finds no orders and leaves none.
LEMMA OpenKeepsBooks ==
  ASSUME Books, NEW b \in Batch, NEW t \in 0 .. MaxNow, OpenBatch(b, t)
  PROVE  Books'
<1> DEFINE r == [NotOpened EXCEPT !.executeAfter = t, !.open = TRUE]
<1>1. /\ leaves' = leaves /\ balance' = balance /\ escrow' = escrow
      /\ usedNullifiers' = usedNullifiers /\ acceptedIn' = acceptedIn
      /\ batches' = [batches EXCEPT ![b] = r]
      /\ ~batches[b].open /\ ~batches[b].settled
  BY DEF OpenBatch, Openable, treeVars
<1>2. /\ leaves \in Seq(Note) /\ acceptedIn \in [Order -> Batch \cup {NoBatch}]
      /\ batches \in [Batch -> Record] /\ balance \in Nat /\ escrow \in Nat
  BY DEF Books, BookTypes
<1>3. /\ r \in Record /\ r.open /\ ~r.settled /\ r.orderCount = 0 /\ r.collateral = 0
  <2>1. t \in Nat
    BY VaultValues
  <2>2. r \in Record
    BY <2>1 DEF NotOpened, Record
  <2>3. PICK q : q = r
    OBVIOUS
  <2>4. q.orderCount = 0 /\ q.collateral = 0
    BY <2>3 DEF NotOpened
  <2>5. q.open = TRUE
    BY <2>3 DEF NotOpened
  <2>6. q.settled = FALSE
    BY <2>3 DEF NotOpened
  <2> HIDE DEF r
  <2> QED
    BY <2>2, <2>3, <2>4, <2>5, <2>6
<1> HIDE DEF r
<1>4. /\ batches' \in [Batch -> Record] /\ batches'[b] = r
      /\ \A c \in Batch : c # b => batches'[c] = batches[c]
  BY <1>1, <1>2, <1>3
<1>5. BookTypes'
  BY <1>1, <1>2, <1>4 DEF BookTypes
<1>6. Accepted' = Accepted /\ Deposited' = Deposited /\ \A c : InBatch(c)' = InBatch(c)
  BY <1>1 DEF Accepted, Deposited, InBatch
<1>7. SettledOrders' = SettledOrders
  <2>1. \A o \in Accepted : acceptedIn[o] \in Batch
    BY <1>2 DEF Accepted
  <2>2. \A o \in Accepted : batches'[acceptedIn[o]].settled = batches[acceptedIn[o]].settled
    <3> TAKE o \in Accepted
    <3>1. CASE acceptedIn[o] = b
      BY <1>1, <1>3, <1>4, <3>1, <1>2, RecordFields
    <3>2. CASE acceptedIn[o] # b
      BY <1>4, <2>1, <3>2
    <3> QED
      BY <3>1, <3>2
  <2> QED
    BY <1>1, <1>6, <2>2 DEF SettledOrders
<1>8. SpentInv'
  BY <1>1, <1>6 DEF Books, SpentInv
<1>9. BatchInv'
  <2>1. BatchInv
    BY DEF Books
  <2>2. batches[b].orderCount = 0 /\ Cardinality(InBatch(b)) = 0
    BY <1>1, <2>1 DEF BatchInv
  <2>3. ASSUME NEW c \in Batch
        PROVE  /\ batches'[c].orderCount = Cardinality(InBatch(c))
               /\ batches'[c].collateral = batches'[c].orderCount
               /\ batches'[c].open => ~batches'[c].settled
               /\ ~batches'[c].open /\ ~batches'[c].settled => batches'[c].orderCount = 0
    <3>1. CASE c = b
      BY <1>3, <1>4, <2>2, <3>1
    <3>2. CASE c # b
      BY <1>4, <2>1, <3>2 DEF BatchInv
    <3> QED
      BY <3>1, <3>2
  <2> QED
    BY <1>6, <2>3 DEF BatchInv
<1>10. MoneyInv'
  BY <1>1, <1>7 DEF Books, MoneyInv
<1> QED
  BY <1>5, <1>8, <1>9, <1>10 DEF Books

\* An accepted order is in a batch.
LEMMA BatchOfOrder ==
  ASSUME BookTypes, NEW o \in Accepted
  PROVE  acceptedIn[o] \in Batch /\ o \in Order
BY DEF BookTypes, Accepted

\* An accepted order spends a note and is counted.
LEMMA SubmitKeepsBooks ==
  ASSUME Books, NEW k \in DOMAIN leaves, NEW n \in Note, NEW o \in Order, NEW b \in Batch,
         SubmitPrivateOrder(k, n, o, b)
  PROVE  Books'
<1> DEFINE r == batches[b]
           q == [[r EXCEPT !.orderCount = r.orderCount + 1] EXCEPT !.collateral = r.collateral + 1]
<1>1. /\ leaves \in Seq(Note) /\ acceptedIn \in [Order -> Batch \cup {NoBatch}]
      /\ batches \in [Batch -> Record] /\ balance \in Nat /\ escrow \in Nat
      /\ BookTypes /\ SpentInv /\ BatchInv /\ MoneyInv
  BY DEF Books, BookTypes
<1>2. /\ leaves' = leaves /\ balance' = balance /\ escrow' = escrow
      /\ usedNullifiers' = usedNullifiers \cup {n}
      /\ acceptedIn' = [acceptedIn EXCEPT ![o] = b]
      /\ n \notin usedNullifiers /\ acceptedIn[o] = NoBatch
      /\ r.open /\ ~r.settled
  BY DEF SubmitPrivateOrder, Unspent, Unsealed, treeVars
<1>3. batches' = [batches EXCEPT ![b] = q]
  <2>1. batches' = [batches EXCEPT ![b].orderCount = @ + 1, ![b].collateral = @ + 1]
    BY DEF SubmitPrivateOrder
  <2> QED
    BY <1>1, <2>1
<1>4. r \in Record /\ r.orderCount \in Nat /\ r.collateral \in Nat
      /\ r.open \in BOOLEAN /\ r.settled \in BOOLEAN
  BY <1>1, RecordFields
<1>5. /\ q \in Record /\ q.orderCount = r.orderCount + 1 /\ q.collateral = r.collateral + 1
      /\ q.open = r.open /\ q.settled = r.settled
  <2>1. PICK x : x = r.orderCount + 1
    OBVIOUS
  <2>2. PICK y : y = r.collateral + 1
    OBVIOUS
  <2>3. x \in Nat /\ y \in Nat
    BY <1>4, <2>1, <2>2
  <2>4. q = [[r EXCEPT !.orderCount = x] EXCEPT !.collateral = y]
    BY <2>1, <2>2
  <2> HIDE DEF q, r
  <2>5. q \in Record /\ q.orderCount = x /\ q.collateral = y
        /\ q.open = r.open /\ q.settled = r.settled
    BY ONLY <1>4, <2>3, <2>4 DEF Record
  <2> QED
    BY <2>1, <2>2, <2>5
<1> HIDE DEF q
<1>6. /\ batches' \in [Batch -> Record] /\ batches'[b] = q
      /\ \A c \in Batch : c # b => batches'[c] = batches[c]
  BY <1>1, <1>3, <1>5
<1> HIDE DEF r
<1>7. /\ acceptedIn' \in [Order -> Batch \cup {NoBatch}] /\ acceptedIn'[o] = b
      /\ \A p \in Order : p # o => acceptedIn'[p] = acceptedIn[p]
  BY <1>1, <1>2
<1>8. BookTypes'
  BY <1>1, <1>2, <1>6, <1>7 DEF BookTypes
<1>9. b # NoBatch
  BY VaultValues
<1>10. Accepted' = Accepted \cup {o} /\ o \notin Accepted
  BY <1>2, <1>7, <1>9 DEF Accepted
<1>11. IsFiniteSet(Accepted) /\ IsFiniteSet(Deposited)
       /\ \A T \in SUBSET Order : IsFiniteSet(T) /\ Cardinality(T) \in Nat
  BY <1>1, BooksFinite
<1>12. SpentInv'
  <2>1. n \in Deposited
    <3>1. Proves(k, n)
      BY DEF SubmitPrivateOrder
    <3>2. k \in 1 .. Len(leaves)
      BY <1>1
    <3>3. 1 .. k \subseteq DOMAIN leaves
      BY <1>1, <3>2
    <3> QED
      BY <3>1, <3>3 DEF Proves, Deposited
  <2>2. Deposited' = Deposited
    BY <1>2 DEF Deposited
  <2>3. usedNullifiers \subseteq Deposited /\ Cardinality(Accepted) = Cardinality(usedNullifiers)
    BY <1>1 DEF SpentInv
  <2>4. IsFiniteSet(usedNullifiers)
    BY <1>11, <2>3, FS_Subset
  <2>5. Cardinality(usedNullifiers \cup {n}) = Cardinality(usedNullifiers) + 1
    BY <1>2, <2>4, FS_AddElement
  <2>6. Cardinality(Accepted \cup {o}) = Cardinality(Accepted) + 1
    BY <1>10, <1>11, FS_AddElement
  <2> QED
    BY <1>2, <1>10, <2>1, <2>2, <2>3, <2>5, <2>6 DEF SpentInv
<1>13. /\ InBatch(b)' = InBatch(b) \cup {o} /\ o \notin InBatch(b)
       /\ \A c : c # b => (c \in Batch => InBatch(c)' = InBatch(c))
  BY <1>2, <1>7, <1>9, VaultValues DEF InBatch
<1>14. InBatch(b) \in SUBSET Order
  BY DEF InBatch
<1>15. Cardinality(InBatch(b) \cup {o}) = Cardinality(InBatch(b)) + 1
  BY <1>11, <1>13, <1>14, FS_AddElement
<1>16. BatchInv'
  <2>1. ASSUME NEW c \in Batch
        PROVE  /\ batches'[c].orderCount = Cardinality(InBatch(c)')
               /\ batches'[c].collateral = batches'[c].orderCount
               /\ batches'[c].open => ~batches'[c].settled
               /\ ~batches'[c].open /\ ~batches'[c].settled => batches'[c].orderCount = 0
    <3>1. CASE c = b
      <4>1. r.orderCount = Cardinality(InBatch(b)) /\ r.collateral = r.orderCount
        BY <1>1 DEF BatchInv, r
      <4>2. q.orderCount = Cardinality(InBatch(b)') /\ q.collateral = q.orderCount
        BY <1>5, <1>13, <1>15, <4>1
      <4> QED
        BY <1>2, <1>5, <1>6, <3>1, <4>2
    <3>2. CASE c # b
      <4>1. InBatch(c)' = InBatch(c) /\ batches'[c] = batches[c]
        BY <1>6, <1>13, <3>2
      <4> QED
        BY <1>1, <4>1 DEF BatchInv
    <3> QED
      BY <3>1, <3>2
  <2> QED
    BY <2>1 DEF BatchInv
<1>17. SettledOrders' = SettledOrders
  <2>1. ~batches'[acceptedIn'[o]].settled
    BY <1>2, <1>5, <1>6, <1>7
  <2>2. \A p \in Accepted : batches'[acceptedIn'[p]].settled = batches[acceptedIn[p]].settled
    <3> TAKE p \in Accepted
    <3>1. p \in Order /\ p # o /\ acceptedIn[p] \in Batch
      BY <1>1, <1>10, BatchOfOrder
    <3>2. acceptedIn'[p] = acceptedIn[p]
      BY <1>7, <3>1
    <3>3. CASE acceptedIn[p] = b
      BY <1>5, <1>6, <3>2, <3>3 DEF r
    <3>4. CASE acceptedIn[p] # b
      BY <1>6, <3>1, <3>2, <3>4
    <3> QED
      BY <3>3, <3>4
  <2> QED
    BY <1>10, <2>1, <2>2 DEF SettledOrders
<1>18. MoneyInv'
  BY <1>1, <1>2, <1>17 DEF MoneyInv
<1> QED
  BY <1>8, <1>12, <1>16, <1>18 DEF Books

\* A settled batch pays for each of its orders.
LEMMA SettleKeepsBooks ==
  ASSUME Books, NEW b \in Batch, SettleBatch(b)
  PROVE  Books'
<1> DEFINE r == batches[b]
           q == [[r EXCEPT !.open = FALSE] EXCEPT !.settled = TRUE]
<1>1. /\ leaves \in Seq(Note) /\ acceptedIn \in [Order -> Batch \cup {NoBatch}]
      /\ batches \in [Batch -> Record] /\ balance \in Nat /\ escrow \in Nat
      /\ BookTypes /\ SpentInv /\ BatchInv /\ MoneyInv
  BY DEF Books, BookTypes
<1>2. /\ leaves' = leaves /\ usedNullifiers' = usedNullifiers /\ acceptedIn' = acceptedIn
      /\ balance' = balance - r.collateral /\ escrow' = escrow + r.collateral
      /\ r.collateral <= balance /\ r.open /\ ~r.settled
  BY DEF SettleBatch, Settleable, treeVars
<1>3. batches' = [batches EXCEPT ![b] = q]
  <2>1. batches' = [batches EXCEPT ![b].open = FALSE, ![b].settled = TRUE]
    BY DEF SettleBatch
  <2> QED
    BY <1>1, <2>1
<1>4. r \in Record /\ r.orderCount \in Nat /\ r.collateral \in Nat
  BY <1>1, RecordFields
<1>5. /\ q \in Record /\ q.orderCount = r.orderCount /\ q.collateral = r.collateral
      /\ q.open = FALSE /\ q.settled = TRUE
  BY <1>4 DEF Record
<1> HIDE DEF q
<1>6. /\ batches' \in [Batch -> Record] /\ batches'[b] = q
      /\ \A c \in Batch : c # b => batches'[c] = batches[c]
  BY <1>1, <1>3, <1>5
<1> HIDE DEF r
<1>7. balance' \in Nat /\ escrow' \in Nat /\ balance' + escrow' = balance + escrow
  <2>1. balance \in Nat /\ escrow \in Nat /\ r.collateral \in Nat /\ r.collateral <= balance
        /\ balance' = balance - r.collateral /\ escrow' = escrow + r.collateral
    BY <1>1, <1>2, <1>4
  <2> QED
    BY ONLY <2>1
<1>8. BookTypes'
  BY <1>1, <1>2, <1>6, <1>7 DEF BookTypes
<1>9. Accepted' = Accepted /\ Deposited' = Deposited /\ \A c : InBatch(c)' = InBatch(c)
  BY <1>2 DEF Accepted, Deposited, InBatch
<1>10. SpentInv'
  BY <1>1, <1>2, <1>9 DEF SpentInv
<1>11. r.orderCount = Cardinality(InBatch(b)) /\ r.collateral = r.orderCount
  BY <1>1 DEF BatchInv, r
<1>12. BatchInv'
  <2>1. ASSUME NEW c \in Batch
        PROVE  /\ batches'[c].orderCount = Cardinality(InBatch(c))
               /\ batches'[c].collateral = batches'[c].orderCount
               /\ batches'[c].open => ~batches'[c].settled
               /\ ~batches'[c].open /\ ~batches'[c].settled => batches'[c].orderCount = 0
    <3>1. CASE c = b
      BY <1>5, <1>6, <1>11, <3>1
    <3>2. CASE c # b
      BY <1>1, <1>6, <3>2 DEF BatchInv
    <3> QED
      BY <3>1, <3>2
  <2> QED
    BY <1>9, <2>1 DEF BatchInv
<1>13. SettledOrders' = SettledOrders \cup InBatch(b) /\ SettledOrders \cap InBatch(b) = {}
  <2>1. \A p \in Accepted : p \in Order /\ acceptedIn[p] \in Batch
    BY <1>1, BatchOfOrder
  <2>2. \A p \in Accepted : batches'[acceptedIn[p]].settled =
                              (acceptedIn[p] = b \/ batches[acceptedIn[p]].settled)
    <3> TAKE p \in Accepted
    <3>1. CASE acceptedIn[p] = b
      BY <1>5, <1>6, <3>1
    <3>2. CASE acceptedIn[p] # b
      <4>1. batches'[acceptedIn[p]] = batches[acceptedIn[p]]
        BY <1>6, <2>1, <3>2
      <4>2. batches[acceptedIn[p]].settled \in BOOLEAN
        BY <1>1, <2>1, RecordFields
      <4> QED
        BY <3>2, <4>1, <4>2
    <3> QED
      BY <3>1, <3>2
  <2>3. InBatch(b) \subseteq Accepted
    BY VaultValues DEF InBatch, Accepted
  <2>4. \A p \in InBatch(b) : ~batches[acceptedIn[p]].settled /\ acceptedIn[p] = b
    BY <1>2 DEF InBatch, r
  <2>5. \A p \in Order : acceptedIn[p] = b => p \in InBatch(b)
    BY DEF InBatch
  <2> QED
    BY <1>2, <1>9, <2>1, <2>2, <2>3, <2>4, <2>5 DEF SettledOrders
<1>14. MoneyInv'
  <2>1. \A T \in SUBSET Order : IsFiniteSet(T) /\ Cardinality(T) \in Nat
    BY <1>1, BooksFinite
  <2>2. SettledOrders \in SUBSET Order /\ InBatch(b) \in SUBSET Order
    BY DEF SettledOrders, Accepted, InBatch
  <2>3. Cardinality(SettledOrders \cup InBatch(b)) =
          Cardinality(SettledOrders) + Cardinality(InBatch(b)) - Cardinality({})
    BY <1>13, <2>1, <2>2, FS_Union
  <2>4. Cardinality({}) = 0 /\ Cardinality(SettledOrders) \in Nat /\ Cardinality(InBatch(b)) \in Nat
    BY <2>1, <2>2, FS_EmptySet
  <2>5. balance + escrow = Len(leaves) /\ escrow = Cardinality(SettledOrders)
    BY <1>1 DEF MoneyInv
  <2>6. escrow' = Cardinality(SettledOrders')
    BY <1>2, <1>11, <1>13, <2>3, <2>4, <2>5
  <2> QED
    BY <1>2, <1>7, <2>5, <2>6 DEF MoneyInv
<1> QED
  BY <1>8, <1>10, <1>12, <1>14 DEF Books

-----------------------------------------------------------------------------
(* The vault.                                                              *)

VaultIInv == TreeIInv /\ Books /\ now \in 0 .. MaxNow

\* The types follow: the ring has room for the known roots.
LEMMA VaultTypes == VaultIInv => TypeOK
<1> SUFFICES ASSUME VaultIInv PROVE TypeOK
  OBVIOUS
<1> DEFINE n == Len(leaves)
           o == Oldest(n)
           R == RootHistorySize
<1>1. TreeIInv /\ TreeTypes /\ KnownRootsAreRecent /\ Books /\ BookTypes /\ SpentInv
  BY DEF VaultIInv, TreeIInv, Books
<1>2. n \in Nat /\ R \in Nat /\ R >= 1
  BY <1>1, VaultValues DEF TreeTypes
<1>3. o = IF n < R THEN 0 ELSE n - R + 1
  BY DEF Oldest
<1>4. \A r : r \in knownRoots <=> \E k \in o .. n : r = Prefix(leaves, k)
  BY <1>1, KnownDef
<1> HIDE DEF n, o, R
<1>5. o \in Nat /\ n - o + 1 <= R /\ ~(o > n)
  BY <1>2, <1>3
<1>6. IsFiniteSet(o .. n) /\ Cardinality(o .. n) = n - o + 1
  <2>1. IsFiniteSet(o .. n) /\ Cardinality(o .. n) = IF o > n THEN 0 ELSE n - o + 1
    BY <1>2, <1>5, FS_Interval
  <2> QED
    BY <1>5, <2>1
<1> DEFINE f == [k \in o .. n |-> Prefix(leaves, k)]
<1>7. f \in Surjection(o .. n, knownRoots)
  BY <1>4 DEF Surjection
<1> HIDE DEF f
<1>8. IsFiniteSet(knownRoots) /\ Cardinality(knownRoots) <= Cardinality(o .. n)
  BY <1>6, <1>7, FS_Surjection
<1>9. Cardinality(knownRoots) \in Nat
  BY <1>8, FS_CardinalityType
<1>10. Cardinality(knownRoots) <= RootHistorySize
  BY <1>2, <1>5, <1>6, <1>8, <1>9 DEF R
<1>11. usedNullifiers \subseteq Note
  BY <1>1 DEF SpentInv, Deposited, TreeTypes
<1>12. now \in 0 .. MaxNow
  BY DEF VaultIInv
<1> QED
  BY <1>1, <1>10, <1>11, <1>12 DEF TypeOK, TreeTypes, BookTypes

\* The tree is what its variables are.
LEMMA TreeStutters == ASSUME TreeIInv, UNCHANGED treeVars PROVE TreeIInv'
<1>1. /\ leaves' = leaves /\ filledSubtrees' = filledSubtrees /\ roots' = roots
      /\ currentRootIndex' = currentRootIndex /\ knownRoots' = knownRoots
  BY DEF treeVars
<1>2. TreeTypes'
  BY <1>1 DEF TreeIInv, TreeTypes
<1>3. FilledInv'
  BY <1>1 DEF TreeIInv, FilledInv
<1>4. RingInv'
  BY <1>1 DEF TreeIInv, RingInv
<1>5. KnownRootsAreRecent'
  BY <1>1 DEF TreeIInv, KnownRootsAreRecent
<1> QED
  BY <1>2, <1>3, <1>4, <1>5 DEF TreeIInv

\* The books are what their variables are.
LEMMA BooksStutter ==
  ASSUME Books, leaves' = leaves, UNCHANGED orderVars, balance' = balance, escrow' = escrow
  PROVE  Books'
<1>1. usedNullifiers' = usedNullifiers /\ acceptedIn' = acceptedIn /\ batches' = batches
  BY DEF orderVars
<1>2. BookTypes'
  BY <1>1 DEF Books, BookTypes
<1>3. SpentInv'
  BY <1>1 DEF Books, SpentInv, Deposited, Accepted
<1>4. BatchInv'
  BY <1>1 DEF Books, BatchInv, InBatch
<1>5. MoneyInv'
  BY <1>1 DEF Books, MoneyInv, SettledOrders, Accepted
<1> QED
  BY <1>2, <1>3, <1>4, <1>5 DEF Books

\* Every action of the vault keeps its tree, its books and its clock.
LEMMA VaultNext == ASSUME VaultIInv, [Next]_vars PROVE VaultIInv'
<1>1. TreeIInv /\ Books /\ now \in 0 .. MaxNow
  BY DEF VaultIInv
<1>2. ASSUME NEW x \in Note, Deposit(x) PROVE VaultIInv'
  <2>1. now' = now
    BY <1>2 DEF Deposit
  <2> QED
    BY <1>1, <1>2, <2>1, DepositKeepsTree, DepositKeepsBooks DEF VaultIInv
<1>3. ASSUME NEW b \in Batch, NEW t \in 0 .. MaxNow, OpenBatch(b, t) PROVE VaultIInv'
  <2>1. UNCHANGED treeVars /\ now' = now
    BY <1>3 DEF OpenBatch
  <2> QED
    BY <1>1, <1>3, <2>1, TreeStutters, OpenKeepsBooks DEF VaultIInv
<1>4. ASSUME NEW k \in DOMAIN leaves, NEW n \in Note, NEW o \in Order, NEW b \in Batch,
             SubmitPrivateOrder(k, n, o, b)
      PROVE  VaultIInv'
  <2>1. UNCHANGED treeVars /\ now' = now
    BY <1>4 DEF SubmitPrivateOrder
  <2> QED
    BY <1>1, <1>4, <2>1, TreeStutters, SubmitKeepsBooks DEF VaultIInv
<1>5. ASSUME NEW b \in Batch, SettleBatch(b) PROVE VaultIInv'
  <2>1. UNCHANGED treeVars /\ now' = now
    BY <1>5 DEF SettleBatch
  <2> QED
    BY <1>1, <1>5, <2>1, TreeStutters, SettleKeepsBooks DEF VaultIInv
<1>6. CASE Tick
  <2>1. UNCHANGED treeVars /\ UNCHANGED orderVars /\ balance' = balance /\ escrow' = escrow
    BY <1>6 DEF Tick
  <2>2. now' \in 0 .. MaxNow
    BY <1>1, <1>6, VaultValues DEF Tick
  <2>3. leaves' = leaves
    BY <2>1 DEF treeVars
  <2> QED
    BY <1>1, <2>1, <2>2, <2>3, TreeStutters, BooksStutter DEF VaultIInv
<1>7. CASE UNCHANGED vars
  <2>1. UNCHANGED treeVars /\ UNCHANGED orderVars /\ balance' = balance /\ escrow' = escrow
        /\ now' = now
    BY <1>7 DEF vars
  <2>2. leaves' = leaves
    BY <2>1 DEF treeVars
  <2> QED
    BY <1>1, <2>1, <2>2, TreeStutters, BooksStutter DEF VaultIInv
<1> QED
  BY <1>2, <1>3, <1>4, <1>5, <1>6, <1>7 DEF Next

\* No step lifts a seal or adds an order to a sealed batch.
LEMMA SealHolds ==
  ASSUME VaultIInv, [Next]_vars, NEW b \in Batch, Sealed(b)
  PROVE  /\ Sealed(b)'
         /\ {o \in Order : acceptedIn'[o] = b} = {o \in Order : acceptedIn[o] = b}
<1> DEFINE Same == {o \in Order : acceptedIn'[o] = b} = {o \in Order : acceptedIn[o] = b}
           Holds == Sealed(b)' /\ Same
<1>1. /\ acceptedIn \in [Order -> Batch \cup {NoBatch}] /\ batches \in [Batch -> Record]
      /\ now \in Nat /\ BatchInv
  BY VaultValues DEF VaultIInv, Books, BookTypes
<1>2. batches[b].orderCount > 0 /\ now >= batches[b].executeAfter
      /\ batches[b] \in Record /\ batches[b].executeAfter \in Nat /\ batches[b].orderCount \in Nat
  BY <1>1, RecordFields DEF Sealed
<1>3. ASSUME NEW x \in Note, Deposit(x) PROVE Holds
  <2>1. acceptedIn' = acceptedIn /\ batches' = batches /\ now' = now
    BY <1>3 DEF Deposit, orderVars
  <2> QED
    BY <1>2, <2>1 DEF Sealed
<1>4. ASSUME NEW c \in Batch, NEW t \in 0 .. MaxNow, OpenBatch(c, t) PROVE Holds
  <2>1. acceptedIn' = acceptedIn /\ now' = now /\ ~batches[c].open /\ ~batches[c].settled
    BY <1>4 DEF OpenBatch, Openable
  <2>2. batches[c].orderCount = 0
    BY <1>1, <2>1 DEF BatchInv
  <2>3. b # c
    BY <1>2, <2>2
  <2>4. batches'[b] = batches[b]
    BY <1>1, <1>4, <2>3 DEF OpenBatch
  <2> QED
    BY <1>2, <2>1, <2>4 DEF Sealed
<1>5. ASSUME NEW k \in DOMAIN leaves, NEW n \in Note, NEW o \in Order, NEW c \in Batch,
             SubmitPrivateOrder(k, n, o, c)
      PROVE  Holds
  <2>1. acceptedIn' = [acceptedIn EXCEPT ![o] = c] /\ acceptedIn[o] = NoBatch /\ now' = now
        /\ now < batches[c].executeAfter
    BY <1>5 DEF SubmitPrivateOrder, Unspent, Unsealed
  <2>2. batches[c] \in Record /\ batches[c].executeAfter \in Nat
    BY <1>1, RecordFields
  <2>3. b # c
    <3> SUFFICES ASSUME b = c PROVE FALSE
      OBVIOUS
    <3>1. now < batches[b].executeAfter /\ now >= batches[b].executeAfter
      BY <1>2, <2>1
    <3> QED
      BY ONLY <1>1, <1>2, <3>1
  <2>4. batches'[b] = batches[b]
    BY <1>1, <1>5, <2>3 DEF SubmitPrivateOrder
  <2>5. Same
    <3>1. \A p \in Order : acceptedIn'[p] = IF p = o THEN c ELSE acceptedIn[p]
      BY <1>1, <2>1
    <3>2. b # NoBatch
      BY VaultValues
    <3> QED
      BY <2>1, <2>3, <3>1, <3>2
  <2> QED
    BY <1>2, <2>1, <2>4, <2>5 DEF Sealed
<1>6. ASSUME NEW c \in Batch, SettleBatch(c) PROVE Holds
  <2>1. acceptedIn' = acceptedIn /\ now' = now
        /\ batches' = [batches EXCEPT ![c].open = FALSE, ![c].settled = TRUE]
    BY <1>6 DEF SettleBatch
  <2>2. batches'[b].orderCount = batches[b].orderCount
    BY <1>1, <1>2, <2>1 DEF Record
  <2>3. batches'[b].executeAfter = batches[b].executeAfter
    BY <1>1, <1>2, <2>1 DEF Record
  <2> QED
    BY <1>2, <2>1, <2>2, <2>3 DEF Sealed
<1>7. ASSUME Tick PROVE Holds
  <2>1. acceptedIn' = acceptedIn /\ batches' = batches /\ now' = now + 1
    BY <1>7 DEF Tick, orderVars
  <2>2. now' >= batches[b].executeAfter
    BY <1>1, <1>2, <2>1
  <2> QED
    BY <1>2, <2>1, <2>2 DEF Sealed
<1>8. ASSUME UNCHANGED vars PROVE Holds
  <2>1. acceptedIn' = acceptedIn /\ batches' = batches /\ now' = now
    BY <1>8 DEF vars, orderVars
  <2> QED
    BY <1>2, <2>1 DEF Sealed
<1> HIDE DEF Holds
<1>9. Holds
  BY <1>3, <1>4, <1>5, <1>6, <1>7, <1>8 DEF Next
<1> QED
  BY <1>9 DEF Holds

\* The newest root is the root of the tree of all leaves.
LEMMA TreeIsSoundInv == TreeIInv => TreeIsSound
<1> SUFFICES ASSUME TreeIInv PROVE TreeIsSound
  OBVIOUS
<1>1. leaves \in Seq(Note) /\ currentRootIndex \in RootIndex /\ RingInv /\ KnownRootsAreRecent
  BY DEF TreeIInv, TreeTypes
<1>2. Len(leaves) \in Nat /\ currentRootIndex \in Nat /\ 0 \in RootIndex
  BY <1>1, VaultValues DEF RootIndex
<1>3. Slot(currentRootIndex, 0) = currentRootIndex /\ 0 <= Len(leaves) /\ Len(leaves) - 0 = Len(leaves)
  BY <1>2 DEF Slot
<1>4. roots[currentRootIndex] = Prefix(leaves, Len(leaves))
  BY <1>1, <1>2, <1>3 DEF RingInv
<1>5. Prefix(leaves, Len(leaves)) = Root(leaves)
  BY <1>1, SubSeqFull DEF Prefix
<1> QED
  BY <1>1, <1>4, <1>5 DEF TreeIsSound, RootIsMerkle

\* A step of the contracts is a step of the vault or leaves it alone.
LEMMA StepIsVault == [NextPart]_allVars => [Next]_vars
BY DEF NextPart, allVars

\* The vault's tree and books are kept by every behaviour.
THEOREM VaultInvariant == SpecPart => []VaultIInv
<1>1. InitPart => VaultIInv
  <2> SUFFICES ASSUME Init PROVE VaultIInv
    BY DEF InitPart
  <2>1. now \in 0 .. MaxNow
    BY VaultValues DEF Init
  <2> QED
    BY <2>1, TreeInit, BooksInit DEF VaultIInv
<1>2. VaultIInv /\ [NextPart]_allVars => VaultIInv'
  BY StepIsVault, VaultNext
<1> QED
  BY <1>1, <1>2, PTL DEF SpecPart

\* For every tree and ring the root that an insertion computes along one path
\* from what it kept is the Merkle root of all leaves, and the known roots are
\* those after the last insertions (_insert, isKnownRoot).
THEOREM TreeSound == SpecPart => []TreeIsSound
<1>1. VaultIInv => TreeIsSound
  BY TreeIsSoundInv DEF VaultIInv
<1> QED
  BY <1>1, VaultInvariant, PTL

\* The vault and the escrow account for every deposit, and no batch gets an
\* order once it is sealed (_acceptOrder, settleBatch).
THEOREM BatchesKept == SpecPart => BatchesAddUp
<1>1. VaultIInv => CollateralAddsUp
  BY BooksAddUp DEF VaultIInv
<1>2. VaultIInv /\ [NextPart]_allVars =>
        [\A b \in Batch : Sealed(b) =>
           /\ Sealed(b)'
           /\ {o \in Order : acceptedIn'[o] = b} = {o \in Order : acceptedIn[o] = b}]_vars
  BY StepIsVault, SealHolds
<1> QED
  BY <1>1, <1>2, VaultInvariant, PTL DEF SpecPart, BatchesAddUp, SealedStaysSealed

-----------------------------------------------------------------------------
(* The types of the bundler.                                               *)

TxRecord == [uop : Sponsor!UserOp, nonce : Nat, state : Sponsor!State, at : 0 .. MaxBlock]
RequestRecord == [stage : {"idle", "prepared", "sent"}, uop : Sponsor!UserOp \cup {NoOp},
                  nonce : Nat, tx : Nat]

\* A request is idle, or has a user operation and, once sent, its transaction.
Fits(r) ==
  \/ aaRequest[r] = Sponsor!Idle
  \/ /\ aaRequest[r].stage \in {"prepared", "sent"}
     /\ aaRequest[r].uop \in Sponsor!UserOp
     /\ aaRequest[r].stage = "sent" =>
          /\ aaRequest[r].tx \in DOMAIN aaTxs
          /\ aaTxs[aaRequest[r].tx].uop = aaRequest[r].uop

RequestTypes == aaRequest \in [Request -> RequestRecord] /\ \A r \in Request : Fits(r)
OperationTypes ==
  /\ DOMAIN aaOperations \subseteq Sponsor!UserOp
  /\ \A u \in DOMAIN aaOperations :
       aaOperations[u] \in DOMAIN aaTxs /\ aaTxs[aaOperations[u]].uop = u
TxTypes == aaTxs \in Seq(TxRecord) /\ Len(aaTxs) <= MaxTx
OtherTypes ==
  /\ aaSigned \subseteq [op : Op, until : Sponsor!Until, at : 1 .. MaxBlock]
  /\ aaEnabled \in BOOLEAN /\ aaSigner \in Sponsor!Key /\ aaSponsored \in Target
  /\ aaDeposit \in Nat /\ aaAdmin \in Nat
  /\ aaNow \in 1 .. MaxBlock

SponsorTypes == RequestTypes /\ OperationTypes /\ TxTypes /\ OtherTypes

\* They are what the bundler's type invariant says and a little more.
LEMMA SponsorTypesEnough == SponsorTypes => Sponsor!TypeOK
BY DEF SponsorTypes, RequestTypes, OperationTypes, TxTypes, OtherTypes, Fits, TxRecord,
       Sponsor!TypeOK

\* The bounds of the bundler.
LEMMA SponsorValues ==
  /\ NonceOf \in [Op -> Nat] /\ TargetOf \in [Op -> Target] /\ DOMAIN SenderOf = Op
  /\ ValidSeconds \in Nat /\ LogWindow \in Nat /\ FirstDeposit \in Nat /\ MaxTx \in Nat
  /\ MaxBlock \in Nat /\ MaxBlock >= 1 /\ NotSponsored \notin Nat
BY SponsorAssumption DEF Sponsor!OpAssumption, Sponsor!TimeAssumption

\* Cardinality is the same in the component's module.
LEMMA SponsorCounts == \A S : Sponsor!Cardinality(S) = Cardinality(S)
BY DEF Sponsor!Cardinality, Cardinality, Sponsor!IsFiniteSet, IsFiniteSet

\* The types hold at first.
LEMMA SponsorTypesInit == Sponsor!Init => SponsorTypes
<1> SUFFICES ASSUME Sponsor!Init PROVE SponsorTypes
  OBVIOUS
<1>1. RequestTypes
  <2>1. aaRequest = [r \in Request |-> Sponsor!Idle]
    BY DEF Sponsor!Init
  <2>2. Sponsor!Idle \in RequestRecord
    BY DEF Sponsor!Idle, RequestRecord
  <2> QED
    BY <2>1, <2>2 DEF RequestTypes, Fits
<1>2. OperationTypes
  BY DEF Sponsor!Init, OperationTypes
<1>3. TxTypes
  <2>1. aaTxs = << >> /\ << >> \in Seq(TxRecord) /\ Len(<< >>) = 0
    BY DEF Sponsor!Init
  <2> QED
    BY <2>1, SponsorValues DEF TxTypes
<1>4. OtherTypes
  BY SponsorValues DEF Sponsor!Init, OtherTypes, Sponsor!Key
<1> QED
  BY <1>1, <1>2, <1>3, <1>4 DEF SponsorTypes

\* Requests and operations refer to transactions that stay what they were.
TxsGrow ==
  /\ DOMAIN aaTxs \subseteq DOMAIN aaTxs'
  /\ \A i \in DOMAIN aaTxs :
       /\ aaTxs'[i].uop = aaTxs[i].uop
       /\ aaTxs'[i].at = aaTxs[i].at
       /\ \/ aaTxs'[i].state = aaTxs[i].state
          \/ aaTxs[i].state \in {"pending", "replaced"} /\ aaTxs'[i].state = "replaced"
  /\ \A i \in DOMAIN aaTxs' \ DOMAIN aaTxs : aaTxs'[i].state = "pending"

\* Nothing grows while nothing is sent.
LEMMA TxsStutter == ASSUME aaTxs' = aaTxs PROVE TxsGrow
BY DEF TxsGrow

\* What a submission does to the transactions.
LEMMA SubmitGrows ==
  ASSUME SponsorTypes, NEW r \in Request, Sponsor!Submit(r)
  PROVE  /\ TxsGrow /\ TxTypes'
         /\ DOMAIN aaTxs' = DOMAIN aaTxs \cup {Len(aaTxs) + 1} /\ Len(aaTxs) + 1 \notin DOMAIN aaTxs
         /\ aaTxs'[Len(aaTxs) + 1].uop = aaRequest[r].uop
         /\ aaRequest[r].uop \in Sponsor!UserOp
<1> DEFINE n == Len(aaTxs)
           q == aaRequest[r]
           new == [uop |-> q.uop, nonce |-> q.nonce, state |-> "pending", at |-> 0]
           Old(i) == IF i \in Sponsor!Rival(r) THEN [aaTxs[i] EXCEPT !.state = "replaced"]
                     ELSE aaTxs[i]
           old == [i \in DOMAIN aaTxs |-> Old(i)]
<1>1. /\ q.stage = "prepared" /\ n < MaxTx
      /\ \A i \in Sponsor!Rival(r) : aaTxs[i].state \in {"pending", "replaced"}
      /\ aaTxs' = Append(old, new)
  BY DEF Sponsor!Submit
<1>2. aaTxs \in Seq(TxRecord) /\ n \in Nat /\ DOMAIN aaTxs = 1 .. n
      /\ \A i \in DOMAIN aaTxs : aaTxs[i] \in TxRecord
  BY DEF SponsorTypes, TxTypes
<1>3. q \in RequestRecord /\ q.nonce \in Nat /\ q.uop \in Sponsor!UserOp
  <2>1. q \in RequestRecord /\ Fits(r)
    BY DEF SponsorTypes, RequestTypes
  <2>2. q # Sponsor!Idle
    BY <1>1 DEF Sponsor!Idle
  <2> QED
    BY <2>1, <2>2 DEF Fits, RequestRecord
<1>4. new \in TxRecord /\ new.uop = q.uop /\ new.state = "pending"
  BY <1>3, SponsorValues DEF TxRecord, Sponsor!State
<1> HIDE DEF q, new
<1>5. \A i \in DOMAIN aaTxs :
        /\ Old(i) \in TxRecord /\ Old(i).uop = aaTxs[i].uop /\ Old(i).at = aaTxs[i].at
        /\ \/ Old(i).state = aaTxs[i].state
           \/ aaTxs[i].state \in {"pending", "replaced"} /\ Old(i).state = "replaced"
  BY <1>1, <1>2 DEF TxRecord, Sponsor!State
<1> HIDE DEF Old
<1>6. old \in Seq(TxRecord) /\ Len(old) = n /\ \A i \in DOMAIN aaTxs : old[i] = Old(i)
  BY <1>2, <1>5
<1> HIDE DEF old, n
<1>7. /\ aaTxs' \in Seq(TxRecord) /\ Len(aaTxs') = n + 1 /\ DOMAIN aaTxs' = 1 .. n + 1
      /\ aaTxs'[n + 1] = new /\ \A i \in 1 .. n : aaTxs'[i] = old[i]
  BY <1>1, <1>2, <1>4, <1>6
<1>8. DOMAIN aaTxs' = DOMAIN aaTxs \cup {n + 1} /\ n + 1 \notin DOMAIN aaTxs
  BY <1>2, <1>7
<1>9. TxTypes'
  <2>1. Len(aaTxs') <= MaxTx
    BY <1>1, <1>2, <1>7, SponsorValues
  <2> QED
    BY <1>7, <2>1 DEF TxTypes
<1>10. TxsGrow
  BY <1>2, <1>4, <1>5, <1>6, <1>7, <1>8 DEF TxsGrow
<1> QED
  BY <1>3, <1>4, <1>7, <1>8, <1>9, <1>10 DEF q, n

\* What mining does to the transactions.
LEMMA MineChanges ==
  ASSUME SponsorTypes, Sponsor!Mine
  PROVE  \E i \in DOMAIN aaTxs : \E outcome \in Sponsor!Mined \cup {"reverted"} :
           /\ aaTxs[i].state = "pending"
           /\ outcome \in Sponsor!Mined <=> Sponsor!Passes(aaTxs[i].uop)
           /\ aaTxs' \in Seq(TxRecord) /\ Len(aaTxs') = Len(aaTxs) /\ DOMAIN aaTxs' = DOMAIN aaTxs
           /\ aaTxs'[i].state = outcome /\ aaTxs'[i].at = aaNow
           /\ aaTxs'[i].uop = aaTxs[i].uop
           /\ \A j \in DOMAIN aaTxs : j # i => aaTxs'[j] = aaTxs[j]
           /\ aaDeposit' = IF outcome \in Sponsor!Mined /\ Sponsor!IsSponsored(aaTxs[i].uop)
                           THEN aaDeposit - 1 ELSE aaDeposit
           /\ UNCHANGED <<aaSigned, aaRequest, aaOperations, aaEnabled, aaSigner, aaSponsored,
                          aaAdmin, aaNow>>
<1>1. PICK i \in DOMAIN aaTxs :
        /\ aaTxs[i].state = "pending"
        /\ \E outcome \in IF Sponsor!Passes(aaTxs[i].uop) THEN Sponsor!Mined ELSE {"reverted"} :
             /\ aaTxs' = [aaTxs EXCEPT ![i].state = outcome, ![i].at = aaNow]
             /\ aaDeposit' = IF outcome \in Sponsor!Mined /\ Sponsor!IsSponsored(aaTxs[i].uop)
                             THEN aaDeposit - 1 ELSE aaDeposit
        /\ UNCHANGED <<aaSigned, aaRequest, aaOperations, aaEnabled, aaSigner, aaSponsored,
                       aaAdmin, aaNow>>
  BY DEF Sponsor!Mine, Sponsor!bundlerVars
<1>2. PICK outcome \in IF Sponsor!Passes(aaTxs[i].uop) THEN Sponsor!Mined ELSE {"reverted"} :
        /\ aaTxs' = [aaTxs EXCEPT ![i].state = outcome, ![i].at = aaNow]
        /\ aaDeposit' = IF outcome \in Sponsor!Mined /\ Sponsor!IsSponsored(aaTxs[i].uop)
                        THEN aaDeposit - 1 ELSE aaDeposit
  BY <1>1
<1>3. /\ outcome \in Sponsor!Mined \cup {"reverted"}
      /\ outcome \in Sponsor!Mined <=> Sponsor!Passes(aaTxs[i].uop)
  BY <1>2 DEF Sponsor!Mined
<1> DEFINE t == aaTxs[i]
           q == [[t EXCEPT !.state = outcome] EXCEPT !.at = aaNow]
<1>4. /\ aaTxs \in Seq(TxRecord) /\ t \in TxRecord /\ aaNow \in 1 .. MaxBlock
      /\ DOMAIN aaTxs = 1 .. Len(aaTxs) /\ Len(aaTxs) \in Nat
  BY DEF SponsorTypes, TxTypes, OtherTypes
<1>5. aaTxs' = [aaTxs EXCEPT ![i] = q]
  BY <1>2, <1>4
<1>6. q \in TxRecord /\ q.state = outcome /\ q.at = aaNow /\ q.uop = t.uop
  <2>1. aaNow \in 0 .. MaxBlock /\ outcome \in Sponsor!State
    BY <1>3, <1>4, SponsorValues DEF Sponsor!State
  <2> HIDE DEF t
  <2> QED
    BY <1>4, <2>1 DEF TxRecord
<1> HIDE DEF q
<1>7. /\ aaTxs' \in Seq(TxRecord) /\ Len(aaTxs') = Len(aaTxs) /\ DOMAIN aaTxs' = DOMAIN aaTxs
      /\ aaTxs'[i] = q /\ \A j \in DOMAIN aaTxs : j # i => aaTxs'[j] = aaTxs[j]
  BY <1>4, <1>5, <1>6
<1> QED
  BY <1>1, <1>2, <1>3, <1>6, <1>7

\* What refers to a transaction still does after the transactions grew.
LEMMA GrowKeepsReferences ==
  ASSUME SponsorTypes, TxsGrow
  PROVE  /\ \A r \in Request : aaRequest'[r] = aaRequest[r] => Fits(r)'
         /\ aaOperations' = aaOperations => OperationTypes'
<1>1. \A i \in DOMAIN aaTxs : i \in DOMAIN aaTxs' /\ aaTxs'[i].uop = aaTxs[i].uop
  BY DEF TxsGrow
<1>2. ASSUME NEW r \in Request, aaRequest'[r] = aaRequest[r] PROVE Fits(r)'
  <2>1. Fits(r)
    BY DEF SponsorTypes, RequestTypes
  <2> QED
    BY <1>1, <1>2, <2>1 DEF Fits
<1>3. ASSUME aaOperations' = aaOperations PROVE OperationTypes'
  <2>1. OperationTypes
    BY DEF SponsorTypes
  <2> QED
    BY <1>1, <1>3, <2>1 DEF OperationTypes
<1> QED
  BY <1>2, <1>3

\* When no transaction is sent or mined, an unchanged map keeps its types.
LEMMA QuietTypes ==
  ASSUME SponsorTypes, aaTxs' = aaTxs, RequestTypes', OperationTypes', OtherTypes'
  PROVE  SponsorTypes'
BY DEF SponsorTypes, TxTypes

\* The account nonce after those of all transactions is a number.
LEMMA NextNonceIsNat == SponsorTypes => Sponsor!NextNonce \in Nat
<1> SUFFICES ASSUME SponsorTypes PROVE Sponsor!NextNonce \in Nat
  OBVIOUS
<1> DEFINE f == [i \in DOMAIN aaTxs |-> aaTxs[i].nonce]
           T == {aaTxs[i].nonce : i \in DOMAIN aaTxs}
<1>1. DOMAIN aaTxs = 1 .. Len(aaTxs) /\ Len(aaTxs) \in Nat
  BY DEF SponsorTypes, TxTypes
<1>2. IsFiniteSet(DOMAIN aaTxs)
  BY <1>1, FS_Interval
<1>3. f \in Surjection(DOMAIN aaTxs, T)
  BY DEF Surjection
<1> HIDE DEF f
<1>4. Cardinality(T) \in Nat
  BY <1>2, <1>3, FS_Surjection, FS_CardinalityType
<1> QED
  BY <1>4, SponsorCounts DEF Sponsor!NextNonce

\* Every step of the bundler, its paymaster and the chain keeps the types.
LEMMA SponsorTypesNext == ASSUME SponsorTypes, [Sponsor!Next]_aaVars PROVE SponsorTypes'
<1>1. RequestTypes /\ OperationTypes /\ TxTypes /\ OtherTypes
  BY DEF SponsorTypes
<1>2. aaRequest \in [Request -> RequestRecord] /\ \A r \in Request : Fits(r)
  BY <1>1 DEF RequestTypes
<1>3. aaNow \in 1 .. MaxBlock /\ aaNow \in Nat /\ aaAdmin \in Nat /\ aaDeposit \in Nat
      /\ aaEnabled \in BOOLEAN /\ aaSigner \in Sponsor!Key /\ aaSponsored \in Target
      /\ aaSigned \subseteq [op : Op, until : Sponsor!Until, at : 1 .. MaxBlock]
  BY <1>1 DEF OtherTypes
<1> DEFINE Same == /\ aaTxs' = aaTxs /\ aaRequest' = aaRequest /\ aaOperations' = aaOperations
           Others == aaSigned' = aaSigned /\ aaEnabled' = aaEnabled /\ aaSigner' = aaSigner
                     /\ aaSponsored' = aaSponsored /\ aaDeposit' = aaDeposit
                     /\ aaAdmin' = aaAdmin /\ aaNow' = aaNow
<1>4. ASSUME Same PROVE TxsGrow /\ RequestTypes' /\ OperationTypes' /\ aaTxs' = aaTxs
  <2>1. TxsGrow
    BY <1>4, TxsStutter
  <2> QED
    BY <1>2, <1>4, <2>1, GrowKeepsReferences DEF RequestTypes
<1>5. ASSUME Others PROVE OtherTypes'
  BY <1>1, <1>5 DEF OtherTypes
<1>6. ASSUME NEW o \in Op, Sponsor!SponsorUserOperation(o) PROVE SponsorTypes'
  <2>1. Same /\ aaNow' = aaNow /\ aaEnabled' = aaEnabled /\ aaSigner' = aaSigner
        /\ aaSponsored' = aaSponsored /\ aaDeposit' = aaDeposit /\ aaAdmin' = aaAdmin
        /\ aaSigned' = aaSigned \cup {[op |-> o, until |-> aaNow + ValidSeconds, at |-> aaNow]}
    BY <1>6 DEF Sponsor!SponsorUserOperation, Sponsor!paymasterVars, Sponsor!ValidUntil
  <2>2. aaNow + ValidSeconds \in Sponsor!Until
    BY <1>3, SponsorValues DEF Sponsor!Until
  <2>3. OtherTypes'
    BY <1>3, <2>1, <2>2 DEF OtherTypes
  <2> QED
    BY <1>4, <2>1, <2>3, QuietTypes
<1>7. ASSUME NEW r \in Request, NEW u \in Sponsor!UserOp, Sponsor!Prepare(r, u) PROVE SponsorTypes'
  <2> DEFINE q == [stage |-> "prepared", uop |-> u, nonce |-> Sponsor!NextNonce, tx |-> 0]
  <2>1. aaTxs' = aaTxs /\ aaOperations' = aaOperations /\ Others
        /\ aaRequest' = [aaRequest EXCEPT ![r] = q]
    BY <1>7 DEF Sponsor!Prepare, Sponsor!paymasterVars
  <2>2. q \in RequestRecord /\ q.stage = "prepared" /\ q.uop = u
    BY NextNonceIsNat DEF RequestRecord
  <2> HIDE DEF q
  <2>3. aaRequest' \in [Request -> RequestRecord] /\ aaRequest'[r] = q
        /\ \A s \in Request : s # r => aaRequest'[s] = aaRequest[s]
    BY <1>2, <2>1, <2>2
  <2>4. TxsGrow
    BY <2>1, TxsStutter
  <2>5. Fits(r)'
    BY <2>2, <2>3 DEF Fits
  <2>6. RequestTypes' /\ OperationTypes'
    BY <2>1, <2>3, <2>4, <2>5, GrowKeepsReferences DEF RequestTypes
  <2> QED
    BY <1>5, <2>1, <2>6, QuietTypes
<1>8. ASSUME NEW r \in Request, Sponsor!Submit(r) PROVE SponsorTypes'
  <2>1. aaOperations' = aaOperations /\ Others
        /\ aaRequest' = [aaRequest EXCEPT ![r].stage = "sent", ![r].tx = Len(aaTxs) + 1]
    BY <1>8 DEF Sponsor!Submit, Sponsor!paymasterVars, Sponsor!NewTx
  <2>2. /\ TxsGrow /\ TxTypes'
        /\ DOMAIN aaTxs' = DOMAIN aaTxs \cup {Len(aaTxs) + 1}
        /\ aaTxs'[Len(aaTxs) + 1].uop = aaRequest[r].uop
        /\ aaRequest[r].uop \in Sponsor!UserOp
    BY <1>8, SubmitGrows
  <2> DEFINE t == aaRequest[r]
             m == Len(aaTxs) + 1
             q == [[t EXCEPT !.stage = "sent"] EXCEPT !.tx = m]
  <2>3. t \in RequestRecord /\ m \in Nat
    BY <1>1, <1>2 DEF TxTypes
  <2>4. aaRequest' = [aaRequest EXCEPT ![r] = q]
    BY <1>2, <2>1
  <2> HIDE DEF t, m
  <2>5. q \in RequestRecord /\ q.stage = "sent" /\ q.tx = m /\ q.uop = t.uop
    BY <2>3 DEF RequestRecord
  <2> HIDE DEF q
  <2>6. aaRequest' \in [Request -> RequestRecord] /\ aaRequest'[r] = q
        /\ \A s \in Request : s # r => aaRequest'[s] = aaRequest[s]
    BY <1>2, <2>4, <2>5
  <2>7. Fits(r)'
    BY <2>2, <2>5, <2>6 DEF Fits, t, m
  <2>8. RequestTypes' /\ OperationTypes'
    BY <2>1, <2>2, <2>6, <2>7, GrowKeepsReferences DEF RequestTypes
  <2> QED
    BY <1>5, <2>1, <2>2, <2>8 DEF SponsorTypes
<1>9. ASSUME NEW r \in Request, aaTxs' = aaTxs, Others,
             aaRequest' = [aaRequest EXCEPT ![r] = Sponsor!Idle]
      PROVE  RequestTypes' /\ OtherTypes'
  <2>1. Sponsor!Idle \in RequestRecord
    BY DEF Sponsor!Idle, RequestRecord
  <2>2. aaRequest' \in [Request -> RequestRecord] /\ aaRequest'[r] = Sponsor!Idle
        /\ \A s \in Request : s # r => aaRequest'[s] = aaRequest[s]
    BY <1>2, <1>9, <2>1
  <2>3. Fits(r)'
    BY <2>2 DEF Fits
  <2>4. TxsGrow
    BY <1>9, TxsStutter
  <2> QED
    BY <1>5, <1>9, <2>2, <2>3, <2>4, GrowKeepsReferences DEF RequestTypes
<1>10. ASSUME NEW r \in Request, Sponsor!Refused(r) PROVE SponsorTypes'
  <2>1. aaTxs' = aaTxs /\ aaOperations' = aaOperations /\ Others
        /\ aaRequest' = [aaRequest EXCEPT ![r] = Sponsor!Idle]
    BY <1>10 DEF Sponsor!Refused, Sponsor!paymasterVars
  <2>2. OperationTypes'
    BY <2>1, TxsStutter, GrowKeepsReferences
  <2> QED
    BY <1>9, <2>1, <2>2, QuietTypes
<1>11. ASSUME NEW r \in Request, Sponsor!Remember(r) PROVE SponsorTypes'
  <2> DEFINE u == aaRequest[r].uop
  <2>1. aaTxs' = aaTxs /\ Others /\ aaRequest[r].stage = "sent"
        /\ aaRequest' = [aaRequest EXCEPT ![r] = Sponsor!Idle]
        /\ aaOperations' = [v \in DOMAIN aaOperations \cup {u} |->
             IF v = u THEN aaRequest[r].tx ELSE aaOperations[v]]
    BY <1>11 DEF Sponsor!Remember, Sponsor!paymasterVars
  <2>2. u \in Sponsor!UserOp /\ aaRequest[r].tx \in DOMAIN aaTxs
        /\ aaTxs[aaRequest[r].tx].uop = u
    <3>1. aaRequest[r] # Sponsor!Idle
      BY <2>1 DEF Sponsor!Idle
    <3> QED
      BY <1>2, <2>1, <3>1 DEF Fits
  <2> HIDE DEF u
  <2>3. OperationTypes'
    BY <1>1, <2>1, <2>2 DEF OperationTypes
  <2> QED
    BY <1>9, <2>1, <2>3, QuietTypes
<1>12. ASSUME Sponsor!Restart PROVE SponsorTypes'
  <2>1. aaTxs' = aaTxs /\ Others /\ aaOperations' = << >>
        /\ aaRequest' = [r \in Request |-> Sponsor!Idle]
    BY <1>12 DEF Sponsor!Restart, Sponsor!paymasterVars
  <2>2. Sponsor!Idle \in RequestRecord
    BY DEF Sponsor!Idle, RequestRecord
  <2>3. RequestTypes'
    BY <2>1, <2>2 DEF RequestTypes, Fits
  <2>4. OperationTypes'
    BY <2>1 DEF OperationTypes
  <2> QED
    BY <1>5, <2>1, <2>3, <2>4, QuietTypes
<1>13. ASSUME Sponsor!Owner, aaEnabled' \in BOOLEAN, aaSigner' \in Sponsor!Key,
              aaSponsored' \in Target, aaDeposit' \in Nat
       PROVE  SponsorTypes'
  <2>1. Same /\ aaSigned' = aaSigned /\ aaNow' = aaNow /\ aaAdmin' = aaAdmin + 1
    BY <1>13 DEF Sponsor!Owner, Sponsor!bundlerVars
  <2>2. OtherTypes'
    BY <1>3, <1>13, <2>1 DEF OtherTypes
  <2> QED
    BY <1>4, <2>1, <2>2, QuietTypes
<1>14. ASSUME Sponsor!SetEnabled PROVE SponsorTypes'
  BY <1>3, <1>13, <1>14 DEF Sponsor!SetEnabled
<1>15. ASSUME Sponsor!SetSigner PROVE SponsorTypes'
  BY <1>3, <1>13, <1>15 DEF Sponsor!SetSigner
<1>16. ASSUME Sponsor!SetSponsorship PROVE SponsorTypes'
  BY <1>3, <1>13, <1>16 DEF Sponsor!SetSponsorship
<1>17. ASSUME Sponsor!AddDeposit PROVE SponsorTypes'
  BY <1>3, <1>13, <1>17 DEF Sponsor!AddDeposit
<1>18. ASSUME Sponsor!WithdrawDepositTo PROVE SponsorTypes'
  BY <1>3, <1>13, <1>18 DEF Sponsor!WithdrawDepositTo
<1>19. ASSUME Sponsor!Mine PROVE SponsorTypes'
  <2>1. PICK i \in DOMAIN aaTxs, outcome \in Sponsor!Mined \cup {"reverted"} :
           /\ outcome \in Sponsor!Mined <=> Sponsor!Passes(aaTxs[i].uop)
           /\ aaTxs' \in Seq(TxRecord) /\ Len(aaTxs') = Len(aaTxs) /\ DOMAIN aaTxs' = DOMAIN aaTxs
           /\ aaTxs'[i].uop = aaTxs[i].uop
           /\ \A j \in DOMAIN aaTxs : j # i => aaTxs'[j] = aaTxs[j]
           /\ aaDeposit' = IF outcome \in Sponsor!Mined /\ Sponsor!IsSponsored(aaTxs[i].uop)
                           THEN aaDeposit - 1 ELSE aaDeposit
           /\ aaSigned' = aaSigned /\ aaRequest' = aaRequest /\ aaOperations' = aaOperations
           /\ aaEnabled' = aaEnabled /\ aaSigner' = aaSigner /\ aaSponsored' = aaSponsored
           /\ aaAdmin' = aaAdmin /\ aaNow' = aaNow
    BY <1>19, MineChanges
  <2>2. aaDeposit' \in Nat
    <3>1. CASE outcome \in Sponsor!Mined /\ Sponsor!IsSponsored(aaTxs[i].uop)
      <4>1. aaDeposit > 0
        BY <2>1, <3>1 DEF Sponsor!Passes
      <4>2. aaDeposit' = aaDeposit - 1
        BY <2>1, <3>1
      <4> QED
        BY ONLY <1>3, <4>1, <4>2
    <3>2. CASE ~(outcome \in Sponsor!Mined /\ Sponsor!IsSponsored(aaTxs[i].uop))
      BY <1>3, <2>1, <3>2
    <3> QED
      BY <3>1, <3>2
  <2>3. OtherTypes'
    BY <1>3, <2>1, <2>2 DEF OtherTypes
  <2>4. TxTypes'
    BY <1>1, <2>1 DEF TxTypes
  <2>5. \A j \in DOMAIN aaTxs : j \in DOMAIN aaTxs' /\ aaTxs'[j].uop = aaTxs[j].uop
    BY <2>1
  <2>6. RequestTypes'
    BY <1>2, <2>1, <2>5 DEF RequestTypes, Fits
  <2>7. OperationTypes'
    BY <1>1, <2>1, <2>5 DEF OperationTypes
  <2> QED
    BY <2>3, <2>4, <2>6, <2>7 DEF SponsorTypes
<1>20. ASSUME Sponsor!Tick PROVE SponsorTypes'
  <2>1. Same /\ aaSigned' = aaSigned /\ aaEnabled' = aaEnabled /\ aaSigner' = aaSigner
        /\ aaSponsored' = aaSponsored /\ aaDeposit' = aaDeposit /\ aaAdmin' = aaAdmin
        /\ aaNow < MaxBlock /\ aaNow' = aaNow + 1
    BY <1>20 DEF Sponsor!Tick, Sponsor!paymasterVars, Sponsor!bundlerVars
  <2>2. aaNow' \in 1 .. MaxBlock
    BY <1>3, <2>1, SponsorValues
  <2>3. OtherTypes'
    BY <1>3, <2>1, <2>2 DEF OtherTypes
  <2> QED
    BY <1>4, <2>1, <2>3, QuietTypes
<1>21. ASSUME UNCHANGED aaVars PROVE SponsorTypes'
  <2>1. Same /\ Others
    BY <1>21 DEF aaVars
  <2> QED
    BY <1>4, <1>5, <2>1, QuietTypes
<1> HIDE DEF Same, Others
<1> QED
  BY <1>6, <1>7, <1>8, <1>10, <1>11, <1>12, <1>14, <1>15, <1>16, <1>17, <1>18, <1>19, <1>20,
     <1>21 DEF Sponsor!Next

-----------------------------------------------------------------------------
(* The nonces, the sponsorships and the vain transactions.                 *)

\* The operations of a sender that ran, and how many.
MinedOf(sender) ==
  {i \in DOMAIN aaTxs : /\ aaTxs[i].state \in Sponsor!Mined
                        /\ SenderOf[aaTxs[i].uop.op] = sender}
Entry(sender) == Cardinality(MinedOf(sender))

\* A sponsorship ends ValidSeconds after it was signed.
SignedInv == \A s \in aaSigned : s.until = s.at + ValidSeconds /\ s.at <= aaNow

\* The operations of a sender that ran have the nonces from 0 on.
NonceInv ==
  \A sender : \A m \in Nat : m < Entry(sender) =>
    \E j \in MinedOf(sender) : NonceOf[aaTxs[j].uop.op] = m

\* What an operation that once passed keeps: its nonce is taken or next, its
\* sponsorship was signed, and unless the owner did something it is sponsored.
Vetted(u) ==
  /\ NonceOf[u.op] <= Entry(SenderOf[u.op])
  /\ Sponsor!IsSponsored(u) =>
       /\ \E s \in aaSigned : s.op = u.op /\ s.until = u.until
       /\ aaAdmin = 0 => aaEnabled /\ TargetOf[u.op] = aaSponsored /\ aaSigner = "bundler"

VettedInv ==
  /\ \A r \in Request : aaRequest[r].stage # "idle" => Vetted(aaRequest[r].uop)
  /\ \A i \in DOMAIN aaTxs : Vetted(aaTxs[i].uop)

\* Why a transaction was in vain.
Explained(i) ==
  \/ \E j \in MinedOf(SenderOf[aaTxs[i].uop.op]) :
       NonceOf[aaTxs[j].uop.op] = NonceOf[aaTxs[i].uop.op]
  \/ /\ Sponsor!IsSponsored(aaTxs[i].uop)
     /\ aaAdmin > 0 \/ aaTxs[i].uop.until < aaTxs[i].at \/ aaDeposit = 0

\* In what time one was sponsored.
InTime(i) ==
  \E s \in aaSigned : /\ s.op = aaTxs[i].uop.op
                      /\ s.at <= aaTxs[i].at
                      /\ aaTxs[i].at <= s.at + ValidSeconds

ChainInv ==
  \A i \in DOMAIN aaTxs :
    /\ aaTxs[i].state = "reverted" => Explained(i)
    /\ aaTxs[i].state \in Sponsor!Mined /\ Sponsor!IsSponsored(aaTxs[i].uop) => InTime(i)

BundlerIInv == SponsorTypes /\ SignedInv /\ NonceInv /\ VettedInv /\ ChainInv

\* The properties follow.
LEMMA BundlerSafe ==
  ASSUME BundlerIInv
  PROVE  Sponsor!RevertIsExplained
<1>1. Sponsor!RevertIsExplained
  <2> SUFFICES ASSUME NEW i \in DOMAIN aaTxs, aaTxs[i].state = "reverted"
      PROVE  \/ \E j \in DOMAIN aaTxs :
                  /\ aaTxs[j].state \in Sponsor!Mined
                  /\ SenderOf[aaTxs[j].uop.op] = SenderOf[aaTxs[i].uop.op]
                  /\ NonceOf[aaTxs[j].uop.op] = NonceOf[aaTxs[i].uop.op]
             \/ /\ Sponsor!IsSponsored(aaTxs[i].uop)
                /\ aaAdmin > 0 \/ aaTxs[i].uop.until < aaTxs[i].at \/ aaDeposit = 0
    BY DEF Sponsor!RevertIsExplained
  <2>1. Explained(i)
    BY DEF BundlerIInv, ChainInv
  <2> QED
    BY <2>1 DEF Explained, MinedOf
<1> QED
  BY <1>1

\* The entry point's nonce is a number of transactions.
LEMMA EntryIsNonce ==
  ASSUME SponsorTypes
  PROVE  \A sender : /\ IsFiniteSet(MinedOf(sender)) /\ Entry(sender) \in Nat
                     /\ Sponsor!EntryNonce(sender) = Entry(sender)
<1> TAKE sender
<1>1. DOMAIN aaTxs = 1 .. Len(aaTxs) /\ Len(aaTxs) \in Nat
  BY DEF SponsorTypes, TxTypes
<1>2. IsFiniteSet(DOMAIN aaTxs)
  BY <1>1, FS_Interval
<1>3. MinedOf(sender) \in SUBSET DOMAIN aaTxs
  BY DEF MinedOf
<1>4. IsFiniteSet(MinedOf(sender)) /\ Cardinality(MinedOf(sender)) \in Nat
  BY <1>2, <1>3, FS_Subset, FS_CardinalityType
<1>5. Sponsor!EntryNonce(sender) = Cardinality(MinedOf(sender))
  BY SponsorCounts DEF Sponsor!EntryNonce, MinedOf
<1> QED
  BY <1>4, <1>5 DEF Entry

\* The constructor of the paymaster and the start of the bundler.
LEMMA BundlerInit == Sponsor!Init => BundlerIInv
<1> SUFFICES ASSUME Sponsor!Init PROVE BundlerIInv
  OBVIOUS
<1>1. aaTxs = << >> /\ aaSigned = {} /\ aaRequest = [r \in Request |-> Sponsor!Idle]
  BY DEF Sponsor!Init
<1>2. \A sender : MinedOf(sender) = {}
  BY <1>1 DEF MinedOf
<1>3. \A sender : Entry(sender) = 0
  BY <1>2, FS_EmptySet DEF Entry
<1>4. NonceInv
  BY <1>3 DEF NonceInv
<1>5. VettedInv
  BY <1>1 DEF VettedInv, Sponsor!Idle
<1>6. SignedInv /\ ChainInv
  BY <1>1 DEF SignedInv, ChainInv
<1> QED
  BY <1>4, <1>5, <1>6, SponsorTypesInit DEF BundlerIInv

\* A step that mines nothing, and undoes nothing the owner did not do.
Quiet ==
  /\ TxsGrow
  /\ aaSigned \subseteq aaSigned'
  /\ aaAdmin' \in Nat /\ aaAdmin' >= aaAdmin
  /\ aaAdmin' = 0 => /\ aaEnabled' = aaEnabled /\ aaSigner' = aaSigner
                     /\ aaSponsored' = aaSponsored
  /\ aaAdmin' > 0 \/ aaDeposit' = aaDeposit

\* Then the same operations have run.
LEMMA QuietMinesNothing ==
  ASSUME SponsorTypes, TxsGrow
  PROVE  /\ \A sender : MinedOf(sender)' = MinedOf(sender)
         /\ \A sender : Entry(sender)' = Entry(sender)
<1>1. ASSUME NEW sender PROVE MinedOf(sender)' = MinedOf(sender)
  BY DEF TxsGrow, MinedOf, Sponsor!Mined
<1> QED
  BY <1>1 DEF Entry

\* So what was said of nonces, operations and the chain stays so.
LEMMA QuietKeeps ==
  ASSUME BundlerIInv, Quiet
  PROVE  /\ NonceInv' /\ ChainInv'
         /\ \A u : Vetted(u) => Vetted(u)'
         /\ \A i \in DOMAIN aaTxs : Vetted(aaTxs[i].uop)'
<1>1. SponsorTypes /\ NonceInv /\ ChainInv /\ VettedInv /\ TxsGrow
  BY DEF BundlerIInv, Quiet
<1>2. /\ \A sender : MinedOf(sender)' = MinedOf(sender)
      /\ \A sender : Entry(sender)' = Entry(sender)
  BY <1>1, QuietMinesNothing
<1>3. \A i \in DOMAIN aaTxs : /\ i \in DOMAIN aaTxs' /\ aaTxs'[i].uop = aaTxs[i].uop
                              /\ aaTxs'[i].at = aaTxs[i].at
                              /\ \/ aaTxs'[i].state = aaTxs[i].state
                                 \/ aaTxs'[i].state = "replaced"
  BY <1>1 DEF TxsGrow
<1>4. \A sender : MinedOf(sender) \subseteq DOMAIN aaTxs
  BY DEF MinedOf
<1>5. NonceInv'
  <2> SUFFICES ASSUME NEW sender, NEW m \in Nat, m < Entry(sender)'
      PROVE  \E j \in MinedOf(sender)' : NonceOf[aaTxs'[j].uop.op] = m
    BY DEF NonceInv
  <2>1. PICK j \in MinedOf(sender) : NonceOf[aaTxs[j].uop.op] = m
    BY <1>1, <1>2 DEF NonceInv
  <2> QED
    BY <1>2, <1>3, <1>4, <2>1
<1>6. ASSUME NEW u, Vetted(u) PROVE Vetted(u)'
  <2>1. NonceOf[u.op] <= Entry(SenderOf[u.op])'
    BY <1>2, <1>6 DEF Vetted
  <2>2. ASSUME Sponsor!IsSponsored(u)
        PROVE  /\ \E s \in aaSigned' : s.op = u.op /\ s.until = u.until
               /\ aaAdmin' = 0 => aaEnabled' /\ TargetOf[u.op] = aaSponsored' /\ aaSigner' = "bundler"
    <3>1. \E s \in aaSigned : s.op = u.op /\ s.until = u.until
      BY <1>6, <2>2 DEF Vetted
    <3>2. ASSUME aaAdmin' = 0
          PROVE  aaEnabled' /\ TargetOf[u.op] = aaSponsored' /\ aaSigner' = "bundler"
      <4>1. aaAdmin = 0
        <5>1. aaAdmin \in Nat /\ aaAdmin' >= aaAdmin
          BY <1>1 DEF Quiet, SponsorTypes, OtherTypes
        <5> QED
          BY ONLY <3>2, <5>1
      <4>2. aaEnabled /\ TargetOf[u.op] = aaSponsored /\ aaSigner = "bundler"
        BY <1>6, <2>2, <4>1 DEF Vetted
      <4> QED
        BY <3>2, <4>2 DEF Quiet
    <3> QED
      BY <3>1, <3>2 DEF Quiet
  <2> QED
    BY <2>1, <2>2 DEF Vetted, Sponsor!IsSponsored
<1>7. ChainInv'
  <2> SUFFICES ASSUME NEW i \in DOMAIN aaTxs'
      PROVE  /\ aaTxs'[i].state = "reverted" => Explained(i)'
             /\ aaTxs'[i].state \in Sponsor!Mined /\ Sponsor!IsSponsored(aaTxs'[i].uop) => InTime(i)'
    BY DEF ChainInv, Sponsor!Mined, Sponsor!IsSponsored
  <2>1. CASE i \notin DOMAIN aaTxs
    BY <1>1, <2>1 DEF TxsGrow, Sponsor!Mined
  <2>2. CASE i \in DOMAIN aaTxs
    <3>1. ASSUME aaTxs'[i].state = "reverted" PROVE Explained(i)'
      <4>1. Explained(i)
        BY <1>1, <1>3, <2>2, <3>1 DEF ChainInv
      <4>2. aaTxs'[i].uop = aaTxs[i].uop /\ aaTxs'[i].at = aaTxs[i].at
        BY <1>3, <2>2
      <4>3. CASE \E j \in MinedOf(SenderOf[aaTxs[i].uop.op]) :
                   NonceOf[aaTxs[j].uop.op] = NonceOf[aaTxs[i].uop.op]
        <5>1. PICK j \in MinedOf(SenderOf[aaTxs[i].uop.op]) :
                NonceOf[aaTxs[j].uop.op] = NonceOf[aaTxs[i].uop.op]
          BY <4>3
        <5>2. PICK w : w = SenderOf[aaTxs[i].uop.op]
          OBVIOUS
        <5>3. j \in MinedOf(w) /\ w = SenderOf[aaTxs'[i].uop.op]
          BY <4>2, <5>1, <5>2
        <5>4. j \in MinedOf(w)' /\ aaTxs'[j].uop = aaTxs[j].uop
          BY <1>2, <1>3, <1>4, <5>3
        <5>5. /\ j \in DOMAIN aaTxs' /\ aaTxs'[j].state \in Sponsor!Mined
              /\ SenderOf[aaTxs'[j].uop.op] = w
          BY <5>4 DEF MinedOf, Sponsor!Mined
        <5> QED
          BY <4>2, <5>1, <5>3, <5>4, <5>5 DEF Explained, MinedOf, Sponsor!Mined
      <4>4. CASE /\ Sponsor!IsSponsored(aaTxs[i].uop)
                 /\ aaAdmin > 0 \/ aaTxs[i].uop.until < aaTxs[i].at \/ aaDeposit = 0
        <5>1. aaAdmin' > 0 \/ aaTxs'[i].uop.until < aaTxs'[i].at \/ aaDeposit' = 0
          <6>1. aaAdmin \in Nat /\ aaAdmin' \in Nat /\ aaAdmin' >= aaAdmin
            BY <1>1 DEF Quiet, SponsorTypes, OtherTypes
          <6>2. aaAdmin > 0 => aaAdmin' > 0
            BY ONLY <6>1
          <6> QED
            BY <4>2, <4>4, <6>2 DEF Quiet
        <5> QED
          BY <4>2, <4>4, <5>1 DEF Explained, Sponsor!IsSponsored
      <4> QED
        BY <4>1, <4>3, <4>4 DEF Explained
    <3>2. ASSUME aaTxs'[i].state \in Sponsor!Mined, Sponsor!IsSponsored(aaTxs'[i].uop)
          PROVE  InTime(i)'
      <4>1. aaTxs'[i].uop = aaTxs[i].uop /\ aaTxs'[i].at = aaTxs[i].at
            /\ aaTxs[i].state \in Sponsor!Mined /\ Sponsor!IsSponsored(aaTxs[i].uop)
        BY <1>3, <2>2, <3>2 DEF Sponsor!Mined, Sponsor!IsSponsored
      <4>2. InTime(i)
        BY <1>1, <2>2, <4>1 DEF ChainInv
      <4> QED
        BY <4>1, <4>2 DEF InTime, Quiet
    <3> QED
      BY <3>1, <3>2
  <2> QED
    BY <2>1, <2>2
<1>8. ASSUME NEW i \in DOMAIN aaTxs PROVE Vetted(aaTxs[i].uop)'
  <2>1. PICK v : v = aaTxs[i].uop
    OBVIOUS
  <2>2. Vetted(v) /\ aaTxs'[i].uop = v
    BY <1>1, <1>3, <2>1 DEF VettedInv
  <2>3. Vetted(v)'
    BY <1>6, <2>2
  <2> QED
    BY <2>2, <2>3 DEF Vetted, Sponsor!IsSponsored
<1> QED
  BY <1>5, <1>6, <1>7, <1>8

\* What mining does to the operations that ran.
LEMMA MineCounts ==
  ASSUME SponsorTypes, NEW i \in DOMAIN aaTxs, NEW outcome,
         NEW w, w = SenderOf[aaTxs[i].uop.op],
         aaTxs[i].state = "pending",
         DOMAIN aaTxs' = DOMAIN aaTxs, aaTxs'[i].state = outcome,
         aaTxs'[i].uop = aaTxs[i].uop,
         \A j \in DOMAIN aaTxs : j # i => aaTxs'[j] = aaTxs[j]
  PROVE  /\ outcome \in Sponsor!Mined =>
              /\ MinedOf(w)' = MinedOf(w) \cup {i}
              /\ Entry(w)' = Entry(w) + 1
         /\ \A s : s # w \/ outcome \notin Sponsor!Mined =>
              MinedOf(s)' = MinedOf(s) /\ Entry(s)' = Entry(s)
<1>1. \A j \in DOMAIN aaTxs : aaTxs'[j].uop = aaTxs[j].uop
  OBVIOUS
<1>2. \A s : i \notin MinedOf(s)
  BY DEF MinedOf, Sponsor!Mined
<1>3. ASSUME outcome \in Sponsor!Mined
      PROVE  MinedOf(w)' = MinedOf(w) \cup {i} /\ Entry(w)' = Entry(w) + 1
  <2>1. MinedOf(w)' = MinedOf(w) \cup {i}
    BY <1>1, <1>3 DEF MinedOf, Sponsor!Mined
  <2>2. IsFiniteSet(MinedOf(w))
    BY EntryIsNonce
  <2>3. Cardinality(MinedOf(w) \cup {i}) = Cardinality(MinedOf(w)) + 1
    BY <1>2, <2>2, FS_AddElement
  <2> QED
    BY <2>1, <2>3 DEF Entry
<1>4. ASSUME NEW s, s # w \/ outcome \notin Sponsor!Mined
      PROVE  MinedOf(s)' = MinedOf(s) /\ Entry(s)' = Entry(s)
  <2>1. MinedOf(s)' = MinedOf(s)
    BY <1>1, <1>2, <1>4 DEF MinedOf, Sponsor!Mined
  <2> QED
    BY <2>1 DEF Entry
<1> QED
  BY <1>3, <1>4

\* A mined operation takes the next nonce, in the time it was sponsored for; a
\* reverted one is explained by what came after it was vetted.
LEMMA MineKeeps ==
  ASSUME BundlerIInv, Sponsor!Mine
  PROVE  SignedInv' /\ NonceInv' /\ VettedInv' /\ ChainInv'
<1>1. SponsorTypes /\ SignedInv /\ NonceInv /\ VettedInv /\ ChainInv
      /\ RequestTypes /\ TxTypes /\ OtherTypes
  BY DEF BundlerIInv, SponsorTypes
<1>2. PICK i \in DOMAIN aaTxs, outcome \in Sponsor!Mined \cup {"reverted"} :
        /\ aaTxs[i].state = "pending"
        /\ outcome \in Sponsor!Mined <=> Sponsor!Passes(aaTxs[i].uop)
        /\ DOMAIN aaTxs' = DOMAIN aaTxs
        /\ aaTxs'[i].state = outcome /\ aaTxs'[i].at = aaNow
        /\ aaTxs'[i].uop = aaTxs[i].uop
        /\ \A j \in DOMAIN aaTxs : j # i => aaTxs'[j] = aaTxs[j]
        /\ aaDeposit' = IF outcome \in Sponsor!Mined /\ Sponsor!IsSponsored(aaTxs[i].uop)
                        THEN aaDeposit - 1 ELSE aaDeposit
        /\ aaSigned' = aaSigned /\ aaRequest' = aaRequest /\ aaEnabled' = aaEnabled
        /\ aaSigner' = aaSigner /\ aaSponsored' = aaSponsored
        /\ aaAdmin' = aaAdmin /\ aaNow' = aaNow
  BY <1>1, MineChanges
<1>3. PICK u, w : u = aaTxs[i].uop /\ w = SenderOf[u.op]
  OBVIOUS
<1>4. /\ outcome \in Sponsor!Mined =>
           /\ MinedOf(w)' = MinedOf(w) \cup {i}
           /\ Entry(w)' = Entry(w) + 1
      /\ \A s : s # w \/ outcome \notin Sponsor!Mined =>
           MinedOf(s)' = MinedOf(s) /\ Entry(s)' = Entry(s)
  BY <1>1, <1>2, <1>3, MineCounts
<1>5. \A s : /\ Entry(s) \in Nat /\ Sponsor!EntryNonce(s) = Entry(s)
             /\ MinedOf(s) \subseteq DOMAIN aaTxs
  BY <1>1, EntryIsNonce DEF MinedOf
<1>6. \A s : Entry(s)' \in Nat /\ Entry(s)' >= Entry(s) /\ MinedOf(s) \subseteq MinedOf(s)'
  <2> TAKE s
  <2>1. CASE s # w \/ outcome \notin Sponsor!Mined
    BY <1>4, <1>5, <2>1
  <2>2. CASE s = w /\ outcome \in Sponsor!Mined
    BY <1>4, <1>5, <2>2
  <2> QED
    BY <2>1, <2>2
<1>7. \A j \in DOMAIN aaTxs : aaTxs'[j].uop = aaTxs[j].uop
  BY <1>2
<1>8. \A j \in DOMAIN aaTxs : aaTxs[j] \in TxRecord /\ aaTxs[j].uop \in Sponsor!UserOp
  <2>1. \A j \in DOMAIN aaTxs : aaTxs[j] \in TxRecord
    BY <1>1 DEF TxTypes
  <2> QED
    BY <2>1 DEF TxRecord
<1>9. \A v \in Sponsor!UserOp : v.op \in Op /\ NonceOf[v.op] \in Nat
  BY SponsorValues DEF Sponsor!UserOp
<1>10. outcome \in Sponsor!Mined => NonceOf[u.op] = Entry(w)
  BY <1>2, <1>3, <1>5 DEF Sponsor!Passes
<1>11. SignedInv'
  BY <1>1, <1>2 DEF SignedInv
<1>12. NonceInv'
  <2> SUFFICES ASSUME NEW s, NEW m \in Nat, m < Entry(s)'
      PROVE  \E j \in MinedOf(s)' : NonceOf[aaTxs'[j].uop.op] = m
    BY DEF NonceInv
  <2>1. CASE m < Entry(s)
    <3>1. PICK j \in MinedOf(s) : NonceOf[aaTxs[j].uop.op] = m
      BY <1>1, <2>1 DEF NonceInv
    <3> QED
      BY <1>5, <1>6, <1>7, <3>1
  <2>2. CASE ~(m < Entry(s))
    <3>1. s = w /\ outcome \in Sponsor!Mined
      BY <1>4, <2>2
    <3>2. Entry(w)' = Entry(w) + 1 /\ i \in MinedOf(w)'
      BY <1>4, <3>1
    <3>3. m = Entry(w)
      BY <1>5, <2>2, <3>1, <3>2
    <3> QED
      BY <1>3, <1>7, <1>10, <3>1, <3>2, <3>3
  <2> QED
    BY <2>1, <2>2
<1>13. ASSUME NEW v \in Sponsor!UserOp, Vetted(v) PROVE Vetted(v)'
  <2>1. NonceOf[v.op] <= Entry(SenderOf[v.op])'
    <3>1. PICK s : s = SenderOf[v.op]
      OBVIOUS
    <3>2. NonceOf[v.op] <= Entry(s) /\ NonceOf[v.op] \in Nat /\ Entry(s) \in Nat
          /\ Entry(s)' \in Nat /\ Entry(s)' >= Entry(s)
      BY <1>5, <1>6, <1>9, <1>13, <3>1 DEF Vetted
    <3>3. NonceOf[v.op] <= Entry(s)'
      BY ONLY <3>2
    <3> QED
      BY <3>1, <3>3
  <2> QED
    BY <1>2, <1>13, <2>1 DEF Vetted, Sponsor!IsSponsored
<1>14. VettedInv'
  <2>1. ASSUME NEW r \in Request, aaRequest'[r].stage # "idle" PROVE Vetted(aaRequest[r].uop)'
    <3>1. PICK v : v = aaRequest[r].uop
      OBVIOUS
    <3>2. Vetted(v) /\ Fits(r) /\ aaRequest[r].stage # "idle"
      BY <1>1, <1>2, <2>1, <3>1 DEF VettedInv, RequestTypes
    <3>3. v \in Sponsor!UserOp
      BY <3>1, <3>2 DEF Fits, Sponsor!Idle
    <3>4. Vetted(v)'
      BY <1>13, <3>2, <3>3
    <3>5. aaRequest'[r].uop = v
      BY <1>2, <3>1
    <3> QED
      BY <3>4, <3>5 DEF Vetted, Sponsor!IsSponsored
  <2>2. ASSUME NEW j \in DOMAIN aaTxs PROVE Vetted(aaTxs[j].uop)'
    <3>1. PICK v : v = aaTxs[j].uop
      OBVIOUS
    <3>2. Vetted(v) /\ v \in Sponsor!UserOp /\ aaTxs'[j].uop = v
      BY <1>1, <1>7, <1>8, <3>1 DEF VettedInv
    <3>3. Vetted(v)'
      BY <1>13, <3>2
    <3> QED
      BY <3>2, <3>3 DEF Vetted, Sponsor!IsSponsored
  <2> QED
    BY <1>2, <2>1, <2>2 DEF VettedInv
<1>15. ASSUME outcome = "reverted" PROVE Explained(i)'
  <2>1. Vetted(u) /\ u \in Sponsor!UserOp /\ aaTxs'[i].uop = u
    BY <1>1, <1>3, <1>7, <1>8 DEF VettedInv
  <2>2. ~Sponsor!Passes(u)
    BY <1>2, <1>3, <1>15 DEF Sponsor!Mined
  <2>3. CASE NonceOf[u.op] # Entry(w)
    <3>1. NonceOf[u.op] < Entry(w)
      <4>1. NonceOf[u.op] <= Entry(w) /\ NonceOf[u.op] \in Nat /\ Entry(w) \in Nat
        BY <1>3, <1>5, <1>9, <2>1 DEF Vetted
      <4> QED
        BY ONLY <2>3, <4>1
    <3>2. PICK j \in MinedOf(w) : NonceOf[aaTxs[j].uop.op] = NonceOf[u.op]
      BY <1>1, <1>9, <2>1, <3>1 DEF NonceInv
    <3>3. j \in MinedOf(w)' /\ aaTxs'[j].uop = aaTxs[j].uop
      BY <1>5, <1>6, <1>7, <3>2
    <3>4. /\ j \in DOMAIN aaTxs' /\ aaTxs'[j].state \in Sponsor!Mined
          /\ SenderOf[aaTxs'[j].uop.op] = w
      BY <3>3 DEF MinedOf, Sponsor!Mined
    <3> QED
      BY <1>3, <2>1, <3>2, <3>3, <3>4 DEF Explained, MinedOf, Sponsor!Mined
  <2>4. CASE NonceOf[u.op] = Entry(w)
    <3>1. Sponsor!IsSponsored(u) /\ ~(Sponsor!Sponsors(u) /\ aaDeposit > 0)
      BY <1>3, <1>5, <2>2, <2>4 DEF Sponsor!Passes
    <3>2. aaDeposit' = aaDeposit
      BY <1>2, <1>15 DEF Sponsor!Mined
    <3>3. aaAdmin > 0 \/ u.until < aaNow \/ aaDeposit = 0
      <4> SUFFICES ASSUME ~(aaAdmin > 0), ~(aaDeposit = 0) PROVE u.until < aaNow
        OBVIOUS
      <4>1. aaAdmin = 0 /\ aaDeposit > 0
        BY <1>1 DEF OtherTypes
      <4>2. ~Sponsor!Sponsors(u)
        BY <3>1, <4>1
      <4>3. /\ \E s \in aaSigned : s.op = u.op /\ s.until = u.until
            /\ aaEnabled /\ TargetOf[u.op] = aaSponsored /\ aaSigner = "bundler"
        BY <2>1, <3>1, <4>1 DEF Vetted
      <4>4. Sponsor!Expired(u)
        BY <4>2, <4>3 DEF Sponsor!Sponsors, Sponsor!SponsorHash
      <4> QED
        BY <4>4 DEF Sponsor!Expired
    <3> QED
      BY <1>2, <2>1, <3>1, <3>2, <3>3 DEF Explained, Sponsor!IsSponsored
  <2> QED
    BY <2>3, <2>4
<1>16. ASSUME outcome \in Sponsor!Mined, Sponsor!IsSponsored(u) PROVE InTime(i)'
  <2>1. Sponsor!Sponsors(u)
    BY <1>2, <1>3, <1>16 DEF Sponsor!Passes
  <2>2. PICK s \in aaSigned : s.op = u.op /\ s.until = u.until
    BY <2>1 DEF Sponsor!Sponsors, Sponsor!SponsorHash
  <2>3. s.until = s.at + ValidSeconds /\ s.at <= aaNow /\ s.at \in 1 .. MaxBlock
        /\ aaNow \in 1 .. MaxBlock
    BY <1>1 DEF SignedInv, OtherTypes
  <2>4. ~(u.until # 0 /\ u.until < aaNow)
    BY <2>1 DEF Sponsor!Sponsors, Sponsor!Expired
  <2>5. aaNow <= s.at + ValidSeconds
    BY <2>2, <2>3, <2>4, SponsorValues
  <2> QED
    BY <1>2, <1>3, <2>2, <2>3, <2>5 DEF InTime
<1>17. ASSUME NEW k \in DOMAIN aaTxs, k # i, Explained(k) PROVE Explained(k)'
  <2>1. aaTxs'[k] = aaTxs[k]
    BY <1>2, <1>17
  <2>2. CASE \E j \in MinedOf(SenderOf[aaTxs[k].uop.op]) :
               NonceOf[aaTxs[j].uop.op] = NonceOf[aaTxs[k].uop.op]
    <3>1. PICK s : s = SenderOf[aaTxs[k].uop.op]
      OBVIOUS
    <3>2. PICK j \in MinedOf(s) : NonceOf[aaTxs[j].uop.op] = NonceOf[aaTxs[k].uop.op]
      BY <2>2, <3>1
    <3>3. j \in MinedOf(s)' /\ aaTxs'[j].uop = aaTxs[j].uop
      BY <1>5, <1>6, <1>7, <3>2
    <3>4. /\ j \in DOMAIN aaTxs' /\ aaTxs'[j].state \in Sponsor!Mined
          /\ SenderOf[aaTxs'[j].uop.op] = s
      BY <3>3 DEF MinedOf, Sponsor!Mined
    <3> QED
      BY <2>1, <3>1, <3>2, <3>3, <3>4 DEF Explained, MinedOf, Sponsor!Mined
  <2>3. CASE /\ Sponsor!IsSponsored(aaTxs[k].uop)
             /\ aaAdmin > 0 \/ aaTxs[k].uop.until < aaTxs[k].at \/ aaDeposit = 0
    <3>1. aaDeposit = 0 => aaDeposit' = 0
      <4> SUFFICES ASSUME aaDeposit = 0 PROVE aaDeposit' = 0
        OBVIOUS
      <4>1. ~(outcome \in Sponsor!Mined /\ Sponsor!IsSponsored(aaTxs[i].uop))
        BY <1>2 DEF Sponsor!Passes
      <4> QED
        BY <1>2, <4>1
    <3> QED
      BY <1>2, <2>1, <2>3, <3>1 DEF Explained, Sponsor!IsSponsored
  <2> QED
    BY <1>17, <2>2, <2>3 DEF Explained
<1>18. ChainInv'
  <2> SUFFICES ASSUME NEW k \in DOMAIN aaTxs
      PROVE  /\ aaTxs'[k].state = "reverted" => Explained(k)'
             /\ aaTxs'[k].state \in Sponsor!Mined /\ Sponsor!IsSponsored(aaTxs'[k].uop) => InTime(k)'
    BY <1>2 DEF ChainInv, Sponsor!Mined, Sponsor!IsSponsored
  <2>1. CASE k = i
    BY <1>2, <1>3, <1>15, <1>16, <2>1
  <2>2. CASE k # i
    <3>1. aaTxs'[k] = aaTxs[k]
      BY <1>2, <2>2
    <3>2. aaTxs'[k].state = "reverted" => Explained(k)'
      BY <1>1, <1>17, <2>2, <3>1 DEF ChainInv
    <3>3. aaTxs'[k].state \in Sponsor!Mined /\ Sponsor!IsSponsored(aaTxs'[k].uop) => InTime(k)'
      BY <1>1, <1>2, <3>1 DEF ChainInv, InTime
    <3> QED
      BY <3>2, <3>3
  <2> QED
    BY <2>1, <2>2
<1> QED
  BY <1>11, <1>12, <1>14, <1>18

\* A request that goes on with its user operation stays vetted.
LEMMA KeptIsVetted ==
  ASSUME BundlerIInv, Quiet, NEW r \in Request, aaRequest[r].stage # "idle",
         aaRequest'[r].uop = aaRequest[r].uop
  PROVE  Vetted(aaRequest[r].uop)'
<1>1. PICK v : v = aaRequest[r].uop
  OBVIOUS
<1>2. Vetted(v)
  BY <1>1 DEF BundlerIInv, VettedInv
<1>3. Vetted(v)'
  BY <1>2, QuietKeeps
<1> QED
  BY <1>1, <1>3 DEF Vetted, Sponsor!IsSponsored

\* A quiet step keeps everything, if what is new is vetted.
LEMMA QuietNext ==
  ASSUME BundlerIInv, Quiet, SponsorTypes', SignedInv',
         \A r \in Request : aaRequest'[r].stage # "idle" => Vetted(aaRequest[r].uop)',
         \A i \in DOMAIN aaTxs' \ DOMAIN aaTxs : Vetted(aaTxs[i].uop)'
  PROVE  BundlerIInv'
<1>1. NonceInv' /\ ChainInv' /\ \A i \in DOMAIN aaTxs : Vetted(aaTxs[i].uop)'
  BY QuietKeeps
<1>2. \A i \in DOMAIN aaTxs' : Vetted(aaTxs[i].uop)'
  BY <1>1
<1>3. VettedInv'
  BY <1>2 DEF VettedInv
<1> QED
  BY <1>1, <1>3 DEF BundlerIInv

\* Every step of the bundler, its paymaster and the chain keeps the invariant.
LEMMA BundlerNext == ASSUME BundlerIInv, [Sponsor!Next]_aaVars PROVE BundlerIInv'
<1>1. SponsorTypes /\ SignedInv /\ VettedInv /\ RequestTypes /\ OtherTypes
  BY DEF BundlerIInv, SponsorTypes
<1>2. SponsorTypes'
  BY <1>1, SponsorTypesNext
<1>3. aaRequest \in [Request -> RequestRecord] /\ aaAdmin \in Nat /\ aaNow \in Nat
  BY <1>1, SponsorValues DEF RequestTypes, OtherTypes
<1> DEFINE Paymaster == aaEnabled' = aaEnabled /\ aaSigner' = aaSigner
                        /\ aaSponsored' = aaSponsored /\ aaDeposit' = aaDeposit
                        /\ aaAdmin' = aaAdmin
           Signs == aaSigned' = aaSigned /\ aaNow' = aaNow
           Requests == \A r \in Request :
                         aaRequest'[r].stage # "idle" => Vetted(aaRequest[r].uop)'
<1>4. ASSUME Paymaster, TxsGrow, aaSigned \subseteq aaSigned' PROVE Quiet
  BY <1>3, <1>4 DEF Quiet
<1>5. ASSUME Signs PROVE SignedInv'
  BY <1>1, <1>5 DEF SignedInv
<1>6. ASSUME aaRequest' = aaRequest, Quiet PROVE Requests
  BY <1>6, KeptIsVetted
<1>7. ASSUME aaTxs' = aaTxs, Quiet, SignedInv', Requests PROVE BundlerIInv'
  BY <1>2, <1>7, QuietNext
<1>8. ASSUME NEW o \in Op, Sponsor!SponsorUserOperation(o) PROVE BundlerIInv'
  <2>1. /\ aaTxs' = aaTxs /\ aaRequest' = aaRequest /\ Paymaster /\ aaNow' = aaNow
        /\ aaSigned' = aaSigned \cup {[op |-> o, until |-> aaNow + ValidSeconds, at |-> aaNow]}
    BY <1>8 DEF Sponsor!SponsorUserOperation, Sponsor!paymasterVars, Sponsor!ValidUntil
  <2>2. SignedInv'
    BY <1>1, <1>3, <2>1 DEF SignedInv
  <2>3. Quiet
    BY <1>4, <2>1, TxsStutter
  <2> QED
    BY <1>6, <1>7, <2>1, <2>2, <2>3
<1>9. ASSUME NEW r \in Request, NEW u \in Sponsor!UserOp, Sponsor!Prepare(r, u) PROVE BundlerIInv'
  <2>1. /\ aaTxs' = aaTxs /\ Paymaster /\ Signs /\ Sponsor!Passes(u)
        /\ aaRequest' = [aaRequest EXCEPT ![r] =
             [stage |-> "prepared", uop |-> u, nonce |-> Sponsor!NextNonce, tx |-> 0]]
    BY <1>9 DEF Sponsor!Prepare, Sponsor!paymasterVars, Sponsor!Tried
  <2>2. Quiet
    BY <1>4, <2>1, TxsStutter
  <2>3. Vetted(u)
    <3>1. NonceOf[u.op] = Entry(SenderOf[u.op]) /\ Entry(SenderOf[u.op]) \in Nat
      BY <1>1, <2>1, EntryIsNonce DEF Sponsor!Passes
    <3>2. NonceOf[u.op] <= Entry(SenderOf[u.op])
      BY <3>1
    <3>3. Sponsor!IsSponsored(u) => Sponsor!Sponsors(u)
      BY <2>1 DEF Sponsor!Passes
    <3> QED
      BY <3>2, <3>3 DEF Vetted, Sponsor!Sponsors, Sponsor!SponsorHash
  <2>4. Vetted(u)'
    BY <2>2, <2>3, QuietKeeps
  <2>5. Requests
    <3> SUFFICES ASSUME NEW s \in Request, aaRequest'[s].stage # "idle"
        PROVE  Vetted(aaRequest[s].uop)'
      OBVIOUS
    <3>1. CASE s = r
      <4>1. aaRequest'[s].uop = u
        BY <1>3, <2>1, <3>1
      <4> QED
        BY <2>4, <4>1 DEF Vetted, Sponsor!IsSponsored
    <3>2. CASE s # r
      <4>1. aaRequest'[s] = aaRequest[s]
        BY <1>3, <2>1, <3>2
      <4> QED
        BY <2>2, <4>1, KeptIsVetted
    <3> QED
      BY <3>1, <3>2
  <2> QED
    BY <1>5, <1>7, <2>1, <2>2, <2>5
<1>10. ASSUME NEW r \in Request, Sponsor!Submit(r) PROVE BundlerIInv'
  <2>1. /\ Paymaster /\ Signs /\ aaRequest[r].stage = "prepared"
        /\ aaRequest' = [aaRequest EXCEPT ![r].stage = "sent", ![r].tx = Len(aaTxs) + 1]
    BY <1>10 DEF Sponsor!Submit, Sponsor!paymasterVars, Sponsor!NewTx
  <2>2. /\ TxsGrow /\ DOMAIN aaTxs' = DOMAIN aaTxs \cup {Len(aaTxs) + 1}
        /\ aaTxs'[Len(aaTxs) + 1].uop = aaRequest[r].uop
    BY <1>1, <1>10, SubmitGrows
  <2>3. Quiet
    BY <1>4, <2>1, <2>2
  <2>4. aaRequest'[r].uop = aaRequest[r].uop
    BY <1>3, <2>1 DEF RequestRecord
  <2>5. \A s \in Request : s # r => aaRequest'[s] = aaRequest[s]
    BY <1>3, <2>1
  <2>6. Requests
    <3> SUFFICES ASSUME NEW s \in Request, aaRequest'[s].stage # "idle"
        PROVE  Vetted(aaRequest[s].uop)'
      OBVIOUS
    <3>1. aaRequest[s].stage # "idle" /\ aaRequest'[s].uop = aaRequest[s].uop
      BY <2>1, <2>4, <2>5
    <3> QED
      BY <2>3, <3>1, KeptIsVetted
  <2>7. ASSUME NEW i \in DOMAIN aaTxs' \ DOMAIN aaTxs PROVE Vetted(aaTxs[i].uop)'
    <3>1. PICK v : v = aaRequest[r].uop
      OBVIOUS
    <3>2. Vetted(v)
      BY <1>1, <2>1, <3>1 DEF VettedInv
    <3>3. Vetted(v)'
      BY <2>3, <3>2, QuietKeeps
    <3>4. aaTxs'[i].uop = v
      BY <2>2, <3>1
    <3> QED
      BY <3>3, <3>4 DEF Vetted, Sponsor!IsSponsored
  <2> QED
    BY <1>2, <1>5, <2>1, <2>3, <2>6, <2>7, QuietNext
<1>11. ASSUME NEW r \in Request, aaTxs' = aaTxs, Paymaster, Signs,
              aaRequest' = [aaRequest EXCEPT ![r] = Sponsor!Idle]
       PROVE  BundlerIInv'
  <2>1. Quiet
    BY <1>4, <1>11, TxsStutter
  <2>2. Requests
    <3> SUFFICES ASSUME NEW s \in Request, aaRequest'[s].stage # "idle"
        PROVE  Vetted(aaRequest[s].uop)'
      OBVIOUS
    <3>1. s # r
      BY <1>3, <1>11 DEF Sponsor!Idle
    <3>2. aaRequest'[s] = aaRequest[s]
      BY <1>3, <1>11, <3>1
    <3> QED
      BY <2>1, <3>2, KeptIsVetted
  <2> QED
    BY <1>5, <1>7, <1>11, <2>1, <2>2
<1>12. ASSUME NEW r \in Request, Sponsor!Refused(r) PROVE BundlerIInv'
  BY <1>11, <1>12 DEF Sponsor!Refused, Sponsor!paymasterVars
<1>13. ASSUME NEW r \in Request, Sponsor!Remember(r) PROVE BundlerIInv'
  BY <1>11, <1>13 DEF Sponsor!Remember, Sponsor!paymasterVars
<1>14. ASSUME Sponsor!Restart PROVE BundlerIInv'
  <2>1. /\ aaTxs' = aaTxs /\ Paymaster /\ Signs
        /\ aaRequest' = [r \in Request |-> Sponsor!Idle]
    BY <1>14 DEF Sponsor!Restart, Sponsor!paymasterVars
  <2>2. Quiet
    BY <1>4, <2>1, TxsStutter
  <2>3. Requests
    BY <2>1 DEF Sponsor!Idle
  <2> QED
    BY <1>5, <1>7, <2>1, <2>2, <2>3
<1>15. ASSUME Sponsor!Owner PROVE BundlerIInv'
  <2>1. aaTxs' = aaTxs /\ aaRequest' = aaRequest /\ Signs /\ aaAdmin' = aaAdmin + 1
    BY <1>15 DEF Sponsor!Owner, Sponsor!bundlerVars
  <2>2. Quiet
    BY <1>3, <2>1, TxsStutter DEF Quiet
  <2> QED
    BY <1>5, <1>6, <1>7, <2>1, <2>2
<1>16. ASSUME \/ Sponsor!SetEnabled \/ Sponsor!SetSigner \/ Sponsor!SetSponsorship
              \/ Sponsor!AddDeposit \/ Sponsor!WithdrawDepositTo
       PROVE  BundlerIInv'
  BY <1>15, <1>16 DEF Sponsor!SetEnabled, Sponsor!SetSigner, Sponsor!SetSponsorship,
                      Sponsor!AddDeposit, Sponsor!WithdrawDepositTo
<1>17. ASSUME Sponsor!Mine PROVE BundlerIInv'
  BY <1>2, <1>17, MineKeeps DEF BundlerIInv
<1>18. ASSUME Sponsor!Tick PROVE BundlerIInv'
  <2>1. /\ aaTxs' = aaTxs /\ aaRequest' = aaRequest /\ Paymaster /\ aaSigned' = aaSigned
        /\ aaNow' = aaNow + 1
    BY <1>18 DEF Sponsor!Tick, Sponsor!paymasterVars, Sponsor!bundlerVars
  <2>2. SignedInv'
    <3> SUFFICES ASSUME NEW s \in aaSigned PROVE s.until = s.at + ValidSeconds /\ s.at <= aaNow'
      BY <2>1 DEF SignedInv
    <3>1. s.until = s.at + ValidSeconds /\ s.at <= aaNow /\ s.at \in 1 .. MaxBlock
      BY <1>1 DEF SignedInv, OtherTypes
    <3> QED
      BY <1>3, <2>1, <3>1
  <2>3. Quiet
    BY <1>4, <2>1, TxsStutter
  <2> QED
    BY <1>6, <1>7, <2>1, <2>2, <2>3
<1>19. ASSUME UNCHANGED aaVars PROVE BundlerIInv'
  <2>1. aaTxs' = aaTxs /\ aaRequest' = aaRequest /\ Paymaster /\ Signs
    BY <1>19 DEF aaVars
  <2>2. Quiet
    BY <1>4, <2>1, TxsStutter
  <2> QED
    BY <1>5, <1>6, <1>7, <2>1, <2>2
<1> QED
  BY <1>8, <1>9, <1>10, <1>12, <1>13, <1>14, <1>16, <1>17, <1>18, <1>19 DEF Sponsor!Next

-----------------------------------------------------------------------------
(* Receipts.                                                               *)

\* The transaction that a receipt is of, and where it was found.
LEMMA ReceiptIsOf ==
  ASSUME SponsorTypes, NEW u \in Sponsor!UserOp, Sponsor!Receipt(u) # "none"
  PROVE  \E i \in DOMAIN aaTxs :
           /\ aaTxs[i].uop = u
           /\ \/ aaTxs[i].state \in Sponsor!Mined /\ Sponsor!Receipt(u) = aaTxs[i].state
              \/ aaTxs[i].state = "reverted" /\ Sponsor!Receipt(u) = "failed"
<1>1. CASE u \in DOMAIN aaOperations
  <2> DEFINE i == aaOperations[u]
  <2>1. i \in DOMAIN aaTxs /\ aaTxs[i].uop = u
    BY <1>1 DEF SponsorTypes, OperationTypes
  <2>2. Sponsor!Receipt(u) = Sponsor!AnswerOf(i)
    BY <1>1 DEF Sponsor!Receipt
  <2> HIDE DEF i
  <2>3. CASE aaTxs[i].state \in Sponsor!Mined
    <3>1. Sponsor!AnswerOf(i) = aaTxs[i].state
      BY <2>3 DEF Sponsor!AnswerOf, Sponsor!Mined
    <3> QED
      BY <2>1, <2>2, <2>3, <3>1
  <2>4. CASE aaTxs[i].state \notin Sponsor!Mined
    <3>1. aaTxs[i].state = "reverted" /\ Sponsor!AnswerOf(i) = "failed"
      BY <2>2, <2>4 DEF Sponsor!AnswerOf, Sponsor!Mined
    <3> QED
      BY <2>1, <2>2, <3>1
  <2> QED
    BY <2>3, <2>4
<1>2. CASE u \notin DOMAIN aaOperations
  <2> DEFINE found == {i \in DOMAIN aaTxs : /\ aaTxs[i].uop = u
                                            /\ aaTxs[i].state \in Sponsor!Mined
                                            /\ aaTxs[i].at + LogWindow >= aaNow}
             i == CHOOSE j \in found : TRUE
  <2>1. Sponsor!Receipt(u) = IF found = {} THEN "none" ELSE aaTxs[i].state
    BY <1>2 DEF Sponsor!Receipt, Sponsor!ReceiptFromLogs
  <2>2. found # {}
    BY <2>1
  <2>3. i \in found
    BY <2>2
  <2> HIDE DEF i
  <2> QED
    BY <2>1, <2>2, <2>3
<1> QED
  BY <1>1, <1>2

\* A receipt of failure is of a transaction that did not run, or ran and failed.
LEMMA ReceiptsAreTrue == SponsorTypes => Sponsor!ReceiptsTellTheTruth
<1> SUFFICES ASSUME SponsorTypes, NEW u \in Sponsor!UserOp
    PROVE  /\ Sponsor!Receipt(u) = "success" => "success" \in Sponsor!Outcomes(u)
           /\ Sponsor!Receipt(u) = "failed" /\ "success" \in Sponsor!Outcomes(u)
                => Sponsor!SentTwice(u)
  BY DEF Sponsor!ReceiptsTellTheTruth, Sponsor!Answers
<1>1. ASSUME Sponsor!Receipt(u) = "success" PROVE "success" \in Sponsor!Outcomes(u)
  <2>1. PICK i \in DOMAIN aaTxs : aaTxs[i].uop = u /\ aaTxs[i].state = "success"
    BY <1>1, ReceiptIsOf DEF Sponsor!Mined
  <2> QED
    BY <2>1 DEF Sponsor!Outcomes
<1>2. ASSUME Sponsor!Receipt(u) = "failed", "success" \in Sponsor!Outcomes(u)
      PROVE  Sponsor!SentTwice(u)
  <2>1. PICK i \in DOMAIN aaTxs : aaTxs[i].uop = u /\ aaTxs[i].state \in {"failed", "reverted"}
    BY <1>2, ReceiptIsOf DEF Sponsor!Mined
  <2>2. PICK j \in DOMAIN aaTxs : aaTxs[j].uop = u /\ aaTxs[j].state = "success"
    BY <1>2 DEF Sponsor!Outcomes
  <2>3. i # j
    BY <2>1, <2>2
  <2> QED
    BY <2>1, <2>2, <2>3 DEF Sponsor!SentTwice
<1> QED
  BY <1>1, <1>2

\* Where a success is found when it is the only one to find.
LEMMA SuccessIsShown ==
  ASSUME NEW u, NEW i \in DOMAIN aaTxs', aaTxs'[i].uop = u, aaTxs'[i].state = "success",
         \/ u \in DOMAIN aaOperations' /\ aaOperations'[u] = i
         \/ /\ u \notin DOMAIN aaOperations' /\ aaTxs'[i].at + LogWindow >= aaNow'
            /\ \A j \in DOMAIN aaTxs' :
                 aaTxs'[j].uop = u /\ aaTxs'[j].state \in Sponsor!Mined => j = i
  PROVE  Sponsor!Receipt(u)' = "success"
<1>1. CASE u \in DOMAIN aaOperations' /\ aaOperations'[u] = i
  BY <1>1 DEF Sponsor!Receipt, Sponsor!AnswerOf, Sponsor!Mined
<1>2. CASE /\ u \notin DOMAIN aaOperations' /\ aaTxs'[i].at + LogWindow >= aaNow'
           /\ \A j \in DOMAIN aaTxs' :
                aaTxs'[j].uop = u /\ aaTxs'[j].state \in Sponsor!Mined => j = i
  <2> DEFINE found == {j \in DOMAIN aaTxs' : /\ aaTxs'[j].uop = u
                                             /\ aaTxs'[j].state \in Sponsor!Mined
                                             /\ aaTxs'[j].at + LogWindow >= aaNow'}
             k == CHOOSE j \in found : TRUE
  <2>1. i \in found /\ \A j \in found : j = i
    BY <1>2 DEF Sponsor!Mined
  <2>2. Sponsor!Receipt(u)' = IF found = {} THEN "none" ELSE aaTxs'[k].state
    BY <1>2 DEF Sponsor!Receipt, Sponsor!ReceiptFromLogs, Sponsor!Mined
  <2>3. k \in found
    BY <2>1
  <2> HIDE DEF k, found
  <2>4. found # {} /\ k = i
    BY <2>1, <2>3
  <2> QED
    BY <2>2, <2>4
<1> QED
  BY <1>1, <1>2

\* What a step may do to the transactions and to what the bundler remembers.
LEMMA StepsOfTxs ==
  ASSUME SponsorTypes, [Sponsor!Next]_aaVars
  PROVE  /\ TxsGrow \/ Sponsor!Mine
         /\ \/ aaOperations' = aaOperations
            \/ aaOperations' = << >>
            \/ \E r \in Request : Sponsor!Remember(r)
<1>1. ASSUME NEW o \in Op, Sponsor!SponsorUserOperation(o)
      PROVE  aaTxs' = aaTxs /\ aaOperations' = aaOperations
  BY <1>1 DEF Sponsor!SponsorUserOperation
<1>2. ASSUME NEW r \in Request, NEW u \in Sponsor!UserOp, Sponsor!Prepare(r, u)
      PROVE  aaTxs' = aaTxs /\ aaOperations' = aaOperations
  BY <1>2 DEF Sponsor!Prepare
<1>3. ASSUME NEW r \in Request, Sponsor!Submit(r) PROVE TxsGrow /\ aaOperations' = aaOperations
  BY <1>3, SubmitGrows DEF Sponsor!Submit
<1>4. ASSUME NEW r \in Request, Sponsor!Refused(r)
      PROVE  aaTxs' = aaTxs /\ aaOperations' = aaOperations
  BY <1>4 DEF Sponsor!Refused
<1>5. ASSUME NEW r \in Request, Sponsor!Remember(r) PROVE aaTxs' = aaTxs
  BY <1>5 DEF Sponsor!Remember
<1>6. ASSUME Sponsor!Restart PROVE aaTxs' = aaTxs /\ aaOperations' = << >>
  BY <1>6 DEF Sponsor!Restart
<1>7. ASSUME \/ Sponsor!SetEnabled \/ Sponsor!SetSigner \/ Sponsor!SetSponsorship
             \/ Sponsor!AddDeposit \/ Sponsor!WithdrawDepositTo
      PROVE  aaTxs' = aaTxs /\ aaOperations' = aaOperations
  BY <1>7 DEF Sponsor!SetEnabled, Sponsor!SetSigner, Sponsor!SetSponsorship,
              Sponsor!AddDeposit, Sponsor!WithdrawDepositTo, Sponsor!Owner, Sponsor!bundlerVars
<1>8. ASSUME Sponsor!Mine PROVE aaOperations' = aaOperations
  BY <1>8 DEF Sponsor!Mine, Sponsor!bundlerVars
<1>9. ASSUME Sponsor!Tick PROVE aaTxs' = aaTxs /\ aaOperations' = aaOperations
  BY <1>9 DEF Sponsor!Tick, Sponsor!bundlerVars
<1>10. ASSUME UNCHANGED aaVars PROVE aaTxs' = aaTxs /\ aaOperations' = aaOperations
  BY <1>10 DEF aaVars
<1> QED
  BY <1>1, <1>2, <1>3, <1>4, <1>5, <1>6, <1>7, <1>8, <1>9, <1>10, TxsStutter DEF Sponsor!Next

\* Only mining ends the wait of a transaction, and it pays in time.
LEMMA PaysInTime ==
  ASSUME BundlerIInv, BundlerIInv', [Sponsor!Next]_aaVars, NEW i \in DOMAIN aaTxs,
         aaTxs[i].state = "pending", aaTxs'[i].state \in Sponsor!Mined,
         Sponsor!IsSponsored(aaTxs[i].uop)
  PROVE  \E s \in aaSigned : /\ s.op = aaTxs[i].uop.op
                             /\ s.at <= aaNow /\ aaNow <= s.at + ValidSeconds
<1>1. SponsorTypes
  BY DEF BundlerIInv
<1>2. TxsGrow \/ Sponsor!Mine
  BY <1>1, StepsOfTxs
<1>3. CASE TxsGrow
  BY <1>3 DEF TxsGrow, Sponsor!Mined
<1>4. CASE Sponsor!Mine
  <2>1. PICK k \in DOMAIN aaTxs :
          /\ DOMAIN aaTxs' = DOMAIN aaTxs /\ aaTxs'[k].at = aaNow
          /\ aaTxs'[k].uop = aaTxs[k].uop /\ aaSigned' = aaSigned
          /\ \A j \in DOMAIN aaTxs : j # k => aaTxs'[j] = aaTxs[j]
    BY <1>1, <1>4, MineChanges
  <2>2. i = k
    BY <2>1 DEF Sponsor!Mined
  <2>3. InTime(i)'
    BY <2>1, <2>2 DEF BundlerIInv, ChainInv, Sponsor!IsSponsored
  <2> QED
    BY <2>1, <2>2, <2>3 DEF InTime
<1> QED
  BY <1>2, <1>3, <1>4

\* A success that was shown once is shown again, or has left the logs.
LEMMA SuccessStands ==
  ASSUME BundlerIInv, [Sponsor!Next]_aaVars, NEW u \in Sponsor!UserOp,
         Sponsor!Receipt(u) = "success", ~Sponsor!SentTwice(u)
  PROVE  \/ Sponsor!Receipt(u)' = "success"
         \/ /\ u \notin DOMAIN aaOperations'
            /\ \A i \in DOMAIN aaTxs : aaTxs[i].uop = u => aaTxs[i].at + LogWindow < aaNow'
<1>1. SponsorTypes /\ SponsorTypes'
  BY SponsorTypesNext DEF BundlerIInv
<1>2. PICK i \in DOMAIN aaTxs : aaTxs[i].uop = u /\ aaTxs[i].state = "success"
  BY <1>1, ReceiptIsOf DEF Sponsor!Mined
<1>3. \A j \in DOMAIN aaTxs : aaTxs[j].uop = u => j = i
  BY <1>2 DEF Sponsor!SentTwice
<1>4. /\ TxsGrow \/ Sponsor!Mine
      /\ \/ aaOperations' = aaOperations
         \/ aaOperations' = << >>
         \/ \E r \in Request : Sponsor!Remember(r)
  BY <1>1, StepsOfTxs
<1>5. /\ i \in DOMAIN aaTxs' /\ aaTxs'[i].uop = u /\ aaTxs'[i].state = "success"
      /\ aaTxs'[i].at = aaTxs[i].at
      /\ \A j \in DOMAIN aaTxs' : aaTxs'[j].uop = u /\ aaTxs'[j].state \in Sponsor!Mined => j = i
  <2>1. CASE TxsGrow
    BY <1>2, <1>3, <2>1 DEF TxsGrow, Sponsor!Mined
  <2>2. CASE Sponsor!Mine
    <3>1. PICK k \in DOMAIN aaTxs :
            /\ aaTxs[k].state = "pending" /\ DOMAIN aaTxs' = DOMAIN aaTxs
            /\ aaTxs'[k].uop = aaTxs[k].uop
            /\ \A j \in DOMAIN aaTxs : j # k => aaTxs'[j] = aaTxs[j]
      BY <1>1, <2>2, MineChanges
    <3>2. i # k
      BY <1>2, <3>1
    <3> QED
      BY <1>2, <1>3, <3>1, <3>2
  <2> QED
    BY <1>4, <2>1, <2>2
<1>6. u \in DOMAIN aaOperations' => aaOperations'[u] = i
  <2> SUFFICES ASSUME u \in DOMAIN aaOperations' PROVE aaOperations'[u] = i
    OBVIOUS
  <2>1. CASE aaOperations' = aaOperations
    BY <1>1, <1>3, <2>1 DEF SponsorTypes, OperationTypes
  <2>2. CASE aaOperations' = << >>
    BY <2>2
  <2>3. ASSUME NEW r \in Request, Sponsor!Remember(r) PROVE aaOperations'[u] = i
    <3>1. aaRequest[r].stage = "sent"
          /\ aaOperations' = [v \in DOMAIN aaOperations \cup {aaRequest[r].uop} |->
               IF v = aaRequest[r].uop THEN aaRequest[r].tx ELSE aaOperations[v]]
      BY <2>3 DEF Sponsor!Remember
    <3>2. aaRequest[r].tx \in DOMAIN aaTxs /\ aaTxs[aaRequest[r].tx].uop = aaRequest[r].uop
      <4>1. Fits(r) /\ aaRequest[r] # Sponsor!Idle
        BY <1>1, <3>1 DEF SponsorTypes, RequestTypes, Sponsor!Idle
      <4> QED
        BY <3>1, <4>1 DEF Fits
    <3>3. CASE u = aaRequest[r].uop
      BY <1>3, <3>1, <3>2, <3>3
    <3>4. CASE u # aaRequest[r].uop
      <4>1. u \in DOMAIN aaOperations /\ aaOperations'[u] = aaOperations[u]
        BY <3>1, <3>4
      <4> QED
        BY <1>1, <1>3, <4>1 DEF SponsorTypes, OperationTypes
    <3> QED
      BY <3>3, <3>4
  <2> QED
    BY <1>4, <2>1, <2>2, <2>3
<1>7. CASE u \in DOMAIN aaOperations'
  BY <1>5, <1>6, <1>7, SuccessIsShown
<1>8. CASE u \notin DOMAIN aaOperations' /\ aaTxs'[i].at + LogWindow >= aaNow'
  BY <1>5, <1>8, SuccessIsShown
<1>9. CASE u \notin DOMAIN aaOperations' /\ ~(aaTxs'[i].at + LogWindow >= aaNow')
  <2>1. aaTxs[i].at \in Nat /\ LogWindow \in Nat /\ aaNow' \in Nat
    <3>1. aaTxs[i] \in TxRecord
      BY <1>1 DEF SponsorTypes, TxTypes
    <3>2. aaTxs[i].at \in 0 .. MaxBlock
      BY <3>1 DEF TxRecord
    <3>3. aaNow' \in 1 .. MaxBlock
      BY <1>1 DEF SponsorTypes, OtherTypes
    <3> QED
      BY <3>2, <3>3, SponsorValues
  <2>2. aaTxs[i].at + LogWindow < aaNow'
    <3>1. ~(aaTxs[i].at + LogWindow >= aaNow')
      BY <1>5, <1>9
    <3> QED
      BY ONLY <2>1, <3>1
  <2> QED
    BY <1>3, <1>9, <2>2
<1> QED
  BY <1>7, <1>8, <1>9

\* A step of the contracts is a step of the bundler or leaves it alone.
LEMMA StepIsSponsor == [NextPart]_allVars => [Sponsor!Next]_aaVars
BY DEF NextPart, allVars

\* What the bundler, its paymaster and the chain keep in every behaviour.
THEOREM BundlerInvariant == SpecPart => []BundlerIInv
<1>1. InitPart => BundlerIInv
  BY BundlerInit DEF InitPart
<1>2. BundlerIInv /\ [NextPart]_allVars => BundlerIInv'
  BY StepIsSponsor, BundlerNext
<1> QED
  BY <1>1, <1>2, PTL DEF SpecPart

\* For any requests, restarts and replacements receipts are true and stand, the
\* paymaster pays in the time it signed for, and what reverts is explained
\* (getUserOperationReceipt, validatePaymasterUserOp, sendUserOperation).
THEOREM SponsorHonest == SpecPart => SponsorIsHonest
<1>1. BundlerIInv => Sponsor!ReceiptsTellTheTruth /\ Sponsor!RevertIsExplained
  BY ReceiptsAreTrue, BundlerSafe DEF BundlerIInv
<1>2. BundlerIInv /\ [NextPart]_allVars =>
        [\A u \in Sponsor!UserOp :
           "success" \in Sponsor!Answers(u) /\ ~Sponsor!SentTwice(u) =>
             \/ Sponsor!Answers(u)' = {"success", "none"}
             \/ /\ u \notin DOMAIN aaOperations'
                /\ \A i \in DOMAIN aaTxs :
                     aaTxs[i].uop = u => aaTxs[i].at + LogWindow < aaNow']_aaVars
  <2>1. BundlerIInv /\ [NextPart]_allVars =>
          [\A u \in Sponsor!UserOp : Sponsor!Receipt(u) = "success" /\ ~Sponsor!SentTwice(u) =>
             \/ Sponsor!Receipt(u)' = "success"
             \/ /\ u \notin DOMAIN aaOperations'
                /\ \A i \in DOMAIN aaTxs :
                     aaTxs[i].uop = u => aaTxs[i].at + LogWindow < aaNow']_aaVars
    BY StepIsSponsor, SuccessStands
  <2>2. \A u \in Sponsor!UserOp :
          "success" \in Sponsor!Answers(u) => Sponsor!Receipt(u) = "success"
    BY DEF Sponsor!Answers
  <2>3. \A u \in Sponsor!UserOp :
          Sponsor!Receipt(u)' = "success" => Sponsor!Answers(u)' = {"success", "none"}
    BY DEF Sponsor!Answers
  <2> QED
    BY <2>1, <2>2, <2>3
<1>3. BundlerIInv /\ BundlerIInv' /\ [NextPart]_allVars =>
        [\A i \in DOMAIN aaTxs :
           /\ aaTxs[i].state = "pending" /\ aaTxs'[i].state \in Sponsor!Mined
           /\ Sponsor!IsSponsored(aaTxs[i].uop)
           => \E s \in aaSigned : /\ s.op = aaTxs[i].uop.op
                                  /\ s.at <= aaNow /\ aaNow <= s.at + ValidSeconds]_aaVars
  BY StepIsSponsor, PaysInTime
<1> QED
  BY <1>1, <1>2, <1>3, BundlerInvariant, PTL DEF SpecPart, SponsorIsHonest,
     Sponsor!SponsoredInTime, Sponsor!ReceiptStands, Sponsor!vars, aaVars

\* Every variable of the vault and of the bundler keeps its type.
THEOREM TypesCorrect == SpecPart => []TypesOK
<1>1. VaultIInv /\ BundlerIInv => TypesOK
  BY VaultTypes, SponsorTypesEnough DEF BundlerIInv, TypesOK
<1> QED
  BY <1>1, VaultInvariant, BundlerInvariant, PTL
=============================================================================
