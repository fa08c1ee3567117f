------------------------- MODULE ShieldedTradeVault -------------------------
(***************************************************************************)
(* The fixed-denomination vault of shielded trading                        *)
(* (contracts/privacy/BudolShieldedTradeVault.sol): deposits are leaves of *)
(* an incremental Merkle tree, an order spends a leaf by a proof against   *)
(* one of the last roots, and a batch of orders is settled to the escrow   *)
(* by anyone once its time has come.                                       *)
(*                                                                         *)
(* Hashes are free of collisions, so a pair stands for its hash.  A proof  *)
(* is accepted when the circuit can be satisfied                           *)
(* (zk/shielded-trade/shielded_trade.circom): the note is a leaf under the *)
(* root, and its nullifier, which a commitment has one of, is named by the *)
(* note itself.  Amounts are counted in denominations.  A batch's expiry   *)
(* lies after its start, so the check for it never decides, and it is left *)
(* out with the owner's setVerifier and transferOwnership.                 *)
(***************************************************************************)
EXTENDS Integers, Sequences, FiniteSets

CONSTANTS
  Note,            \* commitments that may be deposited
  Zero,            \* the empty leaf
  Order,           \* order commitments
  Batch,           \* batch identifiers
  NoBatch,         \* an order that was not accepted
  TreeLevels,      \* TREE_LEVELS (20)
  RootHistorySize, \* ROOT_HISTORY_SIZE (64)
  MaxNow           \* bound on the clock

NamesAssumption == Zero \notin Note /\ NoBatch \notin Batch
SizeAssumption == TreeLevels \in Nat \ {0} /\ RootHistorySize \in Nat \ {0}
TimeAssumption == MaxNow \in Nat
FiniteAssumption == IsFiniteSet(Order) /\ IsFiniteSet(Batch)

VARIABLES
  leaves,           \* the deposited commitments, commitmentAt
  filledSubtrees,   \* the left neighbours the next insertion needs
  roots,            \* the ring of roots
  currentRootIndex, \* the newest root's place in it
  knownRoots,       \* the roots orders may refer to
  usedNullifiers,   \* spent notes
  acceptedIn,       \* the batch that accepted each order
  batches,          \* the batches
  balance,          \* the vault's tokens
  escrow,           \* the tokens the escrow received
  now               \* the block's time

treeVars  == <<leaves, filledSubtrees, roots, currentRootIndex, knownRoots>>
orderVars == <<usedNullifiers, acceptedIn, batches>>
vars      == <<treeVars, orderVars, balance, escrow, now>>

Level     == 0 .. TreeLevels - 1
RootIndex == 0 .. RootHistorySize - 1
Record    == [executeAfter : Nat, orderCount : Nat, open : BOOLEAN,
              settled : BOOLEAN, collateral : Nat]
NotOpened == [executeAfter |-> 0, orderCount |-> 0, open |-> FALSE,
              settled |-> FALSE, collateral |-> 0]

-----------------------------------------------------------------------------
(* The Merkle tree.                                                        *)

Hash(left, right) == <<left, right>>

\* A place of the ring that was not written yet; no hash is 0.
NoRoot == << >>

\* The root of an empty subtree of each height.
zeros[level \in 0 .. TreeLevels] ==
  IF level = 0 THEN Zero ELSE Hash(zeros[level - 1], zeros[level - 1])

\* The leaves under a node of each height.
Width[level \in 0 .. TreeLevels] ==
  IF level = 0 THEN 1 ELSE 2 * Width[level - 1]

\* The places of a row, the leaves' first.
Places(level) == 0 .. Width[TreeLevels - level] - 1

\* The place of a leaf's ancestor in each row, half of the one below.
Ancestors(index) ==
  LET at[level \in 0 .. TreeLevels] ==
        IF level = 0 THEN index ELSE at[level - 1] \div 2
  IN at

\* The branch of the index at a level: a left child or a right one.
IsLeft(index, level) == Ancestors(index)[level] % 2 = 0

\* _insert's walk from the leaf to the root, which hashes one path only.
Walk(leaf, index) ==
  LET current[level \in 0 .. TreeLevels] ==
        IF level = 0 THEN leaf
        ELSE IF IsLeft(index, level - 1)
          THEN Hash(current[level - 1], zeros[level - 1])
          ELSE Hash(filledSubtrees[level - 1], current[level - 1])
  IN current

\* Variant: left neighbours are stored for right children too.
FilledAlways(leaf, index) == [level \in Level |-> Walk(leaf, index)[level]]

\* What the walk keeps for later insertions.
Filled(leaf, index) ==
  [level \in Level |->
    IF IsLeft(index, level) THEN Walk(leaf, index)[level] ELSE filledSubtrees[level]]

\* The tree of a sequence of leaves, row by row, as the circuit's MerkleRoot
\* and every textbook have it.
Rows(s) ==
  LET row[level \in 0 .. TreeLevels] ==
        IF level = 0
        THEN [i \in Places(0) |-> IF i < Len(s) THEN s[i + 1] ELSE Zero]
        ELSE [i \in Places(level) |->
               Hash(row[level - 1][2 * i], row[level - 1][2 * i + 1])]
  IN row

Root(s) == Rows(s)[TreeLevels][0]

-----------------------------------------------------------------------------

TypeOK ==
  /\ leaves \in Seq(Note)
  /\ Len(leaves) <= Width[TreeLevels]
  /\ DOMAIN filledSubtrees = Level
  /\ DOMAIN roots = RootIndex
  /\ currentRootIndex \in RootIndex
  /\ Cardinality(knownRoots) <= RootHistorySize
  /\ usedNullifiers \subseteq Note
  /\ acceptedIn \in [Order -> Batch \cup {NoBatch}]
  /\ batches \in [Batch -> Record]
  /\ balance \in Nat
  /\ escrow \in Nat
  /\ now \in 0 .. MaxNow

\* The constructor.
Init ==
  /\ leaves = << >>
  /\ filledSubtrees = [level \in Level |-> zeros[level]]
  /\ roots = [i \in RootIndex |-> IF i = 0 THEN zeros[TreeLevels] ELSE NoRoot]
  /\ currentRootIndex = 0
  /\ knownRoots = {zeros[TreeLevels]}
  /\ usedNullifiers = {}
  /\ acceptedIn = [o \in Order |-> NoBatch]
  /\ batches = [b \in Batch |-> NotOpened]
  /\ balance = 0
  /\ escrow = 0
  /\ now = 0

\* The newest root takes the place of the oldest in the ring.
AddRoot(root) ==
  LET i == (currentRootIndex + 1) % RootHistorySize
  IN /\ roots' = [roots EXCEPT ![i] = root]
     /\ knownRoots' = (knownRoots \ ({roots[i]} \ {NoRoot})) \cup {root}
     /\ currentRootIndex' = i

HasRoom == Len(leaves) < Width[TreeLevels]

Deposit(n) ==
  /\ n \notin {leaves[i] : i \in DOMAIN leaves}
  /\ HasRoom
  /\ filledSubtrees' = Filled(n, Len(leaves))
  /\ AddRoot(Walk(n, Len(leaves))[TreeLevels])
  /\ leaves' = Append(leaves, n)
  /\ balance' = balance + 1
  /\ UNCHANGED <<orderVars, escrow, now>>

Openable(b) == ~batches[b].open /\ ~batches[b].settled

OpenBatch(b, executeAfter) ==
  /\ Openable(b)
  /\ executeAfter >= now
  /\ batches' = [batches EXCEPT ![b] =
       [NotOpened EXCEPT !.executeAfter = executeAfter, !.open = TRUE]]
  /\ UNCHANGED <<treeVars, usedNullifiers, acceptedIn, balance, escrow, now>>

\* The proof: the note is one of the first k leaves, whose root it names.
Proves(k, n) == n \in {leaves[i] : i \in 1 .. k}

Unspent(n, o) == n \notin usedNullifiers /\ acceptedIn[o] = NoBatch

\* Variant: an order may enter until its batch is settled.
UnsealedWhileOpen(b) == batches[b].open

Unsealed(b) ==
  /\ batches[b].open /\ ~batches[b].settled
  /\ now < batches[b].executeAfter

\* submitPrivateOrder and _acceptOrder, sent by any relayer.
SubmitPrivateOrder(k, n, o, b) ==
  /\ Proves(k, n)
  /\ Root(SubSeq(leaves, 1, k)) \in knownRoots
  /\ Unspent(n, o)
  /\ Unsealed(b)
  /\ usedNullifiers' = usedNullifiers \cup {n}
  /\ acceptedIn' = [acceptedIn EXCEPT ![o] = b]
  /\ batches' = [batches EXCEPT ![b].orderCount = @ + 1, ![b].collateral = @ + 1]
  /\ UNCHANGED <<treeVars, balance, escrow, now>>

Settleable(b) ==
  /\ batches[b].open /\ ~batches[b].settled
  /\ now >= batches[b].executeAfter
  /\ batches[b].orderCount > 0

\* By anyone; a token transfer beyond the balance reverts.
SettleBatch(b) ==
  /\ Settleable(b)
  /\ batches[b].collateral <= balance
  /\ batches' = [batches EXCEPT ![b].open = FALSE, ![b].settled = TRUE]
  /\ balance' = balance - batches[b].collateral
  /\ escrow' = escrow + batches[b].collateral
  /\ UNCHANGED <<treeVars, usedNullifiers, acceptedIn, now>>

Tick ==
  /\ now < MaxNow
  /\ now' = now + 1
  /\ UNCHANGED <<treeVars, orderVars, balance, escrow>>

Next ==
  \/ \E n \in Note : Deposit(n)
  \/ \E b \in Batch : \E t \in 0 .. MaxNow : OpenBatch(b, t)
  \/ \E k \in DOMAIN leaves, n \in Note, o \in Order, b \in Batch :
       SubmitPrivateOrder(k, n, o, b)
  \/ \E b \in Batch : SettleBatch(b)
  \/ Tick

Spec == Init /\ [][Next]_vars

\* Time passes, and somebody settles a batch that can be settled.
FairSpec == Spec /\ WF_vars(Tick) /\ \A b \in Batch : WF_vars(SettleBatch(b))

-----------------------------------------------------------------------------
(* Properties.                                                             *)

\* The root an insertion computes along one path, from the left neighbours it
\* kept, is the root of the whole tree.
RootIsMerkle == roots[currentRootIndex] = Root(leaves)

\* An order may refer to exactly the roots after the last RootHistorySize
\* insertions: a proof stays good until that many deposits came after it.
KnownRootsAreRecent ==
  LET n == Len(leaves)
      oldest == IF n < RootHistorySize THEN 0 ELSE n - RootHistorySize + 1
  IN knownRoots = {Root(SubSeq(leaves, 1, k)) : k \in oldest .. n}

Accepted == {o \in Order : acceptedIn[o] # NoBatch}

\* Every token is accounted for: the vault and the escrow share the deposits,
\* the escrow has one for each order of a settled batch, and what open batches
\* owe is there to be paid.
CollateralAddsUp ==
  /\ balance + escrow = Len(leaves)
  /\ escrow = Cardinality({o \in Accepted : batches[acceptedIn[o]].settled})
  /\ balance >= Cardinality({o \in Accepted : ~batches[acceptedIn[o]].settled})

Sealed(b) == batches[b].orderCount > 0 /\ now >= batches[b].executeAfter

\* Once the time of a batch with orders has come its orders are fixed, and no
\* reopening ever lifts the seal.
SealedStaysSealed ==
  [][\A b \in Batch : Sealed(b) =>
       /\ Sealed(b)'
       /\ {o \in Order : acceptedIn'[o] = b} = {o \in Order : acceptedIn[o] = b}]_vars

\* The collateral of an accepted order reaches the escrow, whatever the owner
\* does: "permissionless after the delay".
OrdersReachEscrow ==
  \A o \in Order : \A b \in Batch :
    acceptedIn[o] = b ~> batches[b].settled
=============================================================================
