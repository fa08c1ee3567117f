--------------------------- MODULE Erc1155Edition ---------------------------
(***************************************************************************)
(* The editions the engine deploys (ERC1155EditionSource in                *)
(* internal/contracts/templates.go): balances of several tokens, moved,    *)
(* minted and burned one by one or in batches, by the holder or an         *)
(* operator it approved.                                                   *)
(*                                                                         *)
(* A call is one step and is undone when a require or a checked sum fails, *)
(* at whatever place of the batch.  Amounts are of MaxUint + 1 values as   *)
(* uint256 has 2^256.  The addresses the constructor may be given, token   *)
(* URIs and interface identifiers are left out.                            *)
(***************************************************************************)
EXTENDS Integers, Sequences, FiniteSets, Functions

CONSTANTS
  Holder,   \* accounts
  TokenId,  \* tokens
  MaxUint,  \* the largest amount
  MaxBatch  \* bound on the length of a batch

SizeAssumption == IsFiniteSet(Holder) /\ MaxUint \in Nat /\ MaxBatch \in Nat

VARIABLES
  owner,             \* the contract's owner
  balances,          \* of each token and holder
  totalSupply,       \* of each token
  operatorApprovals  \* the operators of each holder

vars == <<owner, balances, totalSupply, operatorApprovals>>

Amount == 0 .. MaxUint
Item   == [id : TokenId, amount : Amount]
Batch  == UNION {[1 .. n -> Item] : n \in 0 .. MaxBatch}

TypeOK ==
  /\ owner \in Holder
  /\ balances \in [TokenId -> [Holder -> Amount]]
  /\ totalSupply \in [TokenId -> Amount]
  /\ operatorApprovals \in [Holder -> SUBSET Holder]
  /\ \A h \in Holder : h \notin operatorApprovals[h]

\* The constructor may mint a first token to a recipient.
Init ==
  \E id \in TokenId, receiver \in Holder, v \in Amount :
    /\ owner \in Holder
    /\ balances = [t \in TokenId |-> [h \in Holder |->
                    IF t = id /\ h = receiver THEN v ELSE 0]]
    /\ totalSupply = [t \in TokenId |-> IF t = id THEN v ELSE 0]
    /\ operatorApprovals = [h \in Holder |-> {}]

-----------------------------------------------------------------------------
(* Moves.  A state of a call is what it has written so far and whether all *)
(* its requirements held.                                                  *)

\* One round of the loop of safeBatchTransferFrom, and _safeTransferFrom.
MoveOne(st, from, to, item) ==
  [ok  |-> st.ok /\ st.bal[item.id][from] >= item.amount,
   bal |-> [[st.bal EXCEPT ![item.id][from] = @ - item.amount]
                      EXCEPT ![item.id][to] = @ + item.amount]]

\* The loop: the state after each number of rounds.
MoveRounds(from, to, batch) ==
  LET st[n \in 0 .. Len(batch)] ==
        IF n = 0 THEN [ok |-> TRUE, bal |-> balances]
        ELSE MoveOne(st[n - 1], from, to, batch[n])
  IN st

MoveAll(from, to, batch) == MoveRounds(from, to, batch)[Len(batch)]

MayMove(caller, from) == caller = from \/ caller \in operatorApprovals[from]

SafeBatchTransferFrom(caller, from, to, batch) ==
  LET st == MoveAll(from, to, batch) IN
  /\ MayMove(caller, from)
  /\ st.ok
  /\ balances' = st.bal
  /\ UNCHANGED <<owner, totalSupply, operatorApprovals>>

SafeTransferFrom(caller, from, to, item) ==
  SafeBatchTransferFrom(caller, from, to, <<item>>)

-----------------------------------------------------------------------------
(* Supply.                                                                 *)

\* A checked sum.
Fits(v) == v <= MaxUint

\* One round of the loop of mintBatch, and _mint.
MintOne(st, to, item) ==
  LET bal == st.bal[item.id][to] + item.amount
      supply == st.supply[item.id] + item.amount
  IN [ok     |-> st.ok /\ Fits(bal) /\ Fits(supply),
      bal    |-> [st.bal EXCEPT ![item.id][to] = bal],
      supply |-> [st.supply EXCEPT ![item.id] = supply]]

\* The loop: the state after each number of rounds.
MintRounds(to, batch) ==
  LET st[n \in 0 .. Len(batch)] ==
        IF n = 0 THEN [ok |-> TRUE, bal |-> balances, supply |-> totalSupply]
        ELSE MintOne(st[n - 1], to, batch[n])
  IN st

\* The owner mints.
MintBatch(to, batch) ==
  LET st == MintRounds(to, batch)[Len(batch)]
  IN /\ st.ok
     /\ balances' = st.bal
     /\ totalSupply' = st.supply
     /\ UNCHANGED <<owner, operatorApprovals>>

Mint(to, item) == MintBatch(to, <<item>>)

Burned(item) == [totalSupply EXCEPT ![item.id] = @ - item.amount]

Burn(caller, account, item) ==
  /\ MayMove(caller, account)
  /\ balances[item.id][account] >= item.amount
  /\ balances' = [balances EXCEPT ![item.id][account] = @ - item.amount]
  /\ totalSupply' = Burned(item)
  /\ UNCHANGED <<owner, operatorApprovals>>

SetApprovalForAll(h, operator, approved) ==
  /\ operator # h
  /\ operatorApprovals' = [operatorApprovals EXCEPT ![h] =
       IF approved THEN @ \cup {operator} ELSE @ \ {operator}]
  /\ UNCHANGED <<owner, balances, totalSupply>>

TransferOwnership(h) ==
  /\ owner' = h
  /\ UNCHANGED <<balances, totalSupply, operatorApprovals>>

-----------------------------------------------------------------------------
Next ==
  \/ \E caller, from, to \in Holder :
       \/ \E b \in Batch : SafeBatchTransferFrom(caller, from, to, b)
       \/ \E item \in Item : SafeTransferFrom(caller, from, to, item)
  \/ \E to \in Holder :
       \/ \E b \in Batch : MintBatch(to, b)
       \/ \E item \in Item : Mint(to, item)
  \/ \E caller, h \in Holder, item \in Item : Burn(caller, h, item)
  \/ \E h, o \in Holder, approved \in BOOLEAN : SetApprovalForAll(h, o, approved)
  \/ \E h \in Holder : TransferOwnership(h)

Spec == Init /\ [][Next]_vars

-----------------------------------------------------------------------------
(* Properties.                                                             *)

\* The supply of a token is what its holders have, after batches that name a
\* token twice or move to oneself as well (totalSupply).
SupplyIsBalances ==
  \A id \in TokenId : totalSupply[id] = SumFunction(balances[id])

\* What a batch holds of a token.
TotalOf(batch, id) ==
  SumFunction([i \in DOMAIN batch |->
                IF batch[i].id = id THEN batch[i].amount ELSE 0])

\* A batch that names a token several times moves their sum, and goes through
\* exactly when the holder has the sum of each; to oneself it changes nothing
\* (safeBatchTransferFrom).
BatchMovesTotals ==
  \A from, to \in Holder, b \in Batch :
    LET st == MoveAll(from, to, b) IN
    IF from = to
    THEN st.ok => st.bal = balances
    ELSE /\ st.ok <=> \A id \in TokenId : TotalOf(b, id) <= balances[id][from]
         /\ st.ok => \A id \in TokenId :
              /\ st.bal[id][from] = balances[id][from] - TotalOf(b, id)
              /\ st.bal[id][to] = balances[id][to] + TotalOf(b, id)
=============================================================================
