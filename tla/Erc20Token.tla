----------------------------- MODULE Erc20Token -----------------------------
(***************************************************************************)
(* The token the engine deploys (ERC20Source in                            *)
(* internal/contracts/templates.go): balances, allowances, permits, and    *)
(* supply that its owner mints and holders burn.                           *)
(*                                                                         *)
(* A call is one step and is undone when a require or a checked sum fails. *)
(* Amounts are of MaxUint + 1 values as uint256 has 2^256.  A permit is    *)
(* what a holder signed: spender, value, nonce and deadline.               *)
(***************************************************************************)
EXTENDS Integers, FiniteSets, Functions

CONSTANTS
  Holder,         \* accounts
  Signer,         \* those that approve spenders and sign permits
  MaxUint,        \* the largest amount, and the allowance without limit
  InitialSupply,  \* of the constructor
  MaxApprovals,   \* bound on approvals and permits signed by each holder
  MaxNow          \* bound on block.timestamp

AmountAssumption == MaxUint \in Nat /\ InitialSupply \in 0 .. MaxUint
SignerAssumption == Signer \subseteq Holder /\ IsFiniteSet(Holder)
BoundAssumption == MaxApprovals \in Nat /\ MaxNow \in Nat

VARIABLES
  owner, totalSupply, balanceOf, allowance, nonces, \* the contract's fields
  signed,   \* permits the holders have signed
  granted,  \* sum of the values approved to each spender
  pulled,   \* sum of what each spender took of allowances with a limit
  uses,     \* how often each permit was taken
  approvals, \* approvals and permits signed by each holder
  now       \* block.timestamp

balanceVars == <<totalSupply, balanceOf>>
grantVars   == <<allowance, granted>>
signVars    == <<nonces, signed, uses>>
vars == <<owner, balanceVars, grantVars, signVars, pulled, approvals, now>>

Amount == 0 .. MaxUint
Permit == [owner : Holder, spender : Holder, value : Amount, nonce : Nat,
           deadline : 0 .. MaxNow]

TypeOK ==
  /\ owner \in Holder
  /\ totalSupply \in Amount
  /\ balanceOf \in [Holder -> Amount]
  /\ allowance \in [Holder -> [Holder -> Amount]]
  /\ nonces \in [Holder -> 0 .. MaxApprovals]
  /\ signed \subseteq Permit
  /\ \A h \in Holder : Cardinality({p \in signed : p.owner = h}) <= approvals[h]
  /\ uses \in [signed -> Nat]
  /\ granted \in [Holder -> [Holder -> Nat]]
  /\ pulled \in [Holder -> [Holder -> Nat]]
  /\ approvals \in [Holder -> 0 .. MaxApprovals]
  /\ now \in 0 .. MaxNow

NoGrants == [h \in Holder |-> [s \in Holder |-> 0]]

Init ==
  /\ owner      \in Holder
  /\ totalSupply = InitialSupply
  /\ balanceOf   = [h \in Holder |-> IF h = owner THEN InitialSupply ELSE 0]
  /\ allowance   = NoGrants
  /\ nonces      = [h \in Holder |-> 0]
  /\ signed      = {}
  /\ granted     = NoGrants
  /\ pulled      = NoGrants
  /\ uses        = [p \in {} |-> 0]
  /\ approvals   = [h \in Holder |-> 0]
  /\ now         = 0

-----------------------------------------------------------------------------
(* Balances.                                                               *)

\* The payer's balance is written before the payee's is read.
Moved(from, to, v) ==
  [[balanceOf EXCEPT ![from] = @ - v] EXCEPT ![to] = @ + v]

\* _transfer.
Move(from, to, v) ==
  /\ balanceOf[from] >= v
  /\ balanceOf' = Moved(from, to, v)
  /\ UNCHANGED totalSupply

\* _burn.
Destroy(from, v) ==
  /\ balanceOf[from] >= v
  /\ balanceOf' = [balanceOf EXCEPT ![from] = @ - v]
  /\ totalSupply' = totalSupply - v

\* A checked sum.
SumFits(a, b) == a + b <= MaxUint

Transfer(h, to, v) ==
  /\ Move(h, to, v)
  /\ UNCHANGED <<owner, grantVars, signVars, pulled, approvals, now>>

\* The owner mints.
Mint(to, v) ==
  /\ SumFits(totalSupply, v)
  /\ totalSupply' = totalSupply + v
  /\ balanceOf' = [balanceOf EXCEPT ![to] = @ + v]
  /\ UNCHANGED <<owner, grantVars, signVars, pulled, approvals, now>>

Burn(h, v) ==
  /\ Destroy(h, v)
  /\ UNCHANGED <<owner, grantVars, signVars, pulled, approvals, now>>

TransferOwnership(h) ==
  /\ owner' = h
  /\ UNCHANGED <<balanceVars, grantVars, signVars, pulled, approvals, now>>

-----------------------------------------------------------------------------
(* Allowances.                                                             *)

\* An approval replaces the one before.
Grant(h, s, v) ==
  /\ allowance' = [allowance EXCEPT ![h][s] = v]
  /\ granted' = [granted EXCEPT ![h][s] = @ + v]

Approve(h, s, v) ==
  /\ approvals[h] < MaxApprovals
  /\ approvals' = [approvals EXCEPT ![h] = @ + 1]
  /\ Grant(h, s, v)
  /\ UNCHANGED <<owner, balanceVars, signVars, pulled, now>>

\* Variant: the allowance is looked at and kept.
LeftAll(allowed, v) == allowed

\* What is left of an allowance; the largest has no limit.
Left(allowed, v) == IF allowed = MaxUint THEN allowed ELSE allowed - v

\* The spender's part of transferFrom and burnFrom.
Spend(h, s, v) ==
  /\ allowance[h][s] >= v
  /\ allowance' = [allowance EXCEPT ![h][s] = Left(@, v)]
  /\ pulled' = [pulled EXCEPT ![h][s] = IF allowance[h][s] = MaxUint THEN @ ELSE @ + v]
  /\ UNCHANGED <<owner, granted, signVars, approvals, now>>

TransferFrom(h, s, to, v) == Spend(h, s, v) /\ Move(h, to, v)

BurnFrom(h, s, v) == Spend(h, s, v) /\ Destroy(h, v)

-----------------------------------------------------------------------------
(* Permits.                                                                *)

\* A holder signs the next nonce it knows of, or a later one.
Sign(p) ==
  /\ approvals[p.owner] < MaxApprovals
  /\ approvals' = [approvals EXCEPT ![p.owner] = @ + 1]
  /\ p \notin signed
  /\ p.nonce \in nonces[p.owner] .. MaxApprovals
  /\ signed' = signed \cup {p}
  /\ uses' = [q \in signed' |-> IF q = p THEN 0 ELSE uses[q]]
  /\ UNCHANGED <<owner, balanceVars, grantVars, nonces, pulled, now>>

\* nonces[owner]++.
NonceUsed(p) == [nonces EXCEPT ![p.owner] = @ + 1]

\* permit: anybody may bring what a holder signed.
TakePermit(p) ==
  /\ p \in signed
  /\ now <= p.deadline
  /\ p.nonce = nonces[p.owner]
  /\ nonces' = NonceUsed(p)
  /\ Grant(p.owner, p.spender, p.value)
  /\ uses' = [uses EXCEPT ![p] = @ + 1]
  /\ UNCHANGED <<owner, balanceVars, signed, pulled, approvals, now>>

Tick ==
  /\ now < MaxNow
  /\ now' = now + 1
  /\ UNCHANGED <<owner, balanceVars, grantVars, signVars, pulled, approvals>>

-----------------------------------------------------------------------------
Next ==
  \/ \E h, to \in Holder, v \in Amount :
       \/ Transfer(h, to, v)
       \/ h \in Signer /\ Approve(h, to, v)
       \/ BurnFrom(h, to, v)
       \/ \E s \in Holder : TransferFrom(h, s, to, v)
  \/ \E h \in Holder, v \in Amount : Mint(h, v) \/ Burn(h, v)
  \/ \E h \in Holder : TransferOwnership(h)
  \/ \E h \in Signer, s \in Holder, v \in Amount, n \in 0 .. MaxApprovals, d \in 0 .. MaxNow :
       Sign([owner |-> h, spender |-> s, value |-> v, nonce |-> n, deadline |-> d])
  \/ \E p \in signed : TakePermit(p)
  \/ Tick

Spec == Init /\ [][Next]_vars

-----------------------------------------------------------------------------
(* Properties.                                                             *)

\* The supply is what the holders have, transfers to oneself and the largest
\* amount included (_transfer, _mint, _burn).
SupplyIsBalances == totalSupply = SumFunction(balanceOf)

\* A spender takes no more of allowances with a limit than it was ever
\* approved, by calls and permits together (transferFrom, burnFrom, permit).
PulledWithinGranted ==
  \A h, s \in Holder :
    allowance[h][s] # MaxUint => pulled[h][s] + allowance[h][s] <= granted[h][s]

\* Of the permits a holder signed for one nonce one is taken, once (permit).
OnePermitPerNonce ==
  \A p, q \in signed :
    /\ uses[p] <= 1
    /\ p # q /\ p.owner = q.owner /\ p.nonce = q.nonce => uses[p] = 0 \/ uses[q] = 0
=============================================================================
