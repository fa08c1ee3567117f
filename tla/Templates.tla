----------------------------- MODULE Templates ------------------------------
(***************************************************************************)
(* The contract templates of the engine (internal/contracts/templates.go): *)
(* the escrow of prediction markets, the registry of their private claims, *)
(* the payout pool, the ERC-20 token and the ERC-1155 editions.  Deployed  *)
(* contracts do not call each other; a behaviour is of one of them.        *)
(***************************************************************************)
EXTENDS BudolEscrow

CONSTANTS
  BetMarket,      \* markets of the registry
  Root,           \* Merkle roots of its notes
  Note,           \* bet notes
  NotesOf,        \* the notes of each root
  MarketOf,       \* the market a note was made for
  OutcomeOf,      \* the outcome it bets on
  Nullifier,      \* nullifiers
  NullifierOf,    \* of each note
  MaxResolutions, \* bound on the owner's resolutions of a market
  PayoutNote,     \* notes of the pool
  Account,        \* their recipients
  Denomination,   \* what a note of the pool is worth
  RelayerFee,     \* relayer fees that are asked for
  Funding,        \* amounts that plain transfers send to the pool
  MaxFunding,     \* bound on their sum
  Holder,         \* accounts that hold tokens
  Signer,         \* those that approve spenders and sign permits
  TokenId,        \* tokens of the editions
  MaxUint,        \* the largest amount of tokens
  InitialSupply,  \* of the constructor
  MaxApprovals,   \* bound on approvals and permits signed by each holder
  MaxBatch        \* bound on the length of a batch

VARIABLES
  part,  \* the contract this behaviour is of
  rgRoots, rgResolved, rgUsed, rgVerifier, rgClaims, rgResolutions,
  plCredited, plSpent, plUsed, plVerifier, plBalance, plPayout, plFee,
  plFunding, plOverdrawn,
  tkOwner, tkSupply, tkBalances, tkAllowance, tkNonces, tkSigned, tkGranted,
  tkPulled, tkUses, tkApprovals, tkNow,
  edOwner, edBalances, edSupply, edOperators

registryVars ==
  <<rgRoots, rgResolved, rgUsed, rgVerifier, rgClaims, rgResolutions>>
poolVars ==
  <<plCredited, plSpent, plUsed, plVerifier, plBalance, plPayout, plFee,
    plFunding, plOverdrawn>>
tokenVars ==
  <<tkOwner, tkSupply, tkBalances, tkAllowance, tkNonces, tkSigned, tkGranted,
    tkPulled, tkUses, tkApprovals, tkNow>>
editionVars == <<edOwner, edBalances, edSupply, edOperators>>

Registry == INSTANCE PrivateClaimRegistry WITH
  MarketId <- BetMarket, acceptedRoots <- rgRoots,
  resolvedOutcome <- rgResolved, usedNullifiers <- rgUsed,
  verifier <- rgVerifier, claims <- rgClaims, resolutions <- rgResolutions

Pool == INSTANCE ShieldedPayoutPool WITH
  Note <- PayoutNote, creditedNotes <- plCredited, spentNotes <- plSpent,
  usedNullifiers <- plUsed, verifier <- plVerifier, balance <- plBalance,
  payout <- plPayout, fee <- plFee, funding <- plFunding,
  overdrawn <- plOverdrawn

Token == INSTANCE Erc20Token WITH
  owner <- tkOwner, totalSupply <- tkSupply, balanceOf <- tkBalances,
  allowance <- tkAllowance, nonces <- tkNonces, signed <- tkSigned,
  granted <- tkGranted, pulled <- tkPulled, uses <- tkUses,
  approvals <- tkApprovals, now <- tkNow

Edition == INSTANCE Erc1155Edition WITH
  owner <- edOwner, balances <- edBalances, totalSupply <- edSupply,
  operatorApprovals <- edOperators

ASSUME RegistryAssumption ==
  /\ Registry!NoteAssumption
  /\ Registry!SecretAssumption
  /\ Registry!BoundAssumption
ASSUME PoolAssumption ==
  /\ Pool!NoteAssumption
  /\ Pool!ValueAssumption
ASSUME TokenAssumption ==
  /\ Token!AmountAssumption
  /\ Token!SignerAssumption
  /\ Token!BoundAssumption
ASSUME EditionAssumption == Edition!SizeAssumption

allVars == <<part, vars, registryVars, poolVars, tokenVars, editionVars>>

\* Each contract starts as it does alone; those the behaviour is not of stay
\* so.
InitPart ==
  /\ part \in {"registry", "escrow", "pool", "erc20", "erc1155"}
  /\ Init
  /\ Registry!Init
  /\ Pool!Init
  /\ Token!Init
  /\ Edition!Init
  /\ part # "registry" => rgVerifier
  /\ part # "escrow" => defaultFeeBps = 0
  /\ part # "pool" => plVerifier
  /\ part # "erc20" => tkOwner = CHOOSE h \in Holder : TRUE
  /\ part # "erc1155" => /\ edOwner = CHOOSE h \in Holder : TRUE
                         /\ edSupply = [i \in TokenId |-> 0]

NextPart ==
  \/ /\ part = "escrow" /\ Next
     /\ UNCHANGED <<part, registryVars, poolVars, tokenVars, editionVars>>
  \/ /\ part = "registry" /\ Registry!Next
     /\ UNCHANGED <<part, vars, poolVars, tokenVars, editionVars>>
  \/ /\ part = "pool" /\ Pool!Next
     /\ UNCHANGED <<part, vars, registryVars, tokenVars, editionVars>>
  \/ /\ part = "erc20" /\ Token!Next
     /\ UNCHANGED <<part, vars, registryVars, poolVars, editionVars>>
  \/ /\ part = "erc1155" /\ Edition!Next
     /\ UNCHANGED <<part, vars, registryVars, poolVars, tokenVars>>

SpecPart == InitPart /\ [][NextPart]_allVars

-----------------------------------------------------------------------------
(* Properties of all.                                                      *)

\* Every variable keeps its type, also where a contract subtracts: a uint256
\* never goes below zero.
TypesOK ==
  /\ TypeOK
  /\ Registry!TypeOK
  /\ Pool!TypeOK
  /\ Token!TypeOK
  /\ Edition!TypeOK

\* Money is shared out in full: what the contract owes is missing by no more
\* than the fees paid out, a trader who was paid got his stake back at least,
\* and nothing but rounding stays behind (claim, withdrawFees).
EscrowAddsUp == ShortfallIsFees /\ PaidFairly /\ NothingTrapped

\* A payout a trader may count on never falls, and nobody can place a stake
\* when the outcome may be announced already (buy, resolveMarket, claim).
EscrowKeepsItsWord == PayoutNeverFalls /\ NoLateBets

\* A claim by proof is one of a note of the winning outcome
\* (registerVerifiedClaim).
ProofClaimsWon == Registry!ProofClaimsWon

\* Whoever holds a note of the pool can withdraw it, as long as the owner
\* credited funded notes only when there were tokens to spare
\* (creditFundedNote, _withdraw).
Backed == Pool!Backed

\* Supplies are what the holders have, a spender takes no more than it was
\* approved, a permit is taken once, and a batch that names a token several
\* times moves their sum or nothing (_transfer, transferFrom, burnFrom, permit,
\* safeBatchTransferFrom).
TokensAddUp ==
  /\ Token!SupplyIsBalances
  /\ Token!PulledWithinGranted
  /\ Token!OnePermitPerNonce
  /\ Edition!SupplyIsBalances
  /\ part = "erc1155" => Edition!BatchMovesTotals
=============================================================================
