----------------------------- MODULE MCAnswers ------------------------------
(***************************************************************************)
(* What must happen in the end beside the worker's queues, for TLC:        *)
(* instances of Bundler, ProjectWallets, Transfers, ZkProofSubmissions and *)
(* ShieldedTradeVault, which share no state. A behaviour is of one of      *)
(* them.                                                                   *)
(***************************************************************************)
EXTENDS Integers, TLC

CONSTANTS
  o1, a1, v1, r1, r2, k1, k2, w1, p1, p2, f1, b1, b2, NoOp, NotSponsored,
  NoAddress, NoRequest, NoPayment, Zero, NoBatch

VARIABLES
  part,  \* the component this behaviour is of
  aaSigned, aaRequest, aaOperations, aaTxs, aaEnabled, aaSigner,
  aaSponsored, aaDeposit, aaNow, aaAdmin, aaRestarts, aaReplaced,
  pwVault, pwWallets, pwIsDefault, pwCreatedAt, pwStage, pwWanted,
  pwAddress, pwStamp, pwWrites, pwNow,
  sentStage, sentStep, sentPayment, sentSigned, sentNonce, sentLine,
  sentDisplaced, sentOthers, sentAllowance, sentOwnerNonce, sentBalance,
  zkStage, zkStatus, zkCreatedAt, zkAnswer, zkSent, zkVerified, zkLost,
  zkNow,
  tvLeaves, tvFilledSubtrees, tvRoots, tvCurrentRootIndex, tvKnownRoots,
  tvUsedNullifiers, tvAcceptedIn, tvBatches, tvBalance, tvEscrow, tvNow

aaVars ==
  <<aaSigned, aaRequest, aaOperations, aaTxs, aaEnabled, aaSigner,
    aaSponsored, aaDeposit, aaNow, aaAdmin, aaRestarts, aaReplaced>>
pwVars ==
  <<pwVault, pwWallets, pwIsDefault, pwCreatedAt, pwStage, pwWanted,
    pwAddress, pwStamp, pwWrites, pwNow>>
sentVars ==
  <<sentStage, sentStep, sentPayment, sentSigned, sentNonce, sentLine,
    sentDisplaced, sentOthers, sentAllowance, sentOwnerNonce, sentBalance>>
zkVars ==
  <<zkStage, zkStatus, zkCreatedAt, zkAnswer, zkSent, zkVerified, zkLost,
    zkNow>>
tvVars ==
  <<tvLeaves, tvFilledSubtrees, tvRoots, tvCurrentRootIndex, tvKnownRoots,
    tvUsedNullifiers, tvAcceptedIn, tvBatches, tvBalance, tvEscrow, tvNow>>

Account    == o1 :> a1
Nonces     == o1 :> 0
Pays       == o1 :> v1
CheckKinds == p1 :> "managed" @@ p2 :> "validate"
Ones       == [p \in {p1, p2} |-> 1]
Zeros      == [p \in {p1, p2} |-> 0]
OneApp     == [r \in {r1, r2} |-> f1]

Sponsor == INSTANCE Bundler WITH
  Op <- {o1}, SenderOf <- Account, NonceOf <- Nonces, TargetOf <- Pays,
  Target <- {v1}, Request <- {r1, r2}, ValidSeconds <- 1, LogWindow <- 1,
  FirstDeposit <- 1, MaxTx <- 2, MaxNow <- 2, MaxAdmin <- 0, MaxRestarts <- 1,
  MaxReplaced <- 1, signed <- aaSigned, request <- aaRequest,
  operations <- aaOperations, txs <- aaTxs, enabled <- aaEnabled,
  signer <- aaSigner, sponsored <- aaSponsored, deposit <- aaDeposit,
  now <- aaNow, admin <- aaAdmin, restarts <- aaRestarts,
  replaced <- aaReplaced

Wallets == INSTANCE ProjectWallets WITH
  Request <- {r1, r2}, Address <- {k1, k2}, Write <- {w1},
  MaxAttempts <- 3, MaxNow <- 1, vault <- pwVault, wallets <- pwWallets,
  isDefault <- pwIsDefault, createdAt <- pwCreatedAt, stage <- pwStage,
  wanted <- pwWanted, address <- pwAddress, stamp <- pwStamp,
  writes <- pwWrites, now <- pwNow

Sent == INSTANCE Transfers WITH
  Request <- {r1, r2}, Payment <- {p1, p2}, KindOf <- CheckKinds,
  AmountOf <- Ones, SignedNonce <- Zeros, Funds <- 3, MaxOthers <- 1,
  stage <- sentStage, step <- sentStep, payment <- sentPayment,
  signed <- sentSigned, nonce <- sentNonce, line <- sentLine,
  displaced <- sentDisplaced, others <- sentOthers,
  allowance <- sentAllowance, ownerNonce <- sentOwnerNonce,
  balance <- sentBalance

Zk == INSTANCE ZkProofSubmissions WITH
  Request <- {r1, r2}, AppOf <- OneApp, MaxNow <- 1, MaxFaults <- 2,
  stage <- zkStage, status <- zkStatus, createdAt <- zkCreatedAt,
  answer <- zkAnswer, sent <- zkSent, verified <- zkVerified,
  lost <- zkLost, now <- zkNow

Vault == INSTANCE ShieldedTradeVault WITH
  Note <- {k1, k2}, Order <- {o1, p1}, Batch <- {b1, b2}, TreeLevels <- 1,
  RootHistorySize <- 2, MaxNow <- 2, leaves <- tvLeaves,
  filledSubtrees <- tvFilledSubtrees, roots <- tvRoots,
  currentRootIndex <- tvCurrentRootIndex, knownRoots <- tvKnownRoots,
  usedNullifiers <- tvUsedNullifiers, acceptedIn <- tvAcceptedIn,
  batches <- tvBatches, balance <- tvBalance, escrow <- tvEscrow,
  now <- tvNow

ASSUME Sponsor!OpAssumption /\ Sponsor!TimeAssumption
ASSUME /\ Wallets!NoAddressAssumption
       /\ Wallets!FiniteAssumption
       /\ Wallets!BoundsAssumption
ASSUME /\ Sent!KindAssumption /\ Sent!AmountAssumption /\ Sent!NonceAssumption
       /\ Sent!NobodyAssumption /\ Sent!FiniteAssumption /\ Sent!BoundAssumption
ASSUME Zk!RequestAssumption /\ Zk!AppAssumption /\ Zk!BoundAssumption
ASSUME /\ Vault!NamesAssumption /\ Vault!SizeAssumption
       /\ Vault!TimeAssumption /\ Vault!FiniteAssumption

allVars == <<part, aaVars, pwVars, sentVars, zkVars, tvVars>>

\* Each component starts as it does alone; those the behaviour is not of stay so.
InitPart ==
  /\ part \in {"bundler", "wallets", "transfers", "proofs", "vault"}
  /\ Sponsor!Init
  /\ Wallets!Init
  /\ Sent!Init
  /\ Zk!Init
  /\ Vault!Init

NextPart ==
  \/ /\ part = "bundler" /\ Sponsor!Next
     /\ UNCHANGED <<part, pwVars, sentVars, zkVars, tvVars>>
  \/ /\ part = "wallets" /\ Wallets!Next
     /\ UNCHANGED <<part, aaVars, sentVars, zkVars, tvVars>>
  \/ /\ part = "transfers" /\ Sent!Next
     /\ UNCHANGED <<part, aaVars, pwVars, zkVars, tvVars>>
  \/ /\ part = "proofs" /\ Zk!Next
     /\ UNCHANGED <<part, aaVars, pwVars, sentVars, tvVars>>
  \/ /\ part = "vault" /\ Vault!Next
     /\ UNCHANGED <<part, aaVars, pwVars, sentVars, zkVars>>

SpecPart == InitPart /\ [][NextPart]_allVars

\* The fairness of the component the behaviour is of.
FairSpecPart ==
  /\ SpecPart
  /\ \A r \in {r1, r2} :
       /\ WF_aaVars(part = "bundler" /\ Sponsor!Serve(r))
       /\ WF_sentVars(part = "transfers" /\ Sent!Script(r))
       /\ WF_zkVars(part = "proofs" /\ Zk!Serve(r))
  /\ WF_aaVars(part = "bundler" /\ Sponsor!Mine)
  /\ WF_pwVars(part = "wallets" /\ Wallets!Attempt(w1))
  /\ WF_tvVars(part = "vault" /\ Vault!Tick)
  /\ \A b \in {b1, b2} : WF_tvVars(part = "vault" /\ Vault!SettleBatch(b))

-----------------------------------------------------------------------------
(* Properties.                                                             *)

\* A client that waits for the receipt of an operation it was promised gets
\* one, unless the bundler restarts or the transaction is replaced
\* (sendUserOperation, getUserOperationReceipt).
PromisedIsAnswered == Sponsor!PromisedIsAnswered

\* What was begun is ended: a write queued for an undisputed default wallet is
\* signed (projectSignerPayloadForWallet), a transfer is answered
\* (runERC20PermitTransfer), a proof's record is settled unless the store or
\* the engine failed it (createZKProof), and the collateral of an accepted
\* order reaches the escrow (settleBatch).
BegunIsEnded ==
  /\ Wallets!QuietWriteIsSigned
  /\ Sent!Answered
  /\ Zk!QueuedSettles
  /\ Vault!OrdersReachEscrow
=============================================================================
