------------------------------ MODULE Requests ------------------------------
(***************************************************************************)
(* What the API does within a request: the rate limiter of its key, the    *)
(* synchronous transfers, the token console's lists and the submissions of *)
(* proofs.  They share no state; a behaviour is of one of them.            *)
(***************************************************************************)
EXTENDS RateLimiter

CONSTANTS
  TransferRequest,  \* requests for transfers
  Payment,          \* payments clients ask for
  KindOf,           \* the route of each payment
  AmountOf,         \* its amount
  SignedNonce,      \* the owner's nonce in the permit a client signed
  NoRequest,        \* nobody's transaction, and no answer
  NoPayment,        \* no payment yet
  Funds,            \* the owner's tokens
  MaxOthers,        \* bound on the worker's transactions
  ConsoleRequest,   \* console requests
  ConsoleWallet,    \* wallets of the project
  NoWallet,         \* the project has no default wallet
  Address,          \* recipients
  NoAddress,        \* a blank recipient
  Amount,           \* amounts a client may enter
  Decimals,         \* the token's decimals
  SupportsBurn,     \* its source has a burn function
  MaxEntries,       \* bound on the recipients of an airdrop
  ConsoleFaults,    \* bound on failures of the store at the console
  ProofRequest,     \* submissions of proofs
  AppOf,            \* the app each is made for
  ProofMaxNow,      \* bound on the clock of submissions
  ProofFaults       \* bound on failures of the store and the engine

VARIABLES
  part,  \* the component this behaviour is of
  trStage, trStep, trPayment, trSigned, trNonce, trLine, trDisplaced,
  trOthers, trAllowance, trOwnerNonce, trBalance,
  tcStage, tcAction, tcEntries, tcWallet, tcAt, tcDefault, tcQueue,
  tcFaults,
  zkStage, zkStatus, zkCreatedAt, zkAnswer, zkSent, zkVerified, zkLost,
  zkNow

trVars ==
  <<trStage, trStep, trPayment, trSigned, trNonce, trLine, trDisplaced,
    trOthers, trAllowance, trOwnerNonce, trBalance>>
tcVars ==
  <<tcStage, tcAction, tcEntries, tcWallet, tcAt, tcDefault, tcQueue,
    tcFaults>>
zkVars ==
  <<zkStage, zkStatus, zkCreatedAt, zkAnswer, zkSent, zkVerified, zkLost,
    zkNow>>

Sent == INSTANCE Transfers WITH
  Request <- TransferRequest, stage <- trStage, step <- trStep,
  payment <- trPayment, signed <- trSigned, nonce <- trNonce,
  line <- trLine, displaced <- trDisplaced, others <- trOthers,
  allowance <- trAllowance, ownerNonce <- trOwnerNonce,
  balance <- trBalance

Console == INSTANCE TokenConsole WITH
  Request <- ConsoleRequest, Wallet <- ConsoleWallet,
  MaxFaults <- ConsoleFaults, stage <- tcStage,
  action <- tcAction, entries <- tcEntries, wallet <- tcWallet,
  at <- tcAt, default <- tcDefault, queue <- tcQueue, faults <- tcFaults

Zk == INSTANCE ZkProofSubmissions WITH
  Request <- ProofRequest, MaxNow <- ProofMaxNow, MaxFaults <- ProofFaults,
  stage <- zkStage, status <- zkStatus, createdAt <- zkCreatedAt,
  answer <- zkAnswer, sent <- zkSent, verified <- zkVerified,
  lost <- zkLost, now <- zkNow

ASSUME TransferAssumption ==
  /\ Sent!KindAssumption
  /\ Sent!AmountAssumption
  /\ Sent!NonceAssumption
  /\ Sent!NobodyAssumption
  /\ Sent!FiniteAssumption
  /\ Sent!BoundAssumption
ASSUME ConsoleAssumption ==
  /\ Console!NobodyAssumption
  /\ Console!AmountAssumption
  /\ Console!FiniteAssumption
  /\ Console!BoundAssumption
ASSUME ProofAssumption ==
  /\ Zk!RequestAssumption
  /\ Zk!AppAssumption
  /\ Zk!BoundAssumption

allVars == <<part, vars, trVars, tcVars, zkVars>>

\* Each component starts as it does alone; those the behaviour is not of stay so.
InitPart ==
  /\ part \in {"limiter", "transfers", "console", "proofs"}
  /\ Init
  /\ Sent!Init
  /\ Console!Init
  /\ Zk!Init
  /\ part # "console" => tcDefault = NoWallet

NextPart ==
  \/ part = "limiter" /\ Next /\ UNCHANGED <<part, trVars, tcVars, zkVars>>
  \/ part = "transfers" /\ Sent!Next /\ UNCHANGED <<part, vars, tcVars, zkVars>>
  \/ part = "console" /\ Console!Next /\ UNCHANGED <<part, vars, trVars, zkVars>>
  \/ part = "proofs" /\ Zk!Next /\ UNCHANGED <<part, vars, trVars, tcVars>>

SpecPart == InitPart /\ [][NextPart]_allVars

-----------------------------------------------------------------------------
(* Properties of the components beside the limiter.                        *)

\* Every variable keeps its type.
TypesOK == TypeOK /\ Sent!TypeOK /\ Console!TypeOK /\ Zk!TypeOK

\* An answer tells what happened to the transfer: ok that it went through once,
\* apart from the two exceptions of Transfers, and a refusal that it did not
\* (runERC20PermitTransfer, erc20Transfer).
AnswersMeanMoves == Sent!OkMeansMoved /\ Sent!FailedMovedNothing

\* A permit the owner signed pays once, however often a client sends it, and an
\* ok answer leaves nothing of its allowance (erc20-permit-transfer.ts).
SignaturePaysOnce == Sent!SignaturePaysOnce /\ Sent!LeftoverIsUnpaid

\* What a request has queued is its list from the start, each entry for the
\* amount that was asked and all of one signer (dashboardAirdropToken).
ListsAsAsked ==
  /\ Console!QueuedIsPrefix
  /\ Console!QueuedIsWhatWasAsked
  /\ Console!OneSigner

\* A proof answered with 202 was verified, and the record in the answer is the
\* request's own or a newer one of its app (createZKProof).
ProofAnswersTrue == Zk!OkIsVerified /\ Zk!AnswerIsOwnUnlessNewer
=============================================================================
