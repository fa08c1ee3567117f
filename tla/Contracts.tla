----------------------------- MODULE Contracts ------------------------------
(***************************************************************************)
(* The contracts that come with scripts of their own: the vault of         *)
(* shielded trading (contracts/privacy), and the paymaster (contracts/aa)  *)
(* with the bundler that signs for it.  They do not call each other; a     *)
(* behaviour is of one of them.                                            *)
(***************************************************************************)
EXTENDS ShieldedTradeVault

CONSTANTS
  Op,           \* operations that clients make
  SenderOf,     \* the smart account of each
  NonceOf,      \* its nonce in the entry point
  TargetOf,     \* what its call pays
  Target,       \* tokens and recipients
  Request,      \* calls of eth_sendUserOperation in flight
  NoOp,         \* the operation of an idle request
  NotSponsored, \* the end of no sponsorship
  ValidSeconds, \* HORIZEN_AA_PAYMASTER_VALID_SECONDS
  LogWindow,    \* blocks searched for a log
  FirstDeposit, \* deposit of the paymaster at first, in operations
  MaxTx,        \* bound on transactions
  MaxBlock,     \* bound on the clock of the paymaster and the bundler
  MaxAdmin,     \* bound on calls of the paymaster's owner
  MaxRestarts,  \* bound on restarts of the bundler
  MaxReplaced   \* bound on replaced transactions

VARIABLES
  part,  \* the component this behaviour is of
  aaSigned, aaRequest, aaOperations, aaTxs, aaEnabled, aaSigner,
  aaSponsored, aaDeposit, aaNow, aaAdmin, aaRestarts, aaReplaced

aaVars ==
  <<aaSigned, aaRequest, aaOperations, aaTxs, aaEnabled, aaSigner,
    aaSponsored, aaDeposit, aaNow, aaAdmin, aaRestarts, aaReplaced>>

Sponsor == INSTANCE Bundler WITH
  MaxNow <- MaxBlock, signed <- aaSigned, request <- aaRequest,
  operations <- aaOperations, txs <- aaTxs, enabled <- aaEnabled,
  signer <- aaSigner, sponsored <- aaSponsored, deposit <- aaDeposit,
  now <- aaNow, admin <- aaAdmin, restarts <- aaRestarts,
  replaced <- aaReplaced

ASSUME VaultAssumption ==
  NamesAssumption /\ SizeAssumption /\ TimeAssumption /\ FiniteAssumption
ASSUME SponsorAssumption == Sponsor!OpAssumption /\ Sponsor!TimeAssumption

allVars == <<part, vars, aaVars>>

\* Each starts as it does alone; the one the behaviour is not of stays so.
InitPart ==
  /\ part \in {"vault", "bundler"}
  /\ Init
  /\ Sponsor!Init

NextPart ==
  \/ /\ part = "vault" /\ Next
     /\ UNCHANGED <<part, aaVars>>
  \/ /\ part = "bundler" /\ Sponsor!Next
     /\ UNCHANGED <<part, vars>>

SpecPart == InitPart /\ [][NextPart]_allVars

-----------------------------------------------------------------------------
(* Properties of both.                                                     *)

\* Every variable keeps its type: no balance, deposit or count leaves its
\* range, and what the bundler remembers of an operation is a transaction of it.
TypesOK == TypeOK /\ Sponsor!TypeOK

\* The root an insertion computes along one path is the root of the whole tree,
\* and exactly the last roots are known (_insert).
TreeIsSound == RootIsMerkle /\ KnownRootsAreRecent

\* Every token of the vault is accounted for, in the vault or in the escrow,
\* what open batches owe is there to be paid, and a batch whose time has come
\* gets no more orders (_acceptOrder, settleBatch).
BatchesAddUp == []CollateralAddsUp /\ SealedStaysSealed

\* A receipt says what happened to the operation and stands, the paymaster pays
\* in the time it was signed for, and the bundler in vain only if something came
\* in between (getUserOperationReceipt, validatePaymasterUserOp).
SponsorIsHonest ==
  /\ []Sponsor!ReceiptsTellTheTruth
  /\ []Sponsor!RevertIsExplained
  /\ Sponsor!SponsoredInTime
  /\ Sponsor!ReceiptStands
=============================================================================
