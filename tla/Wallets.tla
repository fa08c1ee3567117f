------------------------------- MODULE Wallets -------------------------------
(***************************************************************************)
(* The wallets: the lock of a project wallet under overlapping acquires,   *)
(* the server wallets of a project and the managed wallets of its users.   *)
(* In this code only their addresses meet; a behaviour is of one of them.  *)
(***************************************************************************)
EXTENDS WalletLock

CONSTANTS
  ProjectRequest,  \* requests that create or answer with server wallets
  ProjectKey,      \* addresses of the keys the vault may create for a project
  Write,           \* contract writes that may be queued
  NoAddress,       \* no address yet
  MaxAttempts,     \* attempts of the worker at one write
  ProjectMaxNow,   \* bound on the clock of server wallets
  UserRequest,     \* requests that create or sign with managed wallets
  User,            \* users of the project
  UserKey,         \* addresses of the keys the vault may create for users
  UserAddress,     \* addresses of user wallets
  Registered,      \* those that clients register
  ClientRef,       \* references a registration may carry
  NoRef,           \* the empty vaultWalletRef
  NoUser,          \* no user
  UserMaxNow       \* bound on the clock of user wallets

VARIABLES
  part,  \* the component this behaviour is of
  pwVault, pwWallets, pwIsDefault, pwCreatedAt, pwStage, pwWanted,
  pwAddress, pwStamp, pwWrites, pwNow,
  uwVault, uwStatus, uwOwner, uwCustody, uwRef, uwLastSeen, uwStage,
  uwUser, uwAddress, uwSigner, uwOwn, uwNow

pwVars ==
  <<pwVault, pwWallets, pwIsDefault, pwCreatedAt, pwStage, pwWanted,
    pwAddress, pwStamp, pwWrites, pwNow>>
uwVars ==
  <<uwVault, uwStatus, uwOwner, uwCustody, uwRef, uwLastSeen, uwStage,
    uwUser, uwAddress, uwSigner, uwOwn, uwNow>>

Project == INSTANCE ProjectWallets WITH
  Request <- ProjectRequest, Address <- ProjectKey, MaxNow <- ProjectMaxNow,
  vault <- pwVault, wallets <- pwWallets, isDefault <- pwIsDefault,
  createdAt <- pwCreatedAt, stage <- pwStage, wanted <- pwWanted,
  address <- pwAddress, stamp <- pwStamp, writes <- pwWrites, now <- pwNow

Users == INSTANCE UserWallets WITH
  Request <- UserRequest, Key <- UserKey, Address <- UserAddress,
  MaxNow <- UserMaxNow, vault <- uwVault, status <- uwStatus,
  owner <- uwOwner, custody <- uwCustody, ref <- uwRef,
  lastSeen <- uwLastSeen, stage <- uwStage, user <- uwUser,
  address <- uwAddress, signer <- uwSigner, own <- uwOwn, now <- uwNow

ASSUME ProjectAssumption ==
  /\ Project!NoAddressAssumption
  /\ Project!FiniteAssumption
  /\ Project!BoundsAssumption
ASSUME UsersAssumption ==
  /\ Users!AddressAssumption
  /\ Users!UserAssumption
  /\ Users!FiniteAssumption
  /\ Users!MaxNowAssumption

allVars == <<part, vars, pwVars, uwVars>>

\* Each component starts as it does alone; those the behaviour is not of stay so.
InitPart ==
  /\ part \in {"lock", "project", "user"}
  /\ Init
  /\ Project!Init
  /\ Users!Init

NextPart ==
  \/ part = "lock" /\ Next /\ UNCHANGED <<part, pwVars, uwVars>>
  \/ part = "project" /\ Project!Next /\ UNCHANGED <<part, vars, uwVars>>
  \/ part = "user" /\ Users!Next /\ UNCHANGED <<part, vars, pwVars>>

SpecPart == InitPart /\ [][NextPart]_allVars

-----------------------------------------------------------------------------
(* Properties of project and user wallets.                                 *)

\* Every variable keeps its type.
TypesOK == TypeOK /\ Project!TypeOK /\ Users!TypeOK

\* The project signs with its default wallet, whose key is in the vault, and
\* refuses a write queued for that wallet only after two requests created one
\* each (ensureProjectDefaultAdminWallet, projectSignerPayloadForWallet).
ProjectCanSign ==
  /\ Project!WalletsHaveKeys
  /\ Project!DefaultsBounded
  /\ Project!SignedByDefault
  /\ Project!RefusedOnlyAfterRace

\* A user's wallet can be signed for, with its own key as long as no client names
\* another, and is answered to nobody else, whatever fails or races with it, and
\* a user has no more wallets than requests were served at a time
\* (createManagedUserWallet, GetActiveManagedUserWallet).
OwnWalletServes ==
  /\ Users!OwnCanSign
  /\ Users!NoOneElsesWallet
  /\ Users!SigningHasKey
  /\ Users!OwnBounded

\* What became of a wallet stands: a key's reference is never lost but to one
\* that a client registers in its place, a deleted wallet stays so, and a default
\* wallet is displaced by older ones only (UpsertUserWallet,
\* GetProjectDefaultAdminWallet).
WalletsStand ==
  /\ Users!KeyNeverForgotten
  /\ Users!DeletedStaysDeleted
  /\ Project!DefaultOnlyGetsOlder
  /\ Project!SignsWhatWasQueued
=============================================================================
