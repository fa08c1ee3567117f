---------------------------- MODULE ProjectWallets ----------------------------
(***************************************************************************)
(* The server wallets of one project.  The API makes sure that a project   *)
(* has a default admin wallet by looking one up, creating a key in GMR     *)
(* Vault and storing a wallet for it: three calls of one request           *)
(* (internal/httpapi/api.go), with other requests in between.  Writes to a *)
(* contract are queued with the address of the default wallet and signed   *)
(* later by the worker, which looks the default up again and refuses a     *)
(* write queued for another address (internal/deployer/deployer.go).       *)
(*                                                                         *)
(* An address stands for its vault key.  Times are seconds, the precision  *)
(* of createdAt: two wallets of one second are returned in either order.   *)
(***************************************************************************)
EXTENDS Integers, FiniteSets

CONSTANTS
  Request,     \* API requests served at the same time
  Address,     \* addresses of the keys the vault may create
  Write,       \* contract writes that may be queued
  NoAddress,   \* no address yet
  MaxAttempts, \* attempts of the worker at one write
  MaxNow       \* bound on the clock

NoAddressAssumption == NoAddress \notin Address
FiniteAssumption == IsFiniteSet(Request) /\ IsFiniteSet(Address)
BoundsAssumption == MaxAttempts \in Nat \ {0} /\ MaxNow \in Nat

VARIABLES
  vault,     \* addresses whose key the vault holds
  wallets,   \* addresses of the stored ProjectWallet nodes
  isDefault, \* those of them with isDefaultAdmin
  createdAt, \* createdAt of each stored wallet
  stage,     \* where each request stands
  wanted,    \* the request wants a default admin wallet
  address,   \* the wallet it is creating, or answers with
  stamp,     \* the time it will store as createdAt
  writes,    \* the queued writes: the signer's address, the attempts, the status
  now        \* the clock

storeVars   == <<wallets, isDefault, createdAt>>
requestVars == <<stage, wanted, address, stamp>>
vars        == <<vault, storeVars, requestVars, writes, now>>

Stage       == {"idle", "creating", "storing", "served", "refused"}
WriteStatus == {"absent", "queued", "signed", "failed"}

NoWrite == [signer |-> NoAddress, named |-> FALSE, attempts |-> 0, status |-> "absent"]

TypeOK ==
  /\ vault \subseteq Address
  /\ wallets \subseteq Address
  /\ isDefault \subseteq wallets
  /\ createdAt \in [Address -> 0 .. MaxNow]
  /\ stage \in [Request -> Stage]
  /\ wanted \in [Request -> BOOLEAN]
  /\ address \in [Request -> Address \cup {NoAddress}]
  /\ stamp \in [Request -> 0 .. MaxNow]
  /\ writes \in [Write -> [signer: Address \cup {NoAddress}, named: BOOLEAN,
                           attempts: 0 .. MaxAttempts, status: WriteStatus]]
  /\ now \in 0 .. MaxNow

Init ==
  /\ vault     = {}
  /\ wallets   = {}
  /\ isDefault = {}
  /\ createdAt = [a \in Address |-> 0]
  /\ stage     = [r \in Request |-> "idle"]
  /\ wanted    = [r \in Request |-> FALSE]
  /\ address   = [r \in Request |-> NoAddress]
  /\ stamp     = [r \in Request |-> 0]
  /\ writes    = [w \in Write |-> NoWrite]
  /\ now       = 0

-----------------------------------------------------------------------------
(* Requests.                                                               *)

\* The default admin wallets the store may answer with: ORDER BY createdAt
\* ASC LIMIT 1, in either order within a second.
GetProjectDefaultAdminWallet ==
  {a \in isDefault : \A b \in isDefault : createdAt[a] <= createdAt[b]}

\* The same look-up by the worker and the synchronous routes, with the
\* reference to the vault key.
GetProjectDefaultAdminWalletSecret == GetProjectDefaultAdminWallet

\* A request that creates a wallet starts with a call to the vault.
StartCreating(r, default) ==
  /\ stage'  = [stage EXCEPT ![r] = "creating"]
  /\ wanted' = [wanted EXCEPT ![r] = default]
  /\ UNCHANGED <<vault, storeVars, address, stamp, writes, now>>

\* Project creation and the project pages: answer with the default wallet,
\* or create one when there is none.
EnsureProjectDefaultAdminWallet(r) ==
  /\ stage[r] = "idle"
  /\ \/ /\ isDefault = {}
        /\ StartCreating(r, TRUE)
     \/ \E a \in GetProjectDefaultAdminWallet :
          /\ stage'   = [stage EXCEPT ![r] = "served"]
          /\ wanted'  = [wanted EXCEPT ![r] = TRUE]
          /\ address' = [address EXCEPT ![r] = a]
          /\ UNCHANGED <<vault, storeVars, stamp, writes, now>>

\* POST /wallets: a further server wallet, never the default one.
CreateWallet(r) ==
  /\ stage[r] = "idle"
  /\ StartCreating(r, FALSE)

\* The addresses of the keys the vault may create: a new key each time.
FreshKey == Address \ vault

\* The vault answers with a new key, and CreateProjectWallet reads the clock.
VaultCreatesWallet(r) ==
  /\ stage[r] = "creating"
  /\ \E a \in FreshKey :
       /\ vault'   = vault \cup {a}
       /\ address' = [address EXCEPT ![r] = a]
  /\ stage' = [stage EXCEPT ![r] = "storing"]
  /\ stamp' = [stamp EXCEPT ![r] = now]
  /\ UNCHANGED <<storeVars, wanted, writes, now>>

\* The vault is down or its answer is lost; the key may exist all the same.
VaultFails(r) ==
  /\ stage[r] = "creating"
  /\ \/ UNCHANGED vault
     \/ \E a \in FreshKey : vault' = vault \cup {a}
  /\ stage' = [stage EXCEPT ![r] = "refused"]
  /\ UNCHANGED <<storeVars, wanted, address, stamp, writes, now>>

\* The new wallet becomes the only default one.
StoreReplacing(r) ==
  /\ wallets'   = wallets \cup {address[r]}
  /\ isDefault' = IF wanted[r] THEN {address[r]} ELSE isDefault
  /\ createdAt' = [createdAt EXCEPT ![address[r]] = stamp[r]]

\* The wallet node of a request.
Store(r) ==
  /\ wallets'   = wallets \cup {address[r]}
  /\ isDefault' = IF wanted[r] THEN isDefault \cup {address[r]} ELSE isDefault
  /\ createdAt' = [createdAt EXCEPT ![address[r]] = stamp[r]]

CreateProjectWallet(r) ==
  /\ stage[r] = "storing"
  /\ Store(r)
  /\ stage' = [stage EXCEPT ![r] = "served"]
  /\ UNCHANGED <<vault, wanted, address, stamp, writes, now>>

\* The store refuses, or stores the wallet and the answer is lost.
StoreFails(r) ==
  /\ stage[r] = "storing"
  /\ \/ UNCHANGED storeVars
     \/ Store(r)
  /\ stage' = [stage EXCEPT ![r] = "refused"]
  /\ UNCHANGED <<vault, wanted, address, stamp, writes, now>>

\* The answer is sent and the connection serves another request.
Answer(r) ==
  /\ stage[r] \in {"served", "refused"}
  /\ stage'   = [stage EXCEPT ![r] = "idle"]
  /\ wanted'  = [wanted EXCEPT ![r] = FALSE]
  /\ address' = [address EXCEPT ![r] = NoAddress]
  /\ stamp'   = [stamp EXCEPT ![r] = 0]
  /\ UNCHANGED <<vault, storeVars, writes, now>>

-----------------------------------------------------------------------------
(* Contract writes.                                                        *)

Enqueue(w, a, named) ==
  /\ writes[w].status = "absent"
  /\ writes' = [writes EXCEPT ![w] =
       [signer |-> a, named |-> named, attempts |-> 0, status |-> "queued"]]
  /\ UNCHANGED <<vault, storeVars, requestVars, now>>

\* The token console and the contract console of the dashboard, and an API
\* write that names no wallet, queue for the default wallet of the moment.
ConsoleWrite(w) == \E a \in GetProjectDefaultAdminWallet : Enqueue(w, a, FALSE)

\* An API write may name any wallet.
ContractWrite(w) == \/ ConsoleWrite(w)
                    \/ \E a \in Address : Enqueue(w, a, TRUE)

\* The worker signs with the default wallet of the moment, and only what was
\* queued for it.
SignerPayload(w, a) == writes[w].signer = a

\* Another attempt even after the last one.
AttemptAgain(attempts) == "queued"

\* What a failed attempt leaves the write in.
AttemptStatus(attempts) == IF attempts < MaxAttempts THEN "queued" ELSE "failed"

\* An attempt that cannot be signed is queued again until it was the last.
Attempt(w) ==
  LET attempts == writes[w].attempts + 1 IN
  /\ writes[w].status = "queued"
  /\ \/ \E a \in GetProjectDefaultAdminWalletSecret :
          /\ SignerPayload(w, a)
          /\ writes' = [writes EXCEPT ![w].status = "signed", ![w].attempts = attempts,
                                      ![w].signer = a]
     \/ /\ \/ isDefault = {}
           \/ \E a \in GetProjectDefaultAdminWalletSecret : ~SignerPayload(w, a)
        /\ writes' = [writes EXCEPT ![w].attempts = attempts,
                                      ![w].status = AttemptStatus(attempts)]
  /\ UNCHANGED <<vault, storeVars, requestVars, now>>

Tick ==
  /\ now < MaxNow
  /\ now' = now + 1
  /\ UNCHANGED <<vault, storeVars, requestVars, writes>>

-----------------------------------------------------------------------------

RequestStep(r) ==
  \/ EnsureProjectDefaultAdminWallet(r)
  \/ CreateWallet(r)
  \/ VaultCreatesWallet(r)
  \/ VaultFails(r)
  \/ CreateProjectWallet(r)
  \/ StoreFails(r)
  \/ Answer(r)

Next ==
  \/ \E r \in Request : RequestStep(r)
  \/ \E w \in Write : ContractWrite(w) \/ Attempt(w)
  \/ Tick

Spec == Init /\ [][Next]_vars

\* The worker comes round to every queued write.
FairSpec == Spec /\ \A w \in Write : WF_vars(Attempt(w))

-----------------------------------------------------------------------------
(* Properties.                                                             *)

\* Requests that will store a default admin wallet unless something fails.
CreatingDefault == {r \in Request : stage[r] \in {"creating", "storing"} /\ wanted[r]}

\* A stored wallet can sign: its key was created in the vault before the
\* wallet was stored, and every request that is about to store one holds a
\* key no other request or wallet has (generateProjectWallet).
WalletsHaveKeys ==
  /\ wallets \subseteq vault
  /\ \A r \in Request : stage[r] = "storing" =>
       /\ address[r] \in vault \ wallets
       /\ \A q \in Request : stage[q] = "storing" /\ address[q] = address[r] => q = r

\* The look-up and the creation of the default wallet are not one step, so
\* requests served at the same time may each create one; but a project never
\* gets more default wallets than there were requests at a time, and exactly
\* one when they come one after the other (ensureProjectDefaultAdminWallet).
DefaultsBounded == Cardinality(isDefault) <= Cardinality(Request)

\* Once a default wallet is stored it stays one, and the wallet the project
\* signs with only ever changes to one created no later: a look-up that was
\* overtaken cannot move the signer forward (GetProjectDefaultAdminWallet).
DefaultOnlyGetsOlder ==
  [][/\ isDefault \subseteq isDefault'
     /\ \A a \in GetProjectDefaultAdminWallet, b \in GetProjectDefaultAdminWallet' :
          createdAt'[b] <= createdAt[a]]_vars

\* The worker signs with the key of a default admin wallet and with no other
\* key of the project, whatever wallet the request named
\* (projectSignerPayloadForWallet).
SignedByDefault ==
  \A w \in Write : writes[w].status = "signed" => writes[w].signer \in isDefault \cap vault

\* A write is signed by the wallet it was queued for or not at all, although
\* the default may have changed since (projectSignerPayloadForWallet).
SignsWhatWasQueued ==
  [][\A w \in Write : writes[w].status = "queued" /\ writes'[w].status = "signed"
       => writes'[w].signer = writes[w].signer]_vars

\* A write queued for the default wallet is refused by the worker only after
\* two requests created a default wallet each.
RefusedOnlyAfterRace ==
  \A w \in Write :
    ~writes[w].named /\ writes[w].status \in {"queued", "failed"} /\ writes[w].attempts > 0
      => \E a, b \in isDefault : a # b

\* With one default wallet stored and none on its way, every write queued for
\* the default wallet is signed in the end: no later request can disturb it.
QuietWriteIsSigned ==
  \A w \in Write :
    (/\ writes[w].status = "queued" /\ ~writes[w].named
     /\ \A a, b \in isDefault : a = b
     /\ CreatingDefault = {})
    ~> writes[w].status = "signed"
=============================================================================
