----------------------------- MODULE UserWallets -----------------------------
(***************************************************************************)
(* The user wallets of one project.  A managed wallet holds a key of GMR   *)
(* Vault for a user: createManagedUserWallet (internal/httpapi/handlers.go)*)
(* looks the user's wallet up, creates a key and stores the wallet, three  *)
(* calls with other requests in between.  The same node is written by      *)
(* clients that register an address (upsertUserWallet) or delete a wallet, *)
(* and read by transfers that sign with it for up to five minutes          *)
(* (internal/httpapi/permit_transfer.go).                                  *)
(*                                                                         *)
(* A user stands for a pair of authProvider and userId; an address of the  *)
(* vault stands for its key and for the reference to it.  No route returns *)
(* a reference, but a registration may carry one: its body is parsed into  *)
(* the input of the store, vaultWalletRef included.                        *)
(***************************************************************************)
EXTENDS Integers, FiniteSets

CONSTANTS
  Request,   \* API requests served at the same time
  User,      \* users of the project
  Key,       \* addresses of the keys the vault may create
  Address,   \* addresses of wallets
  Registered, \* those that clients register
  ClientRef, \* what a registration may carry as vaultWalletRef
  NoRef,     \* the empty vaultWalletRef
  NoUser,    \* no user
  MaxNow     \* bound on the clock

AddressAssumption ==
  /\ Key \subseteq Address
  /\ Registered \subseteq Address
  /\ NoRef \notin Address \cup ClientRef
UserAssumption == NoUser \notin User
FiniteAssumption == IsFiniteSet(Request) /\ IsFiniteSet(Address)
MaxNowAssumption == MaxNow \in Nat

VARIABLES
  vault,    \* addresses whose key the vault holds
  status,   \* the wallet's status, "absent" before the node exists
  owner,    \* userId and authProvider
  custody,  \* walletCustody
  ref,      \* vaultWalletRef
  lastSeen, \* lastSeenAt
  stage,    \* where each request stands
  user,     \* the user it is for
  address,  \* the wallet it creates, answers with or signs for
  signer,   \* the reference its script signs with
  own,      \* the wallets made for each user that no client has written since
  now       \* the clock

walletVars  == <<status, owner, custody, ref, lastSeen>>
requestVars == <<stage, user, address, signer>>
vars        == <<vault, walletVars, requestVars, own, now>>

Status  == {"absent", "active", "deleted"}
Custody == {"external", "managed"}
Ref     == Key \cup ClientRef \cup {NoRef}
Stage   == {"idle", "creating", "storing", "served", "refused", "signing", "signed"}

TypeOK ==
  /\ vault \subseteq Key
  /\ status \in [Address -> Status]
  /\ owner \in [Address -> User \cup {NoUser}]
  /\ custody \in [Address -> Custody]
  /\ ref \in [Address -> Ref]
  /\ lastSeen \in [Address -> 0 .. MaxNow]
  /\ stage \in [Request -> Stage]
  /\ user \in [Request -> User \cup {NoUser}]
  /\ address \in [Request -> Address \cup {NoRef}]
  /\ signer \in [Request -> Ref]
  /\ own \in [User -> SUBSET Key]
  /\ now \in 0 .. MaxNow

Init ==
  /\ vault    = {}
  /\ status   = [a \in Address |-> "absent"]
  /\ owner    = [a \in Address |-> NoUser]
  /\ custody  = [a \in Address |-> "external"]
  /\ ref      = [a \in Address |-> NoRef]
  /\ lastSeen = [a \in Address |-> 0]
  /\ stage    = [r \in Request |-> "idle"]
  /\ user     = [r \in Request |-> NoUser]
  /\ address  = [r \in Request |-> NoRef]
  /\ signer   = [r \in Request |-> NoRef]
  /\ own      = [u \in User |-> {}]
  /\ now      = 0

-----------------------------------------------------------------------------
(* The store.                                                              *)

\* ON CREATE sets the status; an upsert of a deleted wallet leaves it so.
StatusOnCreate(a) ==
  status' = [status EXCEPT ![a] = IF @ = "absent" THEN "active" ELSE @]

\* Every upsert sets the reference.
RefReplaced(a, k) == ref' = [ref EXCEPT ![a] = k]

\* A request without a reference keeps the one that is stored.
RefKept(a, k) == ref' = [ref EXCEPT ![a] = IF k = NoRef THEN @ ELSE k]

\* UpsertUserWallet for user u, reading the clock before it writes.
Upsert(a, u, c, k) ==
  /\ StatusOnCreate(a)
  /\ owner'    = [owner EXCEPT ![a] = u]
  /\ custody'  = [custody EXCEPT ![a] = c]
  /\ RefKept(a, k)
  /\ \E t \in 0 .. now : lastSeen' = [lastSeen EXCEPT ![a] = t]

\* The look-up without the user's id.
ManagedByAnyone(u) == {a \in Address : status[a] = "active" /\ custody[a] = "managed"}

\* The active managed wallets of a user, and the one the look-up answers with:
\* ORDER BY lastSeenAt DESC LIMIT 1, any of those seen in the same second.
Managed(u) == {a \in Address : status[a] = "active" /\ custody[a] = "managed" /\ owner[a] = u}

GetActiveManagedUserWallet(u) ==
  {a \in Managed(u) : \A b \in Managed(u) : lastSeen[b] <= lastSeen[a]}

\* The wallets a transfer may sign for.
GetActiveManagedUserWalletSecretByAddress ==
  {a \in Address : status[a] = "active" /\ custody[a] = "managed" /\ ref[a] # NoRef}

-----------------------------------------------------------------------------
(* Requests.                                                               *)

\* POST /user-wallets: register an address for a user, any custody, with a
\* reference or none.  The address of a key is known to clients once its wallet
\* is stored.
UpsertUserWallet(a, u, c, k) ==
  /\ a \in vault => status[a] # "absent"
  /\ Upsert(a, u, c, k)
  /\ own' = [v \in User |-> own[v] \ {a}]
  /\ UNCHANGED <<vault, requestVars, now>>

\* POST /user-wallets/managed: answer with the user's wallet or create one.
CreateManagedUserWallet(r, u) ==
  /\ stage[r] = "idle"
  /\ user' = [user EXCEPT ![r] = u]
  /\ \/ /\ Managed(u) = {}
        /\ stage' = [stage EXCEPT ![r] = "creating"]
        /\ UNCHANGED address
     \/ \E a \in GetActiveManagedUserWallet(u) :
          /\ stage'   = [stage EXCEPT ![r] = "served"]
          /\ address' = [address EXCEPT ![r] = a]
  /\ UNCHANGED <<vault, walletVars, signer, own, now>>

\* The vault creates a key; no one has registered its address before.
VaultCreatesWallet(r) ==
  /\ stage[r] = "creating"
  /\ \E a \in Key \ vault :
       /\ status[a] = "absent"
       /\ vault'   = vault \cup {a}
       /\ address' = [address EXCEPT ![r] = a]
  /\ stage' = [stage EXCEPT ![r] = "storing"]
  /\ UNCHANGED <<walletVars, user, signer, own, now>>

\* The vault is down or its answer is lost; the key may exist all the same.
VaultFails(r) ==
  /\ stage[r] = "creating"
  /\ \/ UNCHANGED vault
     \/ \E a \in Key \ vault : status[a] = "absent" /\ vault' = vault \cup {a}
  /\ stage' = [stage EXCEPT ![r] = "refused"]
  /\ UNCHANGED <<walletVars, user, address, signer, own, now>>

\* Stores the wallet of key k; the answer of the store may be lost.
StoreWallet(r, k) ==
  /\ stage[r] = "storing"
  /\ Upsert(address[r], user[r], "managed", k)
  /\ own' = [own EXCEPT ![user[r]] = @ \cup {address[r]}]
  /\ \E s \in {"served", "refused"} : stage' = [stage EXCEPT ![r] = s]
  /\ UNCHANGED <<vault, user, address, signer, now>>

StoreManaged(r) == StoreWallet(r, address[r])

\* The store fails and writes nothing.
StoreFails(r) ==
  /\ stage[r] = "storing"
  /\ stage' = [stage EXCEPT ![r] = "refused"]
  /\ UNCHANGED <<vault, walletVars, user, address, signer, own, now>>

\* A transfer from a managed wallet: look the wallet and its reference up, and
\* refuse one that is none of the vault's.
ManagedTransfer(r) ==
  /\ stage[r] = "idle"
  /\ \E a \in GetActiveManagedUserWalletSecretByAddress :
       /\ address' = [address EXCEPT ![r] = a]
       /\ \/ /\ stage'  = [stage EXCEPT ![r] = "signing"]
             /\ signer' = [signer EXCEPT ![r] = ref[a]]
          \/ /\ ref[a] \notin Key
             /\ stage' = [stage EXCEPT ![r] = "refused"]
             /\ UNCHANGED signer
  /\ UNCHANGED <<vault, walletVars, user, own, now>>

\* The script asks the vault to sign by that reference, as long as it runs; the
\* vault knows no such key, or fails.
Sign(r) ==
  /\ stage[r] = "signing"
  /\ \/ signer[r] \in vault /\ stage' = [stage EXCEPT ![r] = "signed"]
     \/ stage' = [stage EXCEPT ![r] = "refused"]
  /\ UNCHANGED <<vault, walletVars, user, address, signer, own, now>>

\* The answer is sent and the connection serves another request.
Answer(r) ==
  /\ stage[r] \in {"served", "refused", "signed"}
  /\ stage'   = [stage EXCEPT ![r] = "idle"]
  /\ user'    = [user EXCEPT ![r] = NoUser]
  /\ address' = [address EXCEPT ![r] = NoRef]
  /\ signer'  = [signer EXCEPT ![r] = NoRef]
  /\ UNCHANGED <<vault, walletVars, own, now>>

\* DELETE /user-wallets/:id.
DeleteUserWallet(a) ==
  /\ status[a] # "absent"
  /\ status' = [status EXCEPT ![a] = "deleted"]
  /\ own' = [v \in User |-> own[v] \ {a}]
  /\ UNCHANGED <<vault, owner, custody, ref, lastSeen, requestVars, now>>

Tick == now < MaxNow /\ now' = now + 1 /\ UNCHANGED <<vault, walletVars, requestVars, own>>

-----------------------------------------------------------------------------

RequestStep(r) ==
  \/ \E u \in User : CreateManagedUserWallet(r, u)
  \/ VaultCreatesWallet(r)
  \/ VaultFails(r)
  \/ StoreManaged(r)
  \/ StoreFails(r)
  \/ ManagedTransfer(r)
  \/ Sign(r)
  \/ Answer(r)

Next ==
  \/ \E r \in Request : RequestStep(r)
  \/ \E a \in Registered, u \in User, c \in Custody, k \in ClientRef \cup {NoRef} :
       UpsertUserWallet(a, u, c, k)
  \/ \E a \in Address : DeleteUserWallet(a)
  \/ Tick

Spec == Init /\ [][Next]_vars

-----------------------------------------------------------------------------
(* Properties.                                                             *)

\* A wallet that was made for a user and that no client has registered or
\* deleted since can be signed for, with its own key: neither a failed
\* request nor one that raced with it takes it back
\* (createManagedUserWallet, UpsertUserWallet).
OwnCanSign ==
  \A u \in User : own[u] \subseteq
    {a \in GetActiveManagedUserWalletSecretByAddress \cap Managed(u) \cap vault : ref[a] = a}

\* A user is never answered with a wallet made for someone else, unless a
\* client registered it anew (GetActiveManagedUserWallet).
NoOneElsesWallet ==
  \A r \in Request, u \in User :
    stage[r] = "served" /\ address[r] \in own[u] => u = user[r]

\* Requests racing for one user may each make a wallet, and the older ones
\* are answered no more; but there are never more than requests at a time
\* (createManagedUserWallet).
OwnBounded == \A u \in User : Cardinality(own[u]) <= Cardinality(Request)

\* A transfer that got past the look-up signs with the wallet's own key, which
\* the vault has, or by the reference a client has registered for it: never by
\* that of another wallet or by none, whatever happens while the script runs
\* (GetActiveManagedUserWalletSecretByAddress, UpsertUserWallet).
SigningHasKey ==
  \A r \in Request : stage[r] \in {"signing", "signed"} =>
    \/ signer[r] = address[r] /\ signer[r] \in vault
    \/ signer[r] \in ClientRef

\* The reference to a key, which exists nowhere else, is replaced by nothing but
\* one that a client sends with a registration, and never emptied, whoever
\* registers, stores or deletes the wallet later (UpsertUserWallet).
KeyNeverForgotten ==
  [][\A a \in Address : ref[a] # NoRef /\ ref'[a] # ref[a] =>
       ref'[a] \in ClientRef]_vars

\* A deleted wallet is neither answered with nor signed for again, although
\* its node is still written to (UpsertUserWallet, ON CREATE).
DeletedStaysDeleted ==
  [][\A a \in Address : status[a] = "deleted" =>
       /\ status'[a] = "deleted"
       /\ \A r \in Request : stage[r] = "idle" => address'[r] # a]_vars
=============================================================================
