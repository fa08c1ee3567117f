-------------------------------- MODULE ApiKeys --------------------------------
(***************************************************************************)
(* The API keys of one project and the calls made with them.  A call is    *)
(* verified against the store once (MemgraphStore.VerifyAPIKey) and then   *)
(* works with the copy of the project and the key it was given: its scope, *)
(* its rate and the project's policy are checked on the copy, while other  *)
(* requests revoke and rotate keys, change the policy and archive the      *)
(* project (internal/httpapi/api.go, handlers.go, dashboard.go).  Rotation *)
(* is two calls to the store, of which the second may fail.                *)
(*                                                                         *)
(* The owner writes to contracts from the dashboard too: with the contract *)
(* console, which reads the project as it is then, and with the console of *)
(* a deployed token, which asks neither whether the project is archived    *)
(* nor which contracts it allows.                                          *)
(*                                                                         *)
(* What is stored of a key and never read by a decision (name, origins,    *)
(* lastUsedAt, revokedAt) is left out; so is what the limiter decides,     *)
(* which is RateLimiter's, and the refusal of an origin.                   *)
(***************************************************************************)
EXTENDS Integers, FiniteSets

CONSTANTS
  Key,          \* keys that may be created
  Scope,        \* scopes a key may have
  Admin,        \* the scope that contains every other
  WriteScope,   \* the scope contract writes need
  DefaultScopes,\* scopes of a key created without any
  Contract,     \* contracts calls may write to
  Deployed,     \* those of the tokens the project has deployed
  Manager,      \* requests that manage keys, served at the same time
  Call,         \* calls served at the same time
  NoKey,        \* no key: a call of the dashboard, a manager that rotates none
  NoContract,   \* a call writes to no contract
  MaxNow        \* bound on the clock; a key that expires later never does

ASSUME ScopeAssumption == {Admin, WriteScope} \subseteq Scope /\ DefaultScopes \in SUBSET Scope \ {{}}
ASSUME NoneAssumption == NoKey \notin Key /\ NoContract \notin Contract
ASSUME DeployedAssumption == Deployed \subseteq Contract
ASSUME BoundAssumption == MaxNow \in Nat

VARIABLES
  archived,  \* the project has been archived
  allowed,   \* its allowedContracts; none means that all are
  keys,      \* the stored keys
  pc,        \* where each manager stands
  rotating,  \* the key it rotates
  grant,     \* scopes and expiry of the key it is about to create
  stage,     \* where each call stands
  used,      \* the key a call was made with
  stamp,     \* the time it was verified at
  policy,    \* its copy of the allowed contracts
  scopes,    \* its copy of the key's scopes
  target,    \* the contract it is queueing a write to
  now        \* the clock

projectVars == <<archived, allowed>>
managerVars == <<pc, rotating, grant>>
callVars    == <<stage, used, stamp, policy, scopes, target>>
vars        == <<projectVars, keys, managerVars, callVars, now>>

Expiry == 1 .. MaxNow + 1
Grant  == [scopes: SUBSET Scope, expires: Expiry]
NoGrant == [scopes |-> {}, expires |-> 1]
Absent  == [status |-> "absent", scopes |-> {}, expires |-> 1, parent |-> NoKey]

TypeOK ==
  /\ archived \in BOOLEAN
  /\ allowed \in SUBSET Contract
  /\ keys \in [Key -> [status: {"absent", "active", "revoked"}, scopes: SUBSET Scope,
                       expires: Expiry, parent: Key \cup {NoKey}]]
  /\ pc \in [Manager -> {"idle", "revoking", "creating"}]
  /\ rotating \in [Manager -> Key \cup {NoKey}]
  /\ grant \in [Manager -> Grant]
  /\ stage \in [Call -> {"idle", "verifying", "verified", "enqueueing", "recording", "token"}]
  /\ used \in [Call -> Key \cup {NoKey}]
  /\ stamp \in [Call -> 0 .. MaxNow]
  /\ policy \in [Call -> SUBSET Contract]
  /\ scopes \in [Call -> SUBSET Scope]
  /\ target \in [Call -> Contract \cup {NoContract}]
  /\ now \in 0 .. MaxNow

Init ==
  /\ archived = FALSE
  /\ allowed  = {}
  /\ keys     = [k \in Key |-> Absent]
  /\ pc       = [m \in Manager |-> "idle"]
  /\ rotating = [m \in Manager |-> NoKey]
  /\ grant    = [m \in Manager |-> NoGrant]
  /\ stage    = [c \in Call |-> "idle"]
  /\ used     = [c \in Call |-> NoKey]
  /\ stamp    = [c \in Call |-> 0]
  /\ policy   = [c \in Call |-> {}]
  /\ scopes   = [c \in Call |-> {}]
  /\ target   = [c \in Call |-> NoContract]
  /\ now      = 0

-----------------------------------------------------------------------------
(* Managing keys.                                                          *)

Stored(k) == keys[k].status # "absent"

\* A manager goes on to the next call of its request.
Goes(m, where, k, g) ==
  /\ pc'       = [pc EXCEPT ![m] = where]
  /\ rotating' = [rotating EXCEPT ![m] = k]
  /\ grant'    = [grant EXCEPT ![m] = g]

\* What a rotated key gets: the scopes and the expiry of the old one.
RotatedGrant(k) == [scopes |-> keys[k].scopes, expires |-> keys[k].expires]

Revoke(k) == keys' = [keys EXCEPT ![k].status = "revoked"]

\* An operator or the owner asks for a key; the dashboard looks for a project
\* that is not archived, an operator's request for any.
RequestKey(m) ==
  /\ pc[m] = "idle"
  /\ \E asked \in SUBSET Scope, expires \in Expiry :
       Goes(m, "creating", NoKey,
            [scopes |-> IF asked = {} THEN DefaultScopes ELSE asked, expires |-> expires])
  /\ UNCHANGED <<projectVars, keys, callVars, now>>

\* An operator revokes a key, whatever its status.
RevokeAPIKey(m) ==
  /\ pc[m] = "idle"
  /\ \E k \in Key : Stored(k) /\ Revoke(k)
  /\ UNCHANGED <<projectVars, managerVars, callVars, now>>

\* Creates the new key first and revokes the old one afterwards.
RotateCreatingFirst(m) ==
  /\ pc[m] = "idle"
  /\ \E k \in Key : Stored(k) /\ Goes(m, "creating", k, RotatedGrant(k))
  /\ UNCHANGED <<projectVars, keys, callVars, now>>

\* An operator rotates a key: the revocation answers with what to create.
AdminRotateAPIKey(m) ==
  /\ pc[m] = "idle"
  /\ \E k \in Key :
       /\ Stored(k)
       /\ Revoke(k)
       /\ Goes(m, "creating", k, RotatedGrant(k))
  /\ UNCHANGED <<projectVars, callVars, now>>

\* The owner rotates a key: the key and the project are read first.
DashboardRotateAPIKey(m) ==
  /\ pc[m] = "idle"
  /\ ~archived
  /\ \E k \in Key : Stored(k) /\ Goes(m, "revoking", k, RotatedGrant(k))
  /\ UNCHANGED <<projectVars, keys, callVars, now>>

\* The old key is revoked.
RevokeRotated(m) ==
  /\ pc[m] = "revoking"
  /\ Revoke(rotating[m])
  /\ Goes(m, "creating", rotating[m], grant[m])
  /\ UNCHANGED <<projectVars, callVars, now>>

\* The key that the store creates: CREATE of a new node, in any project.
NewKey(m, k) ==
  /\ ~Stored(k)
  /\ keys' = [keys EXCEPT ![k] = [status |-> "active", scopes |-> grant[m].scopes,
                                  expires |-> grant[m].expires, parent |-> rotating[m]]]

CreateAPIKey(m) ==
  /\ pc[m] = "creating"
  /\ \E k \in Key : NewKey(m, k)
  /\ Goes(m, "idle", NoKey, NoGrant)
  /\ UNCHANGED <<projectVars, callVars, now>>

\* The store fails, or its answer is lost after it did its work: the request
\* ends there, a rotation with the old key revoked and perhaps no new one.
StoreFails(m) ==
  /\ pc[m] \in {"revoking", "creating"}
  /\ \/ UNCHANGED keys
     \/ pc[m] = "revoking" /\ Revoke(rotating[m])
     \/ pc[m] = "creating" /\ \E k \in Key : NewKey(m, k)
  /\ Goes(m, "idle", NoKey, NoGrant)
  /\ UNCHANGED <<projectVars, callVars, now>>

\* The owner changes the contracts the project may write to; an archived
\* project is not changed any more.
UpdateAccountApp ==
  /\ ~archived
  /\ allowed' \in SUBSET Contract
  /\ UNCHANGED <<archived, keys, managerVars, callVars, now>>

ArchiveAccountApp ==
  /\ archived' = TRUE
  /\ UNCHANGED <<allowed, keys, managerVars, callVars, now>>

-----------------------------------------------------------------------------
(* Calls.                                                                  *)

\* The clock is read before the store is asked.
BeginCall(c) ==
  /\ stage[c] = "idle"
  /\ \E k \in Key : Stored(k) /\ used' = [used EXCEPT ![c] = k]
  /\ stage' = [stage EXCEPT ![c] = "verifying"]
  /\ stamp' = [stamp EXCEPT ![c] = now]
  /\ UNCHANGED <<projectVars, keys, managerVars, policy, scopes, target, now>>

\* Accepts every key of an active project that has not expired.
ValidUnlessExpired(k, at) == ~archived /\ at < keys[k].expires

\* The key is good: WHERE of VerifyAPIKey.
Valid(k, at) == ~archived /\ keys[k].status = "active" /\ at < keys[k].expires

\* The call gets a copy of the project and of the key, or is refused.
VerifyAPIKey(c) ==
  /\ stage[c] = "verifying"
  /\ IF Valid(used[c], stamp[c])
       THEN /\ stage'  = [stage EXCEPT ![c] = "verified"]
            /\ policy' = [policy EXCEPT ![c] = allowed]
            /\ scopes' = [scopes EXCEPT ![c] = keys[used[c]].scopes]
            /\ UNCHANGED used
       ELSE /\ stage' = [stage EXCEPT ![c] = "idle"]
            /\ used'  = [used EXCEPT ![c] = NoKey]
            /\ UNCHANGED <<policy, scopes>>
  /\ stamp' = [stamp EXCEPT ![c] = 0]
  /\ UNCHANGED <<projectVars, keys, managerVars, target, now>>

\* The dashboard's contract console reads the project instead.
ConsoleCall(c) ==
  /\ stage[c] = "idle"
  /\ ~archived
  /\ stage'  = [stage EXCEPT ![c] = "verified"]
  /\ used'   = [used EXCEPT ![c] = NoKey]
  /\ policy' = [policy EXCEPT ![c] = allowed]
  /\ UNCHANGED <<projectVars, keys, managerVars, stamp, scopes, target, now>>

\* The console of a deployed token queues a write to the token's contract: it
\* looks for a token of an account's project, and for the project no more.
TokenConsoleCall(c) ==
  /\ stage[c] = "idle"
  /\ \E x \in Deployed : target' = [target EXCEPT ![c] = x]
  /\ stage' = [stage EXCEPT ![c] = "token"]
  /\ UNCHANGED <<projectVars, keys, managerVars, used, stamp, policy, scopes, now>>

\* The transaction is queued, or the request is refused.
EnqueueTokenWrite(c) ==
  /\ stage[c] = "token"
  /\ stage'  = [stage EXCEPT ![c] = "idle"]
  /\ target' = [target EXCEPT ![c] = NoContract]
  /\ UNCHANGED <<projectVars, keys, managerVars, used, stamp, policy, scopes, now>>

HasScope(have, required) == Admin \in have \/ required \in have

\* A project that lists no contract allows all of them.
PolicyAllows(copy, x) == copy = {} \/ x \in copy

\* A call with the scope for it is about to queue a write to a contract that
\* its copy of the policy allows; a console call needs no scope.
ContractWrite(c) ==
  /\ stage[c] = "verified"
  /\ used[c] # NoKey => HasScope(scopes[c], WriteScope)
  /\ \E x \in Contract :
       /\ PolicyAllows(policy[c], x)
       /\ target' = [target EXCEPT ![c] = x]
  /\ stage' = [stage EXCEPT ![c] = "enqueueing"]
  /\ UNCHANGED <<projectVars, keys, managerVars, used, stamp, policy, scopes, now>>

\* A call made with a key has its use recorded; one of the console is over.
Ends(c) ==
  /\ stage'  = [stage EXCEPT ![c] = IF used[c] = NoKey THEN "idle" ELSE "recording"]
  /\ target' = [target EXCEPT ![c] = NoContract]
  /\ policy' = [policy EXCEPT ![c] = {}]
  /\ scopes' = [scopes EXCEPT ![c] = {}]
  /\ UNCHANGED <<projectVars, keys, managerVars, used, stamp, now>>

\* A call that its scope, origin, rate or policy refuses, or writes nothing.
Refuse(c) == stage[c] = "verified" /\ Ends(c)

\* The transaction is queued, or the store refuses it.
Enqueue(c) == stage[c] = "enqueueing" /\ Ends(c)

\* The use of the key is recorded, whatever became of the call; a failure to
\* record it is ignored.
RecordAPIUsage(c) ==
  /\ stage[c] = "recording"
  /\ stage' = [stage EXCEPT ![c] = "idle"]
  /\ used'  = [used EXCEPT ![c] = NoKey]
  /\ UNCHANGED <<projectVars, keys, managerVars, stamp, policy, scopes, target, now>>

Tick ==
  /\ now < MaxNow
  /\ now' = now + 1
  /\ UNCHANGED <<projectVars, keys, managerVars, callVars>>

-----------------------------------------------------------------------------

ManagerStep(m) ==
  \/ RequestKey(m)
  \/ RevokeAPIKey(m)
  \/ AdminRotateAPIKey(m)
  \/ DashboardRotateAPIKey(m)
  \/ RevokeRotated(m)
  \/ CreateAPIKey(m)
  \/ StoreFails(m)

\* What a call does once it is made.
CallStep(c) ==
  \/ VerifyAPIKey(c)
  \/ ContractWrite(c)
  \/ Refuse(c)
  \/ Enqueue(c)
  \/ EnqueueTokenWrite(c)
  \/ RecordAPIUsage(c)

Next ==
  \/ \E m \in Manager : ManagerStep(m)
  \/ \E c \in Call : BeginCall(c) \/ ConsoleCall(c) \/ TokenConsoleCall(c) \/ CallStep(c)
  \/ UpdateAccountApp
  \/ ArchiveAccountApp
  \/ Tick

Spec == Init /\ [][Next]_vars

\* Every call that was made is answered.
FairSpec == Spec /\ \A c \in Call : WF_vars(CallStep(c))

-----------------------------------------------------------------------------
(* Properties.                                                             *)

\* The new key of a rotation exists only when the old one has been revoked:
\* no call or failure leaves both of them active (adminRotateAPIKey,
\* dashboardRotateAPIKey).
RotatedIsRevoked ==
  \A k \in Key : keys[k].parent # NoKey => keys[keys[k].parent].status = "revoked"

\* However often a key is rotated, by whom and at the same time as what, the
\* new keys can do what the first one could and expire when it does.
PowersInherited ==
  \A k \in Key : keys[k].parent # NoKey =>
    /\ keys[k].scopes = keys[keys[k].parent].scopes
    /\ keys[k].expires = keys[keys[k].parent].expires

\* Calls being served with key k.
ServedWith(k) == {c \in Call : used[c] = k /\ stage[c] \in {"verified", "enqueueing", "recording"}}

\* A key that is revoked has its last calls answered and is never served
\* again: no rotation, project change or copy brings it back (RevokeAPIKey).
RevokedIsOver == \A k \in Key : keys[k].status = "revoked" ~> [](ServedWith(k) = {})

\* So it is with a key that expires, although calls compare the expiry with a
\* clock they have read earlier (VerifyAPIKey).
ExpiredIsOver == \A k \in Key : Stored(k) /\ now >= keys[k].expires ~> [](ServedWith(k) = {})

\* So it is with all keys and the contract console of a project that is archived,
\* keys created later included (ArchiveAccountApp).  The consoles of its tokens
\* go on: they ask nothing of the project (dashboardERC20Action).
ArchivedIsOver == archived ~> [](\A k \in Key \cup {NoKey} : ServedWith(k) = {})

\* A contract that is no longer allowed is in the end written to by nobody, only
\* by calls that were verified before and, for good, by the console of the token
\* if it is one (enforceProjectPolicy, dashboardERC20Action).
PolicyTakesHold ==
  \A x \in Contract :
    <>[](allowed # {} /\ x \notin allowed) =>
      <>[](\A c \in Call : target[c] = x => x \in Deployed /\ stage[c] = "token")
=============================================================================
