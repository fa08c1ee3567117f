----------------------------- MODULE ApiKeysProofs -----------------------------
(***************************************************************************)
(* What the store promises of rotated keys, proved for any keys, scopes,   *)
(* managers and calls.                                                     *)
(*                                                                         *)
(* A request that rotates a key reads it in one call to the store and      *)
(* creates the new one in a later call, so the invariant has to say what   *)
(* the request still knows by then (Promised), and that is so because no   *)
(* step changes what a stored key may do or makes a revoked key active     *)
(* again (KeysKept).                                                       *)
(***************************************************************************)
EXTENDS ApiKeys, TLAPS

KeyType == [status: {"absent", "active", "revoked"}, scopes: SUBSET Scope,
            expires: Expiry, parent: Key \cup {NoKey}]

\* What a manager knows of the key it rotates is still so; by the time it
\* creates the new key the old one is revoked.
Promised ==
  \A m \in Manager :
    /\ pc[m] = "revoking" => rotating[m] # NoKey
    /\ rotating[m] # NoKey =>
         /\ Stored(rotating[m])
         /\ grant[m] = RotatedGrant(rotating[m])
         /\ pc[m] = "creating" => keys[rotating[m]].status = "revoked"

\* A call that is to be verified was made with a key.
HasUsed == \A c \in Call : stage[c] = "verifying" => used[c] # NoKey

IInv == TypeOK /\ RotatedIsRevoked /\ PowersInherited /\ Promised /\ HasUsed

\* A step leaves what a stored key is, and what is revoked stays so.
KeysKept ==
  \A k \in Key : Stored(k) =>
    /\ keys'[k].status # "absent"
    /\ keys[k].status = "revoked" => keys'[k].status = "revoked"
    /\ keys'[k].scopes = keys[k].scopes
    /\ keys'[k].expires = keys[k].expires
    /\ keys'[k].parent = keys[k].parent

\* What a step has to do with the stored keys.
KeysGood ==
  /\ keys' \in [Key -> KeyType]
  /\ KeysKept
  /\ RotatedIsRevoked'
  /\ PowersInherited'

-----------------------------------------------------------------------------
(* Steps of the store.                                                     *)

LEMMA KeysAlone ==
  ASSUME TypeOK, RotatedIsRevoked, PowersInherited, UNCHANGED keys
  PROVE  KeysGood
  BY DEF TypeOK, KeysGood, KeysKept, KeyType, RotatedIsRevoked, PowersInherited, Stored

\* Revoking a stored key.
LEMMA RevokeKeeps ==
  ASSUME TypeOK, RotatedIsRevoked, PowersInherited,
         NEW r \in Key, Stored(r), Revoke(r)
  PROVE  KeysGood /\ keys'[r].status = "revoked"
<1>1. /\ keys \in [Key -> KeyType]
      /\ keys' = [keys EXCEPT ![r] = [keys[r] EXCEPT !.status = "revoked"]]
  BY DEF TypeOK, KeyType, Revoke
<1>2. keys' \in [Key -> KeyType] /\ keys'[r].status = "revoked"
  BY <1>1 DEF KeyType
<1>3. \A k \in Key : /\ keys'[k].scopes = keys[k].scopes
                     /\ keys'[k].expires = keys[k].expires
                     /\ keys'[k].parent = keys[k].parent
                     /\ keys'[k].status = IF k = r THEN "revoked" ELSE keys[k].status
  BY <1>1 DEF KeyType
<1>4. KeysKept
  BY <1>3 DEF KeysKept, Stored
<1>5. \A k \in Key : keys[k].parent # NoKey => keys[k].parent \in Key
  BY <1>1 DEF KeyType
<1>6. RotatedIsRevoked' /\ PowersInherited'
  BY <1>3, <1>5 DEF RotatedIsRevoked, PowersInherited
<1>7. QED
  BY <1>2, <1>4, <1>6 DEF KeysGood

\* Creating a key: the parent of a rotated one is revoked and can do as much.
LEMMA NewKeyKeeps ==
  ASSUME TypeOK, RotatedIsRevoked, PowersInherited, Promised,
         NEW m \in Manager, pc[m] = "creating", NEW n \in Key, NewKey(m, n)
  PROVE  KeysGood
<1>1. /\ keys \in [Key -> KeyType]
      /\ grant[m] \in Grant
      /\ rotating[m] \in Key \cup {NoKey}
      /\ ~Stored(n)
      /\ keys' = [keys EXCEPT ![n] = [status |-> "active", scopes |-> grant[m].scopes,
                                      expires |-> grant[m].expires, parent |-> rotating[m]]]
  BY DEF TypeOK, KeyType, NewKey
<1>2. keys' \in [Key -> KeyType]
  BY <1>1 DEF KeyType, Grant
<1>3. \A k \in Key \ {n} : keys'[k] = keys[k]
  BY <1>1
<1>4. /\ keys'[n].scopes = grant[m].scopes
      /\ keys'[n].expires = grant[m].expires
      /\ keys'[n].parent = rotating[m]
  BY <1>1
<1>5. \A k \in Key : keys[k].parent # NoKey => keys[k].parent \in Key \ {n}
  BY <1>1 DEF KeyType, RotatedIsRevoked, Stored
<1>6. rotating[m] # NoKey => /\ rotating[m] \in Key \ {n}
                             /\ keys[rotating[m]].status = "revoked"
                             /\ grant[m].scopes = keys[rotating[m]].scopes
                             /\ grant[m].expires = keys[rotating[m]].expires
  <2>1. SUFFICES ASSUME rotating[m] # NoKey
                 PROVE  /\ rotating[m] \in Key \ {n}
                        /\ keys[rotating[m]].status = "revoked"
                        /\ grant[m].scopes = keys[rotating[m]].scopes
                        /\ grant[m].expires = keys[rotating[m]].expires
    OBVIOUS
  <2>2. /\ Stored(rotating[m])
        /\ grant[m] = RotatedGrant(rotating[m])
        /\ keys[rotating[m]].status = "revoked"
    BY <2>1 DEF Promised
  <2>3. rotating[m] \in Key /\ rotating[m] # n
    BY <1>1, <2>1, <2>2
  <2>4. QED
    BY <2>2, <2>3 DEF RotatedGrant
<1>7. KeysKept
  BY <1>1, <1>3 DEF KeysKept, Stored
<1>8. ASSUME NEW k \in Key, keys'[k].parent # NoKey
      PROVE  /\ keys'[keys'[k].parent].status = "revoked"
             /\ keys'[k].scopes = keys'[keys'[k].parent].scopes
             /\ keys'[k].expires = keys'[keys'[k].parent].expires
  <2>1. CASE k = n
    BY <1>3, <1>4, <1>6, <1>8, <2>1
  <2>2. CASE k # n
    BY <1>3, <1>5, <1>8, <2>2 DEF RotatedIsRevoked, PowersInherited
  <2>3. QED
    BY <2>1, <2>2
<1>9. RotatedIsRevoked' /\ PowersInherited'
  BY <1>8 DEF RotatedIsRevoked, PowersInherited
<1>10. QED
  BY <1>2, <1>7, <1>9 DEF KeysGood

-----------------------------------------------------------------------------
(* Steps of the managers.                                                  *)

\* What a manager knows survives every step that keeps the keys.
LEMMA PromiseKept ==
  ASSUME TypeOK, Promised, KeysKept, NEW m \in Manager,
         pc'[m] = pc[m], rotating'[m] = rotating[m], grant'[m] = grant[m]
  PROVE  /\ pc'[m] = "revoking" => rotating'[m] # NoKey
         /\ rotating'[m] # NoKey =>
              /\ keys'[rotating'[m]].status # "absent"
              /\ grant'[m] = [scopes |-> keys'[rotating'[m]].scopes,
                              expires |-> keys'[rotating'[m]].expires]
              /\ pc'[m] = "creating" => keys'[rotating'[m]].status = "revoked"
<1>1. rotating[m] \in Key \cup {NoKey}
  BY DEF TypeOK
<1>2. pc'[m] = "revoking" => rotating'[m] # NoKey
  BY DEF Promised
<1>3. ASSUME rotating'[m] # NoKey
      PROVE  /\ keys'[rotating'[m]].status # "absent"
             /\ grant'[m] = [scopes |-> keys'[rotating'[m]].scopes,
                             expires |-> keys'[rotating'[m]].expires]
             /\ pc'[m] = "creating" => keys'[rotating'[m]].status = "revoked"
  <2>1. /\ rotating[m] \in Key
        /\ Stored(rotating[m])
        /\ grant[m] = RotatedGrant(rotating[m])
        /\ pc[m] = "creating" => keys[rotating[m]].status = "revoked"
    BY <1>1, <1>3 DEF Promised
  <2>2. QED
    BY <2>1 DEF KeysKept, RotatedGrant
<1>4. QED
  BY <1>2, <1>3

\* A step of no manager.
LEMMA ManagersAlone ==
  ASSUME TypeOK, Promised, KeysKept, UNCHANGED managerVars
  PROVE  Promised'
<1>1. ASSUME NEW m \in Manager
      PROVE  pc'[m] = pc[m] /\ rotating'[m] = rotating[m] /\ grant'[m] = grant[m]
  BY DEF managerVars
<1>2. QED
  BY <1>1, PromiseKept DEF Promised, RotatedGrant, Stored

\* A step of one manager, which has to know what it goes on with.
LEMMA ManagerGoes ==
  ASSUME TypeOK, Promised, KeysKept, NEW m \in Manager,
         NEW w \in {"idle", "revoking", "creating"},
         NEW k \in Key \cup {NoKey}, NEW g \in Grant, Goes(m, w, k, g),
         w = "revoking" => k # NoKey,
         k # NoKey => /\ keys'[k].status # "absent"
                      /\ g = [scopes |-> keys'[k].scopes, expires |-> keys'[k].expires]
                      /\ w = "creating" => keys'[k].status = "revoked"
  PROVE  /\ Promised'
         /\ pc' \in [Manager -> {"idle", "revoking", "creating"}]
         /\ rotating' \in [Manager -> Key \cup {NoKey}]
         /\ grant' \in [Manager -> Grant]
<1>1. /\ pc' \in [Manager -> {"idle", "revoking", "creating"}]
      /\ rotating' \in [Manager -> Key \cup {NoKey}]
      /\ grant' \in [Manager -> Grant]
  BY DEF TypeOK, Goes
<1>2. pc'[m] = w /\ rotating'[m] = k /\ grant'[m] = g
  BY DEF TypeOK, Goes
<1>3. \A o \in Manager \ {m} : pc'[o] = pc[o] /\ rotating'[o] = rotating[o] /\ grant'[o] = grant[o]
  BY DEF TypeOK, Goes
<1>4. ASSUME NEW o \in Manager
      PROVE  /\ pc'[o] = "revoking" => rotating'[o] # NoKey
             /\ rotating'[o] # NoKey =>
                  /\ keys'[rotating'[o]].status # "absent"
                  /\ grant'[o] = [scopes |-> keys'[rotating'[o]].scopes,
                                  expires |-> keys'[rotating'[o]].expires]
                  /\ pc'[o] = "creating" => keys'[rotating'[o]].status = "revoked"
  <2>1. CASE o = m
    BY <1>2, <2>1
  <2>2. CASE o # m
    BY <1>3, <2>2, PromiseKept
  <2>3. QED
    BY <2>1, <2>2
<1>5. QED
  BY <1>1, <1>4 DEF Promised, RotatedGrant, Stored

\* What a rotated key gets is a grant.
LEMMA RotatedGrantType ==
  ASSUME TypeOK, NEW k \in Key
  PROVE  RotatedGrant(k) \in Grant
  BY DEF TypeOK, RotatedGrant, Grant

LEMMA NoGrantType == NoGrant \in Grant
  BY BoundAssumption DEF NoGrant, Grant, Expiry

\* A manager's step leaves project, calls and clock alone.
LEMMA ManagerTypes ==
  ASSUME TypeOK, KeysGood, UNCHANGED <<projectVars, callVars, now>>,
         pc' \in [Manager -> {"idle", "revoking", "creating"}],
         rotating' \in [Manager -> Key \cup {NoKey}],
         grant' \in [Manager -> Grant]
  PROVE  TypeOK'
  BY DEF TypeOK, KeysGood, KeyType, projectVars, callVars

\* A manager's step leaves the calls alone.
LEMMA CallsAlone ==
  ASSUME HasUsed, UNCHANGED callVars
  PROVE  HasUsed'
  BY DEF HasUsed, callVars

LEMMA ManagerPreserves ==
  ASSUME IInv, NEW m \in Manager, ManagerStep(m)
  PROVE  IInv'
<1>0. TypeOK /\ RotatedIsRevoked /\ PowersInherited /\ Promised
  BY DEF IInv
<1>7. HasUsed'
  <2>1. UNCHANGED callVars
    BY DEF ManagerStep, RequestKey, RevokeAPIKey, AdminRotateAPIKey,
           DashboardRotateAPIKey, RevokeRotated, CreateAPIKey, StoreFails
  <2>2. QED
    BY <2>1, CallsAlone DEF IInv
<1>1. CASE RequestKey(m)
  <2>1. UNCHANGED <<projectVars, keys, callVars, now>>
    BY <1>1 DEF RequestKey
  <2>2. PICK g \in Grant : Goes(m, "creating", NoKey, g)
    <3>1. PICK asked \in SUBSET Scope, expires \in Expiry :
            Goes(m, "creating", NoKey,
                 [scopes |-> IF asked = {} THEN DefaultScopes ELSE asked, expires |-> expires])
      BY <1>1 DEF RequestKey
    <3>2. [scopes |-> IF asked = {} THEN DefaultScopes ELSE asked, expires |-> expires] \in Grant
      BY ScopeAssumption DEF Grant
    <3>3. QED
      BY <3>1, <3>2
  <2>3. KeysGood
    BY <1>0, <2>1, KeysAlone
  <2>4. QED
    BY <1>0, <1>7, <2>1, <2>2, <2>3, ManagerGoes, ManagerTypes DEF KeysGood, IInv
<1>2. CASE RevokeAPIKey(m)
  <2>1. UNCHANGED <<projectVars, managerVars, callVars, now>>
    BY <1>2 DEF RevokeAPIKey
  <2>2. KeysGood
    BY <1>0, <1>2, RevokeKeeps DEF RevokeAPIKey
  <2>3. Promised'
    BY <1>0, <2>1, <2>2, ManagersAlone DEF KeysGood
  <2>4. TypeOK'
    BY <1>0, <2>1, <2>2, ManagerTypes DEF managerVars, TypeOK
  <2>5. QED
    BY <1>7, <2>2, <2>3, <2>4 DEF KeysGood, IInv
<1>3. CASE AdminRotateAPIKey(m)
  <2>1. UNCHANGED <<projectVars, callVars, now>>
    BY <1>3 DEF AdminRotateAPIKey
  <2>2. PICK k \in Key : Stored(k) /\ Revoke(k) /\ Goes(m, "creating", k, RotatedGrant(k))
    BY <1>3 DEF AdminRotateAPIKey
  <2>3. KeysGood /\ keys'[k].status = "revoked"
    BY <1>0, <2>2, RevokeKeeps
  <2>4. RotatedGrant(k) = [scopes |-> keys'[k].scopes, expires |-> keys'[k].expires]
    BY <2>2, <2>3 DEF KeysGood, KeysKept, RotatedGrant
  <2>5. RotatedGrant(k) \in Grant
    BY <1>0, RotatedGrantType
  <2>6. KeysKept
    BY <2>3 DEF KeysGood
  <2>7. /\ Promised'
        /\ pc' \in [Manager -> {"idle", "revoking", "creating"}]
        /\ rotating' \in [Manager -> Key \cup {NoKey}]
        /\ grant' \in [Manager -> Grant]
    BY <1>0, <2>2, <2>3, <2>4, <2>5, <2>6, ManagerGoes
  <2>8. QED
    BY <1>0, <1>7, <2>1, <2>3, <2>7, ManagerTypes DEF KeysGood, IInv
<1>4. CASE DashboardRotateAPIKey(m)
  <2>1. UNCHANGED <<projectVars, keys, callVars, now>>
    BY <1>4 DEF DashboardRotateAPIKey
  <2>2. PICK k \in Key : Stored(k) /\ Goes(m, "revoking", k, RotatedGrant(k))
    BY <1>4 DEF DashboardRotateAPIKey
  <2>3. KeysGood
    BY <1>0, <2>1, KeysAlone
  <2>4. /\ keys'[k].status # "absent"
        /\ RotatedGrant(k) = [scopes |-> keys'[k].scopes, expires |-> keys'[k].expires]
        /\ k # NoKey
    BY <2>1, <2>2, NoneAssumption DEF RotatedGrant, Stored
  <2>5. RotatedGrant(k) \in Grant
    BY <1>0, RotatedGrantType
  <2>6. KeysKept
    BY <2>3 DEF KeysGood
  <2>7. /\ Promised'
        /\ pc' \in [Manager -> {"idle", "revoking", "creating"}]
        /\ rotating' \in [Manager -> Key \cup {NoKey}]
        /\ grant' \in [Manager -> Grant]
    BY <1>0, <2>2, <2>4, <2>5, <2>6, ManagerGoes
  <2>8. QED
    BY <1>0, <1>7, <2>1, <2>3, <2>7, ManagerTypes DEF KeysGood, IInv
<1>5. CASE RevokeRotated(m)
  <2>1. UNCHANGED <<projectVars, callVars, now>>
    BY <1>5 DEF RevokeRotated
  <2>2. /\ rotating[m] \in Key
        /\ Stored(rotating[m])
        /\ grant[m] = RotatedGrant(rotating[m])
        /\ grant[m] \in Grant
        /\ Revoke(rotating[m])
        /\ Goes(m, "creating", rotating[m], grant[m])
    BY <1>0, <1>5 DEF RevokeRotated, Promised, TypeOK
  <2>3. KeysGood /\ keys'[rotating[m]].status = "revoked"
    BY <1>0, <2>2, RevokeKeeps
  <2>4. grant[m] = [scopes |-> keys'[rotating[m]].scopes, expires |-> keys'[rotating[m]].expires]
    BY <2>2, <2>3 DEF KeysGood, KeysKept, RotatedGrant
  <2>6. KeysKept
    BY <2>3 DEF KeysGood
  <2>7. /\ Promised'
        /\ pc' \in [Manager -> {"idle", "revoking", "creating"}]
        /\ rotating' \in [Manager -> Key \cup {NoKey}]
        /\ grant' \in [Manager -> Grant]
    BY <1>0, <2>2, <2>3, <2>4, <2>6, ManagerGoes
  <2>8. QED
    BY <1>0, <1>7, <2>1, <2>3, <2>7, ManagerTypes DEF KeysGood, IInv
<1>6. CASE CreateAPIKey(m) \/ StoreFails(m)
  <2>1. UNCHANGED <<projectVars, callVars, now>> /\ Goes(m, "idle", NoKey, NoGrant)
    BY <1>6 DEF CreateAPIKey, StoreFails
  <2>2. KeysGood
    <3>1. CASE pc[m] = "creating" /\ \E k \in Key : NewKey(m, k)
      BY <1>0, <3>1, NewKeyKeeps
    <3>2. CASE UNCHANGED keys
      BY <1>0, <3>2, KeysAlone
    <3>3. CASE pc[m] = "revoking" /\ Revoke(rotating[m])
      <4>1. rotating[m] \in Key /\ Stored(rotating[m])
        BY <1>0, <3>3 DEF Promised, TypeOK
      <4>2. QED
        BY <1>0, <3>3, <4>1, RevokeKeeps
    <3>4. QED
      BY <1>6, <3>1, <3>2, <3>3 DEF CreateAPIKey, StoreFails
  <2>3. KeysKept
    BY <2>2 DEF KeysGood
  <2>4. /\ Promised'
        /\ pc' \in [Manager -> {"idle", "revoking", "creating"}]
        /\ rotating' \in [Manager -> Key \cup {NoKey}]
        /\ grant' \in [Manager -> Grant]
    BY <1>0, <2>1, <2>3, NoGrantType, ManagerGoes
  <2>5. QED
    BY <1>0, <1>7, <2>1, <2>2, <2>4, ManagerTypes DEF KeysGood, IInv
<1>8. QED
  BY <1>1, <1>2, <1>3, <1>4, <1>5, <1>6 DEF ManagerStep

-----------------------------------------------------------------------------
(* Steps of calls, of the owner and of the clock.                          *)

\* A step that leaves keys and managers alone.
LEMMA OthersPreserve ==
  ASSUME IInv, UNCHANGED <<keys, managerVars>>, TypeOK', HasUsed'
  PROVE  IInv'
<1>1. TypeOK /\ RotatedIsRevoked /\ PowersInherited /\ Promised
  BY DEF IInv
<1>2. KeysGood
  BY <1>1, KeysAlone
<1>3. Promised'
  BY <1>1, <1>2, ManagersAlone DEF KeysGood
<1>4. QED
  BY <1>2, <1>3 DEF KeysGood, IInv

LEMMA EndsType ==
  ASSUME TypeOK, HasUsed, NEW c \in Call, Ends(c)
  PROVE  TypeOK' /\ HasUsed'
  BY DEF TypeOK, HasUsed, Ends, projectVars, managerVars

LEMMA CallTypes ==
  ASSUME TypeOK, HasUsed, NEW c \in Call, BeginCall(c) \/ ConsoleCall(c) \/ TokenConsoleCall(c) \/ CallStep(c)
  PROVE  TypeOK' /\ HasUsed' /\ UNCHANGED <<keys, managerVars>>
<1>1. CASE BeginCall(c)
  BY <1>1, NoneAssumption DEF BeginCall, TypeOK, HasUsed, projectVars, managerVars
<1>2. CASE ConsoleCall(c)
  BY <1>2 DEF ConsoleCall, TypeOK, HasUsed, projectVars, managerVars
<1>3. CASE VerifyAPIKey(c)
  <2>1. CASE Valid(used[c], stamp[c])
    <3>1. used[c] \in Key
      BY <1>3 DEF TypeOK, HasUsed, VerifyAPIKey
    <3>2. QED
      BY <1>3, <2>1, <3>1, BoundAssumption DEF VerifyAPIKey, TypeOK, HasUsed, projectVars, managerVars
  <2>2. CASE ~Valid(used[c], stamp[c])
    BY <1>3, <2>2, BoundAssumption DEF VerifyAPIKey, TypeOK, HasUsed, projectVars, managerVars
  <2>3. QED
    BY <2>1, <2>2
<1>4. CASE ContractWrite(c)
  BY <1>4 DEF ContractWrite, TypeOK, HasUsed, projectVars, managerVars
<1>5. CASE Refuse(c) \/ Enqueue(c)
  BY <1>5, EndsType DEF Refuse, Enqueue, Ends, managerVars
<1>6. CASE RecordAPIUsage(c)
  BY <1>6 DEF RecordAPIUsage, TypeOK, HasUsed, projectVars, managerVars
<1>7. CASE TokenConsoleCall(c) \/ EnqueueTokenWrite(c)
  BY <1>7, DeployedAssumption DEF TokenConsoleCall, EnqueueTokenWrite, TypeOK, HasUsed,
                                  projectVars, managerVars
<1>8. QED
  BY <1>1, <1>2, <1>3, <1>4, <1>5, <1>6, <1>7 DEF CallStep

-----------------------------------------------------------------------------

\* The inductive invariant: rotations are true to the keys they rotate.
THEOREM ApiKeysIInv == Spec => []IInv
<1>1. Init => IInv
  <2>1. ASSUME Init PROVE TypeOK
    <3>1. Absent \in KeyType
      BY BoundAssumption DEF Absent, KeyType, Expiry
    <3>2. keys \in [Key -> KeyType]
      BY <2>1, <3>1 DEF Init
    <3>3. grant \in [Manager -> Grant]
      BY <2>1, NoGrantType DEF Init
    <3>4. /\ archived \in BOOLEAN
          /\ allowed \in SUBSET Contract
          /\ policy \in [Call -> SUBSET Contract]
          /\ scopes \in [Call -> SUBSET Scope]
      BY <2>1 DEF Init
    <3>5. /\ pc \in [Manager -> {"idle", "revoking", "creating"}]
          /\ rotating \in [Manager -> Key \cup {NoKey}]
      BY <2>1 DEF Init
    <3>6. /\ stage \in [Call -> {"idle", "verifying", "verified", "enqueueing", "recording", "token"}]
          /\ used \in [Call -> Key \cup {NoKey}]
          /\ target \in [Call -> Contract \cup {NoContract}]
      BY <2>1 DEF Init
    <3>7. now \in 0 .. MaxNow /\ stamp \in [Call -> 0 .. MaxNow]
      BY <2>1, BoundAssumption DEF Init
    <3>8. QED
      BY <3>2, <3>3, <3>4, <3>5, <3>6, <3>7 DEF TypeOK, KeyType
  <2>2. ASSUME Init PROVE RotatedIsRevoked /\ PowersInherited /\ Promised /\ HasUsed
    BY <2>2 DEF Init, HasUsed, RotatedIsRevoked, PowersInherited, Promised, Absent
  <2>3. QED
    BY <2>1, <2>2 DEF IInv
<1>2. IInv /\ [Next]_vars => IInv'
  <2>1. SUFFICES ASSUME IInv, [Next]_vars PROVE IInv'
    OBVIOUS
  <2>2. ASSUME NEW m \in Manager, ManagerStep(m) PROVE IInv'
    BY <2>1, <2>2, ManagerPreserves
  <2>3. ASSUME NEW c \in Call, BeginCall(c) \/ ConsoleCall(c) \/ TokenConsoleCall(c) \/ CallStep(c)
        PROVE  IInv'
    BY <2>1, <2>3, CallTypes, OthersPreserve DEF IInv
  <2>4. CASE UpdateAccountApp
    <3>1. TypeOK' /\ HasUsed' /\ UNCHANGED <<keys, managerVars>>
      BY <2>1, <2>4 DEF IInv, HasUsed, TypeOK, UpdateAccountApp, managerVars, callVars
    <3>2. QED
      BY <2>1, <3>1, OthersPreserve
  <2>5. CASE ArchiveAccountApp
    <3>1. TypeOK' /\ HasUsed' /\ UNCHANGED <<keys, managerVars>>
      BY <2>1, <2>5 DEF IInv, HasUsed, TypeOK, ArchiveAccountApp, managerVars, callVars
    <3>2. QED
      BY <2>1, <3>1, OthersPreserve
  <2>6. CASE Tick
    <3>1. TypeOK' /\ HasUsed' /\ UNCHANGED <<keys, managerVars>>
      BY <2>1, <2>6, BoundAssumption DEF IInv, HasUsed, TypeOK, Tick, projectVars, managerVars, callVars
    <3>2. QED
      BY <2>1, <3>1, OthersPreserve
  <2>7. CASE UNCHANGED vars
    <3>1. TypeOK' /\ HasUsed' /\ UNCHANGED <<keys, managerVars>>
      BY <2>1, <2>7 DEF IInv, HasUsed, TypeOK, vars, projectVars, managerVars, callVars
    <3>2. QED
      BY <2>1, <3>1, OthersPreserve
  <2>8. QED
    BY <2>1, <2>2, <2>3, <2>4, <2>5, <2>6, <2>7 DEF Next
<1>3. QED
  BY <1>1, <1>2, PTL DEF Spec

\* Keys, managers and calls keep their types.
THEOREM TypeCorrect == Spec => []TypeOK
  BY ApiKeysIInv, PTL DEF IInv

\* The new key of a rotation exists only when the old one has been revoked
\* (adminRotateAPIKey, dashboardRotateAPIKey).
THEOREM OldKeyRevoked == Spec => []RotatedIsRevoked
  BY ApiKeysIInv, PTL DEF IInv

\* However often a key is rotated, the new keys can do what the first could.
THEOREM PowersKept == Spec => []PowersInherited
  BY ApiKeysIInv, PTL DEF IInv
=============================================================================
