--------------------------- MODULE DeploymentQueue ---------------------------
(***************************************************************************)
(* The contract deployments of GMR Engine: seven kinds of record with one  *)
(* life cycle (internal/store/memgraph.go), deployed by the same worker    *)
(* loop that runs the transaction queue (internal/deployer/deployer.go).   *)
(*                                                                         *)
(* A store call is one atomic step.  A deployment may be deployed again    *)
(* after a failure; its runs are numbered by its claims, and the number    *)
(* stands for the transaction hash and the contract address of the run; 0  *)
(* is the empty string.  An account abstraction deploys two contracts: an  *)
(* entry point, unless the request names one, and then the factory, whose  *)
(* hash and address are the record's.                                      *)
(***************************************************************************)
EXTENDS Integers, Sequences, FiniteSets

CONSTANTS
  Deployment,  \* identifiers of deployments that may be created
  Requested,   \* the kinds that clients ask for
  Engine,      \* engine processes sharing the store
  NoOne,       \* no deployment in hand
  MaxRuns,     \* bound on the runs of a deployment
  MaxNow,      \* bound on the clock
  MaxFaults    \* bound on crashes, lost store answers and lost receipts

\* The order in which processOnce serves the kinds.
KindOrder ==
  <<"ERC20", "ERC1155Edition", "Escrow", "PrivateClaimRegistry", "ShieldedPayoutPool",
    "ShieldedWithdrawalVerifier", "AccountAbstraction">>

Kind == {KindOrder[i] : i \in DOMAIN KindOrder}

ASSUME RequestedAssumption == Requested \subseteq Kind
ASSUME NoOneAssumption == NoOne \notin Deployment
ASSUME BoundsAssumption == MaxRuns \in Nat \ {0} /\ MaxNow \in Nat /\ MaxFaults \in Nat

VARIABLES
  kind,       \* the label of the record's node, "none" before it exists
  status,     \* the record's status, "absent" before the node exists
  hidden,     \* hiddenFromDashboard
  createdAt,  \* createdAt
  hash,       \* transactionHash
  address,    \* contractAddress
  entryPoint, \* entryPointAddress: empty, given by the request or created here
  runs,       \* how often the record was claimed
  pc,         \* where each engine's process<Kind> stands
  cur,        \* the deployment it claimed
  turn,       \* the place in KindOrder it serves next
  chain,      \* what became of the deployment transaction of each run
  entryChain, \* what became of the transaction that creates the entry point
  now,        \* the clock
  faults      \* faults so far

recordVars == <<kind, status, hidden, createdAt, hash, address, entryPoint, runs>>
engineVars == <<pc, cur, turn>>
chainVars  == <<chain, entryChain>>
vars       == <<recordVars, engineVars, chainVars, now, faults>>

Status    == {"absent", "queued", "deploying", "submitted", "confirmed", "failed"}
Stage     == {"idle", "claimed", "errored", "broadcast", "recorded"}
SendState == {"none", "sent", "success", "reverted"}
Address   == {"empty", "given", "created"}
Run       == 1 .. MaxRuns
Turn      == 1 .. Len(KindOrder)

Fault     == faults < MaxFaults /\ faults' = faults + 1
NoFault   == UNCHANGED faults

Init ==
  /\ kind       = [d \in Deployment |-> "none"]
  /\ status     = [d \in Deployment |-> "absent"]
  /\ hidden     = [d \in Deployment |-> FALSE]
  /\ createdAt  = [d \in Deployment |-> 0]
  /\ hash       = [d \in Deployment |-> 0]
  /\ address    = [d \in Deployment |-> 0]
  /\ entryPoint = [d \in Deployment |-> "empty"]
  /\ runs       = [d \in Deployment |-> 0]
  /\ pc         = [e \in Engine |-> "idle"]
  /\ cur        = [e \in Engine |-> NoOne]
  /\ turn       = [e \in Engine |-> 1]
  /\ chain      = [d \in Deployment |-> [k \in Run |-> "none"]]
  /\ entryChain = [d \in Deployment |-> "none"]
  /\ now        = 0
  /\ faults     = 0

-----------------------------------------------------------------------------
(* Requests from the API and the dashboard.                                *)

Create(d, k) ==
  /\ k \in Requested /\ status[d] = "absent"
  /\ kind'      = [kind EXCEPT ![d] = k]
  /\ status'    = [status EXCEPT ![d] = "queued"]
  /\ createdAt' = [createdAt EXCEPT ![d] = now]
  /\ UNCHANGED <<hidden, hash, address, runs, engineVars, chainVars, now, faults>>

CreatePlain(d, k) == Create(d, k) /\ UNCHANGED entryPoint

CreateERC20Deployment(d)                      == CreatePlain(d, "ERC20")
CreateERC1155EditionDeployment(d)             == CreatePlain(d, "ERC1155Edition")
CreateEscrowDeployment(d)                     == CreatePlain(d, "Escrow")
CreatePrivateClaimRegistryDeployment(d)       == CreatePlain(d, "PrivateClaimRegistry")
CreateShieldedPayoutPoolDeployment(d)         == CreatePlain(d, "ShieldedPayoutPool")
CreateShieldedWithdrawalVerifierDeployment(d) == CreatePlain(d, "ShieldedWithdrawalVerifier")

CreateAccountAbstractionDeployment(d) ==
  /\ Create(d, "AccountAbstraction")
  /\ \E a \in {"empty", "given"} : entryPoint' = [entryPoint EXCEPT ![d] = a]

\* Removes a record its worker is still busy with.
RemovableAlways(d) == ~hidden[d] /\ status[d] # "absent"

Removable(d) == ~hidden[d] /\ status[d] \notin {"absent", "deploying", "submitted"}

Remove(d, k) ==
  /\ kind[d] = k /\ Removable(d)
  /\ hidden' = [hidden EXCEPT ![d] = TRUE]
  /\ UNCHANGED <<kind, status, createdAt, hash, address, entryPoint, runs>>
  /\ UNCHANGED <<engineVars, chainVars, now, faults>>

RemoveERC20Deployment(d)                      == Remove(d, "ERC20")
RemoveERC1155EditionDeployment(d)             == Remove(d, "ERC1155Edition")
RemoveEscrowDeployment(d)                     == Remove(d, "Escrow")
RemovePrivateClaimRegistryDeployment(d)       == Remove(d, "PrivateClaimRegistry")
RemoveShieldedPayoutPoolDeployment(d)         == Remove(d, "ShieldedPayoutPool")
RemoveShieldedWithdrawalVerifierDeployment(d) == Remove(d, "ShieldedWithdrawalVerifier")
RemoveAccountAbstractionDeployment(d)         == Remove(d, "AccountAbstraction")

\* Offers every finished deployment again.
RetryableFinished(d) == kind[d] = "ERC20" /\ ~hidden[d] /\ status[d] \in {"confirmed", "failed"}

\* Of the seven kinds only ERC20 has a retry.
Retryable(d) == kind[d] = "ERC20" /\ ~hidden[d] /\ status[d] = "failed"

\* Queues the record again as it is.
ResetForRetryKeepsHash(d) ==
  /\ status'  = [status EXCEPT ![d] = "queued"]
  /\ UNCHANGED <<hash, address>>

ResetForRetry(d) ==
  /\ status'  = [status EXCEPT ![d] = "queued"]
  /\ hash'    = [hash EXCEPT ![d] = 0]
  /\ address' = [address EXCEPT ![d] = 0]

\* MaxRuns bounds the model; the code retries without a bound.
RetryERC20Deployment(d) ==
  /\ Retryable(d) /\ runs[d] < MaxRuns
  /\ ResetForRetry(d)
  /\ UNCHANGED <<kind, hidden, createdAt, entryPoint, runs, engineVars, chainVars, now, faults>>

-----------------------------------------------------------------------------
(* The worker.                                                             *)

\* Loses the last kind of the round.
NextTurnTooShort(i) == IF i + 1 < Len(KindOrder) THEN i + 1 ELSE 1

\* processOnce serves the kinds in order, one deployment each, and starts over.
NextTurn(i) == IF i < Len(KindOrder) THEN i + 1 ELSE 1

Finish(e) ==
  /\ pc'   = [pc EXCEPT ![e] = "idle"]
  /\ cur'  = [cur EXCEPT ![e] = NoOne]
  /\ turn' = [turn EXCEPT ![e] = NextTurn(@)]

GoTo(e, stage) ==
  /\ pc' = [pc EXCEPT ![e] = stage]
  /\ UNCHANGED <<cur, turn>>

Claimable(d) == status[d] = "queued" /\ ~hidden[d]

\* The oldest of the kind, among those created in the same second any.
Candidates(k) ==
  LET open == {d \in Deployment : Claimable(d) /\ kind[d] = k}
  IN {d \in open : \A x \in open : createdAt[d] <= createdAt[x]}

\* The claim commits; the engine gets the record, or the answer is lost and it
\* goes on to the next kind.
Claim(e, k) ==
  /\ pc[e] = "idle" /\ KindOrder[turn[e]] = k
  /\ \E d \in Candidates(k) :
       /\ status' = [status EXCEPT ![d] = "deploying"]
       /\ runs'   = [runs EXCEPT ![d] = @ + 1]
       /\ \/ /\ NoFault
             /\ pc'  = [pc EXCEPT ![e] = "claimed"]
             /\ cur' = [cur EXCEPT ![e] = d]
             /\ UNCHANGED turn
          \/ Fault /\ Finish(e)
  /\ UNCHANGED <<kind, hidden, createdAt, hash, address, entryPoint, chainVars, now>>

ClaimNextERC20Deployment(e)                      == Claim(e, "ERC20")
ClaimNextERC1155EditionDeployment(e)             == Claim(e, "ERC1155Edition")
ClaimNextEscrowDeployment(e)                     == Claim(e, "Escrow")
ClaimNextPrivateClaimRegistryDeployment(e)       == Claim(e, "PrivateClaimRegistry")
ClaimNextShieldedPayoutPoolDeployment(e)         == Claim(e, "ShieldedPayoutPool")
ClaimNextShieldedWithdrawalVerifierDeployment(e) == Claim(e, "ShieldedWithdrawalVerifier")
ClaimNextAccountAbstractionDeployment(e)         == Claim(e, "AccountAbstraction")

\* Nothing to claim of this kind, or the claim failed.
Skip(e) ==
  /\ pc[e] = "idle"
  /\ IF Candidates(KindOrder[turn[e]]) = {} THEN NoFault ELSE Fault
  /\ Finish(e)
  /\ UNCHANGED <<recordVars, chainVars, now>>

NeedsEntryPoint(d) == kind[d] = "AccountAbstraction" /\ entryPoint[d] = "empty"

SendEntryPoint(e) ==
  LET d == cur[e] IN
  /\ pc[e] = "claimed"
  /\ NeedsEntryPoint(d) /\ entryChain[d] = "none"
  /\ entryChain' = [entryChain EXCEPT ![d] = "sent"]
  /\ UNCHANGED <<recordVars, engineVars, chain, now, faults>>

\* Sends the factory as soon as the entry point is sent.
FactoryMayGoTooEarly(d) == NeedsEntryPoint(d) => entryChain[d] # "none"

\* The factory's constructor takes the address of a mined entry point.
FactoryMayGo(d) == NeedsEntryPoint(d) => entryChain[d] = "success"

SendOnChain(e) ==
  LET d == cur[e] IN
  /\ pc[e] = "claimed"
  /\ FactoryMayGo(d) /\ chain[d][runs[d]] = "none"
  /\ chain' = [chain EXCEPT ![d][runs[d]] = "sent"]
  /\ UNCHANGED <<recordVars, engineVars, entryChain, now, faults>>

\* deploy-contract.ts prints a receipt of either status; the account
\* abstraction script throws on a reverted one.
Prints(d) ==
  \/ chain[d][runs[d]] = "success"
  \/ chain[d][runs[d]] = "reverted" /\ kind[d] # "AccountAbstraction"

CommandReturns(e) ==
  /\ pc[e] = "claimed"
  /\ Prints(cur[e])
  /\ GoTo(e, "broadcast")
  /\ UNCHANGED <<recordVars, chainVars, now, faults>>

\* Without a fault: the contract does not compile, an argument, the signer or
\* the next send is refused, or the account abstraction script threw.
FailsForCause(d) ==
  /\ entryChain[d] # "sent"
  /\ \/ chain[d][runs[d]] = "none"
     \/ chain[d][runs[d]] = "reverted" /\ ~Prints(d)

\* Otherwise the script lost its receipt or its output, or was killed at its
\* timeout.
CommandFails(e) ==
  /\ pc[e] = "claimed"
  /\ IF FailsForCause(cur[e]) THEN NoFault ELSE Fault
  /\ GoTo(e, "errored")
  /\ UNCHANGED <<recordVars, chainVars, now>>

Kept(old, new) == IF new # 0 THEN new ELSE old

\* By id and whatever the status, as all the update<Kind>DeploymentStatus are.
UpdateStatus(d, s, h, a) ==
  /\ status'  = [status EXCEPT ![d] = s]
  /\ hash'    = [hash EXCEPT ![d] = Kept(@, h)]
  /\ address' = [address EXCEPT ![d] = Kept(@, a)]
  /\ UNCHANGED <<kind, hidden, createdAt, runs>>

MarkFailed(e) ==
  /\ pc[e] = "errored"
  /\ \/ NoFault /\ UpdateStatus(cur[e], "failed", 0, 0) /\ UNCHANGED entryPoint
     \/ Fault /\ UNCHANGED recordVars
  /\ Finish(e)
  /\ UNCHANGED <<chainVars, now>>

MarkSubmitted(e) ==
  /\ pc[e] = "broadcast"
  /\ \/ /\ NoFault
        /\ UpdateStatus(cur[e], "submitted", runs[cur[e]], 0)
        /\ UNCHANGED entryPoint
     \/ Fault /\ UNCHANGED recordVars
  /\ GoTo(e, "recorded")
  /\ UNCHANGED <<chainVars, now>>

Succeeded(d) == chain[d][runs[d]] = "success"

\* The confirmed mark carries the address and the entry point but no hash.
MarkOutcome(e) ==
  LET d == cur[e] IN
  /\ pc[e] = "recorded"
  /\ \/ /\ NoFault
        /\ IF Succeeded(d)
             THEN /\ UpdateStatus(d, "confirmed", 0, runs[d])
                  /\ entryPoint' = [entryPoint EXCEPT ![d] = IF NeedsEntryPoint(d) THEN "created" ELSE @]
             ELSE UpdateStatus(d, "failed", 0, 0) /\ UNCHANGED entryPoint
     \/ Fault /\ UNCHANGED recordVars
  /\ Finish(e)
  /\ UNCHANGED <<chainVars, now>>

-----------------------------------------------------------------------------
(* Environment.                                                            *)

\* The process dies or is shut down, when every later mark fails, and comes
\* back at the start of its round.
Crash(e) ==
  /\ pc[e] # "idle"
  /\ Fault
  /\ pc'   = [pc EXCEPT ![e] = "idle"]
  /\ cur'  = [cur EXCEPT ![e] = NoOne]
  /\ turn' = [turn EXCEPT ![e] = 1]
  /\ UNCHANGED <<recordVars, chainVars, now>>

MineEntryPoint(d) ==
  /\ entryChain[d] = "sent"
  /\ \E outcome \in {"success", "reverted"} :
       entryChain' = [entryChain EXCEPT ![d] = outcome]
  /\ UNCHANGED <<recordVars, engineVars, chain, now, faults>>

Mine(d, k) ==
  /\ chain[d][k] = "sent"
  /\ \E outcome \in {"success", "reverted"} :
       chain' = [chain EXCEPT ![d][k] = outcome]
  /\ UNCHANGED <<recordVars, engineVars, entryChain, now, faults>>

Tick ==
  /\ now < MaxNow
  /\ now' = now + 1
  /\ UNCHANGED <<recordVars, engineVars, chainVars, faults>>

-----------------------------------------------------------------------------

ClaimStep(e) ==
  \/ ClaimNextERC20Deployment(e) \/ ClaimNextERC1155EditionDeployment(e)
  \/ ClaimNextEscrowDeployment(e) \/ ClaimNextPrivateClaimRegistryDeployment(e)
  \/ ClaimNextShieldedPayoutPoolDeployment(e) \/ ClaimNextShieldedWithdrawalVerifierDeployment(e)
  \/ ClaimNextAccountAbstractionDeployment(e)

EngineStep(e) ==
  \/ ClaimStep(e) \/ Skip(e) \/ SendEntryPoint(e) \/ SendOnChain(e)
  \/ CommandReturns(e) \/ CommandFails(e)
  \/ MarkFailed(e) \/ MarkSubmitted(e) \/ MarkOutcome(e)

CreateStep(d) ==
  \/ CreateERC20Deployment(d) \/ CreateERC1155EditionDeployment(d)
  \/ CreateEscrowDeployment(d) \/ CreatePrivateClaimRegistryDeployment(d)
  \/ CreateShieldedPayoutPoolDeployment(d) \/ CreateShieldedWithdrawalVerifierDeployment(d)
  \/ CreateAccountAbstractionDeployment(d)

RemoveStep(d) ==
  \/ RemoveERC20Deployment(d) \/ RemoveERC1155EditionDeployment(d)
  \/ RemoveEscrowDeployment(d) \/ RemovePrivateClaimRegistryDeployment(d)
  \/ RemoveShieldedPayoutPoolDeployment(d) \/ RemoveShieldedWithdrawalVerifierDeployment(d)
  \/ RemoveAccountAbstractionDeployment(d)

ApiStep == \E d \in Deployment : CreateStep(d) \/ RemoveStep(d) \/ RetryERC20Deployment(d)

ChainStep == \E d \in Deployment : MineEntryPoint(d) \/ \E k \in Run : Mine(d, k)

Next ==
  \/ ApiStep
  \/ \E e \in Engine : EngineStep(e) \/ Crash(e)
  \/ ChainStep
  \/ Tick

Spec == Init /\ [][Next]_vars

\* The worker goroutine loops on its ticker and the chain mines what it got.
Fairness ==
  /\ \A e \in Engine : WF_vars(EngineStep(e))
  /\ WF_vars(ChainStep)

FairSpec == Spec /\ Fairness

-----------------------------------------------------------------------------
(* Properties.                                                             *)

\* Every variable keeps the shape of the record, the worker's locals or the
\* chain.
TypeOK ==
  /\ kind       \in [Deployment -> Kind \cup {"none"}]
  /\ status     \in [Deployment -> Status]
  /\ hidden     \in [Deployment -> BOOLEAN]
  /\ createdAt  \in [Deployment -> Nat]
  /\ hash       \in [Deployment -> 0 .. MaxRuns]
  /\ address    \in [Deployment -> 0 .. MaxRuns]
  /\ entryPoint \in [Deployment -> Address]
  /\ runs       \in [Deployment -> 0 .. MaxRuns]
  /\ pc         \in [Engine -> Stage]
  /\ cur        \in [Engine -> Deployment \cup {NoOne}]
  /\ turn       \in [Engine -> Turn]
  /\ chain      \in [Deployment -> [Run -> SendState]]
  /\ entryChain \in [Deployment -> SendState]
  /\ now        \in Nat
  /\ faults     \in Nat

\* Two engines never deploy the same record.
OneDeployer ==
  \A e, f \in Engine : e # f /\ pc[e] # "idle" /\ pc[f] # "idle" => cur[e] # cur[f]

\* What the dashboard links to is real: a recorded hash is that of the last run
\* and was mined, and exactly the confirmed records have an address, that of a
\* contract their last run created.
RecordMatchesRun ==
  \A d \in Deployment :
    /\ hash[d] # 0 => hash[d] = runs[d] /\ chain[d][runs[d]] \in {"success", "reverted"}
    /\ address[d] # 0 <=> status[d] = "confirmed"
    /\ address[d] # 0 => address[d] = runs[d] /\ chain[d][runs[d]] = "success"

\* A factory is mined only against a mined entry point or one the request
\* named, and a confirmed account abstraction says which.
FactoryHasEntryPoint ==
  \A d \in Deployment : kind[d] = "AccountAbstraction" =>
    /\ chain[d][1] = "success" => entryPoint[d] = "given" \/ entryChain[d] = "success"
    /\ entryPoint[d] = "created" => entryChain[d] = "success"
    /\ status[d] = "confirmed" => entryPoint[d] # "empty"

\* As long as no mark was lost, a confirmed record shows its transaction, though
\* the confirmed mark does not carry the hash.
ConfirmedHasHash ==
  faults = 0 => \A d \in Deployment : status[d] = "confirmed" => hash[d] # 0

\* A record in deploying can be neither retried nor removed nor claimed again.
\* Each crash, lost answer or lost mark strands at most one, and nothing else
\* strands any.
StrandedBounded ==
  Cardinality({d \in Deployment : status[d] \in {"deploying", "submitted"}
                 /\ \A e \in Engine : cur[e] # d}) <= faults

\* Engines leave the records in order: no two have one deployment in hand, a
\* deployment that nobody has in hand is settled, waits for its turn or was
\* stranded by a fault, a factory gets a confirmed entry point, and a confirmed
\* record shows its transaction (processERC20 and the like,
\* deployAccountAbstraction).
DeploymentsInOrder ==
  /\ TypeOK
  /\ OneDeployer
  /\ StrandedBounded
  /\ FactoryHasEntryPoint
  /\ ConfirmedHasHash

\* As long as no receipt, answer or process was lost, a record that failed left
\* no contract behind, so that a retry does not create a second one.
OneContractUnlessFaulty ==
  faults = 0 => \A d \in Deployment :
    /\ status[d] = "failed" => chain[d][runs[d]] \notin {"sent", "success"}
    /\ \A j, k \in Run : chain[d][j] = "success" /\ chain[d][k] = "success" => j = k

\* A removed record is at rest: no worker that still had it in hand sends its
\* contract or changes the record behind the user's back.
RemovedStaysUntouched ==
  [][\A d \in Deployment : hidden[d] =>
       /\ UNCHANGED <<status[d], hash[d], address[d], entryPoint[d], runs[d]>>
       /\ entryChain[d] = "none" => entryChain'[d] = "none"
       /\ \A k \in Run : chain[d][k] = "none" => chain'[d][k] = "none"]_vars

\* A confirmed deployment keeps its address: neither a retry nor a late mark
\* takes it back.
ConfirmedIsFinal ==
  [][\A d \in Deployment : status[d] = "confirmed" =>
       status'[d] = "confirmed" /\ address'[d] = address[d]]_vars

\* Without faults every queued deployment is confirmed, failed or removed, of
\* whichever kind it is: no kind starves behind another in the round.
Settles ==
  \A d \in Deployment :
    status[d] = "queued" ~> status[d] \in {"confirmed", "failed"} \/ hidden[d]
=============================================================================
