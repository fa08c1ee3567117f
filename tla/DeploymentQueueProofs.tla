------------------------ MODULE DeploymentQueueProofs ------------------------
(***************************************************************************)
(* Machine-checked proofs about DeploymentQueue, for any number of         *)
(* deployments and engines, any of the kinds and any bounds.               *)
(***************************************************************************)
EXTENDS DeploymentQueue, FiniteSetTheorems, TLAPS

(* The inductive invariant behind the safety properties.                   *)

\* An engine that is not idle holds a visible record that nobody else works
\* on; what it has printed was mined.
WorkerState ==
  \A e \in Engine : pc[e] # "idle" =>
    /\ cur[e] \in Deployment
    /\ runs[cur[e]] >= 1
    /\ ~hidden[cur[e]]
    /\ status[cur[e]] = "deploying" \/ (status[cur[e]] = "submitted" /\ pc[e] = "recorded")
    /\ pc[e] \in {"broadcast", "recorded"} =>
         chain[cur[e]][runs[cur[e]]] \in {"success", "reverted"}

\* A record has a run to spare while it is queued, has nothing of a run before
\* its mark, and sends nothing but its runs.
RecordState ==
  \A d \in Deployment :
    /\ status[d] = "absent" => runs[d] = 0 /\ entryPoint[d] = "empty" /\ ~hidden[d]
    /\ status[d] = "queued" => runs[d] < MaxRuns
    /\ status[d] \notin {"absent", "queued"} => runs[d] >= 1
    /\ status[d] \in {"absent", "queued", "deploying"} => hash[d] = 0
    /\ hidden[d] => status[d] \notin {"deploying", "submitted"}
    /\ \A k \in Run : chain[d][k] # "none" => k <= runs[d]

\* A factory is sent only with an entry point.
FactoryState ==
  \A d \in Deployment : kind[d] = "AccountAbstraction" =>
    /\ \A k \in Run : chain[d][k] # "none" => entryPoint[d] = "given" \/ entryChain[d] = "success"
    /\ entryPoint[d] = "created" => entryChain[d] = "success"

\* Without a fault the submitted mark was stored, and every run but the last,
\* and the last one of a record that failed, left nothing behind.
FaultlessState ==
  faults = 0 =>
    /\ \A e \in Engine :
         /\ pc[e] = "recorded" => hash[cur[e]] # 0
         /\ pc[e] = "errored" => chain[cur[e]][runs[cur[e]]] \in {"none", "reverted"}
    /\ \A d \in Deployment, k \in Run :
         k # runs[d] \/ status[d] \in {"failed", "queued"} => chain[d][k] \in {"none", "reverted"}

\* Records that no engine will finish.
Stranded ==
  {d \in Deployment : status[d] \in {"deploying", "submitted"} /\ \A e \in Engine : cur[e] # d}

Safe ==
  /\ WorkerState /\ OneDeployer /\ RecordState /\ RecordMatchesRun
  /\ FactoryState /\ FactoryHasEntryPoint /\ FaultlessState /\ ConfirmedHasHash

IInv == TypeOK /\ Safe

-----------------------------------------------------------------------------

USE RequestedAssumption, NoOneAssumption, BoundsAssumption

\* The round is over all the kinds.
LEMMA Kinds ==
  /\ Len(KindOrder) = 7
  /\ "AccountAbstraction" \in Kind /\ "ERC20" \in Kind
  /\ \A i \in Turn : NextTurn(i) \in Turn
  /\ 1 \in Turn
<1>1. Len(KindOrder) = 7 /\ DOMAIN KindOrder = 1 .. 7
  BY DEF KindOrder
<1>2. KindOrder[7] = "AccountAbstraction" /\ KindOrder[1] = "ERC20"
  BY DEF KindOrder
<1> QED
  BY <1>1, <1>2 DEF Kind, Turn, NextTurn

\* The initial state satisfies the invariant.
LEMMA InitIInv == Init => IInv
<1> SUFFICES ASSUME Init PROVE IInv
  OBVIOUS
<1>1. TypeOK
  BY Kinds DEF Init, TypeOK, Kind, Status, Stage, SendState, Address, Run
<1>2. Safe
  BY DEF Init, Safe, WorkerState, OneDeployer, RecordState, RecordMatchesRun,
         FactoryState, FactoryHasEntryPoint, FaultlessState, ConfirmedHasHash, Run
<1> QED
  BY <1>1, <1>2 DEF IInv

-----------------------------------------------------------------------------
(* The steps.                                                              *)

\* An update keeps the shape of the records.
LEMMA UpdateStatusType ==
  ASSUME TypeOK, NEW d \in Deployment, NEW s \in Status,
         NEW h \in 0 .. MaxRuns, NEW a \in 0 .. MaxRuns, UpdateStatus(d, s, h, a)
  PROVE  /\ status' \in [Deployment -> Status]
         /\ hash' \in [Deployment -> 0 .. MaxRuns]
         /\ address' \in [Deployment -> 0 .. MaxRuns]
         /\ UNCHANGED <<kind, hidden, createdAt, runs>>
BY DEF TypeOK, UpdateStatus, Kept

\* So does the end of a turn with the locals of an engine.
LEMMA FinishType ==
  ASSUME TypeOK, NEW e \in Engine, Finish(e)
  PROVE  /\ pc' \in [Engine -> Stage]
         /\ cur' \in [Engine -> Deployment \cup {NoOne}]
         /\ turn' \in [Engine -> Turn]
BY Kinds DEF TypeOK, Finish, Stage

\* A fresh record has no run, no hash and no address.
LEMMA CreateIInv ==
  ASSUME IInv,
         NEW d \in Deployment, NEW k \in Kind, NEW a \in {"empty", "given"}, Create(d, k),
         entryPoint' = [entryPoint EXCEPT ![d] = a]
  PROVE  IInv'
<1>a. 1 \in Run /\ \A j \in Run : chain[d][j] = "none"
  BY DEF IInv, Safe, TypeOK, RecordState, Create, Run
<1>1. TypeOK'
  BY Kinds, <1>a
  DEF IInv, TypeOK, Safe, WorkerState, RecordState, recordVars, engineVars,
      chainVars, Status, Stage, SendState, Address, Run, Create
<1>2. WorkerState'
  BY SMTT(20), <1>a
  DEF IInv, Safe, TypeOK, WorkerState, OneDeployer, RecordState, recordVars,
      engineVars, chainVars, Run, Create
<1>3. OneDeployer'
  BY SMTT(20), <1>a
  DEF IInv, Safe, TypeOK, OneDeployer, WorkerState, recordVars, engineVars,
      chainVars, Run, Create
<1>4. RecordState'
  BY SMTT(20), <1>a
  DEF IInv, Safe, TypeOK, RecordState, WorkerState, OneDeployer,
      RecordMatchesRun, recordVars, engineVars, chainVars, Run, Create
<1>5. RecordMatchesRun'
  BY SMTT(20), <1>a
  DEF IInv, Safe, TypeOK, RecordMatchesRun, RecordState, WorkerState,
      OneDeployer, recordVars, engineVars, chainVars, Run, Create
<1>6. FactoryState'
  BY SMTT(20), <1>a
  DEF IInv, Safe, TypeOK, FactoryState, RecordState, WorkerState, Address,
      recordVars, engineVars, chainVars, Run, Create
<1>7. FactoryHasEntryPoint'
  BY SMTT(20), <1>a
  DEF IInv, Safe, TypeOK, FactoryHasEntryPoint, FactoryState, RecordState,
      WorkerState, Address, recordVars, engineVars, chainVars, Run, Create
<1>8. FaultlessState'
  BY SMTT(20), <1>a
  DEF IInv, Safe, TypeOK, FaultlessState, RecordState, WorkerState,
      OneDeployer, recordVars, engineVars, chainVars, Run, Create
<1>9. ConfirmedHasHash'
  BY SMTT(20), <1>a
  DEF IInv, Safe, TypeOK, ConfirmedHasHash, FaultlessState, WorkerState,
      RecordState, recordVars, engineVars, chainVars, Run, Create
<1> QED
  BY <1>1, <1>2, <1>3, <1>4, <1>5, <1>6, <1>7, <1>8, <1>9 DEF IInv, Safe

\* A record is removed at rest.
LEMMA RemoveIInv ==
  ASSUME IInv,
         NEW d \in Deployment, NEW k, Remove(d, k)
  PROVE  IInv'
<1>1. TypeOK'
  BY Kinds
  DEF IInv, TypeOK, Safe, WorkerState, RecordState, recordVars, engineVars,
      chainVars, Status, Stage, SendState, Address, Run, Remove, Removable
<1>2. WorkerState'
  BY SMTT(20)
  DEF IInv, Safe, TypeOK, WorkerState, OneDeployer, RecordState, recordVars,
      engineVars, chainVars, Run, Remove, Removable
<1>3. OneDeployer'
  BY SMTT(20)
  DEF IInv, Safe, TypeOK, OneDeployer, WorkerState, recordVars, engineVars,
      chainVars, Run, Remove, Removable
<1>4. RecordState'
  BY SMTT(20)
  DEF IInv, Safe, TypeOK, RecordState, WorkerState, OneDeployer,
      RecordMatchesRun, recordVars, engineVars, chainVars, Run, Remove,
      Removable
<1>5. RecordMatchesRun'
  BY SMTT(20)
  DEF IInv, Safe, TypeOK, RecordMatchesRun, RecordState, WorkerState,
      OneDeployer, recordVars, engineVars, chainVars, Run, Remove, Removable
<1>6. FactoryState'
  BY SMTT(20)
  DEF IInv, Safe, TypeOK, FactoryState, RecordState, WorkerState, Address,
      recordVars, engineVars, chainVars, Run, Remove, Removable
<1>7. FactoryHasEntryPoint'
  BY SMTT(20)
  DEF IInv, Safe, TypeOK, FactoryHasEntryPoint, FactoryState, RecordState,
      WorkerState, Address, recordVars, engineVars, chainVars, Run, Remove,
      Removable
<1>8. FaultlessState'
  BY SMTT(20)
  DEF IInv, Safe, TypeOK, FaultlessState, RecordState, WorkerState,
      OneDeployer, recordVars, engineVars, chainVars, Run, Remove, Removable
<1>9. ConfirmedHasHash'
  BY SMTT(20)
  DEF IInv, Safe, TypeOK, ConfirmedHasHash, FaultlessState, WorkerState,
      RecordState, recordVars, engineVars, chainVars, Run, Remove, Removable
<1> QED
  BY <1>1, <1>2, <1>3, <1>4, <1>5, <1>6, <1>7, <1>8, <1>9 DEF IInv, Safe

\* A retry starts from an empty hash.
LEMMA RetryERC20DeploymentIInv ==
  ASSUME IInv,
         NEW d \in Deployment, RetryERC20Deployment(d)
  PROVE  IInv'
<1>a. faults = 0 => \A j \in Run : chain[d][j] \in {"none", "reverted"}
  BY DEF IInv, Safe, FaultlessState, RetryERC20Deployment, Retryable
<1>1. TypeOK'
  BY Kinds, <1>a
  DEF IInv, TypeOK, Safe, WorkerState, RecordState, recordVars, engineVars,
      chainVars, Status, Stage, SendState, Address, Run,
      RetryERC20Deployment, Retryable, ResetForRetry
<1>2. WorkerState'
  BY SMTT(20), <1>a
  DEF IInv, Safe, TypeOK, WorkerState, OneDeployer, RecordState, recordVars,
      engineVars, chainVars, Run, RetryERC20Deployment, Retryable,
      ResetForRetry
<1>3. OneDeployer'
  BY SMTT(20), <1>a
  DEF IInv, Safe, TypeOK, OneDeployer, WorkerState, recordVars, engineVars,
      chainVars, Run, RetryERC20Deployment, Retryable, ResetForRetry
<1>4. RecordState'
  BY SMTT(20), <1>a
  DEF IInv, Safe, TypeOK, RecordState, WorkerState, OneDeployer,
      RecordMatchesRun, recordVars, engineVars, chainVars, Run,
      RetryERC20Deployment, Retryable, ResetForRetry
<1>5. RecordMatchesRun'
  BY SMTT(20), <1>a
  DEF IInv, Safe, TypeOK, RecordMatchesRun, RecordState, WorkerState,
      OneDeployer, recordVars, engineVars, chainVars, Run,
      RetryERC20Deployment, Retryable, ResetForRetry
<1>6. FactoryState'
  BY SMTT(20), <1>a
  DEF IInv, Safe, TypeOK, FactoryState, RecordState, WorkerState, Address,
      recordVars, engineVars, chainVars, Run, RetryERC20Deployment,
      Retryable, ResetForRetry
<1>7. FactoryHasEntryPoint'
  BY SMTT(20), <1>a
  DEF IInv, Safe, TypeOK, FactoryHasEntryPoint, FactoryState, RecordState,
      WorkerState, Address, recordVars, engineVars, chainVars, Run,
      RetryERC20Deployment, Retryable, ResetForRetry
<1>8. FaultlessState'
  <2>1. /\ UNCHANGED <<faults, runs, chain, pc, cur>>
        /\ \A x \in Deployment : x # d => status'[x] = status[x] /\ hash'[x] = hash[x]
    BY DEF IInv, TypeOK, RetryERC20Deployment, ResetForRetry, engineVars, chainVars
  <2>2. \A e \in Engine : pc[e] # "idle" => cur[e] \in Deployment /\ cur[e] # d
    BY DEF IInv, Safe, WorkerState, RetryERC20Deployment, Retryable
  <2> QED
    BY <1>a, <2>1, <2>2 DEF IInv, Safe, FaultlessState
<1>9. ConfirmedHasHash'
  BY SMTT(20), <1>a
  DEF IInv, Safe, TypeOK, ConfirmedHasHash, FaultlessState, WorkerState,
      RecordState, recordVars, engineVars, chainVars, Run,
      RetryERC20Deployment, Retryable, ResetForRetry
<1> QED
  BY <1>1, <1>2, <1>3, <1>4, <1>5, <1>6, <1>7, <1>8, <1>9 DEF IInv, Safe

\* A claim takes a record nobody has, and the engine that asked keeps it unless
\* the answer is lost.
LEMMA ClaimIInv == ASSUME IInv, NEW e \in Engine, NEW k, Claim(e, k) PROVE IInv'
<1>1. PICK d \in Deployment :
        /\ status[d] = "queued" /\ ~hidden[d]
        /\ status' = [status EXCEPT ![d] = "deploying"]
        /\ runs' = [runs EXCEPT ![d] = @ + 1]
        /\ \/ /\ faults' = faults
              /\ pc' = [pc EXCEPT ![e] = "claimed"]
              /\ cur' = [cur EXCEPT ![e] = d]
              /\ turn' = turn
           \/ /\ faults' = faults + 1
              /\ pc' = [pc EXCEPT ![e] = "idle"]
              /\ cur' = [cur EXCEPT ![e] = NoOne]
              /\ turn' = [turn EXCEPT ![e] = NextTurn(@)]
  BY DEF Claim, Candidates, Claimable, Finish, Fault, NoFault, engineVars
<1>2. /\ UNCHANGED <<kind, hidden, createdAt, hash, address, entryPoint, chain, entryChain, now>>
      /\ pc[e] = "idle"
  BY DEF Claim, chainVars
<1>3. runs[d] \in 0 .. MaxRuns - 1 /\ NextTurn(turn[e]) \in Turn
  BY <1>1, Kinds DEF IInv, Safe, TypeOK, RecordState
<1>4. \A f \in Engine : pc[f] # "idle" => cur[f] # d
  BY <1>1 DEF IInv, Safe, WorkerState
<1>5. faults' \in Nat /\ (faults' = 0 => faults = 0)
  BY <1>1 DEF IInv, TypeOK
<1>6. TypeOK'
  <2>1. status' \in [Deployment -> Status] /\ runs' \in [Deployment -> 0 .. MaxRuns]
    BY <1>1, <1>3 DEF IInv, TypeOK, Status
  <2>2. /\ pc' \in [Engine -> Stage]
        /\ cur' \in [Engine -> Deployment \cup {NoOne}]
        /\ turn' \in [Engine -> Turn]
    <3>1. ASSUME NEW s \in Stage, NEW c \in Deployment \cup {NoOne}, NEW t \in Turn,
                 pc' = [pc EXCEPT ![e] = s], cur' = [cur EXCEPT ![e] = c],
                 turn' = turn \/ turn' = [turn EXCEPT ![e] = t]
          PROVE  /\ pc' \in [Engine -> Stage]
                 /\ cur' \in [Engine -> Deployment \cup {NoOne}]
                 /\ turn' \in [Engine -> Turn]
      BY <3>1 DEF IInv, TypeOK
    <3>2. "claimed" \in Stage /\ "idle" \in Stage /\ turn[e] \in Turn
      BY DEF IInv, TypeOK, Stage
    <3> QED
      BY <1>1, <1>3, <3>1, <3>2
  <2> QED
    BY <1>2, <1>5, <2>1, <2>2 DEF IInv, TypeOK
<1>7. WorkerState'
  BY SMTT(20), <1>1, <1>2, <1>3, <1>4 DEF IInv, Safe, TypeOK, WorkerState
<1>8. OneDeployer'
  BY SMTT(20), <1>1, <1>2, <1>4 DEF IInv, Safe, TypeOK, OneDeployer
<1>9. RecordState'
  BY SMTT(20), <1>1, <1>2, <1>3 DEF IInv, Safe, TypeOK, RecordState, Run
<1>10. RecordMatchesRun'
  BY SMTT(20), <1>1, <1>2, <1>3 DEF IInv, Safe, TypeOK, RecordMatchesRun, RecordState
<1>11. FactoryState' /\ FactoryHasEntryPoint'
  BY SMTT(20), <1>1, <1>2 DEF IInv, Safe, TypeOK, FactoryState, FactoryHasEntryPoint
<1>12. FaultlessState'
  <2>1. ASSUME faults' = 0, NEW j \in Run PROVE chain[d][j] \in {"none", "reverted"}
    BY <1>1, <1>5, <2>1 DEF IInv, Safe, FaultlessState
  <2> QED
    BY SMTT(20), <1>1, <1>2, <1>3, <1>4, <1>5, <2>1 DEF IInv, Safe, TypeOK, FaultlessState, WorkerState
<1>13. ConfirmedHasHash'
  BY SMTT(20), <1>1, <1>2, <1>5 DEF IInv, Safe, TypeOK, ConfirmedHasHash
<1> QED
  BY <1>6, <1>7, <1>8, <1>9, <1>10, <1>11, <1>12, <1>13 DEF IInv, Safe

\* A skipped kind changes the turn only.
LEMMA SkipIInv ==
  ASSUME IInv,
         NEW e \in Engine, Skip(e)
  PROVE  IInv'
<1>1. TypeOK'
  BY Kinds
  DEF IInv, TypeOK, Safe, WorkerState, RecordState, recordVars, engineVars,
      chainVars, Status, Stage, SendState, Address, Run, Skip, Finish, Fault,
      NoFault
<1>2. WorkerState'
  BY SMTT(20)
  DEF IInv, Safe, TypeOK, WorkerState, OneDeployer, RecordState, recordVars,
      engineVars, chainVars, Run, Skip, Finish, Fault, NoFault
<1>3. OneDeployer'
  BY SMTT(20)
  DEF IInv, Safe, TypeOK, OneDeployer, WorkerState, recordVars, engineVars,
      chainVars, Run, Skip, Finish, Fault, NoFault
<1>4. RecordState'
  BY SMTT(20)
  DEF IInv, Safe, TypeOK, RecordState, WorkerState, OneDeployer,
      RecordMatchesRun, recordVars, engineVars, chainVars, Run, Skip, Finish,
      Fault, NoFault
<1>5. RecordMatchesRun'
  BY SMTT(20)
  DEF IInv, Safe, TypeOK, RecordMatchesRun, RecordState, WorkerState,
      OneDeployer, recordVars, engineVars, chainVars, Run, Skip, Finish,
      Fault, NoFault
<1>6. FactoryState'
  BY SMTT(20)
  DEF IInv, Safe, TypeOK, FactoryState, RecordState, WorkerState, Address,
      recordVars, engineVars, chainVars, Run, Skip, Finish, Fault, NoFault
<1>7. FactoryHasEntryPoint'
  BY SMTT(20)
  DEF IInv, Safe, TypeOK, FactoryHasEntryPoint, FactoryState, RecordState,
      WorkerState, Address, recordVars, engineVars, chainVars, Run, Skip,
      Finish, Fault, NoFault
<1>8. FaultlessState'
  BY SMTT(20)
  DEF IInv, Safe, TypeOK, FaultlessState, RecordState, WorkerState,
      OneDeployer, recordVars, engineVars, chainVars, Run, Skip, Finish,
      Fault, NoFault
<1>9. ConfirmedHasHash'
  BY SMTT(20)
  DEF IInv, Safe, TypeOK, ConfirmedHasHash, FaultlessState, WorkerState,
      RecordState, recordVars, engineVars, chainVars, Run, Skip, Finish,
      Fault, NoFault
<1> QED
  BY <1>1, <1>2, <1>3, <1>4, <1>5, <1>6, <1>7, <1>8, <1>9 DEF IInv, Safe

\* The entry point is sent by the one deployer.
LEMMA SendEntryPointIInv ==
  ASSUME IInv,
         NEW e \in Engine, SendEntryPoint(e)
  PROVE  IInv'
<1>1. TypeOK'
  BY Kinds
  DEF IInv, TypeOK, Safe, WorkerState, RecordState, recordVars, engineVars,
      chainVars, Status, Stage, SendState, Address, Run, SendEntryPoint,
      NeedsEntryPoint
<1>2. WorkerState'
  BY SMTT(20)
  DEF IInv, Safe, TypeOK, WorkerState, OneDeployer, RecordState, recordVars,
      engineVars, chainVars, Run, SendEntryPoint, NeedsEntryPoint
<1>3. OneDeployer'
  BY SMTT(20)
  DEF IInv, Safe, TypeOK, OneDeployer, WorkerState, recordVars, engineVars,
      chainVars, Run, SendEntryPoint, NeedsEntryPoint
<1>4. RecordState'
  BY SMTT(20)
  DEF IInv, Safe, TypeOK, RecordState, WorkerState, OneDeployer,
      RecordMatchesRun, recordVars, engineVars, chainVars, Run,
      SendEntryPoint, NeedsEntryPoint
<1>5. RecordMatchesRun'
  BY SMTT(20)
  DEF IInv, Safe, TypeOK, RecordMatchesRun, RecordState, WorkerState,
      OneDeployer, recordVars, engineVars, chainVars, Run, SendEntryPoint,
      NeedsEntryPoint
<1>6. FactoryState'
  BY SMTT(20)
  DEF IInv, Safe, TypeOK, FactoryState, RecordState, WorkerState, Address,
      recordVars, engineVars, chainVars, Run, SendEntryPoint,
      NeedsEntryPoint
<1>7. FactoryHasEntryPoint'
  BY SMTT(20)
  DEF IInv, Safe, TypeOK, FactoryHasEntryPoint, FactoryState, RecordState,
      WorkerState, Address, recordVars, engineVars, chainVars, Run,
      SendEntryPoint, NeedsEntryPoint
<1>8. FaultlessState'
  BY SMTT(20)
  DEF IInv, Safe, TypeOK, FaultlessState, RecordState, WorkerState,
      OneDeployer, recordVars, engineVars, chainVars, Run, SendEntryPoint,
      NeedsEntryPoint
<1>9. ConfirmedHasHash'
  BY SMTT(20)
  DEF IInv, Safe, TypeOK, ConfirmedHasHash, FaultlessState, WorkerState,
      RecordState, recordVars, engineVars, chainVars, Run, SendEntryPoint,
      NeedsEntryPoint
<1> QED
  BY <1>1, <1>2, <1>3, <1>4, <1>5, <1>6, <1>7, <1>8, <1>9 DEF IInv, Safe

\* The factory is sent after its entry point was mined.
LEMMA SendOnChainIInv ==
  ASSUME IInv,
         NEW e \in Engine, SendOnChain(e)
  PROVE  IInv'
<1>1. TypeOK'
  BY Kinds
  DEF IInv, TypeOK, Safe, WorkerState, RecordState, recordVars, engineVars,
      chainVars, Status, Stage, SendState, Address, Run, SendOnChain,
      FactoryMayGo, NeedsEntryPoint
<1>2. WorkerState'
  BY SMTT(20)
  DEF IInv, Safe, TypeOK, WorkerState, OneDeployer, RecordState, recordVars,
      engineVars, chainVars, Run, SendOnChain, FactoryMayGo, NeedsEntryPoint
<1>3. OneDeployer'
  BY SMTT(20)
  DEF IInv, Safe, TypeOK, OneDeployer, WorkerState, recordVars, engineVars,
      chainVars, Run, SendOnChain, FactoryMayGo, NeedsEntryPoint
<1>4. RecordState'
  BY SMTT(20)
  DEF IInv, Safe, TypeOK, RecordState, WorkerState, OneDeployer,
      RecordMatchesRun, recordVars, engineVars, chainVars, Run, SendOnChain,
      FactoryMayGo, NeedsEntryPoint
<1>5. RecordMatchesRun'
  BY SMTT(20)
  DEF IInv, Safe, TypeOK, RecordMatchesRun, RecordState, WorkerState,
      OneDeployer, recordVars, engineVars, chainVars, Run, SendOnChain,
      FactoryMayGo, NeedsEntryPoint
<1>6. FactoryState'
  BY SMTT(20)
  DEF IInv, Safe, TypeOK, FactoryState, RecordState, WorkerState, Address,
      recordVars, engineVars, chainVars, Run, SendOnChain, FactoryMayGo,
      NeedsEntryPoint
<1>7. FactoryHasEntryPoint'
  BY SMTT(20)
  DEF IInv, Safe, TypeOK, FactoryHasEntryPoint, FactoryState, RecordState,
      WorkerState, Address, recordVars, engineVars, chainVars, Run,
      SendOnChain, FactoryMayGo, NeedsEntryPoint
<1>8. FaultlessState'
  <2>1. /\ UNCHANGED <<faults, runs, status, hash, pc, cur>>
        /\ pc[e] = "claimed" /\ cur[e] \in Deployment /\ status[cur[e]] = "deploying"
        /\ \A x \in Deployment, k \in Run :
             x # cur[e] \/ k # runs[cur[e]] => chain'[x][k] = chain[x][k]
    BY DEF IInv, Safe, TypeOK, WorkerState, SendOnChain, recordVars, engineVars
  <2>2. \A f \in Engine : pc[f] = "errored" => cur[f] \in Deployment /\ cur[f] # cur[e]
    BY <2>1 DEF IInv, Safe, WorkerState, OneDeployer
  <2>3. \A f \in Engine : pc[f] = "errored" => runs[cur[f]] \in Run
    <3>1. \A d \in Deployment : runs[d] \in 0 .. MaxRuns
      BY DEF IInv, TypeOK
    <3>2. \A f \in Engine : pc[f] = "errored" => runs[cur[f]] >= 1
      BY DEF IInv, Safe, WorkerState
    <3> QED
      BY <2>2, <3>1, <3>2 DEF Run
  <2> QED
    BY <2>1, <2>2, <2>3 DEF IInv, Safe, FaultlessState
<1>9. ConfirmedHasHash'
  BY SMTT(20)
  DEF IInv, Safe, TypeOK, ConfirmedHasHash, FaultlessState, WorkerState,
      RecordState, recordVars, engineVars, chainVars, Run, SendOnChain,
      FactoryMayGo, NeedsEntryPoint
<1> QED
  BY <1>1, <1>2, <1>3, <1>4, <1>5, <1>6, <1>7, <1>8, <1>9 DEF IInv, Safe

\* A command returns with a receipt.
LEMMA CommandReturnsIInv ==
  ASSUME IInv,
         NEW e \in Engine, CommandReturns(e)
  PROVE  IInv'
<1>1. TypeOK'
  BY Kinds
  DEF IInv, TypeOK, Safe, WorkerState, RecordState, recordVars, engineVars,
      chainVars, Status, Stage, SendState, Address, Run, CommandReturns,
      Prints, GoTo
<1>2. WorkerState'
  BY SMTT(20)
  DEF IInv, Safe, TypeOK, WorkerState, OneDeployer, RecordState, recordVars,
      engineVars, chainVars, Run, CommandReturns, Prints, GoTo
<1>3. OneDeployer'
  BY SMTT(20)
  DEF IInv, Safe, TypeOK, OneDeployer, WorkerState, recordVars, engineVars,
      chainVars, Run, CommandReturns, Prints, GoTo
<1>4. RecordState'
  BY SMTT(20)
  DEF IInv, Safe, TypeOK, RecordState, WorkerState, OneDeployer,
      RecordMatchesRun, recordVars, engineVars, chainVars, Run,
      CommandReturns, Prints, GoTo
<1>5. RecordMatchesRun'
  BY SMTT(20)
  DEF IInv, Safe, TypeOK, RecordMatchesRun, RecordState, WorkerState,
      OneDeployer, recordVars, engineVars, chainVars, Run, CommandReturns,
      Prints, GoTo
<1>6. FactoryState'
  BY SMTT(20)
  DEF IInv, Safe, TypeOK, FactoryState, RecordState, WorkerState, Address,
      recordVars, engineVars, chainVars, Run, CommandReturns, Prints, GoTo
<1>7. FactoryHasEntryPoint'
  BY SMTT(20)
  DEF IInv, Safe, TypeOK, FactoryHasEntryPoint, FactoryState, RecordState,
      WorkerState, Address, recordVars, engineVars, chainVars, Run,
      CommandReturns, Prints, GoTo
<1>8. FaultlessState'
  BY SMTT(20)
  DEF IInv, Safe, TypeOK, FaultlessState, RecordState, WorkerState,
      OneDeployer, recordVars, engineVars, chainVars, Run, CommandReturns,
      Prints, GoTo
<1>9. ConfirmedHasHash'
  BY SMTT(20)
  DEF IInv, Safe, TypeOK, ConfirmedHasHash, FaultlessState, WorkerState,
      RecordState, recordVars, engineVars, chainVars, Run, CommandReturns,
      Prints, GoTo
<1> QED
  BY <1>1, <1>2, <1>3, <1>4, <1>5, <1>6, <1>7, <1>8, <1>9 DEF IInv, Safe

\* A command fails with nothing sent, or by a fault.
LEMMA CommandFailsIInv ==
  ASSUME IInv,
         NEW e \in Engine, CommandFails(e)
  PROVE  IInv'
<1>1. TypeOK'
  BY Kinds
  DEF IInv, TypeOK, Safe, WorkerState, RecordState, recordVars, engineVars,
      chainVars, Status, Stage, SendState, Address, Run, CommandFails,
      FailsForCause, Prints, GoTo, Fault, NoFault
<1>2. WorkerState'
  BY SMTT(20)
  DEF IInv, Safe, TypeOK, WorkerState, OneDeployer, RecordState, recordVars,
      engineVars, chainVars, Run, CommandFails, FailsForCause, Prints, GoTo,
      Fault, NoFault
<1>3. OneDeployer'
  BY SMTT(20)
  DEF IInv, Safe, TypeOK, OneDeployer, WorkerState, recordVars, engineVars,
      chainVars, Run, CommandFails, FailsForCause, Prints, GoTo, Fault,
      NoFault
<1>4. RecordState'
  BY SMTT(20)
  DEF IInv, Safe, TypeOK, RecordState, WorkerState, OneDeployer,
      RecordMatchesRun, recordVars, engineVars, chainVars, Run, CommandFails,
      FailsForCause, Prints, GoTo, Fault, NoFault
<1>5. RecordMatchesRun'
  BY SMTT(20)
  DEF IInv, Safe, TypeOK, RecordMatchesRun, RecordState, WorkerState,
      OneDeployer, recordVars, engineVars, chainVars, Run, CommandFails,
      FailsForCause, Prints, GoTo, Fault, NoFault
<1>6. FactoryState'
  BY SMTT(20)
  DEF IInv, Safe, TypeOK, FactoryState, RecordState, WorkerState, Address,
      recordVars, engineVars, chainVars, Run, CommandFails, FailsForCause,
      Prints, GoTo, Fault, NoFault
<1>7. FactoryHasEntryPoint'
  BY SMTT(20)
  DEF IInv, Safe, TypeOK, FactoryHasEntryPoint, FactoryState, RecordState,
      WorkerState, Address, recordVars, engineVars, chainVars, Run,
      CommandFails, FailsForCause, Prints, GoTo, Fault, NoFault
<1>8. FaultlessState'
  BY SMTT(20)
  DEF IInv, Safe, TypeOK, FaultlessState, RecordState, WorkerState,
      OneDeployer, recordVars, engineVars, chainVars, Run, CommandFails,
      FailsForCause, Prints, GoTo, Fault, NoFault
<1>9. ConfirmedHasHash'
  BY SMTT(20)
  DEF IInv, Safe, TypeOK, ConfirmedHasHash, FaultlessState, WorkerState,
      RecordState, recordVars, engineVars, chainVars, Run, CommandFails,
      FailsForCause, Prints, GoTo, Fault, NoFault
<1> QED
  BY <1>1, <1>2, <1>3, <1>4, <1>5, <1>6, <1>7, <1>8, <1>9 DEF IInv, Safe

\* A failed mark, kept or lost.
LEMMA MarkFailedIInv ==
  ASSUME IInv,
         NEW e \in Engine, MarkFailed(e)
  PROVE  IInv'
<1>a. cur[e] \in Deployment /\ turn[e] \in Turn /\ NextTurn(turn[e]) \in Turn
  BY Kinds DEF IInv, Safe, TypeOK, WorkerState, MarkFailed
<1>1. TypeOK'
  <2>1. "failed" \in Status /\ 0 \in 0 .. MaxRuns
    BY DEF Status
  <2>2. /\ status' \in [Deployment -> Status]
        /\ hash' \in [Deployment -> 0 .. MaxRuns]
        /\ address' \in [Deployment -> 0 .. MaxRuns]
        /\ UNCHANGED <<kind, hidden, createdAt, runs, entryPoint>>
    BY <1>a, <2>1, UpdateStatusType DEF IInv, TypeOK, MarkFailed, recordVars
  <2>3. faults' \in Nat /\ UNCHANGED <<chain, entryChain, now>>
    BY DEF IInv, TypeOK, MarkFailed, Fault, NoFault, chainVars
  <2> QED
    BY <2>2, <2>3, FinishType DEF IInv, TypeOK, MarkFailed
<1>2. WorkerState'
  BY SMTT(20), <1>a
  DEF IInv, Safe, TypeOK, WorkerState, OneDeployer, RecordState, recordVars,
      engineVars, chainVars, Run, MarkFailed, UpdateStatus, Kept, Finish,
      Fault, NoFault
<1>3. OneDeployer'
  BY SMTT(20), <1>a
  DEF IInv, Safe, TypeOK, OneDeployer, WorkerState, recordVars, engineVars,
      chainVars, Run, MarkFailed, UpdateStatus, Kept, Finish, Fault, NoFault
<1>4. RecordState'
  BY SMTT(20), <1>a
  DEF IInv, Safe, TypeOK, RecordState, WorkerState, OneDeployer,
      RecordMatchesRun, recordVars, engineVars, chainVars, Run, MarkFailed,
      UpdateStatus, Kept, Finish, Fault, NoFault
<1>5. RecordMatchesRun'
  <2>1. UNCHANGED <<runs, chain, hash, address>>
    BY <1>a DEF IInv, TypeOK, MarkFailed, UpdateStatus, Kept, recordVars, chainVars
  <2>2. status[cur[e]] = "deploying"
    BY DEF IInv, Safe, WorkerState, MarkFailed
  <2>3. \A d \in Deployment : status'[d] = "confirmed" <=> status[d] = "confirmed"
    BY <1>a, <2>2 DEF IInv, TypeOK, MarkFailed, UpdateStatus, recordVars
  <2> QED
    BY <2>1, <2>3 DEF IInv, Safe, RecordMatchesRun
<1>6. FactoryState'
  BY SMTT(20), <1>a
  DEF IInv, Safe, TypeOK, FactoryState, RecordState, WorkerState, Address,
      recordVars, engineVars, chainVars, Run, MarkFailed, UpdateStatus, Kept,
      Finish, Fault, NoFault
<1>7. FactoryHasEntryPoint'
  BY SMTT(20), <1>a
  DEF IInv, Safe, TypeOK, FactoryHasEntryPoint, FactoryState, RecordState,
      WorkerState, Address, recordVars, engineVars, chainVars, Run,
      MarkFailed, UpdateStatus, Kept, Finish, Fault, NoFault
<1>8. FaultlessState'
  BY SMTT(20), <1>a
  DEF IInv, Safe, TypeOK, FaultlessState, RecordState, WorkerState,
      OneDeployer, recordVars, engineVars, chainVars, Run, MarkFailed,
      UpdateStatus, Kept, Finish, Fault, NoFault
<1>9. ConfirmedHasHash'
  BY SMTT(20), <1>a
  DEF IInv, Safe, TypeOK, ConfirmedHasHash, FaultlessState, WorkerState,
      RecordState, recordVars, engineVars, chainVars, Run, MarkFailed,
      UpdateStatus, Kept, Finish, Fault, NoFault
<1> QED
  BY <1>1, <1>2, <1>3, <1>4, <1>5, <1>6, <1>7, <1>8, <1>9 DEF IInv, Safe

\* A submitted mark carries the hash of the run.
LEMMA MarkSubmittedIInv ==
  ASSUME IInv,
         NEW e \in Engine, MarkSubmitted(e)
  PROVE  IInv'
<1>a. cur[e] \in Deployment /\ runs[cur[e]] \in 1 .. MaxRuns
  BY DEF IInv, Safe, TypeOK, WorkerState, MarkSubmitted
<1>1. TypeOK'
  <2>1. "submitted" \in Status /\ 0 \in 0 .. MaxRuns /\ runs[cur[e]] \in 0 .. MaxRuns
    BY <1>a DEF Status
  <2>2. /\ status' \in [Deployment -> Status]
        /\ hash' \in [Deployment -> 0 .. MaxRuns]
        /\ address' \in [Deployment -> 0 .. MaxRuns]
        /\ UNCHANGED <<kind, hidden, createdAt, runs, entryPoint>>
    BY <1>a, <2>1, UpdateStatusType DEF IInv, TypeOK, MarkSubmitted, recordVars
  <2>3. faults' \in Nat /\ UNCHANGED <<chain, entryChain, now>>
    BY DEF IInv, TypeOK, MarkSubmitted, Fault, NoFault, chainVars
  <2>4. pc' \in [Engine -> Stage] /\ UNCHANGED <<cur, turn>>
    BY DEF IInv, TypeOK, MarkSubmitted, GoTo, Stage
  <2> QED
    BY <2>2, <2>3, <2>4 DEF IInv, TypeOK
<1>2. WorkerState'
  BY SMTT(20), <1>a
  DEF IInv, Safe, TypeOK, WorkerState, OneDeployer, RecordState, recordVars,
      engineVars, chainVars, Run, MarkSubmitted, UpdateStatus, Kept, GoTo,
      Fault, NoFault
<1>3. OneDeployer'
  BY SMTT(20), <1>a
  DEF IInv, Safe, TypeOK, OneDeployer, WorkerState, recordVars, engineVars,
      chainVars, Run, MarkSubmitted, UpdateStatus, Kept, GoTo, Fault,
      NoFault
<1>4. RecordState'
  BY SMTT(20), <1>a
  DEF IInv, Safe, TypeOK, RecordState, WorkerState, OneDeployer,
      RecordMatchesRun, recordVars, engineVars, chainVars, Run,
      MarkSubmitted, UpdateStatus, Kept, GoTo, Fault, NoFault
<1>5. RecordMatchesRun'
  BY SMTT(20), <1>a
  DEF IInv, Safe, TypeOK, RecordMatchesRun, RecordState, WorkerState,
      OneDeployer, recordVars, engineVars, chainVars, Run, MarkSubmitted,
      UpdateStatus, Kept, GoTo, Fault, NoFault
<1>6. FactoryState'
  BY SMTT(20), <1>a
  DEF IInv, Safe, TypeOK, FactoryState, RecordState, WorkerState, Address,
      recordVars, engineVars, chainVars, Run, MarkSubmitted, UpdateStatus,
      Kept, GoTo, Fault, NoFault
<1>7. FactoryHasEntryPoint'
  BY SMTT(20), <1>a
  DEF IInv, Safe, TypeOK, FactoryHasEntryPoint, FactoryState, RecordState,
      WorkerState, Address, recordVars, engineVars, chainVars, Run,
      MarkSubmitted, UpdateStatus, Kept, GoTo, Fault, NoFault
<1>8. FaultlessState'
  BY SMTT(20), <1>a
  DEF IInv, Safe, TypeOK, FaultlessState, RecordState, WorkerState,
      OneDeployer, recordVars, engineVars, chainVars, Run, MarkSubmitted,
      UpdateStatus, Kept, GoTo, Fault, NoFault
<1>9. ConfirmedHasHash'
  <2> SUFFICES ASSUME faults' = 0, NEW d \in Deployment, status'[d] = "confirmed"
               PROVE  hash'[d] # 0
    BY DEF ConfirmedHasHash
  <2>1. faults = 0 /\ UpdateStatus(cur[e], "submitted", runs[cur[e]], 0)
    BY DEF IInv, TypeOK, MarkSubmitted, NoFault, Fault
  <2>2. d # cur[e] /\ status[d] = "confirmed" /\ hash'[d] = hash[d]
    BY <1>a, <2>1 DEF IInv, TypeOK, UpdateStatus
  <2> QED
    BY <2>1, <2>2 DEF IInv, Safe, ConfirmedHasHash
<1> QED
  BY <1>1, <1>2, <1>3, <1>4, <1>5, <1>6, <1>7, <1>8, <1>9 DEF IInv, Safe

\* The outcome carries the address of the run.
LEMMA MarkOutcomeIInv ==
  ASSUME IInv,
         NEW e \in Engine, MarkOutcome(e)
  PROVE  IInv'
<1>a. /\ cur[e] \in Deployment /\ runs[cur[e]] \in 1 .. MaxRuns
      /\ turn[e] \in Turn /\ NextTurn(turn[e]) \in Turn
  BY Kinds DEF IInv, Safe, TypeOK, WorkerState, MarkOutcome
<1>1. TypeOK'
  <2>1. /\ "confirmed" \in Status /\ "failed" \in Status
        /\ 0 \in 0 .. MaxRuns /\ runs[cur[e]] \in 0 .. MaxRuns
    BY <1>a DEF Status
  <2>2. /\ status' \in [Deployment -> Status]
        /\ hash' \in [Deployment -> 0 .. MaxRuns]
        /\ address' \in [Deployment -> 0 .. MaxRuns]
        /\ UNCHANGED <<kind, hidden, createdAt, runs>>
    BY <1>a, <2>1, UpdateStatusType DEF IInv, TypeOK, MarkOutcome, recordVars
  <2>3. entryPoint' \in [Deployment -> Address]
    BY <1>a DEF IInv, TypeOK, MarkOutcome, recordVars, Address
  <2>4. faults' \in Nat /\ UNCHANGED <<chain, entryChain, now>>
    BY DEF IInv, TypeOK, MarkOutcome, Fault, NoFault, chainVars
  <2> QED
    BY <2>2, <2>3, <2>4, FinishType DEF IInv, TypeOK, MarkOutcome
<1>2. WorkerState'
  BY SMTT(20), <1>a
  DEF IInv, Safe, TypeOK, WorkerState, OneDeployer, RecordState, recordVars,
      engineVars, chainVars, Run, MarkOutcome, UpdateStatus, Kept, Succeeded,
      NeedsEntryPoint, Finish, Fault, NoFault
<1>3. OneDeployer'
  BY SMTT(20), <1>a
  DEF IInv, Safe, TypeOK, OneDeployer, WorkerState, recordVars, engineVars,
      chainVars, Run, MarkOutcome, UpdateStatus, Kept, Succeeded,
      NeedsEntryPoint, Finish, Fault, NoFault
<1>4. RecordState'
  BY SMTT(20), <1>a
  DEF IInv, Safe, TypeOK, RecordState, WorkerState, OneDeployer,
      RecordMatchesRun, recordVars, engineVars, chainVars, Run, MarkOutcome,
      UpdateStatus, Kept, Succeeded, NeedsEntryPoint, Finish, Fault, NoFault
<1>5. RecordMatchesRun'
  BY SMTT(20), <1>a
  DEF IInv, Safe, TypeOK, RecordMatchesRun, RecordState, WorkerState,
      OneDeployer, recordVars, engineVars, chainVars, Run, MarkOutcome,
      UpdateStatus, Kept, Succeeded, NeedsEntryPoint, Finish, Fault, NoFault
<1>6. FactoryState'
  BY SMTT(20), <1>a
  DEF IInv, Safe, TypeOK, FactoryState, RecordState, WorkerState, Address,
      recordVars, engineVars, chainVars, Run, MarkOutcome, UpdateStatus,
      Kept, Succeeded, NeedsEntryPoint, Finish, Fault, NoFault
<1>7. FactoryHasEntryPoint'
  BY SMTT(20), <1>a
  DEF IInv, Safe, TypeOK, FactoryHasEntryPoint, FactoryState, RecordState,
      WorkerState, Address, recordVars, engineVars, chainVars, Run,
      MarkOutcome, UpdateStatus, Kept, Succeeded, NeedsEntryPoint, Finish,
      Fault, NoFault
<1>8. FaultlessState'
  BY SMTT(20), <1>a
  DEF IInv, Safe, TypeOK, FaultlessState, RecordState, WorkerState,
      OneDeployer, recordVars, engineVars, chainVars, Run, MarkOutcome,
      UpdateStatus, Kept, Succeeded, NeedsEntryPoint, Finish, Fault, NoFault
<1>9. ConfirmedHasHash'
  BY SMTT(20), <1>a
  DEF IInv, Safe, TypeOK, ConfirmedHasHash, FaultlessState, WorkerState,
      RecordState, recordVars, engineVars, chainVars, Run, MarkOutcome,
      UpdateStatus, Kept, Succeeded, NeedsEntryPoint, Finish, Fault, NoFault
<1> QED
  BY <1>1, <1>2, <1>3, <1>4, <1>5, <1>6, <1>7, <1>8, <1>9 DEF IInv, Safe

\* A crash is a fault that leaves records alone.
LEMMA CrashIInv ==
  ASSUME IInv,
         NEW e \in Engine, Crash(e)
  PROVE  IInv'
<1>1. TypeOK'
  BY Kinds
  DEF IInv, TypeOK, Safe, WorkerState, RecordState, recordVars, engineVars,
      chainVars, Status, Stage, SendState, Address, Run, Crash, Fault
<1>2. WorkerState'
  BY SMTT(20)
  DEF IInv, Safe, TypeOK, WorkerState, OneDeployer, RecordState, recordVars,
      engineVars, chainVars, Run, Crash, Fault
<1>3. OneDeployer'
  BY SMTT(20)
  DEF IInv, Safe, TypeOK, OneDeployer, WorkerState, recordVars, engineVars,
      chainVars, Run, Crash, Fault
<1>4. RecordState'
  BY SMTT(20)
  DEF IInv, Safe, TypeOK, RecordState, WorkerState, OneDeployer,
      RecordMatchesRun, recordVars, engineVars, chainVars, Run, Crash, Fault
<1>5. RecordMatchesRun'
  BY SMTT(20)
  DEF IInv, Safe, TypeOK, RecordMatchesRun, RecordState, WorkerState,
      OneDeployer, recordVars, engineVars, chainVars, Run, Crash, Fault
<1>6. FactoryState'
  BY SMTT(20)
  DEF IInv, Safe, TypeOK, FactoryState, RecordState, WorkerState, Address,
      recordVars, engineVars, chainVars, Run, Crash, Fault
<1>7. FactoryHasEntryPoint'
  BY SMTT(20)
  DEF IInv, Safe, TypeOK, FactoryHasEntryPoint, FactoryState, RecordState,
      WorkerState, Address, recordVars, engineVars, chainVars, Run, Crash,
      Fault
<1>8. FaultlessState'
  BY SMTT(20)
  DEF IInv, Safe, TypeOK, FaultlessState, RecordState, WorkerState,
      OneDeployer, recordVars, engineVars, chainVars, Run, Crash, Fault
<1>9. ConfirmedHasHash'
  BY SMTT(20)
  DEF IInv, Safe, TypeOK, ConfirmedHasHash, FaultlessState, WorkerState,
      RecordState, recordVars, engineVars, chainVars, Run, Crash, Fault
<1> QED
  BY <1>1, <1>2, <1>3, <1>4, <1>5, <1>6, <1>7, <1>8, <1>9 DEF IInv, Safe

\* A mined entry point stays mined.
LEMMA MineEntryPointIInv ==
  ASSUME IInv,
         NEW d \in Deployment, MineEntryPoint(d)
  PROVE  IInv'
<1>1. TypeOK'
  BY Kinds
  DEF IInv, TypeOK, Safe, WorkerState, RecordState, recordVars, engineVars,
      chainVars, Status, Stage, SendState, Address, Run, MineEntryPoint
<1>2. WorkerState'
  BY SMTT(20)
  DEF IInv, Safe, TypeOK, WorkerState, OneDeployer, RecordState, recordVars,
      engineVars, chainVars, Run, MineEntryPoint
<1>3. OneDeployer'
  BY SMTT(20)
  DEF IInv, Safe, TypeOK, OneDeployer, WorkerState, recordVars, engineVars,
      chainVars, Run, MineEntryPoint
<1>4. RecordState'
  BY SMTT(20)
  DEF IInv, Safe, TypeOK, RecordState, WorkerState, OneDeployer,
      RecordMatchesRun, recordVars, engineVars, chainVars, Run,
      MineEntryPoint
<1>5. RecordMatchesRun'
  BY SMTT(20)
  DEF IInv, Safe, TypeOK, RecordMatchesRun, RecordState, WorkerState,
      OneDeployer, recordVars, engineVars, chainVars, Run, MineEntryPoint
<1>6. FactoryState'
  BY SMTT(20)
  DEF IInv, Safe, TypeOK, FactoryState, RecordState, WorkerState, Address,
      recordVars, engineVars, chainVars, Run, MineEntryPoint
<1>7. FactoryHasEntryPoint'
  BY SMTT(20)
  DEF IInv, Safe, TypeOK, FactoryHasEntryPoint, FactoryState, RecordState,
      WorkerState, Address, recordVars, engineVars, chainVars, Run,
      MineEntryPoint
<1>8. FaultlessState'
  BY SMTT(20)
  DEF IInv, Safe, TypeOK, FaultlessState, RecordState, WorkerState,
      OneDeployer, recordVars, engineVars, chainVars, Run, MineEntryPoint
<1>9. ConfirmedHasHash'
  BY SMTT(20)
  DEF IInv, Safe, TypeOK, ConfirmedHasHash, FaultlessState, WorkerState,
      RecordState, recordVars, engineVars, chainVars, Run, MineEntryPoint
<1> QED
  BY <1>1, <1>2, <1>3, <1>4, <1>5, <1>6, <1>7, <1>8, <1>9 DEF IInv, Safe

\* Mining ends a send.
LEMMA MineIInv ==
  ASSUME IInv,
         NEW d \in Deployment, NEW k \in Run, Mine(d, k)
  PROVE  IInv'
<1>1. TypeOK'
  BY Kinds
  DEF IInv, TypeOK, Safe, WorkerState, RecordState, recordVars, engineVars,
      chainVars, Status, Stage, SendState, Address, Run, Mine
<1>2. WorkerState'
  BY SMTT(20)
  DEF IInv, Safe, TypeOK, WorkerState, OneDeployer, RecordState, recordVars,
      engineVars, chainVars, Run, Mine
<1>3. OneDeployer'
  BY SMTT(20)
  DEF IInv, Safe, TypeOK, OneDeployer, WorkerState, recordVars, engineVars,
      chainVars, Run, Mine
<1>4. RecordState'
  BY SMTT(20)
  DEF IInv, Safe, TypeOK, RecordState, WorkerState, OneDeployer,
      RecordMatchesRun, recordVars, engineVars, chainVars, Run, Mine
<1>5. RecordMatchesRun'
  BY SMTT(20)
  DEF IInv, Safe, TypeOK, RecordMatchesRun, RecordState, WorkerState,
      OneDeployer, recordVars, engineVars, chainVars, Run, Mine
<1>6. FactoryState'
  BY SMTT(20)
  DEF IInv, Safe, TypeOK, FactoryState, RecordState, WorkerState, Address,
      recordVars, engineVars, chainVars, Run, Mine
<1>7. FactoryHasEntryPoint'
  BY SMTT(20)
  DEF IInv, Safe, TypeOK, FactoryHasEntryPoint, FactoryState, RecordState,
      WorkerState, Address, recordVars, engineVars, chainVars, Run, Mine
<1>8. FaultlessState'
  BY SMTT(20)
  DEF IInv, Safe, TypeOK, FaultlessState, RecordState, WorkerState,
      OneDeployer, recordVars, engineVars, chainVars, Run, Mine
<1>9. ConfirmedHasHash'
  BY SMTT(20)
  DEF IInv, Safe, TypeOK, ConfirmedHasHash, FaultlessState, WorkerState,
      RecordState, recordVars, engineVars, chainVars, Run, Mine
<1> QED
  BY <1>1, <1>2, <1>3, <1>4, <1>5, <1>6, <1>7, <1>8, <1>9 DEF IInv, Safe

\* Time passes.
LEMMA TickIInv ==
  ASSUME IInv,
         Tick
  PROVE  IInv'
<1>1. TypeOK'
  BY Kinds
  DEF IInv, TypeOK, Safe, WorkerState, RecordState, recordVars, engineVars,
      chainVars, Status, Stage, SendState, Address, Run, Tick
<1>2. WorkerState'
  BY SMTT(20)
  DEF IInv, Safe, TypeOK, WorkerState, OneDeployer, RecordState, recordVars,
      engineVars, chainVars, Run, Tick
<1>3. OneDeployer'
  BY SMTT(20)
  DEF IInv, Safe, TypeOK, OneDeployer, WorkerState, recordVars, engineVars,
      chainVars, Run, Tick
<1>4. RecordState'
  BY SMTT(20)
  DEF IInv, Safe, TypeOK, RecordState, WorkerState, OneDeployer,
      RecordMatchesRun, recordVars, engineVars, chainVars, Run, Tick
<1>5. RecordMatchesRun'
  BY SMTT(20)
  DEF IInv, Safe, TypeOK, RecordMatchesRun, RecordState, WorkerState,
      OneDeployer, recordVars, engineVars, chainVars, Run, Tick
<1>6. FactoryState'
  BY SMTT(20)
  DEF IInv, Safe, TypeOK, FactoryState, RecordState, WorkerState, Address,
      recordVars, engineVars, chainVars, Run, Tick
<1>7. FactoryHasEntryPoint'
  BY SMTT(20)
  DEF IInv, Safe, TypeOK, FactoryHasEntryPoint, FactoryState, RecordState,
      WorkerState, Address, recordVars, engineVars, chainVars, Run, Tick
<1>8. FaultlessState'
  BY SMTT(20)
  DEF IInv, Safe, TypeOK, FaultlessState, RecordState, WorkerState,
      OneDeployer, recordVars, engineVars, chainVars, Run, Tick
<1>9. ConfirmedHasHash'
  BY SMTT(20)
  DEF IInv, Safe, TypeOK, ConfirmedHasHash, FaultlessState, WorkerState,
      RecordState, recordVars, engineVars, chainVars, Run, Tick
<1> QED
  BY <1>1, <1>2, <1>3, <1>4, <1>5, <1>6, <1>7, <1>8, <1>9 DEF IInv, Safe

-----------------------------------------------------------------------------
(* The whole next-state relation.                                          *)

\* What the API asks for leaves the invariant true.
LEMMA ApiStepIInv == ASSUME IInv, ApiStep PROVE IInv'
<1>1. PICK d \in Deployment : CreateStep(d) \/ RemoveStep(d) \/ RetryERC20Deployment(d)
  BY DEF ApiStep
<1>2. CASE CreateStep(d)
  <2>1. PICK k \in Kind : \/ Create(d, k) /\ UNCHANGED entryPoint
                          \/ CreateAccountAbstractionDeployment(d) /\ Create(d, k)
    BY <1>2
    DEF CreateStep, CreateERC20Deployment, CreateERC1155EditionDeployment,
        CreateEscrowDeployment, CreatePrivateClaimRegistryDeployment,
        CreateShieldedPayoutPoolDeployment, CreateShieldedWithdrawalVerifierDeployment,
        CreateAccountAbstractionDeployment, CreatePlain, Create
  <2>2. entryPoint[d] = "empty" /\ entryPoint = [entryPoint EXCEPT ![d] = "empty"]
    BY <2>1 DEF IInv, Safe, TypeOK, RecordState, Create
  <2>3. \E a \in {"empty", "given"} : Create(d, k) /\ entryPoint' = [entryPoint EXCEPT ![d] = a]
    BY <2>1, <2>2 DEF CreateAccountAbstractionDeployment
  <2> QED
    BY <2>3, CreateIInv
<1>3. CASE RemoveStep(d)
  <2>1. PICK k : Remove(d, k)
    BY <1>3
    DEF RemoveStep, RemoveERC20Deployment, RemoveERC1155EditionDeployment,
        RemoveEscrowDeployment, RemovePrivateClaimRegistryDeployment,
        RemoveShieldedPayoutPoolDeployment, RemoveShieldedWithdrawalVerifierDeployment,
        RemoveAccountAbstractionDeployment
  <2> QED
    BY <2>1, RemoveIInv
<1> QED
  BY <1>1, <1>2, <1>3, RetryERC20DeploymentIInv

\* So does a claim of any kind.
LEMMA ClaimStepIInv == ASSUME IInv, NEW e \in Engine, ClaimStep(e) PROVE IInv'
<1>1. PICK k : Claim(e, k)
  BY DEF ClaimStep, ClaimNextERC20Deployment, ClaimNextERC1155EditionDeployment,
         ClaimNextEscrowDeployment, ClaimNextPrivateClaimRegistryDeployment,
         ClaimNextShieldedPayoutPoolDeployment, ClaimNextShieldedWithdrawalVerifierDeployment,
         ClaimNextAccountAbstractionDeployment
<1> QED
  BY <1>1, ClaimIInv

\* Every step keeps the invariant.
LEMMA NextIInv == IInv /\ [Next]_vars => IInv'
<1> SUFFICES ASSUME IInv, [Next]_vars PROVE IInv'
  OBVIOUS
<1>1. CASE ApiStep
  BY <1>1, ApiStepIInv
<1>2. ASSUME NEW e \in Engine, EngineStep(e) PROVE IInv'
  BY <1>2, ClaimStepIInv, SkipIInv, SendEntryPointIInv, SendOnChainIInv, CommandReturnsIInv,
     CommandFailsIInv, MarkFailedIInv, MarkSubmittedIInv, MarkOutcomeIInv DEF EngineStep
<1>3. ASSUME NEW e \in Engine, Crash(e) PROVE IInv'
  BY <1>3, CrashIInv
<1>4. CASE ChainStep
  BY <1>4, MineEntryPointIInv, MineIInv DEF ChainStep
<1>5. CASE Tick
  BY <1>5, TickIInv
<1>6. CASE UNCHANGED vars
  BY <1>6 DEF vars, recordVars, engineVars, chainVars, IInv, TypeOK, Safe, WorkerState,
     OneDeployer, RecordState, RecordMatchesRun, FactoryState, FactoryHasEntryPoint,
     FaultlessState, ConfirmedHasHash
<1> QED
  BY <1>1, <1>2, <1>3, <1>4, <1>5, <1>6 DEF Next

\* The invariant holds in every behaviour.
THEOREM DeploymentQueueIInv == Spec => []IInv
BY InitIInv, NextIInv, PTL DEF Spec

-----------------------------------------------------------------------------
(* The properties.                                                         *)

\* Records, locals and chain keep their shape, whatever interleaving of
\* engines, requests and faults there is.
THEOREM TypeCorrect == Spec => []TypeOK
BY DeploymentQueueIInv, PTL DEF IInv

\* Two engines never deploy the same record.
THEOREM DeploysAlone == Spec => []OneDeployer
BY DeploymentQueueIInv, PTL DEF IInv, Safe

\* A recorded hash and address are those of the last run.
THEOREM LinksAreReal == Spec => []RecordMatchesRun
BY DeploymentQueueIInv, PTL DEF IInv, Safe

\* Factories are mined against an entry point.
THEOREM FactoriesServe == Spec => []FactoryHasEntryPoint
BY DeploymentQueueIInv, PTL DEF IInv, Safe

\* Confirmed records show their transaction unless a mark was lost.
THEOREM HashIsKept == Spec => []ConfirmedHasHash
BY DeploymentQueueIInv, PTL DEF IInv, Safe

\* Without faults a record has one contract at most, and none when it failed.
THEOREM OneContract == Spec => []OneContractUnlessFaulty
<1>1. IInv => OneContractUnlessFaulty
  <2> SUFFICES ASSUME IInv, faults = 0, NEW d \in Deployment
               PROVE  /\ status[d] = "failed" => chain[d][runs[d]] \notin {"sent", "success"}
                      /\ \A j, k \in Run : chain[d][j] = "success" /\ chain[d][k] = "success"
                           => j = k
    BY DEF OneContractUnlessFaulty
  <2>1. \A k \in Run : chain[d][k] = "success" => k = runs[d] /\ status[d] # "failed"
    BY DEF IInv, Safe, FaultlessState
  <2>2. status[d] = "failed" => runs[d] \in Run
    <3>1. runs[d] \in 0 .. MaxRuns
      BY DEF IInv, TypeOK
    <3>2. status[d] = "failed" => runs[d] >= 1
      BY DEF IInv, Safe, RecordState
    <3> QED
      BY <3>1, <3>2 DEF Run
  <2>3. status[d] = "failed" => chain[d][runs[d]] \in {"none", "reverted"}
    BY <2>2 DEF IInv, Safe, FaultlessState
  <2> QED
    BY <2>1, <2>3
<1> QED
  BY <1>1, DeploymentQueueIInv, PTL

\* A mark of an engine is about the record it holds, which is neither confirmed
\* nor removed.
LEMMA MarksOwnRecord ==
  ASSUME IInv, NEW e \in Engine, MarkFailed(e) \/ MarkSubmitted(e) \/ MarkOutcome(e)
  PROVE  /\ cur[e] \in Deployment /\ status[cur[e]] # "confirmed" /\ ~hidden[cur[e]]
         /\ \A d \in Deployment : d # cur[e] =>
              UNCHANGED <<status[d], hash[d], address[d], entryPoint[d]>>
         /\ UNCHANGED <<runs, chain, entryChain>>
<1>1. cur[e] \in Deployment /\ status[cur[e]] # "confirmed" /\ ~hidden[cur[e]]
  BY DEF IInv, Safe, WorkerState, MarkFailed, MarkSubmitted, MarkOutcome
<1>2. UNCHANGED <<runs, chain, entryChain>>
  BY DEF MarkFailed, MarkSubmitted, MarkOutcome, UpdateStatus, recordVars, chainVars
<1>3. ASSUME NEW s, NEW h, NEW a, UpdateStatus(cur[e], s, h, a)
      PROVE  \A d \in Deployment : d # cur[e] => UNCHANGED <<status[d], hash[d], address[d]>>
  BY <1>3 DEF IInv, TypeOK, UpdateStatus
<1>4. \A d \in Deployment : d # cur[e] => entryPoint'[d] = entryPoint[d]
  BY DEF IInv, TypeOK, MarkFailed, MarkSubmitted, MarkOutcome, recordVars
<1>5. \A d \in Deployment : d # cur[e] => UNCHANGED <<status[d], hash[d], address[d]>>
  BY <1>3 DEF MarkFailed, MarkSubmitted, MarkOutcome, recordVars
<1> QED
  BY <1>1, <1>2, <1>4, <1>5

\* What else writes records takes one that is neither confirmed nor removed, and
\* a removal changes nothing but that.
LEMMA OthersTakeOpen ==
  ASSUME IInv, Next,
         \A e \in Engine : ~MarkFailed(e) /\ ~MarkSubmitted(e) /\ ~MarkOutcome(e)
  PROVE  \A d \in Deployment : status[d] = "confirmed" \/ hidden[d] =>
           UNCHANGED <<status[d], hash[d], address[d], entryPoint[d], runs[d]>>
<1> SUFFICES ASSUME NEW d \in Deployment, status[d] = "confirmed" \/ hidden[d]
             PROVE  UNCHANGED <<status[d], hash[d], address[d], entryPoint[d], runs[d]>>
  OBVIOUS
<1>1. ASSUME NEW x \in Deployment, CreateStep(x)
      PROVE  UNCHANGED <<status[d], hash[d], address[d], entryPoint[d], runs[d]>>
  <2>1. PICK k \in Kind : Create(x, k) /\ (UNCHANGED entryPoint \/ CreateAccountAbstractionDeployment(x))
    BY <1>1
    DEF CreateStep, CreateERC20Deployment, CreateERC1155EditionDeployment,
        CreateEscrowDeployment, CreatePrivateClaimRegistryDeployment,
        CreateShieldedPayoutPoolDeployment, CreateShieldedWithdrawalVerifierDeployment,
        CreateAccountAbstractionDeployment, CreatePlain, Create
  <2>2. x # d
    BY <2>1 DEF IInv, Safe, RecordState, Create
  <2> QED
    BY <2>1, <2>2 DEF IInv, TypeOK, Create, CreateAccountAbstractionDeployment
<1>2. ASSUME NEW x \in Deployment, RemoveStep(x)
      PROVE  UNCHANGED <<status[d], hash[d], address[d], entryPoint[d], runs[d]>>
  BY <1>2
  DEF RemoveStep, RemoveERC20Deployment, RemoveERC1155EditionDeployment,
      RemoveEscrowDeployment, RemovePrivateClaimRegistryDeployment,
      RemoveShieldedPayoutPoolDeployment, RemoveShieldedWithdrawalVerifierDeployment,
      RemoveAccountAbstractionDeployment, Remove
<1>3. ASSUME NEW x \in Deployment, RetryERC20Deployment(x)
      PROVE  UNCHANGED <<status[d], hash[d], address[d], entryPoint[d], runs[d]>>
  <2>1. x # d
    BY <1>3 DEF RetryERC20Deployment, Retryable
  <2> QED
    BY <1>3, <2>1 DEF IInv, TypeOK, RetryERC20Deployment, ResetForRetry
<1>4. ASSUME NEW e \in Engine, ClaimStep(e)
      PROVE  UNCHANGED <<status[d], hash[d], address[d], entryPoint[d], runs[d]>>
  <2>1. PICK k : Claim(e, k)
    BY <1>4
    DEF ClaimStep, ClaimNextERC20Deployment, ClaimNextERC1155EditionDeployment,
        ClaimNextEscrowDeployment, ClaimNextPrivateClaimRegistryDeployment,
        ClaimNextShieldedPayoutPoolDeployment, ClaimNextShieldedWithdrawalVerifierDeployment,
        ClaimNextAccountAbstractionDeployment
  <2>2. PICK x \in Deployment : x # d /\ status' = [status EXCEPT ![x] = "deploying"]
                                        /\ runs' = [runs EXCEPT ![x] = @ + 1]
    BY <2>1 DEF Claim, Candidates, Claimable
  <2> QED
    BY <2>1, <2>2 DEF IInv, TypeOK, Claim
<1>5. ASSUME UNCHANGED recordVars
      PROVE  UNCHANGED <<status[d], hash[d], address[d], entryPoint[d], runs[d]>>
  BY <1>5 DEF recordVars
<1>6. ASSUME NEW e \in Engine, EngineStep(e) \/ Crash(e)
      PROVE  UNCHANGED <<status[d], hash[d], address[d], entryPoint[d], runs[d]>>
  BY <1>4, <1>5, <1>6
  DEF EngineStep, Skip, SendEntryPoint, SendOnChain, CommandReturns, CommandFails, Crash
<1> QED
  BY <1>1, <1>2, <1>3, <1>5, <1>6 DEF Next, ApiStep, ChainStep, MineEntryPoint, Mine, Tick

\* A confirmed deployment keeps its status and its address for ever.
THEOREM Confirmed == Spec => ConfirmedIsFinal
<1>1. IInv /\ [Next]_vars => [\A d \in Deployment : status[d] = "confirmed" =>
                               status'[d] = "confirmed" /\ address'[d] = address[d]]_vars
  <2> SUFFICES ASSUME IInv, Next, NEW d \in Deployment, status[d] = "confirmed"
               PROVE  status'[d] = "confirmed" /\ address'[d] = address[d]
    OBVIOUS
  <2>1. CASE \E e \in Engine : MarkFailed(e) \/ MarkSubmitted(e) \/ MarkOutcome(e)
    BY <2>1, MarksOwnRecord
  <2>2. CASE ~ \E e \in Engine : MarkFailed(e) \/ MarkSubmitted(e) \/ MarkOutcome(e)
    BY <2>2, OthersTakeOpen
  <2> QED
    BY <2>1, <2>2
<1> QED
  BY <1>1, DeploymentQueueIInv, PTL DEF Spec, ConfirmedIsFinal

\* Only the engine that holds a record sends for it.
LEMMA SendsForOwn ==
  ASSUME IInv, Next, NEW d \in Deployment, hidden[d]
  PROVE  /\ entryChain[d] = "none" => entryChain'[d] = "none"
         /\ \A k \in Run : chain[d][k] = "none" => chain'[d][k] = "none"
<1>1. ASSUME NEW e \in Engine, SendEntryPoint(e) \/ SendOnChain(e)
      PROVE  /\ entryChain'[d] = entryChain[d]
             /\ \A k \in Run : chain'[d][k] = chain[d][k]
  <2>1. cur[e] # d
    BY <1>1 DEF IInv, Safe, WorkerState, SendEntryPoint, SendOnChain
  <2> QED
    BY <1>1, <2>1 DEF IInv, TypeOK, SendEntryPoint, SendOnChain
<1>2. ASSUME NEW x \in Deployment, MineEntryPoint(x)
      PROVE  entryChain[d] = "none" => entryChain'[d] = "none"
  BY <1>2 DEF IInv, TypeOK, MineEntryPoint
<1>3. ASSUME NEW x \in Deployment, NEW j \in Run, Mine(x, j)
      PROVE  \A k \in Run : chain[d][k] = "none" => chain'[d][k] = "none"
  BY <1>3 DEF IInv, TypeOK, Mine
<1>4. ASSUME NEW e \in Engine, EngineStep(e) \/ Crash(e),
             ~SendEntryPoint(e), ~SendOnChain(e)
      PROVE  UNCHANGED <<chain, entryChain>>
  BY <1>4
  DEF EngineStep, ClaimStep, ClaimNextERC20Deployment, ClaimNextERC1155EditionDeployment,
      ClaimNextEscrowDeployment, ClaimNextPrivateClaimRegistryDeployment,
      ClaimNextShieldedPayoutPoolDeployment, ClaimNextShieldedWithdrawalVerifierDeployment,
      ClaimNextAccountAbstractionDeployment, Claim, Skip, CommandReturns, CommandFails,
      MarkFailed, MarkSubmitted, MarkOutcome, Crash, chainVars
<1>5. ASSUME ApiStep PROVE UNCHANGED <<chain, entryChain>>
  BY <1>5
  DEF ApiStep, CreateStep, CreateERC20Deployment, CreateERC1155EditionDeployment,
      CreateEscrowDeployment, CreatePrivateClaimRegistryDeployment,
      CreateShieldedPayoutPoolDeployment, CreateShieldedWithdrawalVerifierDeployment,
      CreateAccountAbstractionDeployment, CreatePlain, Create, RemoveStep,
      RemoveERC20Deployment, RemoveERC1155EditionDeployment, RemoveEscrowDeployment,
      RemovePrivateClaimRegistryDeployment, RemoveShieldedPayoutPoolDeployment,
      RemoveShieldedWithdrawalVerifierDeployment, RemoveAccountAbstractionDeployment, Remove,
      RetryERC20Deployment, chainVars
<1>6. ASSUME \/ \E x \in Deployment : MineEntryPoint(x)
             \/ \E x \in Deployment, k \in Run : Mine(x, k)
      PROVE  /\ entryChain[d] = "none" => entryChain'[d] = "none"
             /\ \A k \in Run : chain[d][k] = "none" => chain'[d][k] = "none"
  <2>1. CASE \E x \in Deployment : MineEntryPoint(x)
    BY <1>2, <2>1 DEF MineEntryPoint
  <2>2. CASE \E x \in Deployment, k \in Run : Mine(x, k)
    BY <1>3, <2>2 DEF Mine
  <2> QED
    BY <1>6, <2>1, <2>2
<1>7. CASE Tick
  BY <1>7 DEF Tick, chainVars
<1> QED
  BY <1>1, <1>4, <1>5, <1>6, <1>7 DEF Next, ChainStep

\* Nobody works on a removed record.
THEOREM Removed == Spec => RemovedStaysUntouched
<1>1. IInv /\ [Next]_vars =>
        [\A d \in Deployment : hidden[d] =>
           /\ UNCHANGED <<status[d], hash[d], address[d], entryPoint[d], runs[d]>>
           /\ entryChain[d] = "none" => entryChain'[d] = "none"
           /\ \A k \in Run : chain[d][k] = "none" => chain'[d][k] = "none"]_vars
  <2> SUFFICES ASSUME IInv, Next, NEW d \in Deployment, hidden[d]
               PROVE  /\ UNCHANGED <<status[d], hash[d], address[d], entryPoint[d], runs[d]>>
                      /\ entryChain[d] = "none" => entryChain'[d] = "none"
                      /\ \A k \in Run : chain[d][k] = "none" => chain'[d][k] = "none"
    OBVIOUS
  <2>1. UNCHANGED <<status[d], hash[d], address[d], entryPoint[d], runs[d]>>
    <3>1. CASE \E e \in Engine : MarkFailed(e) \/ MarkSubmitted(e) \/ MarkOutcome(e)
      <4>1. PICK e \in Engine : MarkFailed(e) \/ MarkSubmitted(e) \/ MarkOutcome(e)
        BY <3>1
      <4>2. d # cur[e]
        BY <4>1, MarksOwnRecord
      <4> QED
        BY <4>1, <4>2, MarksOwnRecord
    <3>2. CASE ~ \E e \in Engine : MarkFailed(e) \/ MarkSubmitted(e) \/ MarkOutcome(e)
      BY <3>2, OthersTakeOpen
    <3> QED
      BY <3>1, <3>2
  <2> QED
    BY <2>1, SendsForOwn
<1> QED
  BY <1>1, DeploymentQueueIInv, PTL DEF Spec, RemovedStaysUntouched

-----------------------------------------------------------------------------
(* Stranded records are counted by the faults.                             *)

\* An idle engine has let go of its record, and each fault strands one at most.
StrandedState ==
  /\ \A e \in Engine : pc[e] = "idle" => cur[e] = NoOne
  /\ IsFiniteSet(Stranded)
  /\ Cardinality(Stranded) <= faults

\* One more member is at most one more to count.
LEMMA OneMore ==
  ASSUME NEW S, IsFiniteSet(S), NEW T, NEW x, T \subseteq S \cup {x}
  PROVE  /\ IsFiniteSet(T) /\ Cardinality(T) \in Nat /\ Cardinality(S) \in Nat
         /\ Cardinality(T) <= Cardinality(S) + 1
<1>1. /\ IsFiniteSet(S \cup {x}) /\ Cardinality(S) \in Nat
      /\ Cardinality(S \cup {x}) = IF x \in S THEN Cardinality(S) ELSE Cardinality(S) + 1
  BY FS_AddElement, FS_CardinalityType
<1>2. /\ IsFiniteSet(T) /\ Cardinality(T) \in Nat
      /\ Cardinality(T) <= Cardinality(S \cup {x})
  BY <1>1, FS_Subset, FS_CardinalityType
<1> QED
  BY <1>1, <1>2

\* What an engine does with its turn.
LEMMA EngineStrands ==
  ASSUME IInv, StrandedState, NEW e \in Engine, EngineStep(e) \/ Crash(e)
  PROVE  /\ \A f \in Engine : pc'[f] = "idle" => cur'[f] = NoOne
         /\ \/ Stranded' \subseteq Stranded /\ faults' \in {faults, faults + 1}
            \/ \E x : Stranded' \subseteq Stranded \cup {x} /\ faults' = faults + 1
<1> USE DEF Stage
<1>1. \A f \in Engine : f # e => pc'[f] = pc[f] /\ cur'[f] = cur[f]
  BY DEF IInv, TypeOK, EngineStep, ClaimStep, ClaimNextERC20Deployment,
     ClaimNextERC1155EditionDeployment, ClaimNextEscrowDeployment,
     ClaimNextPrivateClaimRegistryDeployment, ClaimNextShieldedPayoutPoolDeployment,
     ClaimNextShieldedWithdrawalVerifierDeployment, ClaimNextAccountAbstractionDeployment,
     Claim, Skip, SendEntryPoint, SendOnChain, CommandReturns, CommandFails, MarkFailed,
     MarkSubmitted, MarkOutcome, Crash, Finish, GoTo, engineVars
<1>2. CASE ClaimStep(e)
  <2>1. PICK k : Claim(e, k)
    BY <1>2
    DEF ClaimStep, ClaimNextERC20Deployment, ClaimNextERC1155EditionDeployment,
        ClaimNextEscrowDeployment, ClaimNextPrivateClaimRegistryDeployment,
        ClaimNextShieldedPayoutPoolDeployment, ClaimNextShieldedWithdrawalVerifierDeployment,
        ClaimNextAccountAbstractionDeployment
  <2>2. PICK d \in Deployment :
          /\ status' = [status EXCEPT ![d] = "deploying"]
          /\ \/ faults' = faults /\ pc'[e] = "claimed" /\ cur'[e] = d
             \/ faults' = faults + 1 /\ pc'[e] = "idle" /\ cur'[e] = NoOne
    BY <2>1 DEF IInv, TypeOK, Claim, Candidates, Claimable, Finish, Fault, NoFault
  <2>3. cur[e] = NoOne
    BY <2>1 DEF Claim, StrandedState
  <2>4. Stranded' \subseteq Stranded \cup {d}
    BY <1>1, <2>2, <2>3 DEF IInv, TypeOK, Stranded
  <2>5. faults' = faults => d \notin Stranded'
    BY <2>2 DEF IInv, TypeOK, Stranded
  <2> QED
    BY <1>1, <2>2, <2>4, <2>5 DEF IInv, TypeOK, StrandedState
<1>3. CASE Skip(e)
  <2>1. cur[e] = NoOne /\ pc'[e] = "idle" /\ cur'[e] = NoOne /\ status' = status
    BY <1>3 DEF IInv, TypeOK, StrandedState, Skip, Finish, recordVars
  <2>2. faults' \in {faults, faults + 1}
    BY <1>3 DEF Skip, Fault, NoFault
  <2>3. Stranded' \subseteq Stranded
    BY <1>1, <2>1 DEF Stranded
  <2> QED
    BY <1>1, <2>1, <2>2, <2>3 DEF StrandedState
<1>4. CASE SendEntryPoint(e) \/ SendOnChain(e) \/ CommandReturns(e) \/ CommandFails(e)
  <2>1. status' = status /\ cur' = cur /\ pc'[e] # "idle" /\ faults' \in {faults, faults + 1}
    BY <1>4 DEF IInv, TypeOK, SendEntryPoint, SendOnChain, CommandReturns, CommandFails,
                GoTo, Fault, NoFault, recordVars, engineVars
  <2> QED
    BY <1>1, <2>1 DEF Stranded, StrandedState
<1>5. CASE MarkSubmitted(e)
  <2>1. /\ cur' = cur /\ pc'[e] # "idle" /\ faults' \in {faults, faults + 1}
        /\ \A d \in Deployment : d # cur[e] => status'[d] = status[d]
    BY <1>5, MarksOwnRecord DEF IInv, TypeOK, MarkSubmitted, GoTo, Fault, NoFault
  <2> QED
    BY <1>1, <2>1 DEF Stranded, StrandedState
<1>6. CASE MarkFailed(e) \/ MarkOutcome(e)
  <2>1. /\ cur'[e] = NoOne /\ pc'[e] = "idle" /\ cur[e] \in Deployment
        /\ \A d \in Deployment : d # cur[e] => status'[d] = status[d]
    BY <1>6, MarksOwnRecord DEF IInv, TypeOK, MarkFailed, MarkOutcome, Finish
  <2>2. Stranded' \subseteq Stranded \cup {cur[e]}
    BY <1>1, <2>1 DEF Stranded
  <2>3. \/ faults' = faults + 1
        \/ faults' = faults /\ status'[cur[e]] \in {"failed", "confirmed"}
    BY <1>6, <2>1 DEF IInv, TypeOK, MarkFailed, MarkOutcome, UpdateStatus, Fault, NoFault
  <2>4. faults' = faults => cur[e] \notin Stranded'
    BY <2>3 DEF IInv, TypeOK, Stranded
  <2> QED
    BY <1>1, <2>1, <2>2, <2>3, <2>4 DEF StrandedState
<1>7. CASE Crash(e)
  <2>1. cur'[e] = NoOne /\ pc'[e] = "idle" /\ status' = status /\ faults' = faults + 1
    BY <1>7 DEF IInv, TypeOK, Crash, Fault, recordVars
  <2>2. Stranded' \subseteq Stranded \cup {cur[e]}
    BY <1>1, <2>1 DEF Stranded
  <2> QED
    BY <1>1, <2>1, <2>2 DEF StrandedState
<1> QED
  BY <1>2, <1>3, <1>4, <1>5, <1>6, <1>7 DEF EngineStep

\* Requests put records to the queue, if anywhere, and nothing else strands any.
LEMMA QuietStrands ==
  ASSUME IInv, StrandedState, ApiStep \/ ChainStep \/ Tick \/ UNCHANGED vars
  PROVE  StrandedState'
<1>1. pc' = pc /\ cur' = cur /\ faults' = faults
  BY DEF ApiStep, CreateStep, CreateERC20Deployment, CreateERC1155EditionDeployment,
     CreateEscrowDeployment, CreatePrivateClaimRegistryDeployment,
     CreateShieldedPayoutPoolDeployment, CreateShieldedWithdrawalVerifierDeployment,
     CreateAccountAbstractionDeployment, CreatePlain, Create, RemoveStep,
     RemoveERC20Deployment, RemoveERC1155EditionDeployment, RemoveEscrowDeployment,
     RemovePrivateClaimRegistryDeployment, RemoveShieldedPayoutPoolDeployment,
     RemoveShieldedWithdrawalVerifierDeployment, RemoveAccountAbstractionDeployment, Remove,
     RetryERC20Deployment, ChainStep, MineEntryPoint, Mine, Tick, vars, engineVars
<1>2. \A d \in Deployment : status'[d] = status[d] \/ status'[d] = "queued"
  BY DEF IInv, TypeOK, ApiStep, CreateStep, CreateERC20Deployment,
     CreateERC1155EditionDeployment, CreateEscrowDeployment,
     CreatePrivateClaimRegistryDeployment, CreateShieldedPayoutPoolDeployment,
     CreateShieldedWithdrawalVerifierDeployment, CreateAccountAbstractionDeployment,
     CreatePlain, Create, RemoveStep, RemoveERC20Deployment,
     RemoveERC1155EditionDeployment, RemoveEscrowDeployment,
     RemovePrivateClaimRegistryDeployment, RemoveShieldedPayoutPoolDeployment,
     RemoveShieldedWithdrawalVerifierDeployment, RemoveAccountAbstractionDeployment, Remove,
     RetryERC20Deployment, ResetForRetry, ChainStep, MineEntryPoint, Mine, Tick, vars, recordVars
<1>3. Stranded' \subseteq Stranded
  BY <1>1, <1>2 DEF Stranded
<1>4. /\ IsFiniteSet(Stranded') /\ Cardinality(Stranded') \in Nat
      /\ Cardinality(Stranded) \in Nat
      /\ Cardinality(Stranded') <= Cardinality(Stranded)
  BY <1>3, FS_Subset, FS_CardinalityType DEF StrandedState
<1> QED
  BY <1>1, <1>4 DEF IInv, TypeOK, StrandedState

\* Crashes, lost answers and lost marks bound the records that stay behind.
THEOREM StrandedCounted == Spec => []StrandedBounded
<1>1. Init => StrandedState
  <2> SUFFICES ASSUME Init PROVE StrandedState
    OBVIOUS
  <2>1. Stranded = {}
    BY DEF Init, Stranded
  <2> QED
    BY <2>1, FS_EmptySet DEF Init, StrandedState
<1>2. IInv /\ StrandedState /\ [Next]_vars => StrandedState'
  <2> SUFFICES ASSUME IInv, StrandedState, [Next]_vars PROVE StrandedState'
    OBVIOUS
  <2>1. ASSUME NEW e \in Engine, EngineStep(e) \/ Crash(e) PROVE StrandedState'
    <3>1. PICK x : /\ Stranded' \subseteq Stranded \cup {x}
                   /\ \/ Stranded' \subseteq Stranded /\ faults' \in {faults, faults + 1}
                      \/ faults' = faults + 1
      BY <2>1, EngineStrands
    <3>2. /\ IsFiniteSet(Stranded') /\ Cardinality(Stranded') \in Nat
          /\ Cardinality(Stranded) \in Nat
          /\ Cardinality(Stranded') <= Cardinality(Stranded) + 1
      BY <3>1, OneMore DEF StrandedState
    <3>3. Stranded' \subseteq Stranded => Cardinality(Stranded') <= Cardinality(Stranded)
      BY FS_Subset DEF StrandedState
    <3>4. \A f \in Engine : pc'[f] = "idle" => cur'[f] = NoOne
      BY <2>1, EngineStrands
    <3> QED
      BY <3>1, <3>2, <3>3, <3>4 DEF IInv, TypeOK, StrandedState
  <2> QED
    BY <2>1, QuietStrands DEF Next
<1>3. StrandedState => StrandedBounded
  BY DEF StrandedState, StrandedBounded, Stranded
<1> QED
  BY <1>1, <1>2, <1>3, DeploymentQueueIInv, PTL DEF Spec

\* No deployment is in two hands, none is stranded without a fault, factories
\* have their entry point and confirmed records their transaction.
THEOREM InOrder == Spec => []DeploymentsInOrder
BY TypeCorrect, DeploysAlone, StrandedCounted, FactoriesServe, HashIsKept, PTL
   DEF DeploymentsInOrder
=============================================================================
