----------------------------- MODULE MCSettles ------------------------------
(***************************************************************************)
(* What must happen in the end in the two queues of the worker, for TLC:   *)
(* an instance of DeploymentQueue and one of TransactionQueue. They share  *)
(* neither records nor stages, so that a behaviour is of one of them.      *)
(***************************************************************************)
EXTENDS DeploymentQueue, TLC

CONSTANTS
  d1, d2, e1, e2, t1, t2, w1, c1

VARIABLES
  part,  \* the component this behaviour is of
  txStatus, txAttempts, txHash, txQueuedAt, txLock, txPc, txCur, txAtt,
  txDue, txChain, txHooks, txNow, txFaults

txVars ==
  <<txStatus, txAttempts, txHash, txQueuedAt, txLock, txPc, txCur, txAtt,
    txDue, txChain, txHooks, txNow, txFaults>>

OneWallet == [t \in {t1, t2} |-> w1]

Queue == INSTANCE TransactionQueue WITH
  Tx <- {t1, t2}, Wallet <- {w1}, WalletOf <- OneWallet,
  Engine <- {e1, e2}, Client <- {}, ClientTTLs <- {}, MaxAttempts <- 2,
  LockTTL <- 1, CommandTimeout <- 1, StartDelay <- 0, MaxNow <- 0,
  MaxFaults <- 0, MaxDisplaced <- 1, status <- txStatus, attempts <- txAttempts,
  hash <- txHash, queuedAt <- txQueuedAt, lock <- txLock, pc <- txPc,
  cur <- txCur, att <- txAtt, due <- txDue, chain <- txChain,
  hooks <- txHooks, now <- txNow, faults <- txFaults

allVars == <<part, vars, txVars>>

\* Each component starts as it does alone; those the behaviour is not of stay so.
InitPart ==
  /\ part \in {"deployments", "transactions"}
  /\ Init
  /\ Queue!Init

NextPart ==
  \/ /\ part = "deployments" /\ Next
     /\ UNCHANGED <<part, txVars>>
  \/ /\ part = "transactions" /\ Queue!Next
     /\ UNCHANGED <<part, vars>>

SpecPart == InitPart /\ [][NextPart]_allVars

\* The fairness of the component the behaviour is of.
FairSpecPart ==
  /\ SpecPart
  /\ \A e \in Engine : WF_vars(part = "deployments" /\ EngineStep(e))
  /\ WF_vars(part = "deployments" /\ ChainStep)
  /\ \A e \in {e1, e2} : WF_txVars(part = "transactions" /\ Queue!EngineStep(e))
  /\ WF_txVars(part = "transactions" /\ Queue!ChainStep)

-----------------------------------------------------------------------------
(* Properties of the second instance.                                      *)

\* Without faults every queued transaction reaches a verdict, however many
\* engines compete for it (processNextTransaction, markTransactionAttempt).
QueueSettles == Queue!Settles
=============================================================================
