------------------------- MODULE MCTransactionQueue -------------------------
(***************************************************************************)
(* Instances of TransactionQueue for TLC, every transaction of wallet w1:  *)
(* two engines by themselves, and one engine with a client of the lock     *)
(* routes. The two are checked in one run; a behaviour is of one of them.  *)
(***************************************************************************)
EXTENDS TransactionQueue, TLC

CONSTANTS
  w1, t1, t2, e1, e2, e3, c1

VARIABLES
  part,  \* the component this behaviour is of
  clientStatus, clientAttempts, clientHash, clientQueuedAt, clientLock,
  clientPc, clientCur, clientAtt, clientDue, clientChain, clientHooks,
  clientNow, clientFaults

clientVars ==
  <<clientStatus, clientAttempts, clientHash, clientQueuedAt, clientLock,
    clientPc, clientCur, clientAtt, clientDue, clientChain, clientHooks,
    clientNow, clientFaults>>

OneWallet == [t \in Tx |-> w1]

Clients == INSTANCE TransactionQueue WITH
  Engine <- {e3}, Client <- {c1}, ClientTTLs <- {1}, MaxAttempts <- 2,
  LockTTL <- 1, CommandTimeout <- 1, StartDelay <- 1, MaxNow <- 2,
  MaxFaults <- 1, MaxDisplaced <- 0, status <- clientStatus, attempts <- clientAttempts,
  hash <- clientHash, queuedAt <- clientQueuedAt, lock <- clientLock,
  pc <- clientPc, cur <- clientCur, att <- clientAtt, due <- clientDue,
  chain <- clientChain, hooks <- clientHooks, now <- clientNow,
  faults <- clientFaults

allVars == <<part, vars, clientVars>>

\* Each component starts as it does alone; those the behaviour is not of stay so.
InitPart ==
  /\ part \in {"engines", "clients"}
  /\ Init
  /\ Clients!Init

NextPart ==
  \/ /\ part = "engines" /\ Next
     /\ UNCHANGED <<part, clientVars>>
  \/ /\ part = "clients" /\ Clients!Next
     /\ UNCHANGED <<part, vars>>

SpecPart == InitPart /\ [][NextPart]_allVars

QueueSymmetry == Permutations(Tx) \cup Permutations(Engine)

-----------------------------------------------------------------------------
(* Properties of the second instance.                                      *)

\* While a client of the lock routes holds the wallet, no broadcast command
\* runs for it but in the seconds by which it outlives the worker's lock, and
\* nobody takes a lock from its holder before it is over or released by him
\* (AcquireWalletLock, ReleaseWalletLock, broadcastERC20Transaction).
ClientsLockRespected == []Clients!ClientLockRespected /\ Clients!LockNotStolen
=============================================================================
