------------------------ MODULE TransactionQueueProofs ------------------------
(***************************************************************************)
(* Machine-checked proofs about TransactionQueue, for any number of        *)
(* transactions, wallets, engines and clients and any bounds.              *)
(***************************************************************************)
EXTENDS TransactionQueue, FiniteSetTheorems, TLAPS

(* The inductive invariant behind the safety properties.                   *)

Owns(e, t) == pc[e] \in OwningStages /\ cur[e] = t

\* An engine that is not idle holds a claimed transaction; until it ends the
\* attempt its copy of the attempt count is current and the record still says
\* what the engine last wrote.
OwnerState ==
  \A e \in Engine :
    /\ pc[e] # "idle" => cur[e] \in Tx /\ att[e] \in Attempt
    /\ pc[e] \in OwningStages =>
         /\ attempts[cur[e]] = att[e]
         /\ \/ status[cur[e]] = "signing"
            \/ status[cur[e]] = "submitted" /\ pc[e] = "recorded"

\* The send of an attempt happens within it, and its receipt ends the command.
SendsState ==
  /\ \A t \in Tx, k \in Attempt : chain[t][k] # "none" => k <= attempts[t]
  /\ \A e \in Engine :
       /\ pc[e] \in {"claimed", "denied", "locked"} => chain[cur[e]][att[e]] = "none"
       /\ pc[e] \in {"broadcast", "recorded"} =>
            chain[cur[e]][att[e]] \in Answered

\* A hash is recorded only once the record says submitted or has a verdict, and
\* a transaction nobody enqueued has no attempts.
RecordState ==
  \A t \in Tx :
    /\ hash[t] # 0 => status[t] \in {"submitted", "confirmed", "failed"}
    /\ status[t] = "absent" => attempts[t] = 0

\* After a verdict was announced nobody works on the transaction again.
AnnouncedState ==
  \A t \in Tx : "confirmed" \in hooks[t] \/ "failed" \in hooks[t] =>
    /\ status[t] \notin {"absent", "queued"}
    /\ \A e \in Engine : ~Owns(e, t)

\* Without a fault, a send belongs to the latest attempt, which is still
\* waiting for its receipt or has a record that will never be queued again.
FaultlessState ==
  faults = 0 => \A t \in Tx, k \in Attempt : chain[t][k] # "none" =>
    /\ k = attempts[t]
    /\ status[t] # "queued"
    /\ \A e \in Engine : Owns(e, t) => pc[e] \in {"command", "broadcast", "recorded"}

IInv ==
  /\ TypeOK /\ OwnerState /\ OneOwner /\ QueuedIsClaimable
  /\ SendsState /\ RecordState /\ RecordMatchesChain
  /\ FailedIsExplained /\ AnnouncedState /\ WebhooksAgree /\ FaultlessState

-----------------------------------------------------------------------------

USE TxAssumption, IdsAssumption, WalletAssumption, AttemptsAssumption, TimeAssumption
USE DEF Succeeded, Reverted, Displaced, Answered

\* A send is mined or displaced: the receipt its script waits for is there.
ReceiptComes(t, k) ==
  /\ chain[t][k] = "sent"
  /\ \E outcome \in Answered : chain' = [chain EXCEPT ![t][k] = outcome]
  /\ UNCHANGED <<storeVars, lock, engineVars, hooks, now, faults>>

\* All that the chain does is to give a receipt.
LEMMA ChainAnswers ==
  ASSUME ChainStep
  PROVE  \E t \in Tx, k \in Attempt : ReceiptComes(t, k)
<1>1. PICK t \in Tx, k \in Attempt : Mine(t, k) \/ Displace(t, k)
  BY DEF ChainStep
<1>2. ReceiptComes(t, k)
  BY <1>1 DEF Mine, Displace, ReceiptComes
<1> QED
  BY <1>2

-----------------------------------------------------------------------------

\* Taking or releasing a lock keeps the lock table well formed.
LEMMA LockTakenType ==
  ASSUME TypeOK, NEW w \in Wallet, NEW id \in Tx \cup Client, NEW ttl \in Nat
  PROVE  LockTaken(w, id, ttl) \in [Wallet -> [holder : Tx \cup Client \cup {NoOne}, until : Nat]]
<1>1. [holder |-> id, until |-> now + ttl] \in [holder : Tx \cup Client \cup {NoOne}, until : Nat]
  BY DEF TypeOK
<1> QED
  BY <1>1 DEF TypeOK, LockTaken

\* So has what a release leaves.
LEMMA LockReleasedType ==
  ASSUME TypeOK, NEW w \in Wallet, NEW id
  PROVE  LockReleased(w, id) \in [Wallet -> [holder : Tx \cup Client \cup {NoOne}, until : Nat]]
<1>1. Unlocked \in [holder : Tx \cup Client \cup {NoOne}, until : Nat]
  BY DEF Unlocked
<1> QED
  BY <1>1 DEF TypeOK, LockReleased

\* Delivering a webhook keeps the event sets well formed.
LEMMA WebhookType ==
  ASSUME TypeOK, NEW t \in Tx, NEW event \in Event, Webhook(t, event)
  PROVE  hooks' \in [Tx -> SUBSET Event]
<1>1. hooks[t] \cup {event} \in SUBSET Event
  BY DEF TypeOK
<1> QED
  BY <1>1 DEF TypeOK, Webhook

\* The initial state satisfies the invariant.
LEMMA InitIInv == Init => IInv
BY DEF Init, IInv, TypeOK, OwnerState, OneOwner, QueuedIsClaimable, SendsState,
       RecordState, RecordMatchesChain, FailedIsExplained, AnnouncedState,
       WebhooksAgree, FaultlessState, Owns, OwningStages, Stage, Status, Event,
       SendState, Attempt, Terminal, Unlocked, Claimable

-----------------------------------------------------------------------------
(* One lemma per action.  Two frame conditions cover the steps that write  *)
(* no record: those of clients and the clock, and an engine's moves from   *)
(* one stage of an attempt to the next.                                    *)

\* What is said about records and attempts survives a step that leaves both alone.
LEMMA QuietIInv ==
  ASSUME IInv, TypeOK', faults' = 0 => faults = 0,
         UNCHANGED <<status, attempts, hash, chain, hooks, pc, cur, att>>
  PROVE  IInv'
BY DEF IInv, TypeOK, OwnerState, OneOwner, QueuedIsClaimable, Claimable, SendsState,
       RecordState, RecordMatchesChain, FailedIsExplained, AnnouncedState,
       WebhooksAgree, FaultlessState, Owns

\* An engine that moves on within its attempt, or leaves it for good, upsets
\* nothing as long as the stage it reaches is one its send allows.
LEMMA MoveIInv ==
  ASSUME IInv, TypeOK', faults' = 0 => faults = 0, NEW e \in Engine, NEW s \in Stage,
         UNCHANGED <<status, attempts, hash, chain, hooks>>,
         pc' = [pc EXCEPT ![e] = s],
         IF s = "idle" THEN \A f \in Engine : f # e => cur'[f] = cur[f] /\ att'[f] = att[f]
                       ELSE UNCHANGED <<cur, att>> /\ pc[e] # "idle",
         s \in OwningStages => pc[e] \in OwningStages \ {"recorded"} /\ s # "recorded",
         s \in {"claimed", "denied", "locked"} => chain[cur[e]][att[e]] = "none",
         s = "broadcast" => chain[cur[e]][att[e]] \in Answered,
         faults' = 0 /\ s \in OwningStages /\ s \notin {"command", "broadcast"} =>
           chain[cur[e]][att[e]] = "none"
  PROVE  IInv'
<1> USE DEF Stage, OwningStages
<1>1. \A f \in Engine : f # e => pc'[f] = pc[f] /\ cur'[f] = cur[f] /\ att'[f] = att[f]
  BY DEF IInv, TypeOK
<1>2. pc'[e] = s
  BY DEF IInv, TypeOK
<1>3. pc'[e] # "idle" => cur'[e] = cur[e] /\ att'[e] = att[e] /\ pc[e] # "idle"
  BY <1>2
<1>4. \A f \in Engine, t \in Tx : Owns(f, t)' => Owns(f, t)
  BY <1>1, <1>2, <1>3 DEF Owns
<1>5. OwnerState' /\ OneOwner'
  BY <1>1, <1>2, <1>3 DEF IInv, OwnerState, OneOwner
<1>6. SendsState'
  <2>1. \A t \in Tx, k \in Attempt : chain[t][k] # "none" => k <= attempts[t]
    BY DEF IInv, SendsState
  <2> QED
    BY <1>1, <1>2, <1>3, <2>1 DEF IInv, SendsState
<1>7. QueuedIsClaimable' /\ RecordState' /\ RecordMatchesChain' /\ FailedIsExplained'
  BY DEF IInv, QueuedIsClaimable, Claimable, RecordState, RecordMatchesChain,
         FailedIsExplained
<1>8. AnnouncedState' /\ WebhooksAgree'
  BY <1>4 DEF IInv, AnnouncedState, WebhooksAgree
<1>9. FaultlessState'
  <2> SUFFICES ASSUME faults' = 0, NEW t \in Tx, NEW k \in Attempt, chain[t][k] # "none"
               PROVE  /\ k = attempts[t] /\ status[t] # "queued"
                      /\ \A f \in Engine : Owns(f, t)' =>
                           pc'[f] \in {"command", "broadcast", "recorded"}
    BY DEF FaultlessState
  <2>1. /\ k = attempts[t] /\ status[t] # "queued"
        /\ \A f \in Engine : Owns(f, t) => pc[f] \in {"command", "broadcast", "recorded"}
    BY DEF IInv, FaultlessState
  <2>2. Owns(e, t) => att[e] = k
    BY <2>1 DEF IInv, OwnerState, Owns
  <2> QED
    BY <1>1, <1>2, <1>3, <1>4, <2>1, <2>2 DEF Owns
<1> QED
  BY <1>5, <1>6, <1>7, <1>8, <1>9 DEF IInv

\* A fresh record is queued, unclaimed and unsent.
LEMMA EnqueueTransactionIInv == ASSUME IInv, NEW t \in Tx, EnqueueTransaction(t) PROVE IInv'
<1>1. TypeOK'
  BY SMTT(20)
     DEF IInv, TypeOK, EnqueueTransaction, storeVars, engineVars, Status, Stage, Event,
         SendState, Attempt, Terminal, Unlocked, OwningStages, HoldingStages
<1>2. OwnerState'
  BY SMTT(20)
     DEF IInv, TypeOK, OwnerState, OneOwner, EnqueueTransaction, storeVars, engineVars,
         Stage, OwningStages, Attempt
<1>3. OneOwner'
  BY SMTT(20)
     DEF IInv, TypeOK, OwnerState, OneOwner, EnqueueTransaction, storeVars, engineVars,
         Stage, OwningStages
<1>4. QueuedIsClaimable'
  BY SMTT(20)
     DEF IInv, TypeOK, OwnerState, QueuedIsClaimable, RecordState, Claimable,
         EnqueueTransaction, storeVars, engineVars, Stage, OwningStages, Attempt
<1>5. SendsState'
  BY SMTT(20)
     DEF IInv, TypeOK, SendsState, OwnerState, OneOwner, EnqueueTransaction, storeVars,
         engineVars, Stage, OwningStages, Attempt
<1>6. RecordState'
  BY SMTT(20)
     DEF IInv, TypeOK, RecordState, OwnerState, EnqueueTransaction, storeVars, engineVars,
         Stage, OwningStages
<1>7. RecordMatchesChain'
  BY SMTT(20)
     DEF IInv, TypeOK, SendsState, OwnerState, OneOwner, RecordState, RecordMatchesChain,
         EnqueueTransaction, storeVars, engineVars, Stage, OwningStages, Attempt
<1>8. FailedIsExplained'
  BY SMTT(20)
     DEF IInv, TypeOK, FailedIsExplained, OwnerState, SendsState, EnqueueTransaction,
         storeVars, engineVars, Stage, OwningStages, Attempt
<1>9. AnnouncedState'
  BY SMTT(20)
     DEF IInv, TypeOK, AnnouncedState, OneOwner, OwnerState, EnqueueTransaction,
         storeVars, engineVars, Stage, OwningStages, Owns
<1>10. WebhooksAgree'
  BY SMTT(20)
     DEF IInv, TypeOK, WebhooksAgree, AnnouncedState, SendsState, OwnerState,
         EnqueueTransaction, storeVars, engineVars, Stage, OwningStages, Owns, Attempt
<1>11. FaultlessState'
  <2> SUFFICES ASSUME faults = 0, NEW u \in Tx, NEW k \in Attempt, chain[u][k] # "none"
               PROVE  /\ k = attempts[u] /\ status'[u] # "queued"
                      /\ \A f \in Engine : Owns(f, u) => pc[f] \in {"command", "broadcast", "recorded"}
    BY DEF FaultlessState, EnqueueTransaction, Owns, engineVars
  <2>1. /\ k = attempts[u] /\ status[u] # "queued"
        /\ \A f \in Engine : Owns(f, u) => pc[f] \in {"command", "broadcast", "recorded"}
    BY DEF IInv, FaultlessState
  <2>2. u # t
    BY <2>1 DEF IInv, TypeOK, RecordState, EnqueueTransaction, Attempt
  <2> QED
    BY <2>1, <2>2 DEF IInv, TypeOK, EnqueueTransaction
<1> QED
  BY <1>1, <1>2, <1>3, <1>4, <1>5, <1>6, <1>7, <1>8, <1>9, <1>10, <1>11 DEF IInv

\* Client lock requests touch the lock node only.
LEMMA ClientAcquireIInv ==
  ASSUME IInv, NEW c \in Client, NEW w \in Wallet, NEW ttl \in ClientTTLs, ClientAcquire(c, w, ttl)
  PROVE  IInv'
<1>1. TypeOK'
  BY SMTT(20)
     DEF IInv, TypeOK, ClientAcquire, storeVars, engineVars, Status, Stage, Event,
         SendState, Attempt, Terminal, Unlocked, OwningStages, HoldingStages, LockTaken
<1> QED
  BY <1>1, QuietIInv DEF IInv, TypeOK, ClientAcquire, storeVars, engineVars

\* Client releases touch the lock node only.
LEMMA ClientReleaseIInv ==
  ASSUME IInv, NEW c \in Client, NEW w \in Wallet, ClientRelease(c, w)
  PROVE  IInv'
<1>1. TypeOK'
  BY SMTT(20)
     DEF IInv, TypeOK, ClientRelease, storeVars, engineVars, Status, Stage, Event,
         SendState, Attempt, Terminal, Unlocked, OwningStages, HoldingStages, LockReleased
<1> QED
  BY <1>1, QuietIInv DEF IInv, TypeOK, ClientRelease, storeVars, engineVars

\* The claim is the only step that makes an engine the owner of a record, and
\* it takes it out of the queue in the same store transaction.
LEMMA ClaimNextTransactionIInv ==
  ASSUME IInv, NEW e \in Engine, ClaimNextTransaction(e)
  PROVE  IInv'
<1>a. PICK t \in Tx :
        /\ status[t] = "queued" /\ attempts[t] < MaxAttempts
        /\ status'   = [status EXCEPT ![t] = "signing"]
        /\ attempts' = [attempts EXCEPT ![t] = @ + 1]
        /\ \/ /\ NoFault
              /\ pc'  = [pc EXCEPT ![e] = "claimed"]
              /\ cur' = [cur EXCEPT ![e] = t]
              /\ att' = [att EXCEPT ![e] = attempts[t] + 1]
              /\ UNCHANGED due
           \/ Fault /\ UNCHANGED engineVars
  BY DEF ClaimNextTransaction, Claimable
<1>b. pc[e] = "idle" /\ UNCHANGED <<hash, queuedAt, lock, chain, hooks, now>>
  BY DEF ClaimNextTransaction
<1>c. \A f \in Engine : Owns(f, t)' => f = e /\ pc'[e] = "claimed"
  BY <1>a, <1>b DEF IInv, TypeOK, OwnerState, Owns, OwningStages, Stage, engineVars
<1>d. \A f \in Engine, u \in Tx : u # t /\ Owns(f, u)' => Owns(f, u) /\ pc'[f] = pc[f]
  BY <1>a, <1>b DEF IInv, TypeOK, Owns, OwningStages, Stage, engineVars
<1>f. faults \in Nat /\ (faults' = 0 => faults = 0) /\ faults' \in Nat
  BY <1>a DEF IInv, TypeOK, Fault, NoFault
<1>1. TypeOK'
  <2>1. status' \in [Tx -> Status] /\ attempts' \in [Tx -> 0 .. MaxAttempts]
    BY <1>a DEF IInv, TypeOK, Status
  <2>2. attempts[t] + 1 \in 0 .. MaxAttempts
    BY <1>a DEF IInv, TypeOK
  <2>3. att' \in [Engine -> 0 .. MaxAttempts]
    BY <1>a, <2>2 DEF IInv, TypeOK, engineVars
  <2>4. pc' \in [Engine -> Stage] /\ due' \in [Engine -> Nat]
    BY <1>a DEF IInv, TypeOK, Stage, engineVars
  <2>5. cur' \in [Engine -> Tx \cup {NoOne}]
    BY <1>a DEF IInv, TypeOK, engineVars
  <2> QED
    BY <1>b, <1>f, <2>1, <2>3, <2>4, <2>5 DEF IInv, TypeOK
<1>2. OwnerState'
  BY SMTT(20)
     DEF IInv, TypeOK, OwnerState, OneOwner, ClaimNextTransaction, storeVars, engineVars,
         Stage, OwningStages, Attempt, Fault, NoFault, Claimable
<1>3. OneOwner'
  BY <1>a, <1>b, <1>c DEF IInv, TypeOK, OneOwner, Owns, OwningStages, Stage, engineVars
<1>4. QueuedIsClaimable'
  BY SMTT(20)
     DEF IInv, TypeOK, OwnerState, QueuedIsClaimable, RecordState, Claimable,
         ClaimNextTransaction, storeVars, engineVars, Stage, OwningStages, Attempt, Fault,
         NoFault
<1>5. SendsState'
  <2>1. attempts[t] + 1 \in Attempt /\ chain[t][attempts[t] + 1] = "none"
    BY <1>a DEF IInv, TypeOK, SendsState, Attempt
  <2>2. \A u \in Tx, k \in Attempt : chain[u][k] # "none" => k <= attempts'[u]
    BY <1>a DEF IInv, TypeOK, SendsState, Attempt
  <2>3. \A f \in Engine :
          \/ f = e /\ pc'[f] = "claimed" /\ cur'[f] = t /\ att'[f] = attempts[t] + 1
          \/ pc'[f] = pc[f] /\ cur'[f] = cur[f] /\ att'[f] = att[f]
    BY <1>a DEF IInv, TypeOK, engineVars
  <2> QED
    BY <1>b, <2>1, <2>2, <2>3 DEF IInv, SendsState
<1>6. RecordState'
  BY SMTT(20)
     DEF IInv, TypeOK, RecordState, OwnerState, ClaimNextTransaction, storeVars,
         engineVars, Stage, OwningStages, Fault, NoFault, Claimable
<1>7. RecordMatchesChain'
  <2> SUFFICES ASSUME NEW u \in Tx
               PROVE  /\ hash[u] # 0 => /\ hash[u] = attempts'[u]
                                        /\ chain[u][hash[u]] \in Answered
                      /\ status'[u] = "confirmed" => hash[u] # 0 /\ chain[u][hash[u]] \in Succeeded
    BY <1>b DEF RecordMatchesChain
  <2>1. CASE u = t
    BY <1>a, <2>1 DEF IInv, TypeOK, RecordState
  <2>2. CASE u # t
    BY <1>a, <2>2 DEF IInv, TypeOK, RecordMatchesChain
  <2> QED
    BY <2>1, <2>2
<1>8. FailedIsExplained'
  BY SMTT(20)
     DEF IInv, TypeOK, FailedIsExplained, OwnerState, SendsState, ClaimNextTransaction,
         storeVars, engineVars, Stage, OwningStages, Attempt, Fault, NoFault, Claimable
<1>9. AnnouncedState'
  BY SMTT(20)
     DEF IInv, TypeOK, AnnouncedState, OneOwner, OwnerState, ClaimNextTransaction,
         storeVars, engineVars, Stage, OwningStages, Owns, Fault, NoFault, Claimable
<1>10. WebhooksAgree'
  BY SMTT(20)
     DEF IInv, TypeOK, WebhooksAgree, AnnouncedState, SendsState, OwnerState,
         ClaimNextTransaction, storeVars, engineVars, Stage, OwningStages, Owns, Attempt,
         Fault, NoFault, Claimable
<1>11. FaultlessState'
  <2> SUFFICES ASSUME faults' = 0, NEW u \in Tx, NEW k \in Attempt, chain[u][k] # "none"
               PROVE  /\ k = attempts'[u] /\ status'[u] # "queued"
                      /\ \A f \in Engine : Owns(f, u)' => pc'[f] \in {"command", "broadcast", "recorded"}
    BY <1>b DEF FaultlessState
  <2>1. /\ k = attempts[u] /\ status[u] # "queued"
        /\ \A f \in Engine : Owns(f, u) => pc[f] \in {"command", "broadcast", "recorded"}
    BY <1>f DEF IInv, FaultlessState
  <2>2. u # t
    BY <1>a, <2>1
  <2> QED
    BY <1>a, <1>d, <2>1, <2>2 DEF IInv, TypeOK
<1> QED
  BY <1>1, <1>2, <1>3, <1>4, <1>5, <1>6, <1>7, <1>8, <1>9, <1>10, <1>11 DEF IInv

\* Taking, missing or failing to get the lock moves the program counter only.
LEMMA AcquireWalletLockIInv ==
  ASSUME IInv, NEW e \in Engine, AcquireWalletLock(e)
  PROVE  IInv'
<1>0. pc[e] # "idle" /\ cur[e] \in Tx /\ att[e] \in Attempt
  BY DEF IInv, OwnerState, AcquireWalletLock, HoldingStages
<1>a. /\ pc' \in [Engine -> Stage] /\ cur' = cur /\ att' = att /\ due' \in [Engine -> Nat]
      /\ faults' \in Nat /\ (faults' = 0 => faults = 0)
      /\ pc'[e] \in {"denied", "locked"} /\ \A f \in Engine : f # e => pc'[f] = pc[f]
  <2>1. cur' = cur /\ att' = att /\ faults' \in Nat /\ (faults' = 0 => faults = 0)
    BY DEF IInv, TypeOK, AcquireWalletLock, GoTo, Fault, NoFault
  <2>2. \/ pc' = [pc EXCEPT ![e] = "locked"] /\ due' = [due EXCEPT ![e] = now + StartDelay]
        \/ pc' = [pc EXCEPT ![e] = "denied"] /\ due' = [due EXCEPT ![e] = 0]
    BY DEF AcquireWalletLock, GoTo
  <2>3. now + StartDelay \in Nat
    BY DEF IInv, TypeOK
  <2>4. pc' \in [Engine -> Stage] /\ pc'[e] \in {"denied", "locked"}
    BY <2>2 DEF IInv, TypeOK, Stage
  <2>5. due' \in [Engine -> Nat]
    BY <2>2, <2>3 DEF IInv, TypeOK
  <2>6. \A f \in Engine : f # e => pc'[f] = pc[f]
    BY <2>2 DEF IInv, TypeOK
  <2> QED
    BY <2>1, <2>4, <2>5, <2>6
<1>b. lock' = lock \/ lock' = LockTaken(WalletOf[cur[e]], cur[e], LockTTL)
  BY DEF AcquireWalletLock
<1>1. TypeOK'
  <2>1. lock' \in [Wallet -> [holder : Tx \cup Client \cup {NoOne}, until : Nat]]
    BY <1>0, <1>b, LockTakenType DEF IInv, TypeOK
  <2> QED
    BY <1>a, <2>1 DEF IInv, TypeOK, AcquireWalletLock, storeVars
<1>2. /\ UNCHANGED <<status, attempts, hash, chain, hooks, cur, att>>
      /\ pc[e] = "claimed" /\ (faults' = 0 => faults = 0)
      /\ pc' = [pc EXCEPT ![e] = "locked"] \/ pc' = [pc EXCEPT ![e] = "denied"]
  BY DEF IInv, TypeOK, AcquireWalletLock, storeVars, Fault, NoFault, GoTo
<1>3. chain[cur[e]][att[e]] = "none"
  BY <1>2 DEF IInv, SendsState
<1> QED
  BY <1>1, <1>2, <1>3, MoveIInv DEF Stage, OwningStages

\* An early return leaves the attempt unsent.
LEMMA RejectBroadcastIInv == ASSUME IInv, NEW e \in Engine, RejectBroadcast(e) PROVE IInv'
<1>0. pc[e] # "idle" /\ cur[e] \in Tx /\ att[e] \in Attempt
  BY DEF IInv, OwnerState, RejectBroadcast, HoldingStages
<1>1. TypeOK'
  BY <1>0, SMTT(20)
     DEF IInv, TypeOK, RejectBroadcast, storeVars, engineVars, Status, Stage, Event,
         SendState, Attempt, Terminal, Unlocked, OwningStages, HoldingStages, GoTo
<1>2. /\ pc' = [pc EXCEPT ![e] = "errored"] /\ UNCHANGED <<status, attempts, hash, chain, hooks>>
      /\ faults' = 0 => faults = 0
  BY DEF IInv, TypeOK, RejectBroadcast, storeVars, GoTo
<1> QED
  BY <1>0, <1>1, <1>2, MoveIInv
     DEF IInv, TypeOK, OwnerState, SendsState, RejectBroadcast, storeVars, GoTo, Stage,
         OwningStages, HoldingStages

\* Starting the command sends nothing yet.
LEMMA StartCommandIInv == ASSUME IInv, NEW e \in Engine, StartCommand(e) PROVE IInv'
<1>0. pc[e] # "idle" /\ cur[e] \in Tx /\ att[e] \in Attempt
  BY DEF IInv, OwnerState, StartCommand, HoldingStages
<1>1. TypeOK'
  BY <1>0, SMTT(20)
     DEF IInv, TypeOK, StartCommand, storeVars, engineVars, Status, Stage, Event,
         SendState, Attempt, Terminal, Unlocked, OwningStages, HoldingStages
<1>2. /\ pc' = [pc EXCEPT ![e] = "command"] /\ UNCHANGED <<status, attempts, hash, chain, hooks>>
      /\ faults' = 0 => faults = 0
  BY DEF IInv, TypeOK, StartCommand, storeVars
<1> QED
  BY <1>0, <1>1, <1>2, MoveIInv
     DEF IInv, TypeOK, OwnerState, SendsState, StartCommand, storeVars, Stage,
         OwningStages, HoldingStages

\* The send is the owner's, of its current attempt, and the first of it.
LEMMA SendOnChainIInv == ASSUME IInv, NEW e \in Engine, SendOnChain(e) PROVE IInv'
<1>0. pc[e] # "idle" /\ cur[e] \in Tx /\ att[e] \in Attempt
  BY DEF IInv, OwnerState, SendOnChain, HoldingStages
<1>1. TypeOK'
  BY <1>0, SMTT(20)
     DEF IInv, TypeOK, SendOnChain, storeVars, engineVars, Status, Stage, Event,
         SendState, Attempt, Terminal, Unlocked, OwningStages, HoldingStages
<1>2. OwnerState'
  BY <1>0, SMTT(20)
     DEF IInv, TypeOK, OwnerState, OneOwner, SendOnChain, storeVars, engineVars, Stage,
         OwningStages, Attempt
<1>3. OneOwner'
  BY <1>0, SMTT(20)
     DEF IInv, TypeOK, OwnerState, OneOwner, SendOnChain, storeVars, engineVars, Stage,
         OwningStages
<1>4. QueuedIsClaimable'
  BY <1>0, SMTT(20)
     DEF IInv, TypeOK, OwnerState, QueuedIsClaimable, RecordState, Claimable, SendOnChain,
         storeVars, engineVars, Stage, OwningStages, Attempt
<1>5. SendsState'
  <2>1. \A f \in Engine : f # e /\ pc[f] \in OwningStages => cur[f] # cur[e]
    BY <1>0 DEF IInv, OneOwner, SendOnChain, OwningStages, Stage
  <2>2. \A u \in Tx, k \in Attempt :
          chain'[u][k] = IF u = cur[e] /\ k = att[e] THEN "sent" ELSE chain[u][k]
    BY <1>0 DEF IInv, TypeOK, SendOnChain
  <2>3. attempts[cur[e]] = att[e]
    BY DEF IInv, OwnerState, SendOnChain, OwningStages, Stage
  <2>4. \A f \in Engine : pc[f] \in {"claimed", "denied", "locked", "broadcast", "recorded"} =>
          cur[f] # cur[e] /\ cur[f] \in Tx /\ att[f] \in Attempt
    BY <1>0, <2>1 DEF IInv, OwnerState, SendOnChain, OwningStages, Stage
  <2>5. UNCHANGED <<attempts, pc, cur, att>>
    BY DEF SendOnChain, storeVars, engineVars
  <2>6. \A u \in Tx, k \in Attempt : chain'[u][k] # "none" => k <= attempts'[u]
    <3> SUFFICES ASSUME NEW u \in Tx, NEW k \in Attempt, chain'[u][k] # "none"
                 PROVE  k <= attempts[u]
      BY <2>5
    <3>1. CASE u = cur[e] /\ k = att[e]
      BY <2>3, <3>1 DEF Attempt
    <3>2. CASE ~(u = cur[e] /\ k = att[e])
      BY <2>2, <3>2 DEF IInv, SendsState
    <3> QED
      BY <3>1, <3>2
  <2>7. \A f \in Engine :
          /\ pc[f] \in {"claimed", "denied", "locked"} => chain'[cur[f]][att[f]] = "none"
          /\ pc[f] \in {"broadcast", "recorded"} =>
               chain'[cur[f]][att[f]] \in Answered
    BY <2>2, <2>4 DEF IInv, SendsState
  <2> QED
    BY <2>5, <2>6, <2>7 DEF SendsState
<1>6. RecordState'
  BY <1>0, SMTT(20)
     DEF IInv, TypeOK, RecordState, OwnerState, SendOnChain, storeVars, engineVars, Stage,
         OwningStages
<1>7. RecordMatchesChain'
  BY <1>0, SMTT(20)
     DEF IInv, TypeOK, SendsState, OwnerState, OneOwner, RecordState, RecordMatchesChain,
         SendOnChain, storeVars, engineVars, Stage, OwningStages, Attempt
<1>8. FailedIsExplained'
  <2>1. \A u \in Tx, k \in Attempt : chain[u][k] \in Reverted => chain'[u][k] \in Reverted
    BY <1>0 DEF IInv, TypeOK, SendOnChain
  <2> QED
    BY <2>1 DEF IInv, FailedIsExplained, SendOnChain, storeVars
<1>9. AnnouncedState'
  BY <1>0, SMTT(20)
     DEF IInv, TypeOK, AnnouncedState, OneOwner, OwnerState, SendOnChain, storeVars,
         engineVars, Stage, OwningStages, Owns
<1>10. WebhooksAgree'
  <2>1. \A u \in Tx, j \in Attempt : chain[u][j] \in Succeeded => chain'[u][j] \in Succeeded
    BY <1>0 DEF IInv, TypeOK, SendOnChain
  <2> QED
    BY <1>0, <2>1 DEF IInv, WebhooksAgree, SendOnChain
<1>11. FaultlessState'
  <2>1. /\ attempts[cur[e]] = att[e] /\ status[cur[e]] = "signing" /\ pc[e] = "command"
        /\ \A f \in Engine : Owns(f, cur[e]) => f = e
    BY <1>0 DEF IInv, OwnerState, OneOwner, SendOnChain, Owns, OwningStages, Stage
  <2>2. \A u \in Tx, k \in Attempt :
          chain'[u][k] = IF u = cur[e] /\ k = att[e] THEN "sent" ELSE chain[u][k]
    BY <1>0 DEF IInv, TypeOK, SendOnChain
  <2>3. UNCHANGED <<status, attempts, pc, cur, faults>>
    BY DEF SendOnChain, storeVars, engineVars
  <2> SUFFICES ASSUME faults = 0, NEW u \in Tx, NEW k \in Attempt, chain'[u][k] # "none"
               PROVE  /\ k = attempts[u] /\ status[u] # "queued"
                      /\ \A f \in Engine : Owns(f, u) => pc[f] \in {"command", "broadcast", "recorded"}
    BY <2>3 DEF FaultlessState, Owns
  <2>4. CASE u = cur[e] /\ k = att[e]
    BY <2>1, <2>4
  <2>5. CASE ~(u = cur[e] /\ k = att[e])
    BY <2>2, <2>5 DEF IInv, FaultlessState
  <2> QED
    BY <2>4, <2>5
<1> QED
  BY <1>1, <1>2, <1>3, <1>4, <1>5, <1>6, <1>7, <1>8, <1>9, <1>10, <1>11 DEF IInv

\* A printed receipt means that the attempt was mined.
LEMMA CommandReturnsIInv == ASSUME IInv, NEW e \in Engine, CommandReturns(e) PROVE IInv'
<1>0. pc[e] # "idle" /\ cur[e] \in Tx /\ att[e] \in Attempt
  BY DEF IInv, OwnerState, CommandReturns, HoldingStages
<1>1. TypeOK'
  BY <1>0, SMTT(20)
     DEF IInv, TypeOK, CommandReturns, storeVars, engineVars, Status, Stage, Event,
         SendState, Attempt, Terminal, Unlocked, OwningStages, HoldingStages, GoTo
<1>2. /\ pc' = [pc EXCEPT ![e] = "broadcast"] /\ UNCHANGED <<status, attempts, hash, chain, hooks>>
      /\ faults' = 0 => faults = 0
  BY DEF IInv, TypeOK, CommandReturns, storeVars, GoTo
<1> QED
  BY <1>0, <1>1, <1>2, MoveIInv
     DEF IInv, TypeOK, OwnerState, SendsState, CommandReturns, storeVars, GoTo, Stage,
         OwningStages, HoldingStages

\* Without a fault, a failed command has sent nothing.
LEMMA CommandFailsIInv == ASSUME IInv, NEW e \in Engine, CommandFails(e) PROVE IInv'
<1>0. pc[e] # "idle" /\ cur[e] \in Tx /\ att[e] \in Attempt
  BY DEF IInv, OwnerState, CommandFails, HoldingStages
<1>1. TypeOK'
  BY <1>0, SMTT(20)
     DEF IInv, TypeOK, CommandFails, storeVars, engineVars, Status, Stage, Event,
         SendState, Attempt, Terminal, Unlocked, OwningStages, HoldingStages, GoTo, Fault,
         NoFault
<1>2. /\ pc' = [pc EXCEPT ![e] = "errored"] /\ UNCHANGED <<status, attempts, hash, chain, hooks>>
      /\ faults' = 0 => faults = 0
  BY DEF IInv, TypeOK, CommandFails, storeVars, GoTo, Fault, NoFault
<1>3. pc[e] = "command" /\ UNCHANGED <<cur, att>> /\ (faults' = 0 => chain[cur[e]][att[e]] = "none")
  BY DEF IInv, TypeOK, CommandFails, GoTo, Fault, NoFault
<1> QED
  BY <1>1, <1>2, <1>3, MoveIInv DEF Stage, OwningStages

\* The record goes back to the queue with tries left or is failed without any.
LEMMA MarkTransactionAttemptIInv ==
  ASSUME IInv, NEW e \in Engine, MarkTransactionAttempt(e)
  PROVE  IInv'
<1>0. pc[e] # "idle" /\ cur[e] \in Tx /\ att[e] \in Attempt
  BY DEF IInv, OwnerState, MarkTransactionAttempt, HoldingStages
<1>a. /\ pc[e] \in {"denied", "errored"} /\ pc'[e] \in {"idle", "releasing"}
      /\ pc' \in [Engine -> Stage] /\ cur' \in [Engine -> Tx \cup {NoOne}]
      /\ att' \in [Engine -> 0 .. MaxAttempts] /\ due' \in [Engine -> Nat]
      /\ \A f \in Engine : f # e => pc'[f] = pc[f] /\ cur'[f] = cur[f] /\ att'[f] = att[f]
      /\ pc'[e] = "releasing" => cur'[e] = cur[e] /\ att'[e] = att[e]
  <2>1. /\ pc[e] \in {"denied", "errored"}
        /\ \/ /\ pc'  = [pc EXCEPT ![e] = "idle"]
              /\ cur' = [cur EXCEPT ![e] = NoOne]
              /\ att' = [att EXCEPT ![e] = 0]
           \/ pc' = [pc EXCEPT ![e] = "releasing"] /\ cur' = cur /\ att' = att
        /\ due' = [due EXCEPT ![e] = 0]
    BY DEF MarkTransactionAttempt, Finish, GoTo
  <2>2. pc' \in [Engine -> Stage] /\ due' \in [Engine -> Nat]
    BY <2>1 DEF IInv, TypeOK, Stage
  <2>3. cur' \in [Engine -> Tx \cup {NoOne}] /\ att' \in [Engine -> 0 .. MaxAttempts]
    BY <2>1 DEF IInv, TypeOK
  <2> QED
    BY <2>1, <2>2, <2>3 DEF IInv, TypeOK
<1>b. /\ attempts[cur[e]] = att[e] /\ status[cur[e]] = "signing"
      /\ \A f \in Engine : f # e /\ pc[f] \in OwningStages => cur[f] # cur[e]
  BY <1>0, <1>a DEF IInv, OwnerState, OneOwner, OwningStages, Stage
<1>c. \/ /\ faults' = faults /\ att[e] < MaxAttempts /\ hooks' = hooks
         /\ status' = [status EXCEPT ![cur[e]] = "queued"] /\ hash' = hash
      \/ /\ faults' = faults /\ att[e] = MaxAttempts
         /\ status' = [status EXCEPT ![cur[e]] = "failed"] /\ hash' = hash
      \/ faults' = faults + 1 /\ status' = status /\ hash' = hash
  BY <1>0 DEF IInv, TypeOK, MarkTransactionAttempt, MayRetry, MarkTransactionRetry,
       UpdateTransactionStatus, HashAfter, Fault, NoFault, storeVars, Attempt
<1>d. /\ UNCHANGED <<attempts, lock, chain, now>> /\ queuedAt' \in [Tx -> Nat]
      /\ \/ hooks' = hooks
         \/ att[e] = MaxAttempts /\ hooks' = [hooks EXCEPT ![cur[e]] = @ \cup {"failed"}]
      /\ hooks' \in [Tx -> SUBSET Event]
  <2>1. UNCHANGED <<attempts, lock, chain, now>> /\ queuedAt' \in [Tx -> Nat]
    BY <1>0 DEF IInv, TypeOK, MarkTransactionAttempt, MarkTransactionRetry,
         UpdateTransactionStatus, storeVars
  <2>2. CASE MayRetry(e)
    <3>1. hooks' = hooks
      BY <2>2 DEF MarkTransactionAttempt
    <3> QED
      BY <2>1, <3>1 DEF IInv, TypeOK
  <2>3. CASE ~MayRetry(e)
    <3>1. Webhook(cur[e], "failed") /\ att[e] = MaxAttempts
      BY <1>0, <2>3 DEF IInv, TypeOK, MarkTransactionAttempt, MayRetry, Attempt
    <3>2. hooks' \in [Tx -> SUBSET Event]
      BY <1>0, <3>1, WebhookType DEF IInv, Event
    <3>3. hooks' = hooks \/ hooks' = [hooks EXCEPT ![cur[e]] = @ \cup {"failed"}]
      BY <3>1 DEF Webhook
    <3> QED
      BY <2>1, <3>1, <3>2, <3>3
  <2> QED
    BY <2>2, <2>3
<1>f. \A f \in Engine, u \in Tx : Owns(f, u)' => f # e /\ u # cur[e] /\ Owns(f, u) /\ pc'[f] = pc[f]
  BY <1>a, <1>b DEF Owns, OwningStages, Stage
<1>g. \A u \in Tx : u # cur[e] => status'[u] = status[u] /\ hooks'[u] = hooks[u]
  BY <1>0, <1>c, <1>d DEF IInv, TypeOK
<1>h. faults' \in Nat /\ (faults' = 0 => faults = 0)
  BY <1>c DEF IInv, TypeOK
<1>1. TypeOK'
  <2>1. status' \in [Tx -> Status] /\ hash' \in [Tx -> 0 .. MaxAttempts]
    BY <1>c DEF IInv, TypeOK, Status
  <2> QED
    BY <1>a, <1>d, <1>h, <2>1 DEF IInv, TypeOK
<1>2. OwnerState'
  <2> SUFFICES ASSUME NEW f \in Engine
               PROVE  /\ pc'[f] # "idle" => cur'[f] \in Tx /\ att'[f] \in Attempt
                      /\ pc'[f] \in OwningStages =>
                           /\ attempts[cur'[f]] = att'[f]
                           /\ \/ status'[cur'[f]] = "signing"
                              \/ status'[cur'[f]] = "submitted" /\ pc'[f] = "recorded"
    BY <1>d DEF OwnerState
  <2>1. CASE f = e
    BY <1>0, <1>a, <2>1 DEF OwningStages
  <2>2. CASE f # e
    BY <1>a, <1>b, <1>g, <2>2 DEF IInv, OwnerState, OwningStages, Stage
  <2> QED
    BY <2>1, <2>2
<1>3. OneOwner'
  BY <1>a, <1>b DEF IInv, OneOwner, OwningStages, Stage
<1>4. QueuedIsClaimable'
  BY <1>0, <1>b, <1>c, <1>d DEF IInv, TypeOK, QueuedIsClaimable, Claimable
<1>5. SendsState'
  BY <1>a, <1>d DEF IInv, SendsState
<1>6. RecordState'
  BY <1>0, <1>b, <1>c, <1>d DEF IInv, TypeOK, RecordState
<1>7. RecordMatchesChain'
  BY <1>0, <1>b, <1>c, <1>d DEF IInv, TypeOK, RecordState, RecordMatchesChain
<1>8. FailedIsExplained'
  BY <1>0, <1>b, <1>c, <1>d DEF IInv, TypeOK, FailedIsExplained
<1>9. AnnouncedState'
  <2>1. ~("confirmed" \in hooks[cur[e]] \/ "failed" \in hooks[cur[e]])
    BY <1>0, <1>a DEF IInv, AnnouncedState, Owns, OwningStages, Stage
  <2> SUFFICES ASSUME NEW u \in Tx, "confirmed" \in hooks'[u] \/ "failed" \in hooks'[u]
               PROVE  /\ status'[u] \notin {"absent", "queued"}
                      /\ \A f \in Engine : ~Owns(f, u)'
    BY DEF AnnouncedState
  <2>2. CASE u = cur[e]
    <3>1. hooks' # hooks
      BY <2>1, <2>2
    <3>2. att[e] = MaxAttempts
      BY <1>d, <3>1
    <3>3. status'[u] \notin {"absent", "queued"}
      BY <1>0, <1>b, <1>c, <2>2, <3>2 DEF IInv, TypeOK
    <3> QED
      BY <1>f, <2>2, <3>3
  <2>3. CASE u # cur[e]
    BY <1>f, <1>g, <2>3 DEF IInv, AnnouncedState
  <2> QED
    BY <2>2, <2>3
<1>10. WebhooksAgree'
  <2>1. ~("confirmed" \in hooks[cur[e]] \/ "failed" \in hooks[cur[e]])
    BY <1>0, <1>a DEF IInv, AnnouncedState, Owns, OwningStages, Stage
  <2>2. \A u \in Tx : \/ hooks'[u] = hooks[u]
                      \/ u = cur[e] /\ hooks'[u] = hooks[u] \cup {"failed"}
    BY <1>0, <1>d DEF IInv, TypeOK
  <2> QED
    BY <1>d, <2>1, <2>2 DEF IInv, WebhooksAgree
<1>11. FaultlessState'
  <2> SUFFICES ASSUME faults' = 0, NEW u \in Tx, NEW k \in Attempt, chain[u][k] # "none"
               PROVE  /\ k = attempts[u] /\ status'[u] # "queued"
                      /\ \A f \in Engine : Owns(f, u)' => pc'[f] \in {"command", "broadcast", "recorded"}
    BY <1>d DEF FaultlessState
  <2>1. /\ k = attempts[u] /\ status[u] # "queued"
        /\ \A f \in Engine : Owns(f, u) => pc[f] \in {"command", "broadcast", "recorded"}
    BY <1>h DEF IInv, FaultlessState
  <2>2. u # cur[e]
    BY <1>0, <1>a, <2>1 DEF Owns, OwningStages, Stage
  <2> QED
    BY <1>f, <1>g, <2>1, <2>2
<1> QED
  BY <1>1, <1>2, <1>3, <1>4, <1>5, <1>6, <1>7, <1>8, <1>9, <1>10, <1>11 DEF IInv

\* The hash of a mined attempt is recorded.
LEMMA MarkSubmittedIInv == ASSUME IInv, NEW e \in Engine, MarkSubmitted(e) PROVE IInv'
<1>0. pc[e] # "idle" /\ cur[e] \in Tx /\ att[e] \in Attempt
  BY DEF IInv, OwnerState, MarkSubmitted, HoldingStages
<1>a. /\ pc[e] = "broadcast" /\ pc' = [pc EXCEPT ![e] = "recorded"] /\ cur' = cur /\ att' = att
      /\ due' \in [Engine -> Nat] /\ UNCHANGED <<attempts, queuedAt, lock, chain, now>>
  BY DEF IInv, TypeOK, MarkSubmitted, GoTo, UpdateTransactionStatus, storeVars
<1>b. /\ attempts[cur[e]] = att[e] /\ status[cur[e]] \in {"signing", "submitted"}
      /\ chain[cur[e]][att[e]] \in Answered
      /\ \A f \in Engine : f # e /\ pc[f] \in OwningStages => cur[f] # cur[e]
      /\ ~("confirmed" \in hooks[cur[e]] \/ "failed" \in hooks[cur[e]])
  BY <1>0, <1>a
     DEF IInv, OwnerState, OneOwner, SendsState, AnnouncedState, Owns, OwningStages, Stage
<1>c. \/ /\ faults' = faults
         /\ status' = [status EXCEPT ![cur[e]] = "submitted"]
         /\ hash' = [hash EXCEPT ![cur[e]] = att[e]]
      \/ faults' = faults + 1 /\ status' = status /\ hash' = hash
  BY <1>0
     DEF IInv, TypeOK, MarkSubmitted, UpdateTransactionStatus, HashAfter, Fault, NoFault,
         storeVars, Attempt
<1>d. hooks' = hooks \/ hooks' = [hooks EXCEPT ![cur[e]] = @ \cup {"submitted"}]
  BY DEF MarkSubmitted, Webhook
<1>f. faults' \in Nat /\ (faults' = 0 => faults = 0)
  BY <1>c DEF IInv, TypeOK
<1>1. TypeOK'
  <2>1. status' \in [Tx -> Status] /\ hash' \in [Tx -> 0 .. MaxAttempts]
    BY <1>0, <1>c DEF IInv, TypeOK, Status, Attempt
  <2>2. hooks' \in [Tx -> SUBSET Event]
    BY <1>0, WebhookType DEF IInv, Event, MarkSubmitted
  <2>3. pc' \in [Engine -> Stage]
    BY <1>a DEF IInv, TypeOK, Stage
  <2> QED
    BY <1>a, <1>f, <2>1, <2>2, <2>3 DEF IInv, TypeOK
<1>2. OwnerState'
  BY <1>0, SMTT(20)
     DEF IInv, TypeOK, OwnerState, OneOwner, MarkSubmitted, storeVars, engineVars, Stage,
         OwningStages, Attempt, GoTo, Fault, NoFault, Webhook, UpdateTransactionStatus,
         HashAfter
<1>3. OneOwner'
  BY <1>0, SMTT(20)
     DEF IInv, TypeOK, OwnerState, OneOwner, MarkSubmitted, storeVars, engineVars, Stage,
         OwningStages, GoTo, Fault, NoFault, Webhook, UpdateTransactionStatus, HashAfter
<1>4. QueuedIsClaimable'
  BY <1>0, SMTT(20)
     DEF IInv, TypeOK, OwnerState, QueuedIsClaimable, RecordState, Claimable,
         MarkSubmitted, storeVars, engineVars, Stage, OwningStages, Attempt, GoTo, Fault,
         NoFault, Webhook, UpdateTransactionStatus, HashAfter
<1>5. SendsState'
  BY <1>0, SMTT(20)
     DEF IInv, TypeOK, SendsState, OwnerState, OneOwner, MarkSubmitted, storeVars,
         engineVars, Stage, OwningStages, Attempt, GoTo, Fault, NoFault, Webhook,
         UpdateTransactionStatus, HashAfter
<1>6. RecordState'
  BY <1>0, SMTT(20)
     DEF IInv, TypeOK, RecordState, OwnerState, MarkSubmitted, storeVars, engineVars,
         Stage, OwningStages, GoTo, Fault, NoFault, Webhook, UpdateTransactionStatus,
         HashAfter
<1>7. RecordMatchesChain'
  <2> SUFFICES ASSUME NEW u \in Tx
               PROVE  /\ hash'[u] # 0 => /\ hash'[u] = attempts[u]
                                         /\ chain[u][hash'[u]] \in Answered
                      /\ status'[u] = "confirmed" => hash'[u] # 0 /\ chain[u][hash'[u]] \in Succeeded
    BY <1>a DEF RecordMatchesChain
  <2>1. CASE u = cur[e]
    BY <1>0, <1>b, <1>c, <2>1 DEF IInv, TypeOK, RecordMatchesChain, Attempt
  <2>2. CASE u # cur[e]
    BY <1>c, <2>2 DEF IInv, TypeOK, RecordMatchesChain
  <2> QED
    BY <2>1, <2>2
<1>8. FailedIsExplained'
  BY <1>0, SMTT(20)
     DEF IInv, TypeOK, FailedIsExplained, OwnerState, SendsState, MarkSubmitted,
         storeVars, engineVars, Stage, OwningStages, Attempt, GoTo, Fault, NoFault,
         Webhook, UpdateTransactionStatus, HashAfter
<1>9. AnnouncedState'
  BY <1>0, SMTT(20)
     DEF IInv, TypeOK, AnnouncedState, OneOwner, OwnerState, MarkSubmitted, storeVars,
         engineVars, Stage, OwningStages, Owns, GoTo, Fault, NoFault, Webhook,
         UpdateTransactionStatus, HashAfter
<1>10. WebhooksAgree'
  <2>1. /\ chain' = chain /\ cur[e] \in Tx
        /\ hooks' \in {hooks, [hooks EXCEPT ![cur[e]] = @ \cup {"submitted"}]}
    BY <1>0 DEF MarkSubmitted, Webhook, IInv, OwnerState
  <2>2. \A u \in Tx : hooks'[u] \in {hooks[u], hooks[u] \cup {"submitted"}}
    BY <2>1 DEF IInv, TypeOK
  <2> QED
    BY <2>1, <2>2 DEF IInv, WebhooksAgree
<1>11. FaultlessState'
  BY <1>0, SMTT(20)
     DEF IInv, TypeOK, FaultlessState, SendsState, OwnerState, OneOwner, MarkSubmitted,
         storeVars, engineVars, Stage, OwningStages, Attempt, Owns, GoTo, Fault, NoFault,
         Webhook, UpdateTransactionStatus, HashAfter
<1> QED
  BY <1>1, <1>2, <1>3, <1>4, <1>5, <1>6, <1>7, <1>8, <1>9, <1>10, <1>11 DEF IInv

\* The verdict is the one the receipt gives.
LEMMA MarkOutcomeIInv == ASSUME IInv, NEW e \in Engine, MarkOutcome(e) PROVE IInv'
<1>0. pc[e] # "idle" /\ cur[e] \in Tx /\ att[e] \in Attempt
  BY DEF IInv, OwnerState, MarkOutcome, HoldingStages
<1>a. /\ pc[e] = "recorded" /\ pc' = [pc EXCEPT ![e] = "releasing"] /\ cur' = cur /\ att' = att
      /\ due' \in [Engine -> Nat] /\ UNCHANGED <<attempts, queuedAt, lock, chain, now>>
  BY DEF IInv, TypeOK, MarkOutcome, GoTo, UpdateTransactionStatus, storeVars
<1>b. /\ attempts[cur[e]] = att[e] /\ status[cur[e]] \in {"signing", "submitted"}
      /\ chain[cur[e]][att[e]] \in Answered
      /\ \A f \in Engine : f # e /\ pc[f] \in OwningStages => cur[f] # cur[e]
      /\ ~("confirmed" \in hooks[cur[e]] \/ "failed" \in hooks[cur[e]])
  BY <1>0, <1>a
     DEF IInv, OwnerState, OneOwner, SendsState, AnnouncedState, Owns, OwningStages, Stage
<1>c. \/ /\ faults' = faults
         /\ status' = [status EXCEPT ![cur[e]] = Verdict(e)]
         /\ hash' = [hash EXCEPT ![cur[e]] = IF Verdict(e) = "confirmed" THEN att[e] ELSE hash[cur[e]]]
      \/ faults' = faults + 1 /\ status' = status /\ hash' = hash
  BY <1>0
     DEF IInv, TypeOK, MarkOutcome, UpdateTransactionStatus, HashAfter, Fault, NoFault,
         storeVars, Attempt, Verdict
<1>d. hooks' = hooks \/ hooks' = [hooks EXCEPT ![cur[e]] = @ \cup {Verdict(e)}]
  BY DEF MarkOutcome, Webhook
<1>f. faults' \in Nat /\ (faults' = 0 => faults = 0)
  BY <1>c DEF IInv, TypeOK
<1>1. TypeOK'
  <2>1. status' \in [Tx -> Status] /\ hash' \in [Tx -> 0 .. MaxAttempts]
    BY <1>0, <1>c DEF IInv, TypeOK, Status, Attempt, Verdict
  <2>2. hooks' \in [Tx -> SUBSET Event]
    BY <1>0, WebhookType DEF IInv, Event, MarkOutcome, Verdict
  <2>3. pc' \in [Engine -> Stage]
    BY <1>a DEF IInv, TypeOK, Stage
  <2> QED
    BY <1>a, <1>f, <2>1, <2>2, <2>3 DEF IInv, TypeOK
<1>2. OwnerState'
  BY <1>0, SMTT(20)
     DEF IInv, TypeOK, OwnerState, OneOwner, MarkOutcome, storeVars, engineVars, Stage,
         OwningStages, Attempt, GoTo, Fault, NoFault, Webhook, UpdateTransactionStatus,
         HashAfter, Verdict
<1>3. OneOwner'
  BY <1>0, SMTT(20)
     DEF IInv, TypeOK, OwnerState, OneOwner, MarkOutcome, storeVars, engineVars, Stage,
         OwningStages, GoTo, Fault, NoFault, Webhook, UpdateTransactionStatus, HashAfter,
         Verdict
<1>4. QueuedIsClaimable'
  BY <1>0, SMTT(20)
     DEF IInv, TypeOK, OwnerState, QueuedIsClaimable, RecordState, Claimable, MarkOutcome,
         storeVars, engineVars, Stage, OwningStages, Attempt, GoTo, Fault, NoFault,
         Webhook, UpdateTransactionStatus, HashAfter, Verdict
<1>5. SendsState'
  BY <1>0, SMTT(20)
     DEF IInv, TypeOK, SendsState, OwnerState, OneOwner, MarkOutcome, storeVars,
         engineVars, Stage, OwningStages, Attempt, GoTo, Fault, NoFault, Webhook,
         UpdateTransactionStatus, HashAfter, Verdict
<1>6. RecordState'
  BY <1>0, SMTT(20)
     DEF IInv, TypeOK, RecordState, OwnerState, MarkOutcome, storeVars, engineVars, Stage,
         OwningStages, GoTo, Fault, NoFault, Webhook, UpdateTransactionStatus, HashAfter,
         Verdict
<1>7. RecordMatchesChain'
  <2> SUFFICES ASSUME NEW u \in Tx
               PROVE  /\ hash'[u] # 0 => /\ hash'[u] = attempts[u]
                                         /\ chain[u][hash'[u]] \in Answered
                      /\ status'[u] = "confirmed" => hash'[u] # 0 /\ chain[u][hash'[u]] \in Succeeded
    BY <1>a DEF RecordMatchesChain
  <2>1. CASE u = cur[e]
    BY <1>0, <1>b, <1>c, <2>1 DEF IInv, TypeOK, RecordMatchesChain, Attempt, Verdict
  <2>2. CASE u # cur[e]
    BY <1>c, <2>2 DEF IInv, TypeOK, RecordMatchesChain
  <2> QED
    BY <2>1, <2>2
<1>8. FailedIsExplained'
  BY <1>0, SMTT(20)
     DEF IInv, TypeOK, FailedIsExplained, OwnerState, SendsState, MarkOutcome, storeVars,
         engineVars, Stage, OwningStages, Attempt, GoTo, Fault, NoFault, Webhook,
         UpdateTransactionStatus, HashAfter, Verdict
<1>9. AnnouncedState'
  <2> SUFFICES ASSUME NEW u \in Tx, "confirmed" \in hooks'[u] \/ "failed" \in hooks'[u]
               PROVE  /\ status'[u] \notin {"absent", "queued"}
                      /\ \A f \in Engine : ~Owns(f, u)'
    BY DEF AnnouncedState
  <2>1. CASE u = cur[e]
    <3>1. status'[u] \notin {"absent", "queued"}
      BY <1>0, <1>b, <1>c, <2>1 DEF IInv, TypeOK, Verdict
    <3> QED
      BY <1>a, <1>b, <2>1, <3>1 DEF IInv, TypeOK, Owns, OwningStages, Stage
  <2>2. CASE u # cur[e]
    <3>1. status'[u] = status[u] /\ hooks'[u] = hooks[u]
      BY <1>c, <1>d, <2>2 DEF IInv, TypeOK
    <3> QED
      BY <1>a, <2>2, <3>1 DEF IInv, TypeOK, AnnouncedState, Owns, OwningStages, Stage
  <2> QED
    BY <2>1, <2>2
<1>10. WebhooksAgree'
  <2>1. \A u \in Tx : \/ hooks'[u] = hooks[u]
                      \/ u = cur[e] /\ hooks'[u] = hooks[u] \cup {Verdict(e)}
    BY <1>0, <1>d DEF IInv, TypeOK
  <2> QED
    BY <1>0, <1>a, <1>b, <2>1 DEF IInv, WebhooksAgree, Verdict
<1>11. FaultlessState'
  BY <1>0, SMTT(20)
     DEF IInv, TypeOK, FaultlessState, SendsState, OwnerState, OneOwner, MarkOutcome,
         storeVars, engineVars, Stage, OwningStages, Attempt, Owns, GoTo, Fault, NoFault,
         Webhook, UpdateTransactionStatus, HashAfter, Verdict
<1> QED
  BY <1>1, <1>2, <1>3, <1>4, <1>5, <1>6, <1>7, <1>8, <1>9, <1>10, <1>11 DEF IInv

\* The deferred release ends the attempt and touches no record.
LEMMA ReleaseWalletLockIInv ==
  ASSUME IInv, NEW e \in Engine, ReleaseWalletLock(e)
  PROVE  IInv'
<1>0. pc[e] # "idle" /\ cur[e] \in Tx /\ att[e] \in Attempt
  BY DEF IInv, OwnerState, ReleaseWalletLock, HoldingStages
<1>1. TypeOK'
  <2>1. lock' \in [Wallet -> [holder : Tx \cup Client \cup {NoOne}, until : Nat]]
    <3>1. lock' = lock \/ lock' = LockReleased(WalletOf[cur[e]], cur[e])
      BY DEF ReleaseWalletLock
    <3>2. WalletOf[cur[e]] \in Wallet /\ TypeOK
      BY <1>0 DEF IInv
    <3>3. LockReleased(WalletOf[cur[e]], cur[e])
            \in [Wallet -> [holder : Tx \cup Client \cup {NoOne}, until : Nat]]
      BY <3>2, LockReleasedType
    <3> QED
      BY <3>1, <3>2, <3>3 DEF TypeOK
  <2>2. /\ pc' \in [Engine -> Stage] /\ cur' \in [Engine -> Tx \cup {NoOne}]
        /\ att' \in [Engine -> 0 .. MaxAttempts] /\ due' \in [Engine -> Nat]
    BY DEF IInv, TypeOK, ReleaseWalletLock, Finish, Stage
  <2> QED
    BY <2>1, <2>2 DEF IInv, TypeOK, ReleaseWalletLock, Fault, NoFault, storeVars
<1>2. /\ pc' = [pc EXCEPT ![e] = "idle"] /\ UNCHANGED <<status, attempts, hash, chain, hooks>>
      /\ faults' = 0 => faults = 0
  BY DEF IInv, TypeOK, ReleaseWalletLock, storeVars, Finish, Fault, NoFault
<1> QED
  BY <1>0, <1>1, <1>2, MoveIInv
     DEF IInv, TypeOK, OwnerState, SendsState, ReleaseWalletLock, storeVars, Finish,
         Fault, NoFault, Stage, OwningStages, HoldingStages

\* A crash loses the worker's locals only.
LEMMA CrashIInv == ASSUME IInv, NEW e \in Engine, Crash(e) PROVE IInv'
<1>0. pc[e] # "idle" /\ cur[e] \in Tx /\ att[e] \in Attempt
  BY DEF IInv, OwnerState, Crash, HoldingStages
<1>1. TypeOK'
  BY <1>0, SMTT(20)
     DEF IInv, TypeOK, Crash, storeVars, engineVars, Status, Stage, Event, SendState,
         Attempt, Terminal, Unlocked, OwningStages, HoldingStages, Finish, Fault
<1>2. /\ pc' = [pc EXCEPT ![e] = "idle"] /\ UNCHANGED <<status, attempts, hash, chain, hooks>>
      /\ faults' = 0 => faults = 0
  BY DEF IInv, TypeOK, Crash, storeVars, Finish, Fault
<1> QED
  BY <1>0, <1>1, <1>2, MoveIInv
     DEF IInv, TypeOK, OwnerState, SendsState, Crash, storeVars, Finish, Fault, Stage,
         OwningStages, HoldingStages

\* A cancelled worker releases its lock and leaves its record signing.
LEMMA ShutdownIInv == ASSUME IInv, NEW e \in Engine, Shutdown(e) PROVE IInv'
<1>0. pc[e] # "idle" /\ cur[e] \in Tx /\ att[e] \in Attempt
  BY DEF IInv, OwnerState, Shutdown, HoldingStages
<1>1. TypeOK'
  BY <1>0, SMTT(20)
     DEF IInv, TypeOK, Shutdown, storeVars, engineVars, Status, Stage, Event, SendState,
         Attempt, Terminal, Unlocked, OwningStages, HoldingStages, Finish, Fault,
         LockReleased
<1>2. /\ pc' = [pc EXCEPT ![e] = "idle"] /\ UNCHANGED <<status, attempts, hash, chain, hooks>>
      /\ faults' = 0 => faults = 0
  BY DEF IInv, TypeOK, Shutdown, storeVars, Finish, Fault
<1> QED
  BY <1>0, <1>1, <1>2, MoveIInv
     DEF IInv, TypeOK, OwnerState, SendsState, Shutdown, storeVars, Finish, Fault, Stage,
         OwningStages, HoldingStages

\* The chain decides about attempts that were sent.
LEMMA ReceiptComesIInv == ASSUME IInv, NEW t \in Tx, NEW k \in Attempt, ReceiptComes(t, k) PROVE IInv'
<1>1. TypeOK'
  BY SMTT(20)
     DEF IInv, TypeOK, ReceiptComes, storeVars, engineVars, Status, Stage, Event, SendState,
         Attempt, Terminal, Unlocked, OwningStages, HoldingStages
<1>2. OwnerState'
  BY SMTT(20)
     DEF IInv, TypeOK, OwnerState, OneOwner, ReceiptComes, storeVars, engineVars, Stage,
         OwningStages, Attempt
<1>3. OneOwner'
  BY SMTT(20)
     DEF IInv, TypeOK, OwnerState, OneOwner, ReceiptComes, storeVars, engineVars, Stage,
         OwningStages
<1>4. QueuedIsClaimable'
  BY SMTT(20)
     DEF IInv, TypeOK, OwnerState, QueuedIsClaimable, RecordState, Claimable, ReceiptComes,
         storeVars, engineVars, Stage, OwningStages, Attempt
<1>5. SendsState'
  BY SMTT(20)
     DEF IInv, TypeOK, SendsState, OwnerState, OneOwner, ReceiptComes, storeVars, engineVars,
         Stage, OwningStages, Attempt
<1>6. RecordState'
  BY SMTT(20)
     DEF IInv, TypeOK, RecordState, OwnerState, ReceiptComes, storeVars, engineVars, Stage,
         OwningStages
<1>7. RecordMatchesChain'
  BY SMTT(20)
     DEF IInv, TypeOK, SendsState, OwnerState, OneOwner, RecordState, RecordMatchesChain,
         ReceiptComes, storeVars, engineVars, Stage, OwningStages, Attempt
<1>8. FailedIsExplained'
  <2>1. \A u \in Tx, j \in Attempt : chain[u][j] \in Reverted => chain'[u][j] \in Reverted
    BY DEF IInv, TypeOK, ReceiptComes
  <2> QED
    BY <2>1 DEF IInv, FailedIsExplained, ReceiptComes, storeVars
<1>9. AnnouncedState'
  BY SMTT(20)
     DEF IInv, TypeOK, AnnouncedState, OneOwner, OwnerState, ReceiptComes, storeVars, engineVars,
         Stage, OwningStages, Owns
<1>10. WebhooksAgree'
  <2>1. \A u \in Tx, j \in Attempt : chain[u][j] \in Succeeded => chain'[u][j] \in Succeeded
    BY DEF IInv, TypeOK, ReceiptComes
  <2> QED
    BY <2>1 DEF IInv, WebhooksAgree, ReceiptComes
<1>11. FaultlessState'
  BY SMTT(20)
     DEF IInv, TypeOK, FaultlessState, SendsState, OwnerState, OneOwner, ReceiptComes, storeVars,
         engineVars, Stage, OwningStages, Attempt, Owns
<1> QED
  BY <1>1, <1>2, <1>3, <1>4, <1>5, <1>6, <1>7, <1>8, <1>9, <1>10, <1>11 DEF IInv

\* Time alone changes no record.
LEMMA TickIInv == ASSUME IInv, Tick PROVE IInv'
<1>1. TypeOK'
  BY SMTT(20)
     DEF IInv, TypeOK, Tick, storeVars, engineVars, Status, Stage, Event, SendState,
         Attempt, Terminal, Unlocked, OwningStages, HoldingStages
<1> QED
  BY <1>1, QuietIInv DEF IInv, TypeOK, Tick, storeVars, engineVars

-----------------------------------------------------------------------------

\* Every step keeps the invariant: one lemma per action.
LEMMA NextIInv == IInv /\ [Next]_vars => IInv'
<1> SUFFICES ASSUME IInv, [Next]_vars PROVE IInv'
  OBVIOUS
<1>1. CASE ApiStep
  BY <1>1, EnqueueTransactionIInv, ClientAcquireIInv, ClientReleaseIInv DEF ApiStep
<1>2. ASSUME NEW e \in Engine, EngineStep(e) PROVE IInv'
  BY <1>2, ClaimNextTransactionIInv, AcquireWalletLockIInv, RejectBroadcastIInv,
     StartCommandIInv, SendOnChainIInv, CommandReturnsIInv, CommandFailsIInv,
     MarkTransactionAttemptIInv, MarkSubmittedIInv, MarkOutcomeIInv, ReleaseWalletLockIInv
     DEF EngineStep
<1>3. ASSUME NEW e \in Engine, Crash(e) \/ Shutdown(e) PROVE IInv'
  BY <1>3, CrashIInv, ShutdownIInv
<1>4. CASE ChainStep
  BY <1>4, ReceiptComesIInv, ChainAnswers
<1>5. CASE Tick
  BY <1>5, TickIInv
<1>6. CASE UNCHANGED vars
  BY <1>6 DEF vars, storeVars, engineVars, IInv, TypeOK, OwnerState, OneOwner,
     QueuedIsClaimable, Claimable, SendsState, RecordState, RecordMatchesChain,
     FailedIsExplained, AnnouncedState, WebhooksAgree, FaultlessState, Owns
<1> QED
  BY <1>1, <1>2, <1>3, <1>4, <1>5, <1>6 DEF Next

\* The invariant holds in every reachable state.
THEOREM Invariance == Spec => []IInv
BY InitIInv, NextIInv, PTL DEF Spec

\* Type correctness of the store records, the worker's locals and the chain.
THEOREM TypeCorrect == Spec => []TypeOK
<1>1. IInv => TypeOK
  BY DEF IInv
<1> QED
  BY Invariance, <1>1, PTL

\* A queued transaction can always be claimed: it never starves in the queue
\* because of a spent attempt count.
THEOREM QueueLive == Spec => []QueuedIsClaimable
<1>1. IInv => QueuedIsClaimable
  BY DEF IInv
<1> QED
  BY Invariance, <1>1, PTL

\* One engine at a time works on a transaction, however many share the store.
THEOREM Ownership == Spec => []OneOwner
<1>1. IInv => OneOwner
  BY DEF IInv
<1> QED
  BY Invariance, <1>1, PTL

\* Recorded hashes and confirmations agree with the chain.
THEOREM RecordsSound == Spec => []RecordMatchesChain
<1>1. IInv => RecordMatchesChain
  BY DEF IInv
<1> QED
  BY Invariance, <1>1, PTL

\* A recorded failure has one of the two reasons the worker fails it for.
THEOREM FailuresExplained == Spec => []FailedIsExplained
<1>1. IInv => FailedIsExplained
  BY DEF IInv
<1> QED
  BY Invariance, <1>1, PTL

\* Delivered webhooks never contradict one another or the chain.
THEOREM WebhooksSound == Spec => []WebhooksAgree
<1>1. IInv => WebhooksAgree
  BY DEF IInv
<1> QED
  BY Invariance, <1>1, PTL

\* A second send of a transaction needs a fault.
THEOREM SentOnce == Spec => []SentOnceUnlessFaulty
<1>1. IInv => SentOnceUnlessFaulty
  BY DEF IInv, FaultlessState, SentOnceUnlessFaulty
<1> QED
  BY Invariance, <1>1, PTL

-----------------------------------------------------------------------------
(* Action properties.                                                      *)

\* An engine about to write, send or release holds a transaction without a
\* verdict.
LEMMA OwnedHasNoVerdict ==
  ASSUME IInv, NEW e \in Engine, pc[e] \in OwningStages
  PROVE  cur[e] \in Tx /\ status[cur[e]] \notin Terminal
BY DEF IInv, OwnerState, OwningStages, Stage, Terminal

LEMMA VerdictStep ==
  ASSUME IInv, Next, NEW t \in Tx, status[t] \in Terminal
  PROVE  status'[t] = status[t] /\ hash'[t] = hash[t]
<1> USE DEF Terminal
<1>1. CASE UNCHANGED storeVars
  BY <1>1 DEF storeVars
<1>2. ASSUME NEW u \in Tx, EnqueueTransaction(u) PROVE UNCHANGED <<status[t], hash[t]>>
  BY <1>2 DEF EnqueueTransaction, IInv, TypeOK
<1>3. ASSUME NEW e \in Engine, ClaimNextTransaction(e) PROVE UNCHANGED <<status[t], hash[t]>>
  BY <1>3 DEF ClaimNextTransaction, Claimable, IInv, TypeOK
<1>4. ASSUME NEW e \in Engine, MarkTransactionAttempt(e) PROVE UNCHANGED <<status[t], hash[t]>>
  <2>1. cur[e] \in Tx /\ cur[e] # t
    BY <1>4, OwnedHasNoVerdict DEF MarkTransactionAttempt, OwningStages, Stage
  <2> QED
    BY <1>4, <2>1 DEF MarkTransactionAttempt, MarkTransactionRetry, UpdateTransactionStatus,
       storeVars, IInv, TypeOK
<1>5. ASSUME NEW e \in Engine, MarkSubmitted(e) \/ MarkOutcome(e)
      PROVE UNCHANGED <<status[t], hash[t]>>
  <2>1. cur[e] \in Tx /\ cur[e] # t
    BY <1>5, OwnedHasNoVerdict DEF MarkSubmitted, MarkOutcome, OwningStages, Stage
  <2> QED
    BY <1>5, <2>1
       DEF MarkSubmitted, MarkOutcome, UpdateTransactionStatus, storeVars, IInv, TypeOK
<1>6. ASSUME NEW e \in Engine, EngineStep(e) \/ Crash(e) \/ Shutdown(e)
      PROVE UNCHANGED <<status[t], hash[t]>>
  BY <1>1, <1>3, <1>4, <1>5, <1>6 DEF EngineStep, AcquireWalletLock, RejectBroadcast,
     StartCommand, SendOnChain, CommandReturns, CommandFails, ReleaseWalletLock, Crash, Shutdown
<1>7. ASSUME ApiStep \/ ChainStep \/ Tick PROVE UNCHANGED <<status[t], hash[t]>>
  BY <1>1, <1>2, <1>7, ChainAnswers DEF ApiStep, ClientAcquire, ClientRelease, ReceiptComes, Tick
<1> QED
  BY <1>6, <1>7 DEF Next

\* No late mark, retry or second engine changes a verdict.
THEOREM VerdictFinal == Spec => VerdictIsFinal
<1>1. IInv /\ [Next]_vars =>
        [\A t \in Tx : status[t] \in Terminal => status'[t] = status[t] /\ hash'[t] = hash[t]]_vars
  BY VerdictStep
<1> QED
  BY Invariance, <1>1, PTL DEF Spec, VerdictIsFinal

LEMMA SendStep ==
  ASSUME IInv, Next, NEW t \in Tx, NEW k \in Attempt,
         chain[t][k] = "none", chain'[t][k] = "sent"
  PROVE  status[t] = "signing" /\ attempts[t] = k
<1>1. ASSUME NEW e \in Engine, SendOnChain(e) PROVE status[t] = "signing" /\ attempts[t] = k
  <2>1. cur[e] \in Tx /\ att[e] \in Attempt /\ pc[e] = "command"
    BY <1>1 DEF IInv, OwnerState, SendOnChain
  <2>2. t = cur[e] /\ k = att[e]
    BY <1>1, <2>1 DEF SendOnChain, IInv, TypeOK
  <2> QED
    BY <2>1, <2>2 DEF IInv, OwnerState, OwningStages, Stage
<1>2. ASSUME NEW u \in Tx, NEW j \in Attempt, ReceiptComes(u, j) PROVE FALSE
  BY <1>2 DEF ReceiptComes, IInv, TypeOK
<1>3. ASSUME NEW e \in Engine, EngineStep(e) \/ Crash(e) \/ Shutdown(e)
      PROVE  status[t] = "signing" /\ attempts[t] = k
  BY <1>1, <1>3 DEF EngineStep, ClaimNextTransaction, AcquireWalletLock, RejectBroadcast,
     StartCommand, CommandReturns, CommandFails, MarkTransactionAttempt, MarkSubmitted,
     MarkOutcome, ReleaseWalletLock, Crash, Shutdown
<1>4. ASSUME ApiStep \/ Tick PROVE FALSE
  BY <1>4 DEF ApiStep, EnqueueTransaction, ClientAcquire, ClientRelease, Tick
<1> QED
  BY <1>2, <1>3, <1>4, ChainAnswers DEF Next

\* Every send belongs to the attempt the record shows as being signed.
THEOREM SendDiscipline == Spec => SendOnlyWhileSigning
<1>1. IInv /\ [Next]_vars =>
        [\A t \in Tx, k \in Attempt :
           chain[t][k] = "none" /\ chain'[t][k] = "sent" =>
             status[t] = "signing" /\ attempts[t] = k]_vars
  BY SendStep
<1> QED
  BY Invariance, <1>1, PTL DEF Spec, SendOnlyWhileSigning

\* What a step that changes the holder of a valid lock can have been.
LEMMA LockStep ==
  ASSUME IInv, Next, NEW w \in Wallet,
         lock[w].holder # NoOne, lock[w].holder # lock'[w].holder, lock[w].until >= now
  PROVE  lock'[w].holder = NoOne /\ (lock[w].holder \in Client => pc' = pc)
<1> USE DEF Unlocked
<1>1. lock' # lock
  OBVIOUS
<1>2. \A v \in Wallet, ttl \in Nat : \A id : LockFree(v, id) => lock' # LockTaken(v, id, ttl)
  BY DEF LockFree, LockTaken, IInv, TypeOK
<1>3. ASSUME NEW c \in Client, NEW v \in Wallet, ClientRelease(c, v)
      PROVE  lock'[w].holder = NoOne /\ pc' = pc
  BY <1>3 DEF ClientRelease, LockReleased, engineVars, IInv, TypeOK
<1>4. ASSUME NEW e \in Engine, ReleaseWalletLock(e) \/ Shutdown(e)
      PROVE  lock'[w].holder = NoOne /\ lock[w].holder \notin Client
  <2>1. cur[e] \in Tx /\ WalletOf[cur[e]] \in Wallet
    BY <1>4 DEF IInv, OwnerState, ReleaseWalletLock, Shutdown, HoldingStages
  <2>2. lock' = LockReleased(WalletOf[cur[e]], cur[e])
    BY <1>1, <1>4 DEF ReleaseWalletLock, Shutdown
  <2> QED
    BY <2>1, <2>2 DEF LockReleased, IInv, TypeOK
<1>5. ASSUME NEW e \in Engine PROVE ~AcquireWalletLock(e)
  <2> SUFFICES ASSUME AcquireWalletLock(e) PROVE FALSE
    OBVIOUS
  <2>1. WalletOf[cur[e]] \in Wallet
    BY DEF AcquireWalletLock, IInv, OwnerState
  <2> QED
    BY <1>1, <1>2, <2>1 DEF AcquireWalletLock
<1>6. ASSUME NEW e \in Engine, EngineStep(e) \/ Crash(e) \/ Shutdown(e)
      PROVE  lock'[w].holder = NoOne /\ lock[w].holder \notin Client
  BY <1>1, <1>4, <1>5, <1>6 DEF EngineStep, ClaimNextTransaction, RejectBroadcast,
     StartCommand, SendOnChain, CommandReturns, CommandFails, MarkTransactionAttempt,
     MarkSubmitted, MarkOutcome, Crash
<1>7. ASSUME ApiStep PROVE lock'[w].holder = NoOne /\ pc' = pc
  BY <1>1, <1>2, <1>3, <1>7 DEF ApiStep, EnqueueTransaction, ClientAcquire
<1>8. ~ChainStep /\ ~Tick
  BY <1>1, ChainAnswers DEF ReceiptComes, Tick
<1> QED
  BY <1>6, <1>7, <1>8 DEF Next

\* A lock that is still valid is only ever given up, and a client's only by a
\* client.
THEOREM LocksNotStolen == Spec => LockNotStolen
<1>1. IInv /\ [Next]_vars =>
        [\A w \in Wallet :
           LET old == lock[w].holder
               new == lock'[w].holder
           IN old # NoOne /\ old # new /\ lock[w].until >= now =>
                new = NoOne /\ (old \in Client => pc' = pc)]_vars
  BY LockStep
<1> QED
  BY Invariance, <1>1, PTL DEF Spec, LockNotStolen

-----------------------------------------------------------------------------
(* Clients and a single engine.                                            *)

SoleEngine == \A e, f \in Engine : e = f

\* The last second in which the lock the worker of e took is certainly valid.
HeldUntil(e) ==
  IF pc[e] = "command" THEN CoveredUntil(e) ELSE due[e] - StartDelay + LockTTL

\* Until then the engine holds the lock that it took for the command, which it
\* starts no later than it must.
LockHeld ==
  \A e \in Engine : pc[e] \in {"locked", "command"} =>
    /\ now <= due[e]
    /\ now <= HeldUntil(e) =>
         /\ lock[WalletOf[cur[e]]].holder = cur[e]
         /\ HeldUntil(e) <= lock[WalletOf[cur[e]]].until

\* The steps of a sole engine and of the clients keep LockHeld.
LEMMA LockHeldStep ==
  ASSUME SoleEngine, IInv, LockHeld, [Next]_vars
  PROVE  LockHeld'
<1> USE TimeAssumption DEF SoleEngine, HeldUntil, CoveredUntil
<1>1. ASSUME NEW e \in Engine, EngineStep(e) \/ Crash(e) \/ Shutdown(e)
      PROVE  LockHeld'
  <2>0. \A f \in Engine : f = e
    OBVIOUS
  <2>1. CASE pc'[e] \notin {"locked", "command"}
    BY <2>0, <2>1 DEF LockHeld
  <2>2. CASE AcquireWalletLock(e) /\ pc'[e] = "locked"
    <3>1. /\ cur[e] \in Tx /\ WalletOf[cur[e]] \in Wallet /\ cur' = cur /\ now' = now
          /\ lock' = LockTaken(WalletOf[cur[e]], cur[e], LockTTL)
          /\ due' = [due EXCEPT ![e] = now + StartDelay]
      BY <2>2 DEF AcquireWalletLock, GoTo, IInv, OwnerState, TypeOK
    <3>2. /\ lock'[WalletOf[cur[e]]].holder = cur[e]
          /\ lock'[WalletOf[cur[e]]].until = now + LockTTL
          /\ due'[e] = now + StartDelay
      BY <3>1 DEF LockTaken, IInv, TypeOK
    <3> QED
      BY <2>0, <2>2, <3>1, <3>2 DEF LockHeld, IInv, TypeOK
  <2>3. CASE StartCommand(e)
    <3>1. /\ pc[e] = "locked" /\ pc'[e] = "command" /\ due'[e] = now + CommandTimeout
          /\ UNCHANGED <<lock, cur, now>>
      BY <2>3 DEF StartCommand, IInv, TypeOK
    <3>2. /\ now <= due[e] /\ due[e] \in Nat /\ now \in Nat
          /\ now <= due[e] - StartDelay + LockTTL =>
               /\ lock[WalletOf[cur[e]]].holder = cur[e]
               /\ due[e] - StartDelay + LockTTL <= lock[WalletOf[cur[e]]].until
          /\ cur[e] \in Tx /\ lock[WalletOf[cur[e]]].until \in Nat
      BY <3>1 DEF LockHeld, IInv, TypeOK, OwnerState
    <3>3. HeldUntil(e)' = now - StartDelay + LockTTL
      BY <3>1, <3>2
    <3> QED
      BY <2>0, <3>1, <3>2, <3>3 DEF LockHeld
  <2>4. CASE SendOnChain(e)
    BY <2>4 DEF SendOnChain, LockHeld, engineVars
  <2>5. CASE ClaimNextTransaction(e) /\ UNCHANGED engineVars
    BY <2>5 DEF ClaimNextTransaction, LockHeld, engineVars
  <2>6. CASE ClaimNextTransaction(e) /\ ~UNCHANGED engineVars
    BY <2>1, <2>6 DEF ClaimNextTransaction, IInv, TypeOK
  <2>7. CASE \/ RejectBroadcast(e) \/ CommandReturns(e) \/ CommandFails(e)
             \/ MarkTransactionAttempt(e) \/ MarkSubmitted(e) \/ MarkOutcome(e)
             \/ ReleaseWalletLock(e) \/ Crash(e) \/ Shutdown(e)
             \/ AcquireWalletLock(e) /\ pc'[e] # "locked"
    <3>1. pc'[e] \notin {"locked", "command"}
      BY <2>7 DEF RejectBroadcast, CommandReturns, CommandFails, MarkTransactionAttempt,
         MarkSubmitted, MarkOutcome, ReleaseWalletLock, Crash, Shutdown, AcquireWalletLock,
         GoTo, Finish, IInv, TypeOK
    <3> QED
      BY <2>1, <3>1
  <2> QED
    BY <1>1, <2>2, <2>3, <2>4, <2>5, <2>6, <2>7 DEF EngineStep
<1>0. ASSUME NEW c \in Client, NEW v \in Wallet, NEW ttl \in Nat,
             UNCHANGED <<pc, cur, due, now>>,
             \/ LockFree(v, c) /\ lock' = LockTaken(v, c, ttl)
             \/ lock' = LockReleased(v, c)
      PROVE  LockHeld'
  <2>2. \A e \in Engine : pc[e] \in {"locked", "command"} /\ now <= HeldUntil(e) =>
          lock'[WalletOf[cur[e]]] = lock[WalletOf[cur[e]]]
    <3> SUFFICES ASSUME NEW e \in Engine, pc[e] \in {"locked", "command"}, now <= HeldUntil(e)
                 PROVE  lock'[WalletOf[cur[e]]] = lock[WalletOf[cur[e]]]
      OBVIOUS
    <3>1. /\ cur[e] \in Tx /\ lock[WalletOf[cur[e]]].holder = cur[e]
          /\ now <= lock[WalletOf[cur[e]]].until
      BY DEF LockHeld, IInv, TypeOK, OwnerState
    <3> QED
      BY <1>0, <3>1 DEF LockTaken, LockFree, LockReleased, IInv, TypeOK
  <2> QED
    BY <1>0, <2>2 DEF LockHeld
<1>2. ASSUME NEW c \in Client, NEW v \in Wallet, NEW ttl \in ClientTTLs, ClientAcquire(c, v, ttl)
      PROVE  LockHeld'
  BY <1>0, <1>2 DEF ClientAcquire, engineVars
<1>8. ASSUME NEW c \in Client, NEW v \in Wallet, ClientRelease(c, v)
      PROVE  LockHeld'
  <2>1. \A ttl \in Nat : LockHeld'
    BY <1>0, <1>8 DEF ClientRelease, engineVars
  <2> QED
    BY <2>1
<1>3. ASSUME NEW t \in Tx, EnqueueTransaction(t) PROVE LockHeld'
  BY <1>3 DEF EnqueueTransaction, LockHeld, engineVars
<1>4. CASE ChainStep
  BY <1>4, ChainAnswers DEF ReceiptComes, LockHeld, engineVars
<1>5. CASE Tick
  BY <1>5 DEF Tick, LockHeld, engineVars, IInv, TypeOK
<1>6. CASE UNCHANGED vars
  BY <1>6 DEF vars, engineVars, LockHeld
<1>7. CASE ApiStep
  <2>1. \/ \E t \in Tx : EnqueueTransaction(t)
        \/ \E c \in Client, v \in Wallet :
             \/ \E ttl \in ClientTTLs : ClientAcquire(c, v, ttl)
             \/ ClientRelease(c, v)
    BY <1>7 DEF ApiStep
  <2>2. CASE \E t \in Tx : EnqueueTransaction(t)
    BY <1>3, <2>2
  <2>3. CASE \E c \in Client, v \in Wallet, ttl \in ClientTTLs : ClientAcquire(c, v, ttl)
    BY <1>2, <2>3
  <2>4. CASE \E c \in Client, v \in Wallet : ClientRelease(c, v)
    BY <1>8, <2>4
  <2> QED
    BY <2>1, <2>2, <2>3, <2>4
<1>9. CASE \E e \in Engine : EngineStep(e) \/ Crash(e) \/ Shutdown(e)
  BY <1>1, <1>9
<1> QED
  BY <1>4, <1>5, <1>6, <1>7, <1>9 DEF Next

\* One engine broadcasts for a wallet an API client has locked only with a
\* command that has outlived the lock it was started under, whatever the
\* durations of locks, commands and the delay between them.
THEOREM ClientsExcludeEngine ==
  ASSUME SoleEngine
  PROVE  Spec => []ClientLockRespected
<1>1. Init => LockHeld
  BY DEF Init, LockHeld
<1>2. IInv /\ LockHeld /\ [Next]_vars => LockHeld'
  BY LockHeldStep
<1>3. IInv /\ LockHeld => ClientLockRespected
  BY IdsAssumption, TimeAssumption
     DEF IInv, OwnerState, TypeOK, LockHeld, ClientLockRespected, HeldUntil, CoveredUntil
<1> QED
  BY Invariance, <1>1, <1>2, <1>3, PTL DEF Spec

-----------------------------------------------------------------------------
(* Refinement.                                                             *)

\* The queue starts where the promise starts.
LEMMA PromiseInit == Init => Promise!Init
BY DEF Init, Promise!Init, Phase, SentBy, Attempt

\* Every step of the queue is a step of the promise or changes nothing it speaks of.
LEMMA PromiseStep == ASSUME IInv, [Next]_vars PROVE [Promise!Next]_(Promise!vars)
<1> USE DEF Status, Attempt
<1> DEFINE phase == [t \in Tx |-> Phase(t)]
           sent  == [t \in Tx |-> SentBy(t)]
<1>a. chain' = chain => sent' = sent
  BY DEF SentBy
<1>b. status' = status => phase' = phase
  BY DEF Phase
<1>1. ASSUME UNCHANGED <<status, attempts, chain>> PROVE UNCHANGED Promise!vars
  BY <1>1, <1>a, <1>b DEF Promise!vars
<1>2. ASSUME NEW t \in Tx, EnqueueTransaction(t) PROVE Promise!Accept(t)
  <2>1. /\ status[t] = "absent" /\ status' = [status EXCEPT ![t] = "queued"]
        /\ UNCHANGED <<attempts, chain>>
    BY <1>2 DEF EnqueueTransaction
  <2>2. phase' = [phase EXCEPT ![t] = "pending"]
    BY <2>1 DEF Phase, IInv, TypeOK
  <2>3. phase[t] = "absent" /\ sent' = sent
    BY <2>1, <1>a DEF Phase
  <2> QED
    BY <2>1, <2>2, <2>3 DEF Promise!Accept
<1>3. ASSUME NEW e \in Engine, ClaimNextTransaction(e)
      PROVE  \E t \in Tx : Promise!Try(t)
  <2>1. PICK t \in Tx : /\ status[t] = "queued" /\ attempts[t] < MaxAttempts
                        /\ status'   = [status EXCEPT ![t] = "signing"]
                        /\ attempts' = [attempts EXCEPT ![t] = @ + 1]
                        /\ chain' = chain
    BY <1>3 DEF ClaimNextTransaction, Claimable
  <2>2. phase' = phase /\ phase[t] = "pending" /\ sent' = sent
    BY <2>1, <1>a DEF Phase, IInv, TypeOK
  <2>3. Promise!Try(t)
    BY <2>1, <2>2 DEF Promise!Try
  <2> QED
    BY <2>3
<1>4. ASSUME NEW e \in Engine, SendOnChain(e) PROVE \E t \in Tx : Promise!Send(t)
  <2>1. /\ cur[e] \in Tx /\ att[e] \in Attempt /\ status[cur[e]] = "signing"
        /\ attempts[cur[e]] = att[e] /\ chain[cur[e]][att[e]] = "none"
        /\ chain' = [chain EXCEPT ![cur[e]][att[e]] = "sent"]
        /\ UNCHANGED <<status, attempts>>
    BY <1>4 DEF SendOnChain, IInv, OwnerState, OwningStages, Stage, storeVars
  <2>2. \A t \in Tx : SentBy(t)' = IF t = cur[e] THEN SentBy(t) \cup {att[e]} ELSE SentBy(t)
    BY <2>1 DEF SentBy, IInv, TypeOK
  <2>3. sent' = [sent EXCEPT ![cur[e]] = @ \cup {attempts[cur[e]]}]
    BY <2>1, <2>2
  <2>4. phase' = phase /\ phase[cur[e]] = "pending" /\ attempts[cur[e]] > 0
    BY <2>1, <1>b DEF Phase
  <2>5. attempts[cur[e]] \notin sent[cur[e]]
    BY <2>1 DEF SentBy
  <2>6. PICK t \in Tx : t = cur[e]
    BY <2>1
  <2>7. Promise!Send(t)
    BY <2>1, <2>3, <2>4, <2>5, <2>6 DEF Promise!Send
  <2> QED
    BY <2>7
<1>5. ASSUME NEW e \in Engine, MarkTransactionAttempt(e)
      PROVE  UNCHANGED Promise!vars \/ \E t \in Tx : Promise!Fail(t)
  <2>1. /\ cur[e] \in Tx /\ att[e] \in Attempt /\ status[cur[e]] = "signing"
        /\ attempts[cur[e]] = att[e] /\ UNCHANGED <<attempts, chain>>
    BY <1>5
       DEF MarkTransactionAttempt, UpdateTransactionStatus, MarkTransactionRetry,
           storeVars,
       IInv, OwnerState, OwningStages, Stage
  <2>2. \/ status' = status
        \/ status' = [status EXCEPT ![cur[e]] = "queued"]
        \/ att[e] = MaxAttempts /\ status' = [status EXCEPT ![cur[e]] = "failed"]
    BY <1>5, <2>1 DEF MarkTransactionAttempt, UpdateTransactionStatus, MarkTransactionRetry,
       MayRetry, storeVars
  <2>3. CASE status' = status
    BY <2>1, <2>3, <1>1
  <2>4. CASE status' = [status EXCEPT ![cur[e]] = "queued"]
    <3>1. phase' = phase
      BY <2>1, <2>4 DEF Phase, IInv, TypeOK
    <3> QED
      BY <2>1, <3>1, <1>a DEF Promise!vars
  <2>5. CASE att[e] = MaxAttempts /\ status' = [status EXCEPT ![cur[e]] = "failed"]
    <3>1. phase' = [phase EXCEPT ![cur[e]] = "failed"] /\ phase[cur[e]] = "pending"
      BY <2>1, <2>5 DEF Phase, IInv, TypeOK
    <3>2. PICK t \in Tx : t = cur[e]
      BY <2>1
    <3>3. Promise!Fail(t)
      BY <2>1, <2>5, <3>1, <3>2, <1>a DEF Promise!Fail
    <3> QED
      BY <3>3
  <2> QED
    BY <2>2, <2>3, <2>4, <2>5
<1>6. ASSUME NEW e \in Engine, MarkSubmitted(e) PROVE UNCHANGED Promise!vars
  <2>1. cur[e] \in Tx /\ status[cur[e]] = "signing" /\ UNCHANGED <<attempts, chain>>
    BY <1>6 DEF MarkSubmitted, UpdateTransactionStatus, storeVars, IInv, OwnerState,
       OwningStages, Stage
  <2>2. status' = status \/ status' = [status EXCEPT ![cur[e]] = "submitted"]
    BY <1>6 DEF MarkSubmitted, UpdateTransactionStatus, storeVars
  <2>3. phase' = phase
    BY <2>1, <2>2 DEF Phase, IInv, TypeOK
  <2> QED
    BY <2>1, <2>3, <1>a DEF Promise!vars
<1>7. ASSUME NEW e \in Engine, MarkOutcome(e)
      PROVE  UNCHANGED Promise!vars \/ \E t \in Tx : Promise!Confirm(t) \/ Promise!Fail(t)
  <2>1. /\ cur[e] \in Tx /\ att[e] \in Attempt /\ status[cur[e]] \in {"signing", "submitted"}
        /\ attempts[cur[e]] = att[e] /\ chain[cur[e]][att[e]] # "none"
        /\ UNCHANGED <<attempts, chain>>
    BY <1>7
       DEF MarkOutcome, UpdateTransactionStatus, storeVars, IInv, OwnerState, SendsState,
       OwningStages, Stage
  <2>2. status' = status \/ status' = [status EXCEPT ![cur[e]] = Verdict(e)]
    BY <1>7 DEF MarkOutcome, UpdateTransactionStatus, storeVars
  <2>3. CASE status' = status
    BY <2>1, <2>3, <1>1
  <2>4. CASE status' = [status EXCEPT ![cur[e]] = Verdict(e)]
    <3>1. Verdict(e) \in {"confirmed", "failed"}
      BY DEF Verdict
    <3>2. phase' = [phase EXCEPT ![cur[e]] = Verdict(e)] /\ phase[cur[e]] = "pending"
      BY <2>1, <2>4, <3>1 DEF Phase, IInv, TypeOK
    <3>3. attempts[cur[e]] \in sent[cur[e]]
      BY <2>1 DEF SentBy
    <3>4. PICK t \in Tx : t = cur[e]
      BY <2>1
    <3>5. Promise!Confirm(t) \/ Promise!Fail(t)
      BY <2>1, <3>1, <3>2, <3>3, <3>4, <1>a DEF Promise!Confirm, Promise!Fail
    <3> QED
      BY <3>5
  <2> QED
    BY <2>2, <2>3, <2>4
<1>8. ASSUME NEW t \in Tx, NEW k \in Attempt, ReceiptComes(t, k) PROVE UNCHANGED Promise!vars
  <2>1. UNCHANGED <<status, attempts>>
    BY <1>8 DEF ReceiptComes, storeVars
  <2>2. \A u \in Tx : SentBy(u)' = SentBy(u)
    BY <1>8 DEF ReceiptComes, SentBy, IInv, TypeOK
  <2> QED
    BY <2>1, <2>2, <1>b DEF Promise!vars
<1>9. ASSUME NEW e \in Engine, EngineStep(e) \/ Crash(e) \/ Shutdown(e)
      PROVE  Promise!Next \/ UNCHANGED Promise!vars
  <2>1. CASE \/ AcquireWalletLock(e) \/ RejectBroadcast(e) \/ StartCommand(e)
             \/ CommandReturns(e) \/ CommandFails(e) \/ ReleaseWalletLock(e)
             \/ Crash(e) \/ Shutdown(e)
    <3>1. UNCHANGED <<status, attempts, chain>>
      BY <2>1 DEF AcquireWalletLock, RejectBroadcast, StartCommand,
         CommandReturns, CommandFails, ReleaseWalletLock, Crash, Shutdown, storeVars
    <3> QED
      BY <1>1, <3>1
  <2> QED
    BY <1>3, <1>4, <1>5, <1>6, <1>7, <1>9, <2>1 DEF EngineStep, Promise!Next
<1>10. ASSUME ApiStep PROVE Promise!Next \/ UNCHANGED Promise!vars
  <2>1. CASE \E t \in Tx : EnqueueTransaction(t)
    BY <1>2, <2>1 DEF Promise!Next
  <2>2. CASE ~ \E t \in Tx : EnqueueTransaction(t)
    <3>1. UNCHANGED <<status, attempts, chain>>
      BY <1>10, <2>2 DEF ApiStep, ClientAcquire, ClientRelease, storeVars
    <3> QED
      BY <1>1, <3>1
  <2> QED
    BY <2>1, <2>2
<1>11. ASSUME ChainStep \/ Tick \/ UNCHANGED vars PROVE UNCHANGED Promise!vars
  <2>1. CASE ChainStep
    BY <1>8, <2>1, ChainAnswers
  <2>2. CASE Tick \/ UNCHANGED vars
    BY <1>1, <2>2 DEF Tick, vars, storeVars
  <2> QED
    BY <1>11, <2>1, <2>2
<1> QED
  BY <1>9, <1>10, <1>11 DEF Next

\* The queue and its workers implement the promise, step by step.
THEOREM Refinement == Spec => KeepsPromise
<1>1. Init => Promise!Init
  BY PromiseInit
<1>2. IInv /\ [Next]_vars => [Promise!Next]_(Promise!vars)
  BY PromiseStep
<1> QED
  BY Invariance, <1>1, <1>2, PTL DEF Spec, KeepsPromise, Promise!Spec

-----------------------------------------------------------------------------
(* Stranded records are counted by the faults.                             *)

\* Records in the middle of an attempt that no engine will finish.
Stranded ==
  {t \in Tx : status[t] \in {"signing", "submitted"} /\ ~\E e \in Engine : Owns(e, t)}

StrandedState == IsFiniteSet(Stranded) /\ Cardinality(Stranded) <= faults

\* A step of one engine that keeps what the engine owns, and writes no record
\* or that one only, strands none.
LEMMA KeptStrandsNone ==
  ASSUME NEW e \in Engine,
         \A f \in Engine : f # e => pc'[f] = pc[f] /\ cur'[f] = cur[f],
         \A t \in Tx : Owns(e, t) => Owns(e, t)',
         \A t \in Tx : ~Owns(e, t)' => status'[t] = status[t]
  PROVE  Stranded' \subseteq Stranded
<1> SUFFICES ASSUME NEW t \in Stranded' PROVE t \in Stranded
  OBVIOUS
<1>1. t \in Tx /\ status'[t] \in {"signing", "submitted"}
  BY DEF Stranded
<1>2. \A f \in Engine : ~Owns(f, t)'
  BY DEF Stranded
<1>3. \A f \in Engine : ~Owns(f, t)
  BY <1>1, <1>2 DEF Owns
<1> QED
  BY <1>1, <1>2, <1>3 DEF Stranded

\* A step that lets go of what the engine owns strands that at most.
LEMMA LetGoStrandsOne ==
  ASSUME NEW e \in Engine,
         \A f \in Engine : f # e => pc'[f] = pc[f] /\ cur'[f] = cur[f],
         \A t \in Tx : t # cur[e] => status'[t] = status[t]
  PROVE  Stranded' \subseteq Stranded \cup {cur[e]}
<1> SUFFICES ASSUME NEW t \in Stranded', t # cur[e] PROVE t \in Stranded
  OBVIOUS
<1>1. t \in Tx /\ status[t] \in {"signing", "submitted"}
  BY DEF Stranded
<1>2. \A f \in Engine : ~Owns(f, t)'
  BY DEF Stranded
<1>3. \A f \in Engine : ~Owns(f, t)
  BY <1>2 DEF Owns
<1> QED
  BY <1>1, <1>3 DEF Stranded

\* What an engine strands by a step, and at what cost.
LEMMA EngineStrands ==
  ASSUME IInv, NEW e \in Engine, EngineStep(e) \/ Crash(e) \/ Shutdown(e)
  PROVE  \/ Stranded' \subseteq Stranded /\ faults' \in {faults, faults + 1}
         \/ \E x : Stranded' \subseteq Stranded \cup {x} /\ faults' = faults + 1
<1> USE DEF Stage, OwningStages
<1>1. \A f \in Engine : f # e => pc'[f] = pc[f] /\ cur'[f] = cur[f]
  BY DEF IInv, TypeOK, EngineStep, ClaimNextTransaction, AcquireWalletLock, RejectBroadcast,
     StartCommand, SendOnChain, CommandReturns, CommandFails, MarkTransactionAttempt,
     MarkSubmitted, MarkOutcome, ReleaseWalletLock, Crash, Shutdown, Finish, GoTo, engineVars
<1>2. CASE ClaimNextTransaction(e)
  <2>1. PICK t \in Tx :
          /\ status' = [status EXCEPT ![t] = "signing"]
          /\ \/ faults' = faults /\ pc'[e] = "claimed" /\ cur'[e] = t
             \/ faults' = faults + 1 /\ pc' = pc
    BY <1>2 DEF IInv, TypeOK, ClaimNextTransaction, Fault, NoFault, engineVars
  <2>2. \A u \in Tx : ~Owns(e, u)
    BY <1>2 DEF ClaimNextTransaction, Owns
  <2>3. \A u \in Tx : u # t => status'[u] = status[u]
    BY <2>1 DEF IInv, TypeOK
  <2>4. CASE faults' = faults
    <3>1. Owns(e, t)'
      BY <2>1, <2>4 DEF IInv, TypeOK, Owns
    <3> QED
      BY <1>1, <2>2, <2>3, <2>4, <3>1, KeptStrandsNone DEF IInv, TypeOK
  <2>5. CASE faults' = faults + 1
    <3>1. Stranded' \subseteq Stranded \cup {t}
      BY <1>1, <2>2, <2>3 DEF Stranded, Owns
    <3> QED
      BY <2>5, <3>1
  <2> QED
    BY <2>1, <2>4, <2>5
<1>3. CASE AcquireWalletLock(e) \/ RejectBroadcast(e) \/ StartCommand(e) \/ SendOnChain(e)
             \/ CommandReturns(e) \/ CommandFails(e)
  <2>1. /\ status' = status /\ cur' = cur /\ faults' \in {faults, faults + 1}
        /\ pc'[e] \in OwningStages
    BY <1>3 DEF IInv, TypeOK, AcquireWalletLock, RejectBroadcast, StartCommand, SendOnChain,
                CommandReturns, CommandFails, GoTo, Fault, NoFault, storeVars, engineVars
  <2>2. \A t \in Tx : Owns(e, t) => Owns(e, t)'
    BY <2>1 DEF Owns
  <2> QED
    BY <1>1, <2>1, <2>2, KeptStrandsNone
<1>4. CASE MarkSubmitted(e)
  <2>1. /\ pc'[e] = "recorded" /\ cur' = cur /\ faults' \in {faults, faults + 1}
        /\ \A t \in Tx : t # cur[e] => status'[t] = status[t]
    BY <1>4 DEF IInv, TypeOK, MarkSubmitted, UpdateTransactionStatus, GoTo, Fault, NoFault,
                storeVars
  <2>2. \A t \in Tx : Owns(e, t) => Owns(e, t)'
    BY <2>1 DEF Owns
  <2>3. \A t \in Tx : ~Owns(e, t)' => status'[t] = status[t]
    BY <2>1 DEF Owns
  <2> QED
    BY <1>1, <2>1, <2>2, <2>3, KeptStrandsNone
<1>5. CASE MarkTransactionAttempt(e) \/ MarkOutcome(e)
  <2>1. /\ cur[e] \in Tx
        /\ \A t \in Tx : t # cur[e] => status'[t] = status[t]
    BY <1>5, OwnedHasNoVerdict
       DEF IInv, TypeOK, MarkTransactionAttempt, MarkTransactionRetry, MarkOutcome,
           UpdateTransactionStatus, storeVars
  <2>2. Stranded' \subseteq Stranded \cup {cur[e]}
    BY <1>1, <2>1, LetGoStrandsOne
  <2>3. \/ faults' = faults + 1
        \/ faults' = faults /\ status'[cur[e]] \in {"queued", "failed", "confirmed"}
    BY <1>5, <2>1
       DEF IInv, TypeOK, MarkTransactionAttempt, MarkTransactionRetry, MarkOutcome,
           UpdateTransactionStatus, Verdict, Fault, NoFault
  <2>4. faults' = faults => cur[e] \notin Stranded'
    BY <2>3 DEF IInv, TypeOK, Stranded
  <2> QED
    BY <2>2, <2>3, <2>4
<1>6. CASE ReleaseWalletLock(e)
  <2>1. /\ status' = status /\ pc[e] = "releasing" /\ faults' \in {faults, faults + 1}
    BY <1>6 DEF ReleaseWalletLock, Fault, NoFault, storeVars
  <2>2. \A t \in Tx : ~Owns(e, t)
    BY <2>1 DEF Owns
  <2> QED
    BY <1>1, <2>1, <2>2, KeptStrandsNone
<1>7. CASE Crash(e) \/ Shutdown(e)
  <2>1. status' = status /\ faults' = faults + 1
    BY <1>7 DEF Crash, Shutdown, Fault, storeVars
  <2> QED
    BY <1>1, <2>1, LetGoStrandsOne
<1> QED
  BY <1>2, <1>3, <1>4, <1>5, <1>6, <1>7 DEF EngineStep

\* Requests, the chain and the clock strand none.
LEMMA QuietStrands ==
  ASSUME IInv, StrandedState, ApiStep \/ ChainStep \/ Tick \/ UNCHANGED vars
  PROVE  StrandedState'
<1>1. pc' = pc /\ cur' = cur /\ faults' = faults
  BY ChainAnswers DEF ApiStep, EnqueueTransaction, ClientAcquire, ClientRelease, ReceiptComes, Tick,
     vars, engineVars
<1>2. \A t \in Tx : status'[t] = status[t] \/ status'[t] = "queued"
  BY ChainAnswers
     DEF IInv, TypeOK, ApiStep, EnqueueTransaction, ClientAcquire, ClientRelease, ReceiptComes, Tick, vars, storeVars
<1>3. Stranded' \subseteq Stranded
  BY <1>1, <1>2 DEF Stranded, Owns
<1>4. /\ IsFiniteSet(Stranded') /\ Cardinality(Stranded') \in Nat
      /\ Cardinality(Stranded) \in Nat
      /\ Cardinality(Stranded') <= Cardinality(Stranded)
  BY <1>3, FS_Subset, FS_CardinalityType DEF StrandedState
<1> QED
  BY <1>1, <1>4 DEF IInv, TypeOK, StrandedState

\* One more member is at most one more to count.
LEMMA OneMore ==
  ASSUME NEW S, IsFiniteSet(S), NEW T, NEW x, T \subseteq S \cup {x}
  PROVE  /\ IsFiniteSet(T) /\ Cardinality(T) \in Nat /\ Cardinality(S) \in Nat
         /\ Cardinality(T) <= Cardinality(S) + 1
<1>1. /\ IsFiniteSet(S \cup {x}) /\ Cardinality(S) \in Nat
      /\ Cardinality(S \cup {x}) = IF x \in S THEN Cardinality(S) ELSE Cardinality(S) + 1
  BY FS_AddElement, FS_CardinalityType
<1>2. /\ IsFiniteSet(T) /\ Cardinality(T) \in Nat
      /\ Cardinality(T) <= Cardinality(S \cup {x})
  BY <1>1, FS_Subset, FS_CardinalityType
<1> QED
  BY <1>1, <1>2

\* However many engines there are, no more transactions are left in the middle
\* of an attempt by them all than there were crashes, shutdowns, lost answers
\* and lost marks (nothing else strands one, and no query takes one back).
THEOREM StrandedCounted == Spec => []StrandedBounded
<1>1. Init => StrandedState
  <2> SUFFICES ASSUME Init PROVE StrandedState
    OBVIOUS
  <2>1. Stranded = {}
    BY DEF Init, Stranded
  <2> QED
    BY <2>1, FS_EmptySet DEF Init, StrandedState
<1>2. IInv /\ StrandedState /\ [Next]_vars => StrandedState'
  <2> SUFFICES ASSUME IInv, StrandedState, [Next]_vars PROVE StrandedState'
    OBVIOUS
  <2>1. ASSUME NEW e \in Engine, EngineStep(e) \/ Crash(e) \/ Shutdown(e)
        PROVE  StrandedState'
    <3>1. PICK x : /\ Stranded' \subseteq Stranded \cup {x}
                   /\ \/ Stranded' \subseteq Stranded /\ faults' \in {faults, faults + 1}
                      \/ faults' = faults + 1
      BY <2>1, EngineStrands
    <3>2. /\ IsFiniteSet(Stranded') /\ Cardinality(Stranded') \in Nat
          /\ Cardinality(Stranded) \in Nat
          /\ Cardinality(Stranded') <= Cardinality(Stranded) + 1
      BY <3>1, OneMore DEF StrandedState
    <3>3. Stranded' \subseteq Stranded => Cardinality(Stranded') <= Cardinality(Stranded)
      BY FS_Subset DEF StrandedState
    <3> QED
      BY <3>1, <3>2, <3>3 DEF IInv, TypeOK, StrandedState
  <2> QED
    BY <2>1, QuietStrands DEF Next
<1>3. StrandedState => StrandedBounded
  BY DEF StrandedState, StrandedBounded, Stranded, Owns
<1> QED
  BY <1>1, <1>2, <1>3, Invariance, PTL DEF Spec
=============================================================================
