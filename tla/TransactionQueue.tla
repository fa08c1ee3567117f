--------------------------- MODULE TransactionQueue ---------------------------
(***************************************************************************)
(* The durable transaction queue of GMR Engine, the per-wallet lock, and   *)
(* the worker loop that signs and broadcasts queued transactions           *)
(* (internal/deployer/deployer.go over internal/store/memgraph.go).        *)
(*                                                                         *)
(* A store call is one atomic step (one Memgraph write transaction).  An   *)
(* engine process runs one worker goroutine, so its program counter        *)
(* stands between two store calls or inside the broadcast command.         *)
(* Time is counted in the whole seconds of the RFC3339 timestamps the      *)
(* store compares, scaled down.  Attempt number k of transaction t sends   *)
(* at most once, so k also names that send's hash; 0 is the empty hash.    *)
(***************************************************************************)
EXTENDS Integers, FiniteSets

CONSTANTS
  Tx,             \* identifiers of transactions that may be enqueued
  Wallet,         \* the (app, wallet address) pairs that locks are kept for
  WalletOf,       \* the wallet each transaction is to be sent from
  Engine,         \* engine processes sharing the store
  Client,         \* identifiers API clients pass to the wallet-lock routes
  NoOne,          \* no lock holder, no transaction in hand
  MaxAttempts,    \* the literal 3 of the claim query and markTransactionAttempt
  LockTTL,        \* seconds a worker's wallet lock lasts (300)
  CommandTimeout, \* seconds a broadcast command may run (300)
  StartDelay,     \* most seconds between taking the lock and the command start
  ClientTTLs,     \* lock durations API clients ask for
  MaxNow,         \* bound on the clock
  MaxFaults,      \* bound on crashes, lost store answers and lost receipts
  MaxDisplaced    \* bound on sends whose nonce another transaction takes

ASSUME TxAssumption == NoOne \notin Tx /\ NoOne \notin Client
ASSUME IdsAssumption == Tx \cap Client = {}
ASSUME WalletAssumption == WalletOf \in [Tx -> Wallet]
ASSUME AttemptsAssumption == MaxAttempts \in Nat \ {0}
ASSUME TimeAssumption ==
  /\ LockTTL \in Nat /\ CommandTimeout \in Nat /\ StartDelay \in Nat
  /\ ClientTTLs \subseteq Nat
  /\ MaxNow \in Nat /\ MaxFaults \in Nat /\ MaxDisplaced \in Nat

VARIABLES
  status,    \* EngineTransaction.status, "absent" before the node exists
  attempts,  \* EngineTransaction.attemptCount
  hash,      \* EngineTransaction.transactionHash
  queuedAt,  \* EngineTransaction.queuedAt
  lock,      \* EngineWalletLock nodes by wallet
  pc,        \* where each engine's processTransaction stands
  cur,       \* the transaction it claimed
  att,       \* the attemptCount in the record the claim returned
  due,       \* the last second at which it may still be at this pc
  chain,     \* what became of the send of each attempt
  hooks,     \* webhook events delivered for each transaction
  now,       \* the clock
  faults     \* faults so far

storeVars  == <<status, attempts, hash, queuedAt>>
engineVars == <<pc, cur, att, due>>
vars == <<storeVars, lock, engineVars, chain, hooks, now, faults>>

Status   == {"absent", "queued", "signing", "submitted", "confirmed", "failed"}
Terminal == {"confirmed", "failed"}
Stage    == {"idle", "claimed", "denied", "locked", "command", "errored",
             "broadcast", "recorded", "releasing"}
Event    == {"submitted", "confirmed", "failed"}

\* What became of a send: not yet mined, mined itself, or displaced, when another
\* transaction of the wallet took its nonce.  The receipt a script is given is
\* that of the transaction mined, of whichever it is.
Succeeded == {"success", "displacedSuccess"}
Reverted  == {"reverted", "displacedReverted"}
Answered  == Succeeded \cup Reverted
Displaced == {"displacedSuccess", "displacedReverted"}
SendState == {"none", "sent"} \cup Answered
Attempt  == 1 .. MaxAttempts
Unlocked == [holder |-> NoOne, until |-> 0]

\* Stages in which processTransaction has a deferred ReleaseWalletLock pending.
HoldingStages == {"locked", "command", "errored", "broadcast", "recorded", "releasing"}
\* Stages before the write that ends the attempt.
OwningStages  == Stage \ {"idle", "releasing"}

Fault   == faults < MaxFaults /\ faults' = faults + 1
NoFault == UNCHANGED faults

Init ==
  /\ status   = [t \in Tx |-> "absent"]
  /\ attempts = [t \in Tx |-> 0]
  /\ hash     = [t \in Tx |-> 0]
  /\ queuedAt = [t \in Tx |-> 0]
  /\ lock     = [w \in Wallet |-> Unlocked]
  /\ pc       = [e \in Engine |-> "idle"]
  /\ cur      = [e \in Engine |-> NoOne]
  /\ att      = [e \in Engine |-> 0]
  /\ due      = [e \in Engine |-> 0]
  /\ chain    = [t \in Tx |-> [k \in Attempt |-> "none"]]
  /\ hooks    = [t \in Tx |-> {}]
  /\ now      = 0
  /\ faults   = 0

-----------------------------------------------------------------------------
(* Store operations, as the next values of the nodes they write.           *)

\* Stored hash after an update that carries h: an empty h keeps the old one.
HashAfter(t, h) == IF h # 0 THEN h ELSE hash[t]

\* MarkTransactionSubmitted, Confirmed and Failed: by id, whatever the status.
UpdateTransactionStatus(t, s, h) ==
  /\ status' = [status EXCEPT ![t] = s]
  /\ hash'   = [hash EXCEPT ![t] = HashAfter(t, h)]
  /\ UNCHANGED <<attempts, queuedAt>>

\* The retry keeps the status and only moves the record back in the order.
MarkTransactionRetryInPlace(t) ==
  /\ queuedAt' = [queuedAt EXCEPT ![t] = now]
  /\ UNCHANGED <<status, attempts, hash>>

MarkTransactionRetry(t) ==
  /\ status'   = [status EXCEPT ![t] = "queued"]
  /\ queuedAt' = [queuedAt EXCEPT ![t] = now]
  /\ UNCHANGED <<attempts, hash>>

\* Picks up work an engine has already taken, e.g. to recover stuck records.
ClaimableSigning(t) == status[t] \in {"queued", "signing"} /\ attempts[t] < MaxAttempts

Claimable(t) == status[t] = "queued" /\ attempts[t] < MaxAttempts

\* MERGE on the wallet, then the WHERE of the SET.
LockFree(w, id) ==
  \/ lock[w].holder \in {NoOne, id}
  \/ lock[w].until < now

LockTaken(w, id, ttl) ==
  [lock EXCEPT ![w] = [holder |-> id, until |-> now + ttl]]

\* A release keyed by wallet alone.
LockReleasedAny(w, id) == [lock EXCEPT ![w] = Unlocked]

\* ReleaseWalletLock deletes the node only when transactionId matches.
LockReleased(w, id) ==
  IF lock[w].holder = id THEN [lock EXCEPT ![w] = Unlocked] ELSE lock

\* A webhook is posted once, after the mark, and nobody learns that it failed.
Webhook(t, event) == hooks' \in {hooks, [hooks EXCEPT ![t] = @ \cup {event}]}

-----------------------------------------------------------------------------
(* API requests.                                                           *)

EnqueueTransaction(t) ==
  /\ status[t] = "absent"
  /\ status'   = [status EXCEPT ![t] = "queued"]
  /\ queuedAt' = [queuedAt EXCEPT ![t] = now]
  /\ UNCHANGED <<attempts, hash, lock, engineVars, chain, hooks, now, faults>>

ClientAcquire(c, w, ttl) ==
  /\ LockFree(w, c)
  /\ lock' = LockTaken(w, c, ttl)
  /\ UNCHANGED <<storeVars, engineVars, chain, hooks, now, faults>>

ClientRelease(c, w) ==
  /\ lock[w].holder = c
  /\ lock' = LockReleased(w, c)
  /\ UNCHANGED <<storeVars, engineVars, chain, hooks, now, faults>>

-----------------------------------------------------------------------------
(* One engine's processTransaction.                                        *)

Finish(e) ==
  /\ pc'  = [pc EXCEPT ![e] = "idle"]
  /\ cur' = [cur EXCEPT ![e] = NoOne]
  /\ att' = [att EXCEPT ![e] = 0]
  /\ due' = [due EXCEPT ![e] = 0]

GoTo(e, stage) ==
  /\ pc'  = [pc EXCEPT ![e] = stage]
  /\ due' = [due EXCEPT ![e] = 0]
  /\ UNCHANGED <<cur, att>>

\* The claim commits; the engine gets the record, or the answer is lost.
ClaimNextTransaction(e) ==
  /\ pc[e] = "idle"
  /\ \E t \in Tx :
       /\ Claimable(t)
       /\ \A u \in Tx : Claimable(u) => queuedAt[t] <= queuedAt[u]
       /\ status'   = [status EXCEPT ![t] = "signing"]
       /\ attempts' = [attempts EXCEPT ![t] = @ + 1]
       /\ \/ /\ NoFault
             /\ pc'  = [pc EXCEPT ![e] = "claimed"]
             /\ cur' = [cur EXCEPT ![e] = t]
             /\ att' = [att EXCEPT ![e] = attempts[t] + 1]
             /\ UNCHANGED due
          \/ Fault /\ UNCHANGED engineVars
  /\ UNCHANGED <<hash, queuedAt, lock, chain, hooks, now>>

\* Granted, refused, or an error whose write may or may not have happened.
AcquireWalletLock(e) ==
  LET t == cur[e]
      w == WalletOf[t]
  IN
  /\ pc[e] = "claimed"
  /\ \/ /\ NoFault /\ LockFree(w, t)
        /\ lock' = LockTaken(w, t, LockTTL)
        /\ pc'   = [pc EXCEPT ![e] = "locked"]
        /\ due'  = [due EXCEPT ![e] = now + StartDelay]
        /\ UNCHANGED <<cur, att>>
     \/ /\ NoFault /\ ~LockFree(w, t)
        /\ GoTo(e, "denied")
        /\ UNCHANGED lock
     \/ /\ Fault
        /\ GoTo(e, "denied")
        /\ \/ UNCHANGED lock
           \/ LockFree(w, t) /\ lock' = LockTaken(w, t, LockTTL)
  /\ UNCHANGED <<storeVars, chain, hooks, now>>

\* Unsupported kind or method, missing arguments, or no usable signer: every
\* early return of the broadcast functions before a command is started.
RejectBroadcast(e) ==
  /\ pc[e] = "locked"
  /\ GoTo(e, "errored")
  /\ UNCHANGED <<storeVars, lock, chain, hooks, now, faults>>

StartCommand(e) ==
  /\ pc[e] = "locked"
  /\ pc'  = [pc EXCEPT ![e] = "command"]
  /\ due' = [due EXCEPT ![e] = now + CommandTimeout]
  /\ UNCHANGED <<storeVars, lock, cur, att, chain, hooks, now, faults>>

\* The script's single writeContract.
SendOnChain(e) ==
  /\ pc[e] = "command"
  /\ chain[cur[e]][att[e]] = "none"
  /\ chain' = [chain EXCEPT ![cur[e]][att[e]] = "sent"]
  /\ UNCHANGED <<storeVars, lock, engineVars, hooks, now, faults>>

\* The script printed its hash with the status of the receipt it was given.
CommandReturns(e) ==
  /\ pc[e] = "command"
  /\ chain[cur[e]][att[e]] \in Answered
  /\ GoTo(e, "broadcast")
  /\ UNCHANGED <<storeVars, lock, chain, hooks, now, faults>>

\* The script exits with an error on a reverted receipt.
CommandFailsOnRevert(e) ==
  /\ pc[e] = "command"
  /\ IF chain[cur[e]][att[e]] \in {"none"} \cup Reverted THEN NoFault ELSE Fault
  /\ GoTo(e, "errored")
  /\ UNCHANGED <<storeVars, lock, chain, hooks, now>>

\* The script failed, was killed at its timeout, or printed no hash.  Once it
\* has sent, that is a lost receipt: the worker cannot tell it from no send.
CommandFails(e) ==
  /\ pc[e] = "command"
  /\ IF chain[cur[e]][att[e]] = "none" THEN NoFault ELSE Fault
  /\ GoTo(e, "errored")
  /\ UNCHANGED <<storeVars, lock, chain, hooks, now>>

\* One attempt too many is put back.
MayRetryOffByOne(e) == att[e] <= MaxAttempts

\* One attempt too few.
MayRetryTooFew(e) == att[e] + 1 < MaxAttempts

MayRetry(e) == att[e] < MaxAttempts

\* markTransactionAttempt; the store's error is dropped.
MarkTransactionAttempt(e) ==
  LET t == cur[e] IN
  /\ pc[e] \in {"denied", "errored"}
  /\ IF MayRetry(e) THEN UNCHANGED hooks ELSE Webhook(t, "failed")
  /\ \/ NoFault /\ MayRetry(e) /\ MarkTransactionRetry(t)
     \/ NoFault /\ ~MayRetry(e) /\ UpdateTransactionStatus(t, "failed", 0)
     \/ Fault /\ UNCHANGED storeVars
  /\ IF pc[e] = "denied" THEN Finish(e) ELSE GoTo(e, "releasing")
  /\ UNCHANGED <<lock, chain, now>>

MarkSubmitted(e) ==
  LET t == cur[e] IN
  /\ pc[e] = "broadcast"
  /\ \/ NoFault /\ UpdateTransactionStatus(t, "submitted", att[e])
     \/ Fault /\ UNCHANGED storeVars
  /\ Webhook(t, "submitted")
  /\ GoTo(e, "recorded")
  /\ UNCHANGED <<lock, chain, now>>

\* A receipt is taken for a success without looking at its status.
VerdictOfAnyReceipt(e) == "confirmed"

\* The status the script printed decides the verdict.
Verdict(e) ==
  IF chain[cur[e]][att[e]] \in Succeeded THEN "confirmed" ELSE "failed"

MarkOutcome(e) ==
  LET t == cur[e] IN
  /\ pc[e] = "recorded"
  /\ \/ /\ NoFault
        /\ UpdateTransactionStatus(t, Verdict(e),
                                   IF Verdict(e) = "confirmed" THEN att[e] ELSE 0)
     \/ Fault /\ UNCHANGED storeVars
  /\ Webhook(t, Verdict(e))
  /\ GoTo(e, "releasing")
  /\ UNCHANGED <<lock, chain, now>>

\* The deferred release, on a context of its own; its error is dropped too.
ReleaseWalletLock(e) ==
  /\ pc[e] = "releasing"
  /\ \/ NoFault /\ lock' = LockReleased(WalletOf[cur[e]], cur[e])
     \/ Fault /\ UNCHANGED lock
  /\ Finish(e)
  /\ UNCHANGED <<storeVars, chain, hooks, now>>

-----------------------------------------------------------------------------
(* Environment.                                                            *)

\* The process dies (or main returns before the worker has) and is restarted.
Crash(e) ==
  /\ pc[e] # "idle"
  /\ Fault
  /\ Finish(e)
  /\ UNCHANGED <<storeVars, lock, chain, hooks, now>>

\* SIGTERM cancels the worker's context: the command is killed, every mark
\* fails, and only the deferred release still reaches the store.
Shutdown(e) ==
  /\ pc[e] \in HoldingStages
  /\ Fault
  /\ lock' = LockReleased(WalletOf[cur[e]], cur[e])
  /\ Finish(e)
  /\ UNCHANGED <<storeVars, chain, hooks, now>>

Mine(t, k) ==
  /\ chain[t][k] = "sent"
  /\ \E outcome \in {"success", "reverted"} :
       chain' = [chain EXCEPT ![t][k] = outcome]
  /\ UNCHANGED <<storeVars, lock, engineVars, hooks, now, faults>>

\* Another transaction of the wallet, sent by a program that holds no lock or by
\* a command that outlived its lock, is mined with the nonce of this one.
Displace(t, k) ==
  /\ chain[t][k] = "sent"
  /\ Cardinality({s \in Tx \X Attempt : chain[s[1]][s[2]] \in Displaced}) < MaxDisplaced
  /\ \E outcome \in Displaced : chain' = [chain EXCEPT ![t][k] = outcome]
  /\ UNCHANGED <<storeVars, lock, engineVars, hooks, now, faults>>

\* A second passes; commands do not outlive their timeout.
Tick ==
  /\ now < MaxNow
  /\ \A e \in Engine : pc[e] \in {"locked", "command"} => now < due[e]
  /\ now' = now + 1
  /\ UNCHANGED <<storeVars, lock, engineVars, chain, hooks, faults>>

-----------------------------------------------------------------------------

EngineStep(e) ==
  \/ ClaimNextTransaction(e) \/ AcquireWalletLock(e)
  \/ RejectBroadcast(e) \/ StartCommand(e)
  \/ SendOnChain(e) \/ CommandReturns(e) \/ CommandFails(e)
  \/ MarkTransactionAttempt(e) \/ MarkSubmitted(e) \/ MarkOutcome(e)
  \/ ReleaseWalletLock(e)

ApiStep ==
  \/ \E t \in Tx : EnqueueTransaction(t)
  \/ \E c \in Client, w \in Wallet :
       \/ \E ttl \in ClientTTLs : ClientAcquire(c, w, ttl)
       \/ ClientRelease(c, w)

ChainStep == \E t \in Tx, k \in Attempt : Mine(t, k) \/ Displace(t, k)

Next ==
  \/ ApiStep
  \/ \E e \in Engine : EngineStep(e) \/ Crash(e) \/ Shutdown(e)
  \/ ChainStep
  \/ Tick

Spec == Init /\ [][Next]_vars

\* The worker goroutine loops on its ticker and the chain mines what it got.
\* Clients, faults and the clock owe nothing.
Fairness ==
  /\ \A e \in Engine : WF_vars(EngineStep(e))
  /\ WF_vars(ChainStep)

FairSpec == Spec /\ Fairness
-----------------------------------------------------------------------------
(* Properties.                                                             *)

\* Every variable keeps the shape the records in the store and the worker's
\* locals have.
TypeOK ==
  /\ status   \in [Tx -> Status]
  /\ attempts \in [Tx -> 0 .. MaxAttempts]
  /\ hash     \in [Tx -> 0 .. MaxAttempts]
  /\ queuedAt \in [Tx -> Nat]
  /\ lock     \in [Wallet -> [holder : Tx \cup Client \cup {NoOne}, until : Nat]]
  /\ pc       \in [Engine -> Stage]
  /\ cur      \in [Engine -> Tx \cup {NoOne}]
  /\ att      \in [Engine -> 0 .. MaxAttempts]
  /\ due      \in [Engine -> Nat]
  /\ chain    \in [Tx -> [Attempt -> SendState]]
  /\ hooks    \in [Tx -> SUBSET Event]
  /\ now      \in Nat
  /\ faults   \in Nat

\* The retry decision (markTransactionAttempt) and the claim query test the
\* attempt count separately: nothing is put back in the queue that no claim
\* would ever take again.
QueuedIsClaimable == \A t \in Tx : status[t] = "queued" => Claimable(t)

\* Two engine processes never work on the same transaction.
OneOwner ==
  \A e, f \in Engine :
    e # f /\ pc[e] \in OwningStages /\ pc[f] \in OwningStages => cur[e] # cur[f]

\* A recorded hash is that of the last attempt, which was mined or displaced; a
\* confirmed record carries a hash, and the transaction mined with its nonce, be
\* it its own or the one that displaced it, succeeded, whichever of the two
\* marks was lost on the way (MarkTransactionSubmitted, MarkTransactionConfirmed).
RecordMatchesChain ==
  \A t \in Tx :
    /\ hash[t] # 0 => hash[t] = attempts[t] /\ chain[t][hash[t]] \in Answered
    /\ status[t] = "confirmed" => hash[t] # 0 /\ chain[t][hash[t]] \in Succeeded

\* A transaction is recorded as failed only after its last attempt, or because
\* the chain reverted it or what displaced it.
FailedIsExplained ==
  \A t \in Tx : status[t] = "failed" =>
    \/ attempts[t] = MaxAttempts
    \/ \E k \in Attempt : chain[t][k] \in Reverted

\* Webhook receivers are never told both verdicts of one transaction, and are
\* told "confirmed" only of one that succeeded on chain, or what displaced it.
WebhooksAgree ==
  \A t \in Tx :
    /\ ~({"confirmed", "failed"} \subseteq hooks[t])
    /\ "confirmed" \in hooks[t] => \E k \in Attempt : chain[t][k] \in Succeeded

\* As long as no receipt, store answer or process was lost, a transaction is
\* sent to the chain at most once, however many attempts it took.
SentOnceUnlessFaulty ==
  faults = 0 => \A t \in Tx, j, k \in Attempt :
    chain[t][j] # "none" /\ chain[t][k] # "none" => j = k

\* No query takes back a record whose engine is gone.  Each crash, lost answer
\* or lost mark strands at most one, and nothing else strands any.
StrandedBounded ==
  Cardinality({t \in Tx : status[t] \in {"signing", "submitted"}
                 /\ ~\E e \in Engine : pc[e] \in OwningStages /\ cur[e] = t}) <= faults

\* Nothing is broadcast for a record the queue does not show as being signed:
\* in particular nothing after a verdict or while it waits for a retry.
SendOnlyWhileSigning ==
  [][\A t \in Tx, k \in Attempt :
       chain[t][k] = "none" /\ chain'[t][k] = "sent" =>
         status[t] = "signing" /\ attempts[t] = k]_vars

\* A verdict is final: no late mark, retry or second engine changes it.
VerdictIsFinal ==
  [][\A t \in Tx : status[t] \in Terminal =>
       status'[t] = status[t] /\ hash'[t] = hash[t]]_vars

\* A lock that has not expired never passes from one holder to another, and no
\* worker removes a client's lock.
LockNotStolen ==
  [][\A w \in Wallet :
       LET old == lock[w].holder
           new == lock'[w].holder
       IN old # NoOne /\ old # new /\ lock[w].until >= now =>
            new = NoOne /\ (old \in Client => pc' = pc)]_vars

\* The second in which the command of e started is at most due[e] - CommandTimeout,
\* and its lock was taken up to StartDelay before: the last second in which that
\* lock was certainly valid.
CoveredUntil(e) == due[e] - CommandTimeout - StartDelay + LockTTL

\* An API client that holds a wallet's lock has the wallet to himself, but for a
\* command that has outlived the worker's own lock, which lasts 300 seconds while
\* the command lasts 300 from a later start: whatever clients take, release and
\* ask to hold, they meet a command in no other second.  Holds of one engine.
ClientLockRespected ==
  \A e \in Engine : pc[e] = "command" =>
    LET l == lock[WalletOf[cur[e]]] IN
      l.holder \in Client /\ l.until >= now => now > CoveredUntil(e)

\* Two engines never run broadcast commands for one wallet at the same time,
\* which is what makes the wallet "busy" for the others.
WalletExclusive ==
  \A e, f \in Engine :
    e # f /\ pc[e] = "command" /\ pc[f] = "command" =>
      WalletOf[cur[e]] # WalletOf[cur[f]]

\* What a client that polls the transaction can tell of its status, and the
\* attempts of it that reached the chain.
Phase(t) == IF status[t] \in {"queued", "signing", "submitted"} THEN "pending" ELSE status[t]
SentBy(t) == {k \in Attempt : chain[t][k] # "none"}

\* The queue keeps the promise of TransactionPromise: a refinement that forgets
\* who works on a transaction and which stage it is in.
Promise == INSTANCE TransactionPromise WITH
  phase <- [t \in Tx |-> Phase(t)],
  tries <- attempts,
  sent  <- [t \in Tx |-> SentBy(t)]

\* Bounded tries, one send per try and one verdict, given for a reason, hold of
\* the worker loop with any number of engines, crashes and lost answers.
KeepsPromise == Promise!Spec

\* Without faults every queued transaction reaches a verdict.
Settles == \A t \in Tx : status[t] = "queued" ~> status[t] \in Terminal
=============================================================================
