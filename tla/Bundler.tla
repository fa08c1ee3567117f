------------------------------ MODULE Bundler ------------------------------
(***************************************************************************)
(* Sponsored operations of smart accounts: the private bundler             *)
(* (scripts/aa/private-bundler.ts), which signs sponsorships and sends     *)
(* operations, and the paymaster (contracts/aa/BudolTradePaymaster.sol),   *)
(* which pays for those it finds signed.  The entry point and the chain    *)
(* are external.                                                           *)
(*                                                                         *)
(* An operation is a sender, a nonce and a call; a user operation adds the *)
(* time to which its sponsorship is valid, or NotSponsored.  The bundler   *)
(* forgets what it sent when it restarts, and finds it again in the logs   *)
(* of the last LogWindow blocks; a block is mined every second, and no     *)
(* block has the time 0, which a sponsorship without an end has.  A        *)
(* transaction may be replaced by one of the same account nonce.  Gas      *)
(* estimates and prices are left out.                                      *)
(***************************************************************************)
EXTENDS Integers, Sequences, FiniteSets

CONSTANTS
  Op,            \* operations that clients make
  SenderOf,      \* the smart account of each
  NonceOf,       \* its nonce in the entry point
  TargetOf,      \* what its call pays: token and recipient
  Target,        \* tokens and recipients
  Request,       \* calls of eth_sendUserOperation in flight
  NoOp,          \* the operation of an idle request
  NotSponsored,  \* the end of no sponsorship
  ValidSeconds,  \* HORIZEN_AA_PAYMASTER_VALID_SECONDS
  LogWindow,     \* blocks searched for a log
  FirstDeposit,  \* deposits of the paymaster, in operations
  MaxTx,         \* bound on transactions
  MaxNow,        \* bound on the clock
  MaxAdmin,      \* bound on calls of the paymaster's owner
  MaxRestarts,   \* bound on restarts of the bundler
  MaxReplaced    \* bound on replaced transactions

OpAssumption ==
  /\ NonceOf \in [Op -> Nat]
  /\ TargetOf \in [Op -> Target]
  /\ DOMAIN SenderOf = Op
  /\ NoOp \notin Op
TimeAssumption ==
  /\ {ValidSeconds, LogWindow, FirstDeposit, MaxTx} \subseteq Nat
  /\ MaxNow \in Nat \ {0}
  /\ NotSponsored \notin Nat

VARIABLES
  signed,     \* sponsorships the bundler signed: operation, end, time
  request,    \* what each request is sending: stage, user operation, nonce, tx
  operations, \* the bundler's Map from user operations to transactions
  txs,        \* transactions sent: user operation, account nonce, state, time
  enabled, signer, sponsored, deposit, \* the paymaster's fields
  now,        \* seconds, and blocks
  admin,      \* calls of the owner so far
  restarts, replaced

bundlerVars == <<signed, request, operations>>
paymasterVars == <<enabled, signer, sponsored, deposit, admin>>
vars == <<signed, request, operations, txs, enabled, signer, sponsored,
          deposit, now, admin, restarts, replaced>>

Until  == 0 .. MaxNow + ValidSeconds
UserOp == [op : Op, until : Until \cup {NotSponsored}]
Key    == {"bundler", "other"}
Mined  == {"success", "failed"}
State  == {"pending", "replaced", "reverted"} \cup Mined
Idle   == [stage |-> "idle", uop |-> NoOp, nonce |-> 0, tx |-> 0]

TypeOK ==
  /\ signed \subseteq [op : Op, until : Until, at : 1 .. MaxNow]
  /\ \A r \in Request : request[r] = Idle \/
       /\ request[r].stage \in {"prepared", "sent"}
       /\ request[r].uop \in UserOp
       /\ request[r].stage = "sent" =>
            /\ request[r].tx \in DOMAIN txs
            /\ txs[request[r].tx].uop = request[r].uop
  /\ DOMAIN operations \subseteq UserOp
  /\ \A u \in DOMAIN operations :
       operations[u] \in DOMAIN txs /\ txs[operations[u]].uop = u
  /\ txs \in Seq([uop : UserOp, nonce : Nat, state : State, at : 0 .. MaxNow])
  /\ Len(txs) <= MaxTx
  /\ enabled \in BOOLEAN /\ signer \in Key /\ sponsored \in Target
  /\ deposit \in Nat
  /\ now \in 1 .. MaxNow

Init ==
  /\ signed     = {}
  /\ request    = [r \in Request |-> Idle]
  /\ operations = <<>>
  /\ txs        = <<>>
  /\ enabled    = TRUE
  /\ signer     = "bundler"
  /\ sponsored \in Target
  /\ deposit    = FirstDeposit
  /\ now        = 1
  /\ admin      = 0
  /\ restarts   = 0
  /\ replaced   = 0

-----------------------------------------------------------------------------
(* The paymaster and the entry point.                                      *)

\* getSponsorHash: everything of the operation, and the end.
SponsorHash(o, until) == <<o, until>>

\* Variant: the end is not checked.
NeverExpired(u) == FALSE

\* The end that validatePaymasterUserOp refuses; 0 is no end.
Expired(u) == u.until # 0 /\ u.until < now

\* validatePaymasterUserOp.
Sponsors(u) ==
  /\ enabled
  /\ TargetOf[u.op] = sponsored
  /\ ~Expired(u)
  /\ signer = "bundler"
  /\ \E s \in signed : SponsorHash(s.op, s.until) = SponsorHash(u.op, u.until)

\* The entry point's nonce of a sender: its operations so far.
EntryNonce(sender) ==
  Cardinality({i \in DOMAIN txs :
                 txs[i].state \in Mined /\ SenderOf[txs[i].uop.op] = sender})

IsSponsored(u) == u.until # NotSponsored

\* What handleOps checks before it runs an operation.  An operation without a
\* sponsor is paid by its sender.
Passes(u) ==
  /\ NonceOf[u.op] = EntryNonce(SenderOf[u.op])
  /\ IsSponsored(u) => Sponsors(u) /\ deposit > 0

Owner ==
  /\ admin < MaxAdmin
  /\ admin' = admin + 1
  /\ UNCHANGED <<bundlerVars, txs, now, restarts, replaced>>

SetEnabled ==
  /\ Owner
  /\ enabled' = ~enabled
  /\ UNCHANGED <<signer, sponsored, deposit>>

SetSigner ==
  /\ Owner
  /\ signer' \in Key \ {signer}
  /\ UNCHANGED <<enabled, sponsored, deposit>>

SetSponsorship ==
  /\ Owner
  /\ sponsored' \in Target \ {sponsored}
  /\ UNCHANGED <<enabled, signer, deposit>>

AddDeposit ==
  /\ Owner
  /\ deposit' = deposit + 1
  /\ UNCHANGED <<enabled, signer, sponsored>>

WithdrawDepositTo ==
  /\ Owner
  /\ deposit > 0
  /\ deposit' \in 0 .. deposit - 1
  /\ UNCHANGED <<enabled, signer, sponsored>>

-----------------------------------------------------------------------------
(* The bundler.                                                            *)

\* The end of a sponsorship signed now.
ValidUntil == now + ValidSeconds

\* sponsorUserOperation: it signs whatever it is asked to.
SponsorUserOperation(o) ==
  /\ signed' = signed \cup {[op |-> o, until |-> ValidUntil, at |-> now]}
  /\ UNCHANGED <<request, operations, txs, paymasterVars, now, restarts, replaced>>

\* The account nonce that comes after those of all transactions known.
NextNonce == Cardinality({txs[i].nonce : i \in DOMAIN txs})

\* writeContract estimates the gas: handleOps must pass as things are now.
Tried(u) == Passes(u)

\* sendUserOperation up to the estimate and the account's nonce.
Prepare(r, u) ==
  /\ request[r] = Idle
  /\ Tried(u)
  /\ request' = [request EXCEPT ![r] =
       [stage |-> "prepared", uop |-> u, nonce |-> NextNonce, tx |-> 0]]
  /\ UNCHANGED <<signed, operations, txs, paymasterVars, now, restarts, replaced>>

\* A pending transaction of the account nonce the request has taken.
Rival(r) == {i \in DOMAIN txs : txs[i].nonce = request[r].nonce}

\* Variant: the transaction before it.
NewTxOld == Len(txs)

\* The transaction the node answers with.
NewTx == Len(txs) + 1

\* The node takes the transaction, in the place of one that pays less.
Submit(r) ==
  /\ request[r].stage = "prepared"
  /\ Len(txs) < MaxTx
  /\ \A i \in Rival(r) : txs[i].state \in {"pending", "replaced"}
  /\ Rival(r) # {} => replaced < MaxReplaced
  /\ replaced' = replaced + (IF Rival(r) = {} THEN 0 ELSE 1)
  /\ txs' = Append([i \in DOMAIN txs |-> IF i \in Rival(r)
                      THEN [txs[i] EXCEPT !.state = "replaced"] ELSE txs[i]],
                   [uop |-> request[r].uop, nonce |-> request[r].nonce,
                    state |-> "pending", at |-> 0])
  /\ request' = [request EXCEPT ![r].stage = "sent", ![r].tx = NewTx]
  /\ UNCHANGED <<signed, operations, paymasterVars, now, restarts>>

\* The node refuses the transaction or does not answer: the request fails.
Refused(r) ==
  /\ request[r].stage = "prepared"
  /\ request' = [request EXCEPT ![r] = Idle]
  /\ UNCHANGED <<signed, operations, txs, paymasterVars, now, restarts, replaced>>

\* sendUserOperation after the node's answer: operations.set keeps the last
\* transaction of an operation.
Remember(r) ==
  /\ request[r].stage = "sent"
  /\ operations' = [u \in DOMAIN operations \cup {request[r].uop} |->
       IF u = request[r].uop THEN request[r].tx ELSE operations[u]]
  /\ request' = [request EXCEPT ![r] = Idle]
  /\ UNCHANGED <<signed, txs, paymasterVars, now, restarts, replaced>>

Restart ==
  /\ restarts < MaxRestarts
  /\ restarts' = restarts + 1
  /\ operations' = <<>>
  /\ request' = [r \in Request |-> Idle]
  /\ UNCHANGED <<signed, txs, paymasterVars, now, replaced>>

\* getUserOperationReceiptFromLogs: a log of the last blocks, or nothing.
ReceiptFromLogs(u) ==
  LET found == {i \in DOMAIN txs : /\ txs[i].uop = u /\ txs[i].state \in Mined
                                   /\ txs[i].at + LogWindow >= now}
  IN IF found = {} THEN "none" ELSE txs[CHOOSE i \in found : TRUE].state

\* Variant: only a log is an answer.
AnswerOfLog(i) == IF txs[i].state \in Mined THEN txs[i].state ELSE "none"

\* The answer from a transaction's receipt: the operation's log if there is
\* one, else the status of the transaction.
AnswerOf(i) ==
  CASE txs[i].state \in Mined -> txs[i].state
    [] txs[i].state = "reverted" -> "failed"
    [] OTHER -> "none"

\* getUserOperationReceipt, when the node answers the bundler.
Receipt(u) ==
  IF u \in DOMAIN operations THEN AnswerOf(operations[u]) ELSE ReceiptFromLogs(u)

\* What a client may be answered: a request to the node for a receipt that fails
\* counts as one that found none.
Answers(u) == {Receipt(u), "none"}

-----------------------------------------------------------------------------
(* The chain.                                                              *)

\* The transaction next in turn: the pending one of the lowest nonce.
Mine ==
  \E i \in DOMAIN txs :
    LET u == txs[i].uop IN
    /\ txs[i].state = "pending"
    /\ \A j \in DOMAIN txs :
         txs[j].state = "pending" => txs[i].nonce <= txs[j].nonce
    /\ \E outcome \in IF Passes(u) THEN Mined ELSE {"reverted"} :
         /\ txs' = [txs EXCEPT ![i].state = outcome, ![i].at = now]
         /\ deposit' = IF outcome \in Mined /\ IsSponsored(u)
                       THEN deposit - 1 ELSE deposit
    /\ UNCHANGED <<bundlerVars, enabled, signer, sponsored, admin, now,
                   restarts, replaced>>

Tick ==
  /\ now < MaxNow
  /\ now' = now + 1
  /\ UNCHANGED <<bundlerVars, txs, paymasterVars, restarts, replaced>>

-----------------------------------------------------------------------------
Serve(r) == Submit(r) \/ Refused(r) \/ Remember(r)

Next ==
  \/ \E o \in Op : SponsorUserOperation(o)
  \/ \E r \in Request :
       \/ \E u \in UserOp : Prepare(r, u)
       \/ Submit(r) \/ Refused(r) \/ Remember(r)
  \/ Restart
  \/ SetEnabled \/ SetSigner \/ SetSponsorship \/ AddDeposit \/ WithdrawDepositTo
  \/ Mine
  \/ Tick

Spec == Init /\ [][Next]_vars

\* A request in flight goes on, and the chain mines what it has.
FairSpec == Spec /\ \A r \in Request : WF_vars(Serve(r)) /\ WF_vars(Mine)

-----------------------------------------------------------------------------
(* Properties.                                                             *)

\* What came of a user operation on the chain.
Outcomes(u) == {txs[i].state : i \in {j \in DOMAIN txs : txs[j].uop = u}}

\* It was sent again while its first transaction was not mined yet.
SentTwice(u) ==
  \E i, j \in DOMAIN txs : i # j /\ txs[i].uop = u /\ txs[j].uop = u

\* A receipt says what happened (getUserOperationReceipt): success only of an
\* operation that ran and succeeded, and failure of one that did so only if it
\* was sent twice at once and the receipt is that of the second transaction.
ReceiptsTellTheTruth ==
  \A u \in UserOp :
    /\ "success" \in Answers(u) => "success" \in Outcomes(u)
    /\ "failed" \in Answers(u) /\ "success" \in Outcomes(u) => SentTwice(u)

\* The paymaster pays only for operations the bundler has signed a sponsorship
\* for, and no later than ValidSeconds after it did (sponsorUserOperation,
\* validatePaymasterUserOp).
SponsoredInTime ==
  [][\A i \in DOMAIN txs :
       /\ txs[i].state = "pending" /\ txs'[i].state \in Mined
       /\ IsSponsored(txs[i].uop)
       => \E s \in signed : /\ s.op = txs[i].uop.op
                            /\ s.at <= now /\ now <= s.at + ValidSeconds]_vars

\* The bundler's account pays for a transaction in vain only if something came
\* in between: another operation of that nonce, the owner, the time or an
\* operation that used up the deposit.
RevertIsExplained ==
  \A i \in DOMAIN txs : txs[i].state = "reverted" =>
    LET u == txs[i].uop IN
    \/ \E j \in DOMAIN txs :
         /\ txs[j].state \in Mined
         /\ SenderOf[txs[j].uop.op] = SenderOf[u.op]
         /\ NonceOf[txs[j].uop.op] = NonceOf[u.op]
    \/ IsSponsored(u) /\ (admin > 0 \/ u.until < txs[i].at \/ deposit = 0)

\* Once a receipt may say that an operation succeeded it always may, and none says
\* otherwise, unless the operation was sent twice at once or the bundler restarts
\* and the log is older than it searches; a node that does not answer makes it
\* none for that once.
ReceiptStands ==
  [][\A u \in UserOp : "success" \in Answers(u) /\ ~SentTwice(u) =>
       \/ Answers(u)' = {"success", "none"}
       \/ /\ u \notin DOMAIN operations'
          /\ \A i \in DOMAIN txs : txs[i].uop = u => txs[i].at + LogWindow < now']_vars

\* A client that waits for the receipt of an operation it was promised gets one
\* as soon as the node answers the bundler, unless the bundler restarts or the
\* transaction is replaced.
PromisedIsAnswered ==
  \A u \in UserOp :
    u \in DOMAIN operations ~>
      \/ Receipt(u) # "none"
      \/ u \notin DOMAIN operations
      \/ txs[operations[u]].state = "replaced"
=============================================================================
