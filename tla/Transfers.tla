------------------------------ MODULE Transfers ------------------------------
(***************************************************************************)
(* The transfers the API makes while the client waits (erc20Transfer in    *)
(* internal/httpapi/handlers.go and the routes of permit_transfer.go).     *)
(* Each request runs a script for at most five minutes: erc20-console.ts   *)
(* sends one transfer, native-transfer.ts one payment, and                 *)
(* erc20-permit-transfer.ts a permit of the tokens' owner and then         *)
(* transferFrom.  The scripts of several requests, and the transaction     *)
(* worker, send from the same project wallet and nothing orders them.      *)
(*                                                                         *)
(* A payment is what a client asks for, and its requests are its first     *)
(* attempt and its repetitions.  The tokens have one owner; the funds of   *)
(* the project wallet and of the owner's own wallet, the permit's deadline *)
(* and the token's further rules are left open: a transaction may always   *)
(* revert.                                                                 *)
(***************************************************************************)
EXTENDS Integers, Sequences, FiniteSets, Functions

CONSTANTS
  Request,      \* requests served
  Payment,      \* payments clients ask for
  KindOf,       \* the route of each payment
  AmountOf,     \* its amount in base units
  SignedNonce,  \* the owner's nonce in the permit a client signed
  NoRequest,    \* sender of a transaction that is not of these routes
  NoPayment,    \* no payment yet
  Funds,        \* the owner's tokens
  MaxOthers     \* bound on the worker's transactions

Kind == {"token", "permit", "managed", "validate", "native"}

KindAssumption == KindOf \in [Payment -> Kind]
AmountAssumption == AmountOf \in [Payment -> Nat]
NonceAssumption == SignedNonce \in [Payment -> Nat]
NobodyAssumption == NoRequest \notin Request /\ NoPayment \notin Payment
FiniteAssumption == IsFiniteSet(Request)
BoundAssumption == Funds \in Nat /\ MaxOthers \in Nat

VARIABLES
  stage,      \* where each request's script stands, or its answer
  step,       \* the transaction it is at
  payment,    \* the payment it makes
  signed,     \* the owner's nonce in the permit it carries
  nonce,      \* the place in its wallet's line it prepared
  line,       \* transactions of each wallet by nonce, mined or pending
  displaced,  \* requests of which a pending transaction was replaced
  others,     \* transactions the worker has sent
  allowance,  \* what the owner allows the project wallet
  ownerNonce, \* permits of the owner used so far
  balance     \* the owner's tokens

requestVars == <<stage, step, payment, signed, nonce>>
tokenVars   == <<allowance, ownerNonce, balance>>
vars        == <<requestVars, line, displaced, others, tokenVars>>

Wallet  == {"project", "owner"}
Running == {"prepare", "send", "wait"}
Stage   == {"idle", "ok", "failed", "gaveUp"} \cup Running
Step    == {"permit", "transfer"}
Transaction ==
  [by : Request \cup {NoRequest}, step : Step,
   status : {"pending", "success", "reverted"}]

\* The routes that send a permit first, and the wallet a payment comes from.
WithPermit(p) == KindOf[p] \in {"permit", "managed"}
Sender(p) == IF KindOf[p] = "native" THEN "owner" ELSE "project"

\* A permit is used up once, so every nonce stays below this bound.
NonceBound == Cardinality(Request) + 1
LineBound  == 2 * Cardinality(Request) + MaxOthers

TypeOK ==
  /\ stage \in [Request -> Stage]
  /\ step \in [Request -> Step]
  /\ payment \in [Request -> Payment \cup {NoPayment}]
  /\ signed \in [Request -> Nat]
  /\ nonce \in [Request -> 0 .. LineBound]
  /\ line \in [Wallet -> Seq(Transaction)]
  /\ \A r \in Request : payment[r] \in Payment =>
       nonce[r] <= Len(line[Sender(payment[r])]) + 1
  /\ \A w \in Wallet : Len(line[w]) <= LineBound
  /\ displaced \subseteq Request \cup {NoRequest}
  /\ others \in 0 .. MaxOthers
  /\ allowance \in Nat
  /\ ownerNonce \in 0 .. NonceBound
  /\ balance \in 0 .. Funds

Init ==
  /\ stage = [r \in Request |-> "idle"]
  /\ step = [r \in Request |-> "transfer"]
  /\ payment = [r \in Request |-> NoPayment]
  /\ signed = [r \in Request |-> 0]
  /\ nonce = [r \in Request |-> 0]
  /\ line = [w \in Wallet |-> << >>]
  /\ displaced = {}
  /\ others = 0
  /\ allowance = 0
  /\ ownerNonce = 0
  /\ balance = Funds

-----------------------------------------------------------------------------
(* The token and the wallets' lines of transactions.                       *)

\* The transaction a request is at would go through on the token as it is:
\* a permit names the owner's next nonce, and transferFrom needs the
\* allowance and the tokens.
Applies(r, s) ==
  /\ s = "permit" => signed[r] = ownerNonce
  /\ s = "transfer" /\ WithPermit(payment[r]) =>
       allowance >= AmountOf[payment[r]] /\ balance >= AmountOf[payment[r]]

\* The next transaction of a wallet is mined.  A permit sets the allowance,
\* it does not add to it.
Mine(w) ==
  \E i \in DOMAIN line[w], status \in {"success", "reverted"} :
    LET t == line[w][i]
        takes(s) == status = "success" /\ t.by # NoRequest
                      /\ t.step = s /\ WithPermit(payment[t.by])
    IN /\ t.status = "pending"
       /\ i > 1 => line[w][i - 1].status # "pending"
       /\ status = "success" /\ t.by # NoRequest => Applies(t.by, t.step)
       /\ line' = [line EXCEPT ![w][i].status = status]
       /\ IF takes("permit")
            THEN /\ allowance' = AmountOf[payment[t.by]]
                 /\ ownerNonce' = ownerNonce + 1
                 /\ UNCHANGED balance
            ELSE IF takes("transfer")
              THEN /\ allowance' = allowance - AmountOf[payment[t.by]]
                   /\ balance' = balance - AmountOf[payment[t.by]]
                   /\ UNCHANGED ownerNonce
              ELSE UNCHANGED tokenVars
       /\ UNCHANGED <<requestVars, displaced, others>>

\* The node takes a transaction at place n of a wallet's line: at the end,
\* or over a pending one when it pays a higher fee.
Accepts(w, n, t) ==
  \/ /\ n = Len(line[w]) + 1
     /\ line' = [line EXCEPT ![w] = Append(@, t)]
     /\ UNCHANGED displaced
  \/ /\ n <= Len(line[w])
     /\ line[w][n].status = "pending"
     /\ line' = [line EXCEPT ![w][n] = t]
     /\ displaced' = displaced \cup {line[w][n].by}

\* The transaction worker, a deployment or another transfer sends from the
\* project wallet.
OtherSend ==
  /\ others < MaxOthers
  /\ others' = others + 1
  /\ \E n \in 1 .. Len(line["project"]) + 1 :
       Accepts("project", n,
               [by |-> NoRequest, step |-> "transfer", status |-> "pending"])
  /\ UNCHANGED <<requestVars, tokenVars>>

-----------------------------------------------------------------------------
(* The routes and their scripts.                                           *)

\* A request comes in.  It is refused by a check of its route, or its script
\* starts at the given step with the given nonce in the owner's permit.
Start(r, p, s, n) ==
  /\ stage[r] = "idle"
  /\ payment' = [payment EXCEPT ![r] = p]
  /\ stage' \in {[stage EXCEPT ![r] = "prepare"], [stage EXCEPT ![r] = "failed"]}
  /\ step' = [step EXCEPT ![r] = s]
  /\ signed' = [signed EXCEPT ![r] = n]
  /\ UNCHANGED <<nonce, line, displaced, others, tokenVars>>

\* The project wallet's own tokens; refused for an address, the project's
\* policy, an amount or a wallet.
ERC20Transfer(r, p) == KindOf[p] = "token" /\ Start(r, p, "transfer", 0)

\* An owner's tokens by the permit the client carries; refused also while
\* gas-free transfers are off.
ERC20TransferWithPermit(r, p) ==
  KindOf[p] = "permit" /\ Start(r, p, "permit", SignedNonce[p])

\* A managed owner's tokens by a permit the vault signs for the nonce the
\* script reads; with validateOnly the permit is only verified.
ERC20ManagedTransferWithPermit(r, p) ==
  \/ KindOf[p] = "managed"  /\ Start(r, p, "permit", ownerNonce)
  \/ KindOf[p] = "validate" /\ Start(r, p, "transfer", ownerNonce)

\* A managed owner's native coins, sent from the owner's own wallet.
ManagedNativeTransfer(r, p) == KindOf[p] = "native" /\ Start(r, p, "transfer", 0)

Begin(r, p) ==
  \/ ERC20Transfer(r, p)
  \/ ERC20TransferWithPermit(r, p)
  \/ ERC20ManagedTransferWithPermit(r, p)
  \/ ManagedNativeTransfer(r, p)

\* validateOnly: the owner's permit is signed and verified, nothing is sent.
Validate(r) ==
  /\ stage[r] = "prepare"
  /\ KindOf[payment[r]] = "validate"
  /\ stage' \in {[stage EXCEPT ![r] = s] : s \in {"ok", "failed"}}
  /\ UNCHANGED <<step, payment, signed, nonce, line, displaced, others, tokenVars>>

\* writeContract reads the wallet's next nonce and runs the call against the
\* latest block; a call that would revert ends the script.
Prepare(r) ==
  /\ stage[r] = "prepare"
  /\ KindOf[payment[r]] # "validate"
  /\ \/ /\ Applies(r, step[r])
        /\ stage' = [stage EXCEPT ![r] = "send"]
        /\ nonce' = [nonce EXCEPT ![r] = Len(line[Sender(payment[r])]) + 1]
     \/ /\ stage' = [stage EXCEPT ![r] = "failed"]
        /\ UNCHANGED nonce
  /\ UNCHANGED <<step, payment, signed, line, displaced, others, tokenVars>>

\* The signed transaction goes to the node, which rejects one whose nonce is
\* taken.  The node's answer may be lost: the script ends and the transaction
\* stays.
Send(r) ==
  /\ stage[r] = "send"
  /\ \/ /\ Accepts(Sender(payment[r]), nonce[r],
                   [by |-> r, step |-> step[r], status |-> "pending"])
        /\ stage' \in {[stage EXCEPT ![r] = s] : s \in {"wait", "gaveUp"}}
     \/ /\ nonce[r] <= Len(line[Sender(payment[r])])
        /\ stage' = [stage EXCEPT ![r] = "failed"]
        /\ UNCHANGED <<line, displaced>>
  /\ UNCHANGED <<step, payment, signed, nonce, others, tokenVars>>

\* Variant: no script looks at the status.
PassesAny(p, status) == TRUE

\* What a receipt means to the script: erc20-console.ts puts the status in
\* its output, the other two stop on a revert.
Passes(p, status) == KindOf[p] = "token" \/ status = "success"

\* Variant: the receipt of the wallet's newest transaction.
ReceiptOfNewest(r) ==
  /\ stage[r] = "wait"
  /\ LET status == line[Sender(payment[r])][Len(line[Sender(payment[r])])].status
     IN /\ status # "pending"
        /\ IF ~Passes(payment[r], status)
             THEN /\ stage' = [stage EXCEPT ![r] = "failed"]
                  /\ UNCHANGED step
             ELSE IF step[r] = "permit"
               THEN /\ stage' = [stage EXCEPT ![r] = "prepare"]
                    /\ step' = [step EXCEPT ![r] = "transfer"]
               ELSE /\ stage' = [stage EXCEPT ![r] = "ok"]
                    /\ UNCHANGED step
  /\ UNCHANGED <<payment, signed, nonce, line, displaced, others, tokenVars>>

\* waitForTransactionReceipt returns the receipt of the transaction mined at
\* the nonce, which is another one when the script's own was replaced.
Receipt(r) ==
  /\ stage[r] = "wait"
  /\ LET status == line[Sender(payment[r])][nonce[r]].status
     IN /\ status # "pending"
        /\ IF ~Passes(payment[r], status)
             THEN /\ stage' = [stage EXCEPT ![r] = "failed"]
                  /\ UNCHANGED step
             ELSE IF step[r] = "permit"
               THEN /\ stage' = [stage EXCEPT ![r] = "prepare"]
                    /\ step' = [step EXCEPT ![r] = "transfer"]
               ELSE /\ stage' = [stage EXCEPT ![r] = "ok"]
                    /\ UNCHANGED step
  /\ UNCHANGED <<payment, signed, nonce, line, displaced, others, tokenVars>>

\* The context's five minutes pass, or the wait for the receipt ends before,
\* and the client is answered with an error.
GiveUp(r) ==
  /\ stage[r] \in Running
  /\ stage' = [stage EXCEPT ![r] = "gaveUp"]
  /\ UNCHANGED <<step, payment, signed, nonce, line, displaced, others, tokenVars>>

Script(r) == Validate(r) \/ Prepare(r) \/ Send(r) \/ Receipt(r) \/ GiveUp(r)

Next ==
  \/ \E r \in Request, p \in Payment : Begin(r, p)
  \/ \E r \in Request : Script(r)
  \/ \E w \in Wallet : Mine(w)
  \/ OtherSend

Spec == Init /\ [][Next]_vars

\* A script that runs goes on or is killed; the chain promises nothing.
FairSpec == Spec /\ \A r \in Request : WF_vars(Script(r))

-----------------------------------------------------------------------------
(* Properties.                                                             *)

\* How often a request's transfer has gone through.
Moves(r) ==
  LET places == UNION {{w} \X DOMAIN line[w] : w \in Wallet}
  IN Cardinality({p \in places :
       line[p[1]][p[2]] = [by |-> r, step |-> "transfer", status |-> "success"]})

Mined(r) ==
  \E w \in Wallet : \E i \in DOMAIN line[w] :
    line[w][i].by = r /\ line[w][i].step = "transfer"
      /\ line[w][i].status # "pending"

\* A client that was answered ok has been served: its transfer went through,
\* once.  Two exceptions are the code's: erc20Transfer answers ok for a
\* transfer that was mined and reverted, and a script whose transaction was
\* replaced takes the receipt of the other one for its own.
OkMeansMoved ==
  \A r \in Request : stage[r] = "ok" /\ r \notin displaced =>
    CASE KindOf[payment[r]] = "validate" -> Moves(r) = 0
      [] KindOf[payment[r]] = "token"    -> Mined(r)
      [] OTHER                           -> Moves(r) = 1

\* A request that was refused, rejected by the node or told of a revert has
\* moved nothing, now or later; only one that gave up leaves a doubt.
FailedMovedNothing ==
  \A r \in Request : stage[r] = "failed" => Moves(r) = 0

\* A permit the owner signed pays once, however often a client sends it and
\* whatever became of the earlier attempts.
SignaturePaysOnce ==
  \A p \in Payment : KindOf[p] = "permit" =>
    LET Tries == {r \in Request : payment[r] = p}
    IN \/ Cardinality({r \in Tries : Moves(r) > 0}) <= 1
       \/ Tries \cap displaced # {}

\* When nothing is under way, what is left of the owner's allowance was set by
\* a permit whose request came to nothing: an ok answer leaves the project
\* wallet nothing to spend.
LeftoverIsUnpaid ==
  (\A r \in Request : stage[r] \notin Running) /\ allowance > 0 =>
    \E r \in Request :
      \/ r \in displaced
      \/ /\ stage[r] # "ok"
         /\ [by |-> r, step |-> "permit", status |-> "success"]
              \in Range(line["project"])

\* Every request is answered, whatever the chain and the other requests do.
Answered ==
  \A r \in Request : stage[r] \in Running ~> stage[r] \notin Running
==============================================================================
