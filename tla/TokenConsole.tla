---------------------------- MODULE TokenConsole ----------------------------
(***************************************************************************)
(* The write console of a deployed token (dashboardERC20Action and         *)
(* enqueueERC20ConsoleWrite in internal/httpapi/dashboard.go).  A mint, a  *)
(* transfer or a burn queues one transaction, an airdrop one for each      *)
(* recipient, a call of the store each, and it stops at the first error.   *)
(* Owners may change the project's default wallet meanwhile, and clients   *)
(* send a failed request again as a request of its own.                    *)
(*                                                                         *)
(* An amount is the text's parts between dots, each a sequence of digits;  *)
(* NotDigit stands for every other character.  A call of the store may     *)
(* fail before or after it took effect.  The console is found, confirmed   *)
(* and the password right: what comes before those checks changes nothing. *)
(***************************************************************************)
EXTENDS Integers, Sequences, FiniteSets, Functions

CONSTANTS
  Request,      \* console requests
  Wallet,       \* wallets of the project
  NoWallet,     \* the project has no default wallet
  Address,      \* recipients
  NoAddress,    \* a blank recipient
  Amount,       \* amounts a client may enter
  Decimals,     \* the token's decimals
  SupportsBurn, \* its source has a burn function
  MaxEntries,   \* bound on the recipients of an airdrop
  MaxFaults     \* bound on failures of the store

NotDigit == 10

NobodyAssumption == NoWallet \notin Wallet /\ NoAddress \notin Address
AmountAssumption == Amount \subseteq Seq(Seq(0 .. NotDigit)) \ {<< >>}
FiniteAssumption == IsFiniteSet(Request)
BoundAssumption ==
  Decimals \in Nat /\ MaxEntries \in Nat /\ MaxFaults \in Nat /\ SupportsBurn \in BOOLEAN

VARIABLES
  stage,    \* where each request stands
  action,   \* what it asks for
  entries,  \* the recipients and amounts it names
  wallet,   \* the default wallet it found
  at,       \* the entry it is at
  default,  \* the project's default wallet
  queue,    \* transactions queued, oldest first
  faults    \* failures of the store so far

vars == <<stage, action, entries, wallet, at, default, queue, faults>>

Action == {"mint", "transfer", "burn", "airdrop", "other"}
Entry  == [recipient : Address \cup {NoAddress}, amount : Amount]

TypeOK ==
  /\ stage \in [Request -> {"idle", "queuing", "accepted", "refused"}]
  /\ action \in [Request -> Action]
  /\ \A r \in Request :
       /\ entries[r] \in Seq(Entry)
       /\ at[r] \in 1 .. Len(entries[r]) + 1
       /\ stage[r] = "queuing" => wallet[r] # NoWallet
  /\ wallet \in [Request -> Wallet \cup {NoWallet}]
  /\ default \in Wallet \cup {NoWallet}
  /\ Len(queue) <= MaxEntries * Cardinality(Request)
  /\ faults \in 0 .. MaxFaults

Init ==
  /\ stage   = [r \in Request |-> "idle"]
  /\ action  = [r \in Request |-> "other"]
  /\ entries = [r \in Request |-> << >>]
  /\ wallet  = [r \in Request |-> NoWallet]
  /\ at      = [r \in Request |-> 1]
  /\ default \in Wallet \cup {NoWallet}
  /\ queue   = << >>
  /\ faults  = 0

-----------------------------------------------------------------------------
(* decimalStringToBaseUnits.                                               *)

Power[n \in Nat] == IF n = 0 THEN 1 ELSE 10 * Power[n - 1]

\* The number that a sequence of digits reads as.
Number(digits) ==
  LET first[n \in 0 .. Len(digits)] ==
        IF n = 0 THEN 0 ELSE 10 * first[n - 1] + digits[n]
  IN first[Len(digits)]

Fraction(amount) == IF Len(amount) = 2 THEN amount[2] ELSE << >>

\* An empty whole part reads as zero, and so does a lone dot.
IsAmount(amount) ==
  /\ amount # << << >> >>
  /\ Decimals <= 77
  /\ Len(amount) <= 2
  /\ Len(Fraction(amount)) <= Decimals
  /\ \A i \in DOMAIN amount : NotDigit \notin Range(amount[i])

BaseUnits(amount) ==
  LET fraction == Fraction(amount)
      filled   == fraction \o [i \in 1 .. Decimals - Len(fraction) |-> 0]
  IN Number(amount[1]) * Power[Decimals] + Number(filled)

-----------------------------------------------------------------------------

\* The entry a request is at can be queued; a burn has no recipient.
IsEntry(r) ==
  /\ IsAmount(entries[r][at[r]].amount)
  /\ action[r] # "burn" => entries[r][at[r]].recipient # NoAddress

Transaction(r) ==
  [by |-> r, entry |-> at[r], wallet |-> wallet[r],
   method |-> IF action[r] = "airdrop" THEN "transfer" ELSE action[r],
   amount |-> BaseUnits(entries[r][at[r]].amount)]

\* The action is supported and the project has a wallet.
Served(a) == a # "other" /\ (a = "burn" => SupportsBurn) /\ default # NoWallet

\* A request arrives.
Ask(r) ==
  /\ stage[r] = "idle"
  /\ \E a \in Action, n \in 0 .. MaxEntries :
     \E list \in [1 .. n -> Entry] :
       /\ a # "airdrop" => n = 1
       /\ action' = [action EXCEPT ![r] = a]
       /\ entries' = [entries EXCEPT ![r] = list]
       /\ stage' = [stage EXCEPT ![r] = IF Served(a) THEN "queuing" ELSE "refused"]
  /\ wallet' = [wallet EXCEPT ![r] = default]
  /\ UNCHANGED <<at, default, queue, faults>>

\* One turn of the loop: EnqueueTransaction, its answer arrives.
Enqueue(r) ==
  /\ stage[r] = "queuing"
  /\ at[r] <= Len(entries[r])
  /\ IsEntry(r)
  /\ queue' = Append(queue, Transaction(r))
  /\ at' = [at EXCEPT ![r] = @ + 1]
  /\ UNCHANGED <<stage, action, entries, wallet, default, faults>>

\* Variant: an airdrop goes on after a failure.
StopSkips(r) ==
  /\ at' = [at EXCEPT ![r] = @ + 1]
  /\ UNCHANGED stage

\* Every error ends the request, with what was queued before left queued.
Stop(r) ==
  /\ stage' = [stage EXCEPT ![r] = "refused"]
  /\ UNCHANGED at

\* The entry is not one that can be queued.
Invalid(r) ==
  /\ stage[r] = "queuing"
  /\ at[r] <= Len(entries[r])
  /\ ~IsEntry(r)
  /\ Stop(r)
  /\ UNCHANGED <<action, entries, wallet, default, queue, faults>>

\* The store fails, or its answer is lost.
EnqueueFails(r) ==
  /\ stage[r] = "queuing"
  /\ at[r] <= Len(entries[r])
  /\ IsEntry(r)
  /\ faults < MaxFaults
  /\ faults' = faults + 1
  /\ queue' \in {queue, Append(queue, Transaction(r))}
  /\ Stop(r)
  /\ UNCHANGED <<action, entries, wallet, default>>

\* The loop is over; an airdrop to nobody is an error.
Finish(r) ==
  /\ stage[r] = "queuing"
  /\ at[r] > Len(entries[r])
  /\ stage' = [stage EXCEPT ![r] = IF at[r] = 1 THEN "refused" ELSE "accepted"]
  /\ UNCHANGED <<action, entries, wallet, at, default, queue, faults>>

\* An owner makes another wallet the default one.
ChangeDefault ==
  /\ default' \in Wallet \ {default}
  /\ UNCHANGED <<stage, action, entries, wallet, at, queue, faults>>

Next ==
  \/ \E r \in Request : Ask(r) \/ Enqueue(r) \/ Invalid(r) \/ EnqueueFails(r) \/ Finish(r)
  \/ ChangeDefault

Spec == Init /\ [][Next]_vars

-----------------------------------------------------------------------------
(* Properties.                                                             *)

\* The places of a request's transactions in the queue.
Queued(r) == {i \in DOMAIN queue : queue[i].by = r}

\* What a request has queued is its list from the start, one transaction for
\* each entry in the order of the list, whatever other requests queue between:
\* all of it when it was accepted, and when it was refused everything before
\* the entry that failed and, if the store's answer was lost, that one too.
QueuedIsPrefix ==
  \A r \in Request :
    LET n == Cardinality(Queued(r))
    IN /\ {queue[i].entry : i \in Queued(r)} = 1 .. n
       /\ \A i, j \in Queued(r) : i < j => queue[i].entry < queue[j].entry
       /\ stage[r] = "accepted" => n = Len(entries[r]) /\ n > 0
       /\ stage[r] = "refused" => n \in {at[r] - 1, at[r]}
       /\ n = at[r] => faults > 0

\* Nobody is paid from an entry that cannot be read, and the amount is the
\* decimal number the client entered, exactly.
QueuedIsWhatWasAsked ==
  \A i \in DOMAIN queue :
    LET t == queue[i]
        e == entries[t.by][t.entry]
        digits == Len(Fraction(e.amount))
    IN /\ t.method # "burn" => e.recipient # NoAddress
       /\ t.amount * Power[digits] = Number(e.amount[1] \o Fraction(e.amount)) * Power[Decimals]

\* The transactions of one request have one signer, although the default
\* wallet may change between them.
OneSigner ==
  \A i, j \in DOMAIN queue : queue[i].by = queue[j].by => queue[i].wallet = queue[j].wallet
=============================================================================
