-------------------------- MODULE TransactionPromise --------------------------
(***************************************************************************)
(* What the queue promises about one enqueued transaction, without engines, *)
(* locks, clocks, lost writes or webhooks: an accepted transaction is tried *)
(* a bounded number of times, each try sends it at most once, a verdict is  *)
(* given at most once, and not before the transaction was sent or its tries *)
(* were used up.                                                            *)
(***************************************************************************)
EXTENDS Integers

CONSTANTS Tx, MaxAttempts

VARIABLES
  phase,  \* "absent", "pending", or the verdict
  tries,  \* attempts begun
  sent    \* the attempts that sent the transaction to the chain

vars == <<phase, tries, sent>>

Init ==
  /\ phase = [t \in Tx |-> "absent"]
  /\ tries = [t \in Tx |-> 0]
  /\ sent  = [t \in Tx |-> {}]

Accept(t) ==
  /\ phase[t] = "absent"
  /\ phase' = [phase EXCEPT ![t] = "pending"]
  /\ UNCHANGED <<tries, sent>>

Try(t) ==
  /\ phase[t] = "pending"
  /\ tries[t] < MaxAttempts
  /\ tries' = [tries EXCEPT ![t] = @ + 1]
  /\ UNCHANGED <<phase, sent>>

Send(t) ==
  /\ phase[t] = "pending"
  /\ tries[t] > 0 /\ tries[t] \notin sent[t]
  /\ sent' = [sent EXCEPT ![t] = @ \cup {tries[t]}]
  /\ UNCHANGED <<phase, tries>>

Confirm(t) ==
  /\ phase[t] = "pending"
  /\ tries[t] \in sent[t]
  /\ phase' = [phase EXCEPT ![t] = "confirmed"]
  /\ UNCHANGED <<tries, sent>>

Fail(t) ==
  /\ phase[t] = "pending"
  /\ tries[t] = MaxAttempts \/ tries[t] \in sent[t]
  /\ phase' = [phase EXCEPT ![t] = "failed"]
  /\ UNCHANGED <<tries, sent>>

Next == \E t \in Tx : Accept(t) \/ Try(t) \/ Send(t) \/ Confirm(t) \/ Fail(t)

Spec == Init /\ [][Next]_vars
=============================================================================
