------------------------- MODULE ShieldedPayoutPool -------------------------
(***************************************************************************)
(* The payout pool the engine deploys (ShieldedPayoutPoolSource in         *)
(* internal/contracts/templates.go): the owner credits notes of one        *)
(* denomination, and each may be withdrawn once, with a proof that the     *)
(* verifier accepts or by the owner after a check outside the chain.       *)
(*                                                                         *)
(* A call of the contract is one step: it is undone when a require fails.  *)
(* A nullifier is the pair of a note and the recipient its proof was made  *)
(* for, as in zk/shielded-withdrawal; the contract compares the note and   *)
(* the nullifier with the proof and takes the recipient from the call.     *)
(* Who is the relayer is left out.  The token is external and never calls  *)
(* back.                                                                   *)
(***************************************************************************)
EXTENDS Integers, FiniteSets

CONSTANTS
  Note,          \* note commitments
  Account,       \* recipients
  Denomination,  \* what a note is worth
  RelayerFee,    \* relayer fees that are asked for
  Funding,       \* amounts that plain transfers send to the pool
  MaxFunding     \* bound on their sum

NoteAssumption == IsFiniteSet(Note) /\ IsFiniteSet(Account)
ValueAssumption ==
  /\ Denomination \in Nat \ {0} /\ RelayerFee \subseteq Nat
  /\ Funding \subseteq Nat /\ MaxFunding \in Nat

VARIABLES
  creditedNotes, spentNotes, usedNullifiers, \* the contract's mappings
  verifier,   \* is a verifier set?
  balance,    \* the pool's tokens
  payout,     \* what the withdrawal of each note paid its recipient
  fee,        \* and its relayer
  funding,    \* tokens sent to the pool by plain transfers
  overdrawn   \* a note was credited without tokens to spare for it

vars == <<creditedNotes, spentNotes, usedNullifiers, verifier, balance,
          payout, fee, funding, overdrawn>>

NoteNullifier == Note \X Account

TypeOK ==
  /\ creditedNotes \subseteq Note
  /\ spentNotes \subseteq creditedNotes
  /\ usedNullifiers \subseteq NoteNullifier
  /\ verifier \in BOOLEAN
  /\ balance \in Nat
  /\ payout \in [Note -> 0 .. Denomination]
  /\ fee \in [Note -> 0 .. Denomination]
  /\ funding \in 0 .. MaxFunding
  /\ overdrawn \in BOOLEAN

Init ==
  /\ creditedNotes  = {}
  /\ spentNotes     = {}
  /\ usedNullifiers = {}
  /\ verifier      \in BOOLEAN
  /\ balance        = 0
  /\ payout         = [n \in Note |-> 0]
  /\ fee            = [n \in Note |-> 0]
  /\ funding        = 0
  /\ overdrawn      = FALSE

\* What the notes that can still be withdrawn are worth.
Owed == Denomination * Cardinality(creditedNotes \ spentNotes)

-----------------------------------------------------------------------------
(* The owner's calls.                                                      *)

SetVerifier ==
  /\ verifier' = ~verifier
  /\ UNCHANGED <<creditedNotes, spentNotes, usedNullifiers, balance, payout,
                 fee, funding, overdrawn>>

\* _credit: a note is credited once.
Credit(n) ==
  /\ n \notin creditedNotes
  /\ creditedNotes' = creditedNotes \cup {n}
  /\ UNCHANGED <<spentNotes, usedNullifiers, verifier, payout, fee, funding>>

\* The denomination is taken from the owner and the note credited.
DepositAndCredit(n) ==
  /\ Credit(n)
  /\ balance' = balance + Denomination
  /\ UNCHANGED overdrawn

\* The note is credited; nobody looks whether the pool has tokens for it.
CreditFundedNote(n) ==
  /\ Credit(n)
  /\ overdrawn' = (overdrawn \/ balance < Owed + Denomination)
  /\ UNCHANGED balance

\* Tokens sent to the pool by a plain transfer.
Fund(v) ==
  /\ funding + v <= MaxFunding
  /\ funding' = funding + v
  /\ balance' = balance + v
  /\ UNCHANGED <<creditedNotes, spentNotes, usedNullifiers, verifier, payout,
                 fee, overdrawn>>

-----------------------------------------------------------------------------
(* Withdrawals.                                                            *)

\* The relayer gets a tenth at most, rounded down.
FeeAllowed(f) == f <= Denomination \div 10

\* Variant: the note is not looked at.
UnspentNullifier(n, h) == h \notin usedNullifiers

\* A note is withdrawn once, and a nullifier serves once.
Unspent(n, h) == n \notin spentNotes /\ h \notin usedNullifiers

\* _withdraw: the recipient is paid and then the relayer, or nobody.
Withdraw(n, h, f) ==
  /\ n \in creditedNotes
  /\ Unspent(n, h)
  /\ FeeAllowed(f)
  /\ balance >= Denomination
  /\ spentNotes' = spentNotes \cup {n}
  /\ usedNullifiers' = usedNullifiers \cup {h}
  /\ payout' = [payout EXCEPT ![n] = @ + Denomination - f]
  /\ fee' = [fee EXCEPT ![n] = @ + f]
  /\ balance' = balance - Denomination
  /\ UNCHANGED <<creditedNotes, verifier, funding, overdrawn>>

\* The verifier accepts a nullifier of the note only.
WithdrawVerified(n, h, f) ==
  /\ verifier
  /\ h[1] = n
  /\ Withdraw(n, h, f)

\* The owner names any nullifier.
WithdrawWithZKVerify(n, h, f) == Withdraw(n, h, f)

-----------------------------------------------------------------------------
Next ==
  \/ SetVerifier
  \/ \E n \in Note : DepositAndCredit(n) \/ CreditFundedNote(n)
  \/ \E v \in Funding : Fund(v)
  \/ \E n \in Note, h \in NoteNullifier, f \in RelayerFee :
       WithdrawVerified(n, h, f) \/ WithdrawWithZKVerify(n, h, f)

Spec == Init /\ [][Next]_vars

-----------------------------------------------------------------------------
(* Properties.                                                             *)

\* Whoever holds a note can withdraw it: the pool has the tokens for every
\* note that is credited and not spent, as long as the owner credited funded
\* notes only when there were tokens to spare (creditFundedNote looks at none).
Backed == ~overdrawn => balance >= Owed

\* A spent note has paid its denomination once, at least nine tenths of it to
\* the recipient, and a note that is not spent has paid nothing (_withdraw).
PaidInFullOnce ==
  \A n \in Note :
    /\ payout[n] + fee[n] = IF n \in spentNotes THEN Denomination ELSE 0
    /\ n \in spentNotes => payout[n] >= Denomination - Denomination \div 10

\* Every withdrawal uses up a nullifier of its own, by proof or by the owner
\* (usedNullifiers).
OneNullifierEach == Cardinality(usedNullifiers) = Cardinality(spentNotes)
=============================================================================
