------------------------ MODULE PrivateClaimRegistry ------------------------
(***************************************************************************)
(* The claim registry the engine deploys (PrivateClaimRegistrySource in    *)
(* internal/contracts/templates.go): the owner accepts Merkle roots of bet *)
(* notes and resolves markets, and the holder of a winning note registers  *)
(* a claim with a proof, or the owner does after a check outside the       *)
(* chain.                                                                  *)
(*                                                                         *)
(* A call is one step.  A root stands for the notes below it.  A proof     *)
(* says what zk/private-claim says: some note of the root has the outcome  *)
(* and the nullifier.  The nullifier is made of the note's secret and its  *)
(* market, so notes of one secret and market share it.                     *)
(***************************************************************************)
EXTENDS Integers, FiniteSets

CONSTANTS
  MarketId,      \* markets
  Root,          \* Merkle roots
  Note,          \* bet notes
  NotesOf,       \* the notes of each root
  MarketOf,      \* the market a note was made for
  OutcomeOf,     \* the outcome it bets on
  Nullifier,     \* nullifiers
  NullifierOf,   \* of each note
  MaxResolutions \* bound on calls of setMarketResolution

Outcome == {1, 2}

NoteAssumption ==
  /\ NotesOf \in [Root -> SUBSET Note]
  /\ MarketOf \in [Note -> MarketId]
  /\ OutcomeOf \in [Note -> Outcome]
  /\ NullifierOf \in [Note -> Nullifier]
SecretAssumption ==
  \A n, m \in Note : NullifierOf[n] = NullifierOf[m] => MarketOf[n] = MarketOf[m]
BoundAssumption == MaxResolutions \in Nat

VARIABLES
  acceptedRoots,   \* pairs of a market and a root
  resolvedOutcome, \* of each market, 0 before
  usedNullifiers,
  verifier,        \* is a verifier set?
  claims,          \* ClaimRegistered events, with the outcome and the route
  resolutions      \* calls of setMarketResolution on each market

vars == <<acceptedRoots, resolvedOutcome, usedNullifiers, verifier, claims,
          resolutions>>

Claim == [market : MarketId, root : Root, nullifier : Nullifier,
          outcome : {0} \cup Outcome, route : {"proof", "owner"}]

TypeOK ==
  /\ acceptedRoots \subseteq MarketId \X Root
  /\ resolvedOutcome \in [MarketId -> {0} \cup Outcome]
  /\ usedNullifiers = {c.nullifier : c \in claims}
  /\ verifier \in BOOLEAN
  /\ claims \subseteq Claim
  /\ resolutions \in [MarketId -> 0 .. MaxResolutions]

Init ==
  /\ acceptedRoots   = {}
  /\ resolvedOutcome = [m \in MarketId |-> 0]
  /\ usedNullifiers  = {}
  /\ verifier       \in BOOLEAN
  /\ claims          = {}
  /\ resolutions     = [m \in MarketId |-> 0]

-----------------------------------------------------------------------------
(* The owner's calls.                                                      *)

SetVerifier ==
  /\ verifier' = ~verifier
  /\ UNCHANGED <<acceptedRoots, resolvedOutcome, usedNullifiers, claims, resolutions>>

AcceptRoot(m, r) ==
  /\ acceptedRoots' = acceptedRoots \cup {<<m, r>>}
  /\ UNCHANGED <<resolvedOutcome, usedNullifiers, verifier, claims, resolutions>>

RevokeRoot(m, r) ==
  /\ acceptedRoots' = acceptedRoots \ {<<m, r>>}
  /\ UNCHANGED <<resolvedOutcome, usedNullifiers, verifier, claims, resolutions>>

ValidOutcome(o) == o \in Outcome

\* A market may be resolved again.
SetMarketResolution(m, o) ==
  /\ ValidOutcome(o)
  /\ resolutions[m] < MaxResolutions
  /\ resolvedOutcome' = [resolvedOutcome EXCEPT ![m] = o]
  /\ resolutions' = [resolutions EXCEPT ![m] = @ + 1]
  /\ UNCHANGED <<acceptedRoots, usedNullifiers, verifier, claims>>

-----------------------------------------------------------------------------
(* Claims.                                                                 *)

\* verifyProof of three signals: root, outcome and nullifier.
Proven(r, o, h) ==
  \E n \in NotesOf[r] : OutcomeOf[n] = o /\ NullifierOf[n] = h

\* Variant: the outcome is that of the proof.
AnyOutcomeMatches(m, o) == TRUE

\* The proof's outcome is compared with the market's.
OutcomeMatches(m, o) == o = resolvedOutcome[m]

\* usedNullifiers is over all markets and roots.
Fresh(r, h) == h \notin usedNullifiers

Register(m, r, h, o, route) ==
  /\ <<m, r>> \in acceptedRoots
  /\ Fresh(r, h)
  /\ usedNullifiers' = usedNullifiers \cup {h}
  /\ claims' = claims \cup
       {[market |-> m, root |-> r, nullifier |-> h, outcome |-> o, route |-> route]}
  /\ UNCHANGED <<acceptedRoots, resolvedOutcome, verifier, resolutions>>

RegisterVerifiedClaim(m, r, h, o) ==
  /\ verifier
  /\ OutcomeMatches(m, o)
  /\ Proven(r, o, h)
  /\ Register(m, r, h, o, "proof")

\* The owner's route compares neither outcome nor nullifier.
RegisterZKVerifyClaim(m, r, h) == Register(m, r, h, resolvedOutcome[m], "owner")

-----------------------------------------------------------------------------
Next ==
  \/ SetVerifier
  \/ \E m \in MarketId, o \in 0 .. 3 : SetMarketResolution(m, o)
  \/ \E m \in MarketId, r \in Root :
       \/ AcceptRoot(m, r)
       \/ RevokeRoot(m, r)
       \/ \E h \in Nullifier :
            \/ RegisterZKVerifyClaim(m, r, h)
            \/ \E o \in {0} \cup Outcome : RegisterVerifiedClaim(m, r, h, o)

Spec == Init /\ [][Next]_vars

-----------------------------------------------------------------------------
(* Properties.                                                             *)

\* The same bet note is not claimed twice (zk/private-claim/README.md), be it
\* under several roots, in several markets, by proof or by the owner.
NoteClaimedOnce ==
  \A c, d \in claims : c.nullifier = d.nullifier => c = d

\* A claim by proof is one of a note of the winning outcome, and as long as the
\* market is resolved only once all its claims agree with the resolution
\* (registerVerifiedClaim, before and after setMarketResolution).
ProofClaimsWon ==
  \A c \in claims : c.route = "proof" =>
    /\ \E n \in NotesOf[c.root] :
         NullifierOf[n] = c.nullifier /\ OutcomeOf[n] = c.outcome
    /\ resolutions[c.market] <= 1 => c.outcome = resolvedOutcome[c.market]
=============================================================================
