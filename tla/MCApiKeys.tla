----------------------------- MODULE MCApiKeys ------------------------------
(***************************************************************************)
(* The end of access, for TLC: two managers who create, rotate and revoke  *)
(* keys while a call is served, a project whose allowed contracts change   *)
(* between calls, and sessions of the dashboard that end while requests    *)
(* are served. A behaviour is of one of the three.                         *)
(***************************************************************************)
EXTENDS ApiKeys, TLC

CONSTANTS
  k1, k2, k3, m1, m2, m3, c1, c2, admin, write, x1, x2, n1, n2, w1, t1, r1,
  r2, NoOne

VARIABLES
  part,  \* the component this behaviour is of
  policyArchived, policyAllowed, policyKeys, policyPc, policyRotating,
  policyGrant, policyStage, policyUsed, policyStamp, policyPolicy,
  policyScopes, policyTarget, policyNow,
  dashAccounts, dashSessions, dashProjects, dashImported, dashLate,
  dashStage, dashToken, dashWho, dashStamp, dashSubject, dashStarts,
  dashNow

policyVars ==
  <<policyArchived, policyAllowed, policyKeys, policyPc, policyRotating,
    policyGrant, policyStage, policyUsed, policyStamp, policyPolicy,
    policyScopes, policyTarget, policyNow>>
dashVars ==
  <<dashAccounts, dashSessions, dashProjects, dashImported, dashLate,
    dashStage, dashToken, dashWho, dashStamp, dashSubject, dashStarts,
    dashNow>>

Policy == INSTANCE ApiKeys WITH
  Key <- {k3}, Contract <- {x1, x2}, Deployed <- {x1}, Manager <- {m3}, Call <- {c2},
  MaxNow <- 1, archived <- policyArchived, allowed <- policyAllowed,
  keys <- policyKeys, pc <- policyPc, rotating <- policyRotating,
  grant <- policyGrant, stage <- policyStage, used <- policyUsed,
  stamp <- policyStamp, policy <- policyPolicy, scopes <- policyScopes,
  target <- policyTarget, now <- policyNow

Console == INSTANCE Dashboard WITH
  Name <- {n1, n2}, Password <- {w1}, Token <- {t1}, Project <- {},
  Contract <- {}, Request <- {r1, r2}, Fee <- {1}, DefaultFee <- 1,
  MaxFee <- 2, SessionTTL <- 1, MaxNow <- 1, MaxStarts <- 3,
  accounts <- dashAccounts, sessions <- dashSessions,
  projects <- dashProjects, imported <- dashImported, late <- dashLate,
  stage <- dashStage, token <- dashToken, who <- dashWho,
  stamp <- dashStamp, subject <- dashSubject, starts <- dashStarts,
  now <- dashNow

allVars == <<part, vars, policyVars, dashVars>>

\* Each component starts as it does alone; those the behaviour is not of stay so.
InitPart ==
  /\ part \in {"keys", "policy", "sessions"}
  /\ Init
  /\ Policy!Init
  /\ Console!Init

NextPart ==
  \/ /\ part = "keys" /\ Next
     /\ UNCHANGED <<part, policyVars, dashVars>>
  \/ /\ part = "policy" /\ Policy!Next
     /\ UNCHANGED <<part, vars, dashVars>>
  \/ /\ part = "sessions" /\ Console!Next
     /\ UNCHANGED <<part, vars, policyVars>>

SpecPart == InitPart /\ [][NextPart]_allVars

\* Every call and request that was made is answered.
FairSpecPart ==
  /\ SpecPart
  /\ \A c \in Call : WF_vars(part = "keys" /\ CallStep(c))
  /\ WF_policyVars(part = "policy" /\ Policy!CallStep(c2))
  /\ \A r \in {r1, r2} : WF_dashVars(part = "sessions" /\ Console!RequestStep(r))

-----------------------------------------------------------------------------
(* Properties of the other instances.                                      *)

\* What ended has its last calls answered and is never served again: keys that
\* were revoked or expired or whose project is archived (VerifyAPIKey), contracts
\* that are no longer allowed (enforceProjectPolicy), both but for the console of
\* the project's own tokens (dashboardERC20Action), sessions that were logged
\* out or expired, and all of an account that was disabled (GetAccountBySession).
AccessEnds ==
  /\ RevokedIsOver
  /\ Policy!ExpiredIsOver
  /\ Policy!ArchivedIsOver
  /\ Policy!PolicyTakesHold
  /\ Console!LoggedOutIsOver
  /\ Console!ExpiredIsOver
  /\ Console!DisabledIsOver
=============================================================================
