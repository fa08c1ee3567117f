------------------------- MODULE ZkProofSubmissions -------------------------
(***************************************************************************)
(* The submission of proofs to zkVerify (submitZKProofForApp in            *)
(* internal/httpapi/zkverify.go).  A request stores a record, runs         *)
(* scripts/zkverify.ts for at most four minutes, asks for the account,     *)
(* marks the record and answers with the newest record of the app.         *)
(*                                                                         *)
(* A request stands for its record and its proof.  A transaction that was  *)
(* sent may be finalised after its script was killed, or never.  A call of *)
(* the store may fail, before or after it took effect, and the engine may  *)
(* stop.  Asking for the account changes nothing and is left out, as is    *)
(* everything the proof says.                                              *)
(***************************************************************************)
EXTENDS Integers, FiniteSets

CONSTANTS
  Request,    \* submissions
  AppOf,      \* the app each is made for
  NoRequest,  \* no answer
  MaxNow,     \* bound on the clock
  MaxFaults   \* bound on failures of the store and the engine

RequestAssumption == NoRequest \notin Request /\ IsFiniteSet(Request)
AppAssumption == DOMAIN AppOf = Request
BoundAssumption == MaxNow \in Nat /\ MaxFaults \in Nat

VARIABLES
  stage,     \* where each request stands
  status,    \* its record's status, "absent" before it is stored
  createdAt, \* its createdAt
  answer,    \* the record it answered with
  sent,      \* proofs sent to zkVerify
  verified,  \* proofs zkVerify has finalised
  lost,      \* requests that met a failure of the store or the engine
  now        \* the clock

vars == <<stage, status, createdAt, answer, sent, verified, lost, now>>

Working == {"creating", "running", "failing", "finishing", "listing"}
Stage   == {"idle", "ok", "error", "gone"} \cup Working
Status  == {"absent", "queued", "submitted", "failed"}

TypeOK ==
  /\ stage \in [Request -> Stage]
  /\ status \in [Request -> Status]
  /\ \A r \in Request : status[r] = "absent" =>
       stage[r] \in {"idle", "creating", "error", "gone"}
  /\ createdAt \in [Request -> 0 .. MaxNow]
  /\ answer \in [Request -> Request \cup {NoRequest}]
  /\ verified \subseteq sent
  /\ sent \subseteq Request
  /\ Cardinality(lost) <= MaxFaults * Cardinality(Request)
  /\ now \in 0 .. MaxNow

Init ==
  /\ stage     = [r \in Request |-> "idle"]
  /\ status    = [r \in Request |-> "absent"]
  /\ createdAt = [r \in Request |-> 0]
  /\ answer    = [r \in Request |-> NoRequest]
  /\ sent      = {}
  /\ verified  = {}
  /\ lost      = {}
  /\ now       = 0

-----------------------------------------------------------------------------
(* The store.                                                              *)

\* Variant: the list is not told the app.
NewestOfAll(r) ==
  {s \in Request : status[s] # "absent" /\ \A t \in Request :
     status[t] # "absent" => createdAt[t] <= createdAt[s]}

\* ListZKProofSubmissions of the request's app with a limit of one: any of
\* those of the last second.
Newest(r) ==
  LET ofApp == {s \in Request : AppOf[s] = AppOf[r] /\ status[s] # "absent"}
  IN {s \in ofApp : \A t \in ofApp : createdAt[t] <= createdAt[s]}

\* Variant: an error of the store is dropped.
WriteOnward(r, value, next) ==
  /\ status' \in {status, [status EXCEPT ![r] = value]}
  /\ stage' = [stage EXCEPT ![r] = next]
  /\ UNCHANGED lost

\* A write of a record's status and what follows when it succeeds; a failure
\* leaves the client with an error, whether or not the write took effect.
Write(r, value, next) ==
  \/ /\ status' = [status EXCEPT ![r] = value]
     /\ stage' = [stage EXCEPT ![r] = next]
     /\ UNCHANGED lost
  \/ /\ Cardinality(lost) < MaxFaults
     /\ lost' = lost \cup {r}
     /\ stage' = [stage EXCEPT ![r] = "error"]
     /\ status' \in {status, [status EXCEPT ![r] = value]}

-----------------------------------------------------------------------------
(* submitZKProofForApp and the script.                                     *)

\* The handler reads the clock before the store's transaction.
Ask(r) ==
  /\ stage[r] = "idle"
  /\ stage' = [stage EXCEPT ![r] = "creating"]
  /\ createdAt' = [createdAt EXCEPT ![r] = now]
  /\ UNCHANGED <<status, answer, sent, verified, lost, now>>

CreateZKProofSubmission(r) ==
  /\ stage[r] = "creating"
  /\ Write(r, "queued", "running")
  /\ UNCHANGED <<createdAt, answer, sent, verified, now>>

\* The script sends the proof.
Send(r) ==
  /\ stage[r] = "running"
  /\ r \notin sent
  /\ sent' = sent \cup {r}
  /\ UNCHANGED <<stage, status, createdAt, answer, verified, lost, now>>

\* zkVerify finalises a proof, whoever still waits for it.
Finalise(r) ==
  /\ r \in sent \ verified
  /\ verified' = verified \cup {r}
  /\ UNCHANGED <<stage, status, createdAt, answer, sent, lost, now>>

Result(r) == r \in verified

ScriptDone(r) ==
  /\ stage[r] = "running"
  /\ Result(r)
  /\ stage' = [stage EXCEPT ![r] = "finishing"]
  /\ UNCHANGED <<status, createdAt, answer, sent, verified, lost, now>>

\* The script ends without a result: the proof was refused, a nonce was taken
\* by another submission, or its four minutes were over at any point.
Ends(r) == TRUE

ScriptFails(r) ==
  /\ stage[r] = "running"
  /\ Ends(r)
  /\ stage' = [stage EXCEPT ![r] = "failing"]
  /\ UNCHANGED <<status, createdAt, answer, sent, verified, lost, now>>

\* The client is told of the failure either way.
MarkZKProofSubmissionFailed(r) ==
  /\ stage[r] = "failing"
  /\ Write(r, "failed", "error")
  /\ UNCHANGED <<createdAt, answer, sent, verified, now>>

MarkZKProofSubmissionSubmitted(r) ==
  /\ stage[r] = "finishing"
  /\ Write(r, "submitted", "listing")
  /\ UNCHANGED <<createdAt, answer, sent, verified, now>>

\* The request's own record is the answer when the list fails.
Answer(r) ==
  /\ stage[r] = "listing"
  /\ \E s \in Newest(r) \cup {r} : answer' = [answer EXCEPT ![r] = s]
  /\ stage' = [stage EXCEPT ![r] = "ok"]
  /\ UNCHANGED <<status, createdAt, sent, verified, lost, now>>

\* The engine stops, and with it every request it serves.
EngineStops ==
  LET cut == {r \in Request : stage[r] \in Working}
  IN /\ cut # {}
     /\ Cardinality(lost) < MaxFaults
     /\ lost' = lost \cup cut
     /\ stage' = [r \in Request |-> IF r \in cut THEN "gone" ELSE stage[r]]
     /\ UNCHANGED <<status, createdAt, answer, sent, verified, now>>

Tick ==
  /\ now < MaxNow
  /\ now' = now + 1
  /\ UNCHANGED <<stage, status, createdAt, answer, sent, verified, lost>>

\* What the engine does for a request once it has it.
Serve(r) ==
  \/ CreateZKProofSubmission(r)
  \/ ScriptDone(r)
  \/ ScriptFails(r)
  \/ MarkZKProofSubmissionFailed(r)
  \/ MarkZKProofSubmissionSubmitted(r)
  \/ Answer(r)

Next ==
  \/ \E r \in Request : Ask(r) \/ Send(r) \/ Finalise(r) \/ Serve(r)
  \/ EngineStops
  \/ Tick

Spec == Init /\ [][Next]_vars

\* A handler goes on while the engine runs, and its script ends within the
\* time it is given; zkVerify need not finalise anything.
FairSpec == Spec /\ \A r \in Request : WF_vars(Serve(r))

-----------------------------------------------------------------------------
(* Properties.                                                             *)

\* A request that is answered with 202 had its proof finalised and its own
\* record says so, and no other record does: a wallet nonce lost to another
\* submission, a kill or a failing store never count as success.
OkIsVerified ==
  \A r \in Request :
    /\ stage[r] = "ok" => status[r] = "submitted"
    /\ status[r] = "submitted" => r \in verified

\* The record in the answer is the request's own, unless another request of
\* the same app stored one in the same second or later: never an older one
\* and never one of another app.
AnswerIsOwnUnlessNewer ==
  \A r \in Request : stage[r] = "ok" /\ answer[r] # r =>
    LET s == answer[r]
    IN s \in Request /\ AppOf[s] = AppOf[r] /\ createdAt[s] >= createdAt[r]

\* A queued record is settled by its own request unless the store or the
\* engine failed it: nothing else ever looks at it again.
QueuedSettles ==
  \A r \in Request :
    status[r] = "queued" ~> (status[r] \in {"submitted", "failed"} \/ r \in lost)
=============================================================================
