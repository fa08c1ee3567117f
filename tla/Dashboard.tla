------------------------------- MODULE Dashboard -------------------------------
(***************************************************************************)
(* The accounts, sessions and projects behind the dashboard.  Every start  *)
(* of an engine seeds the configured owner account and disables the legacy *)
(* one (internal/store/memgraph.go, SeedOwnerAccount).  A login checks the *)
(* password and then creates a session; a request of the dashboard loads   *)
(* the account of its session once and then acts as that account           *)
(* (internal/httpapi/api.go, dashboard.go), while other requests log the   *)
(* session out and archive the project and a new engine starts.            *)
(*                                                                         *)
(* An account is its username.  Of a project's settings the trading fee    *)
(* stands for all: it is written like the others and is the one that is    *)
(* brought into a range.                                                   *)
(***************************************************************************)
EXTENDS Integers, FiniteSets

CONSTANTS
  Name,        \* usernames the owner account is configured with
  Password,    \* its passwords
  Token,       \* session tokens that may be issued
  Project,     \* projects that may be created
  Contract,    \* contracts that may be imported
  Request,     \* requests of browsers served at the same time
  Fee,         \* trading fees a request may ask for, in basis points
  DefaultFee,  \* fee of a new project that asks for none (50)
  MaxFee,      \* greatest trading fee (1000)
  NoOne,       \* no account, no token, no project
  SessionTTL,  \* lifetime of a session
  MaxNow,      \* bound on the clock
  MaxStarts    \* bound on the starts of an engine

ASSUME NoOneAssumption == NoOne \notin Name \cup Token \cup Project
ASSUME FeeAssumption == Fee \subseteq Int /\ MaxFee \in Nat /\ DefaultFee \in 1 .. MaxFee
ASSUME BoundsAssumption ==
  /\ SessionTTL \in Nat \ {0} /\ MaxNow \in Nat /\ MaxStarts \in Nat
  /\ IsFiniteSet(Request) /\ IsFiniteSet(Contract)

VARIABLES
  accounts,  \* the stored accounts
  sessions,  \* the issued sessions
  projects,  \* the stored projects
  imported,  \* the project of each imported contract, while it is not deleted
  late,      \* history: contracts imported into an archived project
  stage,     \* where each request stands
  token,     \* the session it came with
  who,       \* the account it acts as
  stamp,     \* the time it has read or computed
  subject,   \* the project it imports into
  starts,    \* starts of an engine so far
  now        \* the clock

requestVars == <<stage, token, who, stamp, subject>>
projectVars == <<projects, imported, late>>
vars        == <<accounts, sessions, projectVars, requestVars, starts, now>>

NoAccount == [status |-> "absent", legacy |-> FALSE, password |-> NoOne]
NoSession == [status |-> "absent", account |-> NoOne, expires |-> 0]
NoProject == [status |-> "absent", owner |-> NoOne, fee |-> 0]

TypeOK ==
  /\ accounts \in [Name -> [status: {"absent", "active", "disabled"}, legacy: BOOLEAN,
                            password: Password \cup {NoOne}]]
  /\ sessions \in [Token -> [status: {"absent", "live", "deleted"}, account: Name \cup {NoOne},
                             expires: 0 .. MaxNow + SessionTTL]]
  /\ projects \in [Project -> [status: {"absent", "active", "archived"},
                               owner: Name \cup {NoOne}, fee: 0 .. MaxFee]]
  /\ imported \in [Contract -> Project \cup {NoOne}]
  /\ late \subseteq Contract
  /\ stage \in [Request -> {"idle", "creatingSession", "checking", "served", "importing"}]
  /\ token \in [Request -> Token \cup {NoOne}]
  /\ who \in [Request -> Name \cup {NoOne}]
  /\ stamp \in [Request -> 0 .. MaxNow + SessionTTL]
  /\ subject \in [Request -> Project \cup {NoOne}]
  /\ starts \in 0 .. MaxStarts
  /\ now \in 0 .. MaxNow

Init ==
  /\ accounts = [n \in Name |-> NoAccount]
  /\ sessions = [t \in Token |-> NoSession]
  /\ projects = [p \in Project |-> NoProject]
  /\ imported = [x \in Contract |-> NoOne]
  /\ late     = {}
  /\ stage    = [r \in Request |-> "idle"]
  /\ token    = [r \in Request |-> NoOne]
  /\ who      = [r \in Request |-> NoOne]
  /\ stamp    = [r \in Request |-> 0]
  /\ subject  = [r \in Request |-> NoOne]
  /\ starts   = 0
  /\ now      = 0

-----------------------------------------------------------------------------
(* Accounts.                                                               *)

\* The account a start leaves: new ones are active, stored ones keep their
\* status and get the configured email and password.
Seeded(n, legacy, p) ==
  [status |-> IF accounts[n].status = "absent" THEN "active" ELSE accounts[n].status,
   legacy |-> legacy, password |-> p]

\* An engine starts with the owner's name, email (the legacy one or another)
\* and password; other accounts with the legacy email are disabled.  The
\* requests of another engine go on, those of this one are lost.
SeedOwnerAccount ==
  /\ starts < MaxStarts
  /\ starts' = starts + 1
  /\ \E n \in Name, legacy \in BOOLEAN, p \in Password :
       accounts' = [a \in Name |->
         IF a = n THEN Seeded(n, legacy, p)
         ELSE IF accounts[a].status # "absent" /\ accounts[a].legacy
                THEN [accounts[a] EXCEPT !.status = "disabled"]
                ELSE accounts[a]]
  /\ \/ UNCHANGED requestVars
     \/ /\ stage'   = [r \in Request |-> "idle"]
        /\ token'   = [r \in Request |-> NoOne]
        /\ who'     = [r \in Request |-> NoOne]
        /\ stamp'   = [r \in Request |-> 0]
        /\ subject' = [r \in Request |-> NoOne]
  /\ UNCHANGED <<sessions, projectVars, now>>

\* The request moves on.
Goes(r, where, t, n, time, p) ==
  /\ stage'   = [stage EXCEPT ![r] = where]
  /\ token'   = [token EXCEPT ![r] = t]
  /\ who'     = [who EXCEPT ![r] = n]
  /\ stamp'   = [stamp EXCEPT ![r] = time]
  /\ subject' = [subject EXCEPT ![r] = p]

\* The answer is sent.
Ends(r) == Goes(r, "idle", NoOne, NoOne, 0, NoOne)

\* A login with the password of an active account; the session's expiry is
\* computed before the store is asked for one.
VerifyAccountPassword(r) ==
  /\ stage[r] = "idle"
  /\ \E n \in Name, p \in Password :
       /\ accounts[n].status = "active" /\ accounts[n].password = p
       /\ Goes(r, "creatingSession", NoOne, n, now + SessionTTL, NoOne)
  /\ UNCHANGED <<accounts, sessions, projectVars, starts, now>>

\* A session with a new token for the account, whatever its status is by now;
\* the store may fail, or its answer be lost.
CreateAccountSession(r) ==
  /\ stage[r] = "creatingSession"
  /\ \/ UNCHANGED sessions
     \/ \E t \in Token :
          /\ sessions[t].status = "absent"
          /\ sessions' = [sessions EXCEPT ![t] =
               [status |-> "live", account |-> who[r], expires |-> stamp[r]]]
  /\ Ends(r)
  /\ UNCHANGED <<accounts, projectVars, starts, now>>

-----------------------------------------------------------------------------
(* Requests of a session.                                                  *)

\* The clock is read before the store is asked for the session's account.
BeginRequest(r) ==
  /\ stage[r] = "idle"
  /\ \E t \in Token :
       sessions[t].status # "absent" /\ Goes(r, "checking", t, NoOne, now, NoOne)
  /\ UNCHANGED <<accounts, sessions, projectVars, starts, now>>

\* The session is stored, has not expired and its account is active.
SessionServed(t, time) ==
  /\ sessions[t].status = "live"
  /\ accounts[sessions[t].account].status = "active"
  /\ sessions[t].expires > time

\* From here on the request acts as the session's account, or is refused.
GetAccountBySession(r) ==
  /\ stage[r] = "checking"
  /\ IF SessionServed(token[r], stamp[r])
       THEN Goes(r, "served", token[r], sessions[token[r]].account, 0, NoOne)
       ELSE Ends(r)
  /\ UNCHANGED <<accounts, sessions, projectVars, starts, now>>

\* The fee a request gets.
NormalizeTradingFeeBps(fee) == IF fee < 0 THEN 0 ELSE IF fee > MaxFee THEN MaxFee ELSE fee
\* The fee of a new project, which cannot be nothing.
DefaultTradingFeeBps(fee) == IF fee <= 0 THEN DefaultFee ELSE NormalizeTradingFeeBps(fee)

CreateAccountApp(r) ==
  /\ stage[r] = "served"
  /\ \E p \in Project, fee \in Fee :
       /\ projects[p].status = "absent"
       /\ projects' = [projects EXCEPT ![p] =
            [status |-> "active", owner |-> who[r], fee |-> DefaultTradingFeeBps(fee)]]
  /\ Ends(r)
  /\ UNCHANGED <<accounts, sessions, imported, late, starts, now>>

\* Finds the project by its id alone.
AnyonesProject(n, p) == projects[p].status # "absent"
\* The project of the account, archived or not: MATCH by OWNS_ENGINE_APP.
Owns(n, p) == projects[p].status # "absent" /\ projects[p].owner = n

\* Finds archived projects too.
AnyProjectOf(n, p) == Owns(n, p)
\* The project as the dashboard finds it: the archived ones are gone.
GetAccountApp(n, p) == Owns(n, p) /\ projects[p].status # "archived"

\* The settings of a project change unless it is archived by then.
SetFee(p, fee) ==
  /\ projects[p].status = "active"
  /\ projects' = [projects EXCEPT ![p].fee = NormalizeTradingFeeBps(fee)]

UpdateAccountApp(r) ==
  /\ stage[r] = "served"
  /\ \E p \in Project, fee \in Fee : Owns(who[r], p) /\ SetFee(p, fee)
  /\ Ends(r)
  /\ UNCHANGED <<accounts, sessions, imported, late, starts, now>>

\* The project's own API changes a setting at any time; a fee out of range is
\* refused there.
UpdateAppTradingFee ==
  /\ \E p \in Project, fee \in Fee :
       projects[p].status # "absent" /\ fee \in 0 .. MaxFee /\ SetFee(p, fee)
  /\ UNCHANGED <<accounts, sessions, imported, late, requestVars, starts, now>>

\* Nothing makes an archived project active again.
ArchiveAccountApp(r) ==
  /\ stage[r] = "served"
  /\ \E p \in Project :
       Owns(who[r], p) /\ projects' = [projects EXCEPT ![p].status = "archived"]
  /\ Ends(r)
  /\ UNCHANGED <<accounts, sessions, imported, late, starts, now>>

\* An import looks for the project and then stores the contract.
ImportContract(r) ==
  /\ stage[r] = "served"
  /\ \E p \in Project : GetAccountApp(who[r], p) /\ Goes(r, "importing", token[r], who[r], 0, p)
  /\ UNCHANGED <<accounts, sessions, projectVars, starts, now>>

\* The contract is stored in the project, archived by now or not; or the
\* store fails.
CreateImportedContract(r) ==
  /\ stage[r] = "importing"
  /\ \/ UNCHANGED <<imported, late>>
     \/ \E x \in Contract :
          /\ imported[x] = NoOne /\ x \notin late
          /\ imported' = [imported EXCEPT ![x] = subject[r]]
          /\ late' = IF projects[subject[r]].status = "archived" THEN late \cup {x} ELSE late
  /\ Ends(r)
  /\ UNCHANGED <<accounts, sessions, projects, starts, now>>

\* A contract of any project of the account.
DeleteImportedContract(r) ==
  /\ stage[r] = "served"
  /\ \E x \in Contract :
       /\ imported[x] # NoOne /\ Owns(who[r], imported[x])
       /\ imported' = [imported EXCEPT ![x] = NoOne]
  /\ Ends(r)
  /\ UNCHANGED <<accounts, sessions, projects, late, starts, now>>

\* A logout deletes the session it came with; a failure of the store to do so
\* is ignored.
Logout(r) ==
  /\ stage[r] = "served"
  /\ \/ UNCHANGED sessions
     \/ sessions' = [sessions EXCEPT ![token[r]].status = "deleted"]
  /\ Ends(r)
  /\ UNCHANGED <<accounts, projectVars, starts, now>>

\* A request that only reads, or that is refused.
Answer(r) ==
  /\ stage[r] = "served"
  /\ Ends(r)
  /\ UNCHANGED <<accounts, sessions, projectVars, starts, now>>

Tick ==
  /\ now < MaxNow
  /\ now' = now + 1
  /\ UNCHANGED <<accounts, sessions, projectVars, requestVars, starts>>

-----------------------------------------------------------------------------

\* What a request does once it has been made.
RequestStep(r) ==
  \/ CreateAccountSession(r)
  \/ GetAccountBySession(r)
  \/ CreateAccountApp(r)
  \/ UpdateAccountApp(r)
  \/ ArchiveAccountApp(r)
  \/ ImportContract(r)
  \/ CreateImportedContract(r)
  \/ DeleteImportedContract(r)
  \/ Logout(r)
  \/ Answer(r)

Next ==
  \/ \E r \in Request : VerifyAccountPassword(r) \/ BeginRequest(r) \/ RequestStep(r)
  \/ SeedOwnerAccount
  \/ UpdateAppTradingFee
  \/ Tick

Spec == Init /\ [][Next]_vars

\* Every request that was made is answered.
FairSpec == Spec /\ \A r \in Request : WF_vars(RequestStep(r))

-----------------------------------------------------------------------------
(* Properties.                                                             *)

Serving == {"served", "importing"}

\* A project is changed by a request of its owner, or through its own API,
\* which changes its settings only; no other account can touch it, and it
\* keeps its owner (UpdateAccountApp, ArchiveAccountApp).
OnlyOwnerChanges ==
  [][\A p \in Project : projects[p].status # "absent" /\ projects'[p] # projects[p] =>
       /\ projects'[p].owner = projects[p].owner
       /\ \/ projects'[p].status = projects[p].status /\ requestVars' = requestVars
          \/ \E r \in Request : stage[r] = "served" /\ stage'[r] = "idle"
                                /\ who[r] = projects[p].owner]_vars

\* An archived project is left as it is, by requests that found it before it
\* was archived as well (ArchiveAccountApp, UpdateAppTradingFee).
ArchivedIsFrozen ==
  [][\A p \in Project : projects[p].status = "archived" => projects'[p] = projects[p]]_vars

\* Only requests that found a project before it was archived may still import
\* contracts into it: no more of them than are served at a time
\* (dashboardImportContract).
LateImportsBounded ==
  \A p \in Project : Cardinality({x \in late : imported[x] = p}) <= Cardinality(Request)

\* Requests being served in session t.
ServedIn(t) == {r \in Request : token[r] = t /\ stage[r] \in Serving}

\* A session that was logged out has its last requests answered and is never
\* served again (DeleteAccountSession).
LoggedOutIsOver == \A t \in Token : sessions[t].status = "deleted" ~> [](ServedIn(t) = {})

\* So it is with a session that expires (GetAccountBySession).
ExpiredIsOver ==
  \A t \in Token :
    sessions[t].status # "absent" /\ now >= sessions[t].expires ~> [](ServedIn(t) = {})

\* And with all sessions of an account that was disabled, one created by a
\* login that was under way included (SeedOwnerAccount).
DisabledIsOver ==
  \A n \in Name : accounts[n].status = "disabled"
                    ~> [](\A r \in Request : ~(who[r] = n /\ stage[r] \in Serving))
=============================================================================
