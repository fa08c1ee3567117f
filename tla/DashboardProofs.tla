---------------------------- MODULE DashboardProofs ----------------------------
(***************************************************************************)
(* Machine-checked proofs about Dashboard, for any accounts, sessions,     *)
(* projects, contracts and requests.                                       *)
(*                                                                         *)
(* A request acts as an account, and imports into a project, that it found *)
(* in an earlier call to the store (Acting).  LateImportsBounded needs a   *)
(* count: once a project is archived no request finds it any more, so each *)
(* late import uses up one of the requests that already had.               *)
(***************************************************************************)
EXTENDS Dashboard, FiniteSetTheorems, TLAPS

AccountType == [status: {"absent", "active", "disabled"}, legacy: BOOLEAN,
                password: Password \cup {NoOne}]
SessionType == [status: {"absent", "live", "deleted"}, account: Name \cup {NoOne},
                expires: 0 .. MaxNow + SessionTTL]
ProjectType == [status: {"absent", "active", "archived"}, owner: Name \cup {NoOne},
                fee: 0 .. MaxFee]

\* What a request has found is there.
Acting ==
  /\ \A r \in Request :
       /\ stage[r] \in {"creatingSession", "served", "importing"} => who[r] \in Name
       /\ stage[r] \in {"checking", "served"} =>
            token[r] \in Token /\ sessions[token[r]].status # "absent"
       /\ stage[r] = "importing" => subject[r] \in Project
  /\ \A t \in Token : sessions[t].status # "absent" => sessions[t].account \in Name

\* Contracts imported too late into a project, and the requests that may
\* still import one.
LateIn(p) == {x \in late : imported[x] = p}
Importing(p) == {r \in Request : stage[r] = "importing" /\ subject[r] = p}

LateCount ==
  \A p \in Project :
    IF projects[p].status = "archived"
      THEN Cardinality(LateIn(p)) + Cardinality(Importing(p)) <= Cardinality(Request)
      ELSE LateIn(p) = {}

IInv == TypeOK /\ Acting /\ LateCount

USE NoOneAssumption, FeeAssumption, BoundsAssumption

-----------------------------------------------------------------------------
(* Counting late imports.                                                  *)

LEMMA Finite ==
  ASSUME TypeOK, NEW p \in Project
  PROVE  /\ IsFiniteSet(LateIn(p)) /\ Cardinality(LateIn(p)) \in Nat
         /\ IsFiniteSet(Importing(p)) /\ Cardinality(Importing(p)) \in Nat
         /\ Cardinality(Importing(p)) <= Cardinality(Request)
         /\ Cardinality(Request) \in Nat
<1>1. LateIn(p) \subseteq Contract
  BY DEF LateIn, TypeOK
<1>2. Importing(p) \subseteq Request
  BY DEF Importing
<1>3. QED
  BY <1>1, <1>2, FS_Subset, FS_CardinalityType

\* Steps that import nothing late.
LEMMA CountKept ==
  ASSUME TypeOK, TypeOK', LateCount,
         \A p \in Project : LateIn(p)' \subseteq LateIn(p),
         \A p \in Project : projects[p].status = "archived" =>
           projects'[p].status = "archived" /\ Importing(p)' \subseteq Importing(p)
  PROVE  LateCount'
<1>1. ASSUME NEW p \in Project, projects'[p].status = "archived"
      PROVE  Cardinality(LateIn(p)') + Cardinality(Importing(p)') <= Cardinality(Request)
  <2>1. CASE projects[p].status = "archived"
    <3>1. Cardinality(LateIn(p)) + Cardinality(Importing(p)) <= Cardinality(Request)
      BY <2>1 DEF LateCount
    <3>2. /\ Cardinality(LateIn(p)') <= Cardinality(LateIn(p))
          /\ Cardinality(LateIn(p)') \in Nat
      BY Finite, FS_Subset, FS_CardinalityType
    <3>3. /\ Cardinality(Importing(p)') <= Cardinality(Importing(p))
          /\ Cardinality(Importing(p)') \in Nat
      BY <2>1, Finite, FS_Subset, FS_CardinalityType
    <3>4. QED
      BY <3>1, <3>2, <3>3, Finite
  <2>2. CASE projects[p].status # "archived"
    <3>1. LateIn(p)' = {}
      BY <2>2 DEF LateCount
    <3>2. Cardinality(LateIn(p)') = 0
      BY <3>1, FS_EmptySet
    <3>3. Importing(p)' \subseteq Request
      BY DEF Importing
    <3>4. /\ Cardinality(Importing(p)') <= Cardinality(Request)
          /\ Cardinality(Importing(p)') \in Nat
      BY <3>3, FS_Subset, FS_CardinalityType
    <3>5. QED
      BY <3>2, <3>4, Finite
  <2>3. QED
    BY <2>1, <2>2
<1>2. ASSUME NEW p \in Project, projects'[p].status # "archived"
      PROVE  LateIn(p)' = {}
  BY <1>2 DEF LateCount
<1>3. QED
  BY <1>1, <1>2 DEF LateCount

\* Steps that leave projects and contracts alone and do not import.
LEMMA CountAlone ==
  ASSUME TypeOK, TypeOK', LateCount, UNCHANGED projectVars,
         \A r \in Request : stage'[r] = "importing" =>
           stage[r] = "importing" /\ subject'[r] = subject[r]
  PROVE  LateCount'
<1>1. \A p \in Project : LateIn(p)' = LateIn(p) /\ Importing(p)' \subseteq Importing(p)
  BY DEF LateIn, Importing, projectVars
<1>2. QED
  BY <1>1, CountKept DEF projectVars

-----------------------------------------------------------------------------
(* Steps of requests.                                                      *)

\* A request that moves on leaves the others where they are.
LEMMA GoesType ==
  ASSUME TypeOK, NEW r \in Request,
         NEW w \in {"idle", "creatingSession", "checking", "served", "importing"},
         NEW t \in Token \cup {NoOne}, NEW n \in Name \cup {NoOne},
         NEW time \in 0 .. MaxNow + SessionTTL, NEW p \in Project \cup {NoOne},
         Goes(r, w, t, n, time, p)
  PROVE  /\ stage' \in [Request -> {"idle", "creatingSession", "checking", "served", "importing"}]
         /\ token' \in [Request -> Token \cup {NoOne}]
         /\ who' \in [Request -> Name \cup {NoOne}]
         /\ stamp' \in [Request -> 0 .. MaxNow + SessionTTL]
         /\ subject' \in [Request -> Project \cup {NoOne}]
         /\ stage'[r] = w /\ token'[r] = t /\ who'[r] = n /\ subject'[r] = p
         /\ \A o \in Request \ {r} : /\ stage'[o] = stage[o] /\ token'[o] = token[o]
                                     /\ who'[o] = who[o] /\ subject'[o] = subject[o]
<1>1. /\ stage' \in [Request -> {"idle", "creatingSession", "checking", "served", "importing"}]
      /\ stage'[r] = w
      /\ \A o \in Request \ {r} : stage'[o] = stage[o]
  BY DEF TypeOK, Goes
<1>2. /\ token' \in [Request -> Token \cup {NoOne}]
      /\ token'[r] = t
      /\ \A o \in Request \ {r} : token'[o] = token[o]
  BY DEF TypeOK, Goes
<1>3. /\ who' \in [Request -> Name \cup {NoOne}]
      /\ who'[r] = n
      /\ \A o \in Request \ {r} : who'[o] = who[o]
  BY DEF TypeOK, Goes
<1>4. stamp' \in [Request -> 0 .. MaxNow + SessionTTL]
  BY DEF TypeOK, Goes
<1>5. /\ subject' \in [Request -> Project \cup {NoOne}]
      /\ subject'[r] = p
      /\ \A o \in Request \ {r} : subject'[o] = subject[o]
  BY DEF TypeOK, Goes
<1>6. QED
  BY <1>1, <1>2, <1>3, <1>4, <1>5

LEMMA EndsType ==
  ASSUME TypeOK, NEW r \in Request, Ends(r)
  PROVE  /\ stage' \in [Request -> {"idle", "creatingSession", "checking", "served", "importing"}]
         /\ token' \in [Request -> Token \cup {NoOne}]
         /\ who' \in [Request -> Name \cup {NoOne}]
         /\ stamp' \in [Request -> 0 .. MaxNow + SessionTTL]
         /\ subject' \in [Request -> Project \cup {NoOne}]
         /\ stage'[r] = "idle"
         /\ \A o \in Request \ {r} : /\ stage'[o] = stage[o] /\ token'[o] = token[o]
                                     /\ who'[o] = who[o] /\ subject'[o] = subject[o]
<1>1. 0 \in 0 .. MaxNow + SessionTTL
  OBVIOUS
<1>2. Goes(r, "idle", NoOne, NoOne, 0, NoOne)
  BY DEF Ends
<1>3. QED
  BY <1>1, <1>2, GoesType

\* An ending request, and a step that leaves projects and sessions alone.
LEMMA EndsKeeps ==
  ASSUME IInv, NEW r \in Request, Ends(r), TypeOK'
  PROVE  /\ \A o \in Request :
              /\ stage'[o] \in {"creatingSession", "served", "importing"} => who'[o] \in Name
              /\ stage'[o] \in {"checking", "served"} =>
                   token'[o] \in Token /\ sessions[token'[o]].status # "absent"
              /\ stage'[o] = "importing" => subject'[o] \in Project
         /\ \A p \in Project : Importing(p)' \subseteq Importing(p)
<1>1. TypeOK /\ Acting
  BY DEF IInv
<1>2. /\ stage'[r] = "idle"
      /\ \A o \in Request \ {r} : /\ stage'[o] = stage[o] /\ token'[o] = token[o]
                                  /\ who'[o] = who[o] /\ subject'[o] = subject[o]
  BY <1>1, EndsType
<1>3. QED
  BY <1>1, <1>2 DEF Acting, Importing

\* A request that goes on, in a step that changes nothing stored.
LEMMA GoesPreserves ==
  ASSUME IInv, NEW r \in Request,
         NEW w \in {"idle", "creatingSession", "checking", "served", "importing"},
         NEW t \in Token \cup {NoOne}, NEW n \in Name \cup {NoOne},
         NEW time \in 0 .. MaxNow + SessionTTL, NEW p \in Project \cup {NoOne},
         Goes(r, w, t, n, time, p),
         w \in {"creatingSession", "served", "importing"} => n \in Name,
         w \in {"checking", "served"} => t \in Token /\ sessions[t].status # "absent",
         w = "importing" => p \in Project /\ projects[p].status # "archived",
         UNCHANGED <<accounts, sessions, projectVars, starts, now>>
  PROVE  IInv'
<1>1. TypeOK /\ Acting /\ LateCount
  BY DEF IInv
<1>2. /\ stage' \in [Request -> {"idle", "creatingSession", "checking", "served", "importing"}]
      /\ token' \in [Request -> Token \cup {NoOne}]
      /\ who' \in [Request -> Name \cup {NoOne}]
      /\ stamp' \in [Request -> 0 .. MaxNow + SessionTTL]
      /\ subject' \in [Request -> Project \cup {NoOne}]
      /\ stage'[r] = w /\ token'[r] = t /\ who'[r] = n /\ subject'[r] = p
      /\ \A o \in Request \ {r} : /\ stage'[o] = stage[o] /\ token'[o] = token[o]
                                  /\ who'[o] = who[o] /\ subject'[o] = subject[o]
  BY <1>1, GoesType
<1>3. TypeOK'
  BY <1>1, <1>2 DEF TypeOK, projectVars
<1>4. Acting'
  BY <1>1, <1>2 DEF Acting
<1>5. \A q \in Project : LateIn(q)' = LateIn(q)
  BY DEF LateIn, projectVars
<1>6. \A q \in Project : projects[q].status = "archived" => Importing(q)' \subseteq Importing(q)
  BY <1>2 DEF Importing
<1>7. LateCount'
  BY <1>1, <1>3, <1>5, <1>6, CountKept DEF projectVars
<1>8. QED
  BY <1>3, <1>4, <1>7 DEF IInv

-----------------------------------------------------------------------------

\* A login, and a request that is made.
LEMMA BeginPreserves ==
  ASSUME IInv, NEW r \in Request, VerifyAccountPassword(r) \/ BeginRequest(r)
  PROVE  IInv'
<1>1. now \in 0 .. MaxNow
  BY DEF IInv, TypeOK
<1>2. now \in 0 .. MaxNow + SessionTTL /\ now + SessionTTL \in 0 .. MaxNow + SessionTTL
  BY <1>1
<1>3. CASE VerifyAccountPassword(r)
  <2>1. PICK n \in Name : Goes(r, "creatingSession", NoOne, n, now + SessionTTL, NoOne)
    BY <1>3 DEF VerifyAccountPassword
  <2>2. UNCHANGED <<accounts, sessions, projectVars, starts, now>>
    BY <1>3 DEF VerifyAccountPassword
  <2>3. QED
    BY <1>2, <2>1, <2>2, GoesPreserves
<1>4. CASE BeginRequest(r)
  <2>1. PICK t \in Token : /\ sessions[t].status # "absent"
                           /\ Goes(r, "checking", t, NoOne, now, NoOne)
    BY <1>4 DEF BeginRequest
  <2>2. UNCHANGED <<accounts, sessions, projectVars, starts, now>>
    BY <1>4 DEF BeginRequest
  <2>3. QED
    BY <1>2, <2>1, <2>2, GoesPreserves
<1>5. QED
  BY <1>3, <1>4

LEMMA EndsAlone ==
  ASSUME IInv, NEW r \in Request, Ends(r),
         UNCHANGED <<accounts, sessions, projectVars, starts, now>>
  PROVE  IInv'
<1>1. 0 \in 0 .. MaxNow + SessionTTL
  OBVIOUS
<1>2. Goes(r, "idle", NoOne, NoOne, 0, NoOne)
  BY DEF Ends
<1>3. QED
  BY <1>1, <1>2, GoesPreserves

LEMMA GetAccountBySessionPreserves ==
  ASSUME IInv, NEW r \in Request, GetAccountBySession(r)
  PROVE  IInv'
<1>1. UNCHANGED <<accounts, sessions, projectVars, starts, now>>
  BY DEF GetAccountBySession
<1>2. CASE SessionServed(token[r], stamp[r])
  <2>1. Goes(r, "served", token[r], sessions[token[r]].account, 0, NoOne)
    BY <1>2 DEF GetAccountBySession
  <2>2. token[r] \in Token /\ sessions[token[r]].status # "absent"
    BY DEF IInv, Acting, GetAccountBySession
  <2>3. sessions[token[r]].account \in Name
    BY <1>2, <2>2 DEF IInv, Acting, SessionServed
  <2>4. QED
    BY <1>1, <2>1, <2>2, <2>3, GoesPreserves
<1>3. CASE ~SessionServed(token[r], stamp[r])
  BY <1>1, <1>3, EndsAlone DEF GetAccountBySession
<1>4. QED
  BY <1>2, <1>3

LEMMA ImportContractPreserves ==
  ASSUME IInv, NEW r \in Request, ImportContract(r)
  PROVE  IInv'
<1>1. PICK p \in Project :
        GetAccountApp(who[r], p) /\ Goes(r, "importing", token[r], who[r], 0, p)
  BY DEF ImportContract
<1>2. UNCHANGED <<accounts, sessions, projectVars, starts, now>>
  BY DEF ImportContract
<1>3. who[r] \in Name /\ token[r] \in Token /\ sessions[token[r]].status # "absent"
  BY DEF IInv, Acting, ImportContract
<1>4. projects[p].status # "archived"
  BY <1>1 DEF GetAccountApp
<1>5. QED
  BY <1>1, <1>2, <1>3, <1>4, GoesPreserves

\* Sessions: a login that creates one, a logout that deletes one.
LEMMA SessionsPreserve ==
  ASSUME IInv, NEW r \in Request, Ends(r),
         UNCHANGED <<accounts, projectVars, starts, now>>,
         sessions' \in [Token -> SessionType],
         \A t \in Token :
           /\ sessions'[t].status # "absent" => sessions'[t].account \in Name
           /\ sessions[t].status # "absent" => sessions'[t].status # "absent"
  PROVE  IInv'
<1>1. TypeOK /\ Acting /\ LateCount
  BY DEF IInv
<1>2. TypeOK'
  BY <1>1, EndsType DEF TypeOK, SessionType, projectVars
<1>3. Acting'
  BY <1>2, EndsKeeps DEF Acting
<1>4. \A p \in Project : LateIn(p)' = LateIn(p)
  BY DEF LateIn, projectVars
<1>5. LateCount'
  BY <1>1, <1>2, <1>4, EndsKeeps, CountKept DEF projectVars
<1>6. QED
  BY <1>2, <1>3, <1>5 DEF IInv

LEMMA SessionStepPreserves ==
  ASSUME IInv, NEW r \in Request, CreateAccountSession(r) \/ Logout(r)
  PROVE  IInv'
<1>1. Ends(r) /\ UNCHANGED <<accounts, projectVars, starts, now>>
  BY DEF CreateAccountSession, Logout
<1>2. TypeOK /\ Acting /\ sessions \in [Token -> SessionType]
  BY DEF IInv, TypeOK, SessionType
<1>3. CASE UNCHANGED sessions
  BY <1>1, <1>3, EndsAlone
<1>4. CASE stage[r] = "creatingSession" /\ ~UNCHANGED sessions
  <2>1. PICK t \in Token : sessions' = [sessions EXCEPT ![t] =
          [status |-> "live", account |-> who[r], expires |-> stamp[r]]]
    BY <1>4 DEF CreateAccountSession, Logout
  <2>2. who[r] \in Name /\ stamp[r] \in 0 .. MaxNow + SessionTTL
    BY <1>2, <1>4 DEF Acting, TypeOK
  <2>3. [status |-> "live", account |-> who[r], expires |-> stamp[r]] \in SessionType
    BY <2>2 DEF SessionType
  <2>4. /\ sessions' \in [Token -> SessionType]
        /\ \A u \in Token :
             /\ sessions'[u].status # "absent" => sessions'[u].account \in Name
             /\ sessions[u].status # "absent" => sessions'[u].status # "absent"
    BY <1>2, <2>1, <2>2, <2>3 DEF Acting
  <2>5. QED
    BY <1>1, <2>4, SessionsPreserve
<1>5. CASE stage[r] = "served" /\ ~UNCHANGED sessions
  <2>1. sessions' = [sessions EXCEPT ![token[r]] = [sessions[token[r]] EXCEPT !.status = "deleted"]]
    BY <1>5 DEF CreateAccountSession, Logout
  <2>2. token[r] \in Token /\ sessions[token[r]].status # "absent"
    BY <1>2, <1>5 DEF Acting
  <2>3. [sessions[token[r]] EXCEPT !.status = "deleted"] \in SessionType
    BY <1>2, <2>2 DEF SessionType
  <2>4. sessions' \in [Token -> SessionType]
    BY <1>2, <2>1, <2>3
  <2>5. \A u \in Token : sessions'[u].account = sessions[u].account
    BY <1>2, <2>1, <2>2 DEF SessionType
  <2>6. \A u \in Token : u # token[r] => sessions'[u] = sessions[u]
    BY <1>2, <2>1, <2>2
  <2>7. \A u \in Token :
          /\ sessions'[u].status # "absent" => sessions'[u].account \in Name
          /\ sessions[u].status # "absent" => sessions'[u].status # "absent"
    BY <1>2, <2>1, <2>2, <2>5, <2>6 DEF Acting, SessionType
  <2>8. QED
    BY <1>1, <2>4, <2>7, SessionsPreserve
<1>6. QED
  BY <1>3, <1>4, <1>5 DEF CreateAccountSession, Logout

-----------------------------------------------------------------------------
(* Steps that change projects.                                             *)

\* The fee a request gets is in the range, whatever it asks for.
LEMMA FeeInRange ==
  ASSUME NEW fee \in Fee
  PROVE  NormalizeTradingFeeBps(fee) \in 0 .. MaxFee /\ DefaultTradingFeeBps(fee) \in 0 .. MaxFee
  BY DEF NormalizeTradingFeeBps, DefaultTradingFeeBps

\* A step that changes projects, none of them from archived, while requests
\* stay or one ends.
LEMMA ProjectsPreserve ==
  ASSUME IInv, UNCHANGED <<accounts, sessions, imported, late, starts, now>>,
         projects' \in [Project -> ProjectType],
         \A p \in Project : projects[p].status = "archived" => projects'[p].status = "archived",
         UNCHANGED requestVars \/ \E r \in Request : Ends(r)
  PROVE  IInv'
<1>1. TypeOK /\ Acting /\ LateCount
  BY DEF IInv
<1>2. \A p \in Project : LateIn(p)' = LateIn(p)
  BY DEF LateIn
<1>3. CASE UNCHANGED requestVars
  <2>1. TypeOK'
    BY <1>1, <1>3 DEF TypeOK, ProjectType, requestVars
  <2>2. Acting'
    BY <1>1, <1>3 DEF Acting, requestVars
  <2>3. \A p \in Project : Importing(p)' = Importing(p)
    BY <1>3 DEF Importing, requestVars
  <2>4. LateCount'
    BY <1>1, <1>2, <2>1, <2>3, CountKept
  <2>5. QED
    BY <2>1, <2>2, <2>4 DEF IInv
<1>4. CASE \E r \in Request : Ends(r)
  <2>1. PICK r \in Request : Ends(r)
    BY <1>4
  <2>2. TypeOK'
    BY <1>1, <2>1, EndsType DEF TypeOK, ProjectType
  <2>3. Acting'
    BY <1>1, <2>1, <2>2, EndsKeeps DEF Acting
  <2>4. LateCount'
    BY <1>1, <1>2, <2>1, <2>2, EndsKeeps, CountKept
  <2>5. QED
    BY <2>2, <2>3, <2>4 DEF IInv
<1>5. QED
  BY <1>3, <1>4

LEMMA ProjectStepPreserves ==
  ASSUME IInv, NEW r \in Request,
         CreateAccountApp(r) \/ UpdateAccountApp(r) \/ ArchiveAccountApp(r)
  PROVE  IInv'
<1>1. Ends(r) /\ UNCHANGED <<accounts, sessions, imported, late, starts, now>>
  BY DEF CreateAccountApp, UpdateAccountApp, ArchiveAccountApp
<1>2. projects \in [Project -> ProjectType] /\ who[r] \in Name \cup {NoOne}
  BY DEF IInv, TypeOK, ProjectType
<1>3. CASE CreateAccountApp(r)
  <2>1. PICK p \in Project, fee \in Fee :
          /\ projects[p].status = "absent"
          /\ projects' = [projects EXCEPT ![p] =
               [status |-> "active", owner |-> who[r], fee |-> DefaultTradingFeeBps(fee)]]
    BY <1>3 DEF CreateAccountApp
  <2>2. [status |-> "active", owner |-> who[r], fee |-> DefaultTradingFeeBps(fee)] \in ProjectType
    BY <1>2, FeeInRange DEF ProjectType
  <2>3. /\ projects' \in [Project -> ProjectType]
        /\ \A q \in Project : projects[q].status = "archived" => projects'[q].status = "archived"
    BY <1>2, <2>1, <2>2
  <2>4. QED
    BY <1>1, <2>3, ProjectsPreserve
<1>4. CASE UpdateAccountApp(r)
  <2>1. PICK p \in Project, fee \in Fee : SetFee(p, fee)
    BY <1>4 DEF UpdateAccountApp
  <2>2. /\ projects[p].status = "active"
        /\ projects' = [projects EXCEPT ![p] =
             [projects[p] EXCEPT !.fee = NormalizeTradingFeeBps(fee)]]
    BY <2>1 DEF SetFee
  <2>3. [projects[p] EXCEPT !.fee = NormalizeTradingFeeBps(fee)] \in ProjectType
    BY <1>2, FeeInRange DEF ProjectType
  <2>4. /\ projects' \in [Project -> ProjectType]
        /\ \A q \in Project : projects[q].status = "archived" => projects'[q].status = "archived"
    BY <1>2, <2>2, <2>3
  <2>5. QED
    BY <1>1, <2>4, ProjectsPreserve
<1>5. CASE ArchiveAccountApp(r)
  <2>1. PICK p \in Project :
          projects' = [projects EXCEPT ![p] = [projects[p] EXCEPT !.status = "archived"]]
    BY <1>5 DEF ArchiveAccountApp
  <2>2. [projects[p] EXCEPT !.status = "archived"] \in ProjectType
    BY <1>2 DEF ProjectType
  <2>3. projects' \in [Project -> ProjectType]
    BY <1>2, <2>1, <2>2
  <2>4. \A q \in Project : projects[q].status = "archived" => projects'[q].status = "archived"
    BY <1>2, <2>1 DEF ProjectType
  <2>5. QED
    BY <1>1, <2>3, <2>4, ProjectsPreserve
<1>6. QED
  BY <1>3, <1>4, <1>5

LEMMA UpdateAppTradingFeePreserves ==
  ASSUME IInv, UpdateAppTradingFee
  PROVE  IInv'
<1>1. UNCHANGED requestVars /\ UNCHANGED <<accounts, sessions, imported, late, starts, now>>
  BY DEF UpdateAppTradingFee
<1>2. projects \in [Project -> ProjectType]
  BY DEF IInv, TypeOK, ProjectType
<1>3. PICK p \in Project, fee \in Fee : SetFee(p, fee)
  BY DEF UpdateAppTradingFee
<1>4. /\ projects[p].status = "active"
      /\ projects' = [projects EXCEPT ![p] =
           [projects[p] EXCEPT !.fee = NormalizeTradingFeeBps(fee)]]
  BY <1>3 DEF SetFee
<1>5. [projects[p] EXCEPT !.fee = NormalizeTradingFeeBps(fee)] \in ProjectType
  BY <1>2, FeeInRange DEF ProjectType
<1>6. /\ projects' \in [Project -> ProjectType]
      /\ \A q \in Project : projects[q].status = "archived" => projects'[q].status = "archived"
  BY <1>2, <1>4, <1>5
<1>7. QED
  BY <1>1, <1>6, ProjectsPreserve

-----------------------------------------------------------------------------
(* Steps that change contracts.                                            *)

\* A contract that is imported or deleted by a request that ends.
LEMMA ContractsTypes ==
  ASSUME IInv, NEW r \in Request, Ends(r),
         UNCHANGED <<accounts, sessions, projects, starts, now>>,
         imported' \in [Contract -> Project \cup {NoOne}], late' \subseteq Contract
  PROVE  TypeOK' /\ Acting'
<1>1. TypeOK /\ Acting
  BY DEF IInv
<1>2. TypeOK'
  BY <1>1, EndsType DEF TypeOK
<1>3. Acting'
  BY <1>1, <1>2, EndsKeeps DEF Acting
<1>4. QED
  BY <1>2, <1>3

LEMMA DeleteImportedContractPreserves ==
  ASSUME IInv, NEW r \in Request, DeleteImportedContract(r)
  PROVE  IInv'
<1>1. Ends(r) /\ UNCHANGED <<accounts, sessions, projects, late, starts, now>>
  BY DEF DeleteImportedContract
<1>2. PICK x \in Contract : imported' = [imported EXCEPT ![x] = NoOne]
  BY DEF DeleteImportedContract
<1>3. TypeOK /\ LateCount
  BY DEF IInv
<1>4. TypeOK' /\ Acting'
  BY <1>1, <1>2, <1>3, ContractsTypes DEF TypeOK
<1>5. \A p \in Project : LateIn(p)' \subseteq LateIn(p)
  BY <1>1, <1>2, <1>3 DEF LateIn, TypeOK
<1>6. LateCount'
  BY <1>1, <1>3, <1>4, <1>5, EndsKeeps, CountKept
<1>7. QED
  BY <1>4, <1>6 DEF IInv

\* The request that imports a contract late is one less to import another.
LEMMA CreateImportedContractPreserves ==
  ASSUME IInv, NEW r \in Request, CreateImportedContract(r)
  PROVE  IInv'
<1>1. Ends(r) /\ UNCHANGED <<accounts, sessions, projects, starts, now>>
  BY DEF CreateImportedContract
<1>2. TypeOK /\ Acting /\ LateCount
  BY DEF IInv
<1>3. stage[r] = "importing" /\ subject[r] \in Project
  BY <1>2 DEF CreateImportedContract, Acting
<1>4. CASE UNCHANGED <<imported, late>>
  BY <1>1, <1>4, EndsAlone DEF projectVars
<1>5. CASE ~UNCHANGED <<imported, late>>
  <2>1. PICK x \in Contract :
          /\ imported[x] = NoOne /\ x \notin late
          /\ imported' = [imported EXCEPT ![x] = subject[r]]
          /\ late' = IF projects[subject[r]].status = "archived" THEN late \cup {x} ELSE late
    BY <1>5 DEF CreateImportedContract
  <2>2. TypeOK' /\ Acting'
    BY <1>1, <1>2, <1>3, <2>1, ContractsTypes DEF TypeOK
  <2>3. \A p \in Project : p # subject[r] => LateIn(p)' = LateIn(p)
    BY <1>2, <1>3, <2>1 DEF LateIn, TypeOK
  <2>4. \A p \in Project : Importing(p)' \subseteq Importing(p)
    BY <1>1, <2>2, EndsKeeps
  <2>5. CASE projects[subject[r]].status # "archived"
    <3>1. \A p \in Project : LateIn(p)' = LateIn(p)
      BY <1>2, <2>1, <2>5 DEF LateIn, TypeOK
    <3>2. LateCount'
      BY <1>1, <1>2, <2>2, <2>4, <3>1, CountKept
    <3>3. QED
      BY <2>2, <3>2 DEF IInv
  <2>6. CASE projects[subject[r]].status = "archived"
    <3>1. LateCount'
      <4>0. SUFFICES ASSUME NEW p \in Project
                     PROVE  IF projects'[p].status = "archived"
                              THEN Cardinality(LateIn(p)') + Cardinality(Importing(p)')
                                     <= Cardinality(Request)
                              ELSE LateIn(p)' = {}
        BY DEF LateCount
      <4>1. CASE p # subject[r]
        <5>1. /\ Importing(p)' \subseteq Importing(p) /\ IsFiniteSet(Importing(p))
              /\ LateIn(p)' = LateIn(p)
          BY <1>2, <2>3, <2>4, <4>1, Finite
        <5>2. /\ Cardinality(Importing(p)') <= Cardinality(Importing(p))
              /\ Cardinality(Importing(p)') \in Nat
          BY <5>1, FS_Subset, FS_CardinalityType
        <5>3. QED
          BY <1>1, <1>2, <5>1, <5>2, Finite DEF LateCount
      <4>2. CASE p = subject[r]
        <5>1. /\ LateIn(p)' = LateIn(p) \cup {x} /\ x \notin LateIn(p)
          BY <1>2, <2>1, <2>6, <4>2 DEF LateIn, TypeOK
        <5>2. Importing(p)' \subseteq Importing(p) \ {r} /\ r \in Importing(p)
          BY <1>1, <1>2, <1>3, <2>4, <4>2, EndsType DEF Importing
        <5>3. Cardinality(LateIn(p)') = Cardinality(LateIn(p)) + 1
          BY <1>2, <5>1, Finite, FS_AddElement
        <5>4. /\ Cardinality(Importing(p) \ {r}) = Cardinality(Importing(p)) - 1
              /\ IsFiniteSet(Importing(p) \ {r})
          BY <1>2, <5>2, Finite, FS_RemoveElement
        <5>5. /\ Cardinality(Importing(p)') <= Cardinality(Importing(p)) - 1
              /\ Cardinality(Importing(p)') \in Nat
          BY <5>2, <5>4, FS_Subset, FS_CardinalityType
        <5>6. Cardinality(LateIn(p)) + Cardinality(Importing(p)) <= Cardinality(Request)
          BY <1>2, <2>6, <4>2 DEF LateCount
        <5>7. QED
          BY <1>1, <1>2, <2>6, <4>2, <5>3, <5>5, <5>6, Finite
      <4>3. QED
        BY <4>1, <4>2
    <3>2. QED
      BY <2>2, <3>1 DEF IInv
  <2>7. QED
    BY <2>5, <2>6
<1>6. QED
  BY <1>4, <1>5

-----------------------------------------------------------------------------
(* Starts of an engine, and the clock.                                     *)

LEMMA SeedOwnerAccountPreserves ==
  ASSUME IInv, SeedOwnerAccount
  PROVE  IInv'
<1>1. TypeOK /\ Acting /\ LateCount
  BY DEF IInv
<1>2. UNCHANGED <<sessions, projectVars, now>> /\ starts' \in 0 .. MaxStarts
  BY <1>1 DEF SeedOwnerAccount, TypeOK
<1>3. accounts' \in [Name -> AccountType]
  <2>1. PICK n \in Name, legacy \in BOOLEAN, p \in Password :
          accounts' = [a \in Name |->
            IF a = n THEN Seeded(n, legacy, p)
            ELSE IF accounts[a].status # "absent" /\ accounts[a].legacy
                   THEN [accounts[a] EXCEPT !.status = "disabled"]
                   ELSE accounts[a]]
    BY DEF SeedOwnerAccount
  <2>2. accounts \in [Name -> AccountType]
    BY <1>1 DEF TypeOK, AccountType
  <2>3. Seeded(n, legacy, p) \in AccountType
    BY <2>2 DEF Seeded, AccountType
  <2>4. \A a \in Name : [accounts[a] EXCEPT !.status = "disabled"] \in AccountType
    BY <2>2 DEF AccountType
  <2>5. QED
    BY <2>1, <2>2, <2>3, <2>4
<1>4. CASE UNCHANGED requestVars
  <2>1. TypeOK'
    BY <1>1, <1>2, <1>3, <1>4 DEF TypeOK, AccountType, projectVars, requestVars
  <2>2. Acting'
    BY <1>1, <1>2, <1>4 DEF Acting, requestVars
  <2>3. LateCount'
    BY <1>1, <1>2, <1>4, <2>1, CountAlone DEF requestVars
  <2>4. QED
    BY <2>1, <2>2, <2>3 DEF IInv
<1>5. CASE ~UNCHANGED requestVars
  <2>1. /\ stage'   = [r \in Request |-> "idle"]
        /\ token'   = [r \in Request |-> NoOne]
        /\ who'     = [r \in Request |-> NoOne]
        /\ stamp'   = [r \in Request |-> 0]
        /\ subject' = [r \in Request |-> NoOne]
    BY <1>5 DEF SeedOwnerAccount
  <2>2. /\ stage' \in [Request -> {"idle", "creatingSession", "checking", "served", "importing"}]
        /\ token' \in [Request -> Token \cup {NoOne}]
        /\ who' \in [Request -> Name \cup {NoOne}]
        /\ stamp' \in [Request -> 0 .. MaxNow + SessionTTL]
        /\ subject' \in [Request -> Project \cup {NoOne}]
    BY <2>1
  <2>3. TypeOK'
    BY <1>1, <1>2, <1>3, <2>2 DEF TypeOK, AccountType, projectVars
  <2>4. Acting'
    BY <1>1, <1>2, <2>1 DEF Acting
  <2>5. LateCount'
    BY <1>1, <1>2, <2>1, <2>3, CountAlone
  <2>6. QED
    BY <2>3, <2>4, <2>5 DEF IInv
<1>6. QED
  BY <1>4, <1>5

LEMMA StillPreserves ==
  ASSUME IInv, Tick \/ UNCHANGED vars
  PROVE  IInv'
<1>1. TypeOK /\ Acting /\ LateCount
  BY DEF IInv
<1>2. UNCHANGED <<accounts, sessions, projectVars, requestVars, starts>> /\ now' \in 0 .. MaxNow
  BY <1>1 DEF Tick, vars, TypeOK
<1>3. TypeOK'
  BY <1>1, <1>2 DEF TypeOK, projectVars, requestVars
<1>4. Acting'
  BY <1>1, <1>2 DEF Acting, requestVars
<1>5. LateCount'
  BY <1>1, <1>2, <1>3, CountAlone DEF requestVars
<1>6. QED
  BY <1>3, <1>4, <1>5 DEF IInv

-----------------------------------------------------------------------------
(* What a step may do to a project.                                        *)

\* A change of a project by its owner's request, or of its settings only.
Permitted(p) ==
  /\ projects'[p].owner = projects[p].owner
  /\ \/ projects'[p].status = projects[p].status /\ requestVars' = requestVars
     \/ \E r \in Request : stage[r] = "served" /\ stage'[r] = "idle"
                            /\ who[r] = projects[p].owner

\* Every step leaves a project as it is, creates it, or is permitted, and
\* leaves it as it is when it is archived.
LEMMA ProjectSteps ==
  ASSUME IInv, [Next]_vars, NEW p \in Project, projects'[p] # projects[p],
         projects[p].status # "absent"
  PROVE  Permitted(p) /\ projects[p].status # "archived"
<1>1. projects \in [Project -> ProjectType]
  BY DEF IInv, TypeOK, ProjectType
<1>2. \A r \in Request : Ends(r) => stage'[r] = "idle"
  BY EndsType DEF IInv
<1>3. ASSUME NEW r \in Request, UpdateAccountApp(r)
      PROVE  Permitted(p) /\ projects[p].status # "archived"
  <2>1. PICK q \in Project, fee \in Fee : Owns(who[r], q) /\ SetFee(q, fee)
    BY <1>3 DEF UpdateAccountApp
  <2>2. q = p
    BY <1>1, <2>1 DEF SetFee
  <2>3. projects'[p].owner = projects[p].owner /\ projects[p].status = "active"
    BY <1>1, <2>1, <2>2 DEF SetFee, ProjectType
  <2>4. stage[r] = "served" /\ stage'[r] = "idle" /\ who[r] = projects[p].owner
    BY <1>2, <1>3, <2>1, <2>2 DEF UpdateAccountApp, Owns
  <2>5. QED
    BY <2>3, <2>4 DEF Permitted
<1>4. ASSUME NEW r \in Request, ArchiveAccountApp(r)
      PROVE  Permitted(p) /\ projects[p].status # "archived"
  <2>1. PICK q \in Project :
          /\ Owns(who[r], q)
          /\ projects' = [projects EXCEPT ![q] = [projects[q] EXCEPT !.status = "archived"]]
    BY <1>4 DEF ArchiveAccountApp
  <2>2. q = p
    BY <1>1, <2>1
  <2>3. projects'[p] = [projects[p] EXCEPT !.status = "archived"]
    BY <1>1, <2>1, <2>2
  <2>4. projects'[p].owner = projects[p].owner /\ projects[p].status # "archived"
    BY <1>1, <2>3 DEF ProjectType
  <2>5. stage[r] = "served" /\ stage'[r] = "idle" /\ who[r] = projects[p].owner
    BY <1>2, <1>4, <2>1, <2>2 DEF ArchiveAccountApp, Owns
  <2>6. QED
    BY <2>4, <2>5 DEF Permitted
<1>5. ASSUME NEW r \in Request, CreateAccountApp(r)
      PROVE  FALSE
  BY <1>1, <1>5 DEF CreateAccountApp
<1>6. ASSUME UpdateAppTradingFee
      PROVE  Permitted(p) /\ projects[p].status # "archived"
  <2>1. PICK q \in Project, fee \in Fee : SetFee(q, fee)
    BY <1>6 DEF UpdateAppTradingFee
  <2>2. q = p
    BY <1>1, <2>1 DEF SetFee
  <2>3. /\ projects'[p].owner = projects[p].owner
        /\ projects'[p].status = projects[p].status
        /\ projects[p].status = "active"
    BY <1>1, <2>1, <2>2 DEF SetFee, ProjectType
  <2>4. requestVars' = requestVars
    BY <1>6 DEF UpdateAppTradingFee
  <2>5. QED
    BY <2>3, <2>4 DEF Permitted
<1>7. UNCHANGED projects \/ UpdateAppTradingFee
        \/ \E r \in Request : CreateAccountApp(r) \/ UpdateAccountApp(r) \/ ArchiveAccountApp(r)
  BY DEF Next, RequestStep, VerifyAccountPassword, BeginRequest, CreateAccountSession,
         GetAccountBySession, ImportContract, CreateImportedContract, DeleteImportedContract,
         Logout, Answer, SeedOwnerAccount, Tick, vars, projectVars
<1>8. QED
  BY <1>3, <1>4, <1>5, <1>6, <1>7

-----------------------------------------------------------------------------

\* The inductive invariant: requests act as accounts that are there, and
\* late imports use up requests.
THEOREM DashboardIInv == Spec => []IInv
<1>1. Init => IInv
  <2>1. ASSUME Init PROVE TypeOK
    <3>1. NoAccount \in AccountType /\ NoSession \in SessionType /\ NoProject \in ProjectType
      BY DEF NoAccount, NoSession, NoProject, AccountType, SessionType, ProjectType
    <3>2. /\ accounts \in [Name -> AccountType]
          /\ sessions \in [Token -> SessionType]
          /\ projects \in [Project -> ProjectType]
      BY <2>1, <3>1 DEF Init
    <3>3. QED
      BY <2>1, <3>2 DEF Init, TypeOK, AccountType, SessionType, ProjectType
  <2>2. ASSUME Init PROVE Acting
    BY <2>2 DEF Init, Acting, NoSession
  <2>3. ASSUME Init PROVE LateCount
    BY <2>3 DEF Init, LateCount, LateIn, NoProject
  <2>4. QED
    BY <2>1, <2>2, <2>3 DEF IInv
<1>2. IInv /\ [Next]_vars => IInv'
  <2>1. SUFFICES ASSUME IInv, [Next]_vars PROVE IInv'
    OBVIOUS
  <2>2. ASSUME NEW r \in Request, VerifyAccountPassword(r) \/ BeginRequest(r) PROVE IInv'
    BY <2>1, <2>2, BeginPreserves
  <2>3. ASSUME NEW r \in Request, RequestStep(r) PROVE IInv'
    <3>1. CASE CreateAccountSession(r) \/ Logout(r)
      BY <2>1, <3>1, SessionStepPreserves
    <3>2. CASE GetAccountBySession(r)
      BY <2>1, <3>2, GetAccountBySessionPreserves
    <3>3. CASE CreateAccountApp(r) \/ UpdateAccountApp(r) \/ ArchiveAccountApp(r)
      BY <2>1, <3>3, ProjectStepPreserves
    <3>4. CASE ImportContract(r)
      BY <2>1, <3>4, ImportContractPreserves
    <3>5. CASE CreateImportedContract(r)
      BY <2>1, <3>5, CreateImportedContractPreserves
    <3>6. CASE DeleteImportedContract(r)
      BY <2>1, <3>6, DeleteImportedContractPreserves
    <3>7. CASE Answer(r)
      BY <2>1, <3>7, EndsAlone DEF Answer
    <3>8. QED
      BY <2>3, <3>1, <3>2, <3>3, <3>4, <3>5, <3>6, <3>7 DEF RequestStep
  <2>4. CASE SeedOwnerAccount
    BY <2>1, <2>4, SeedOwnerAccountPreserves
  <2>5. CASE UpdateAppTradingFee
    BY <2>1, <2>5, UpdateAppTradingFeePreserves
  <2>6. CASE Tick \/ UNCHANGED vars
    BY <2>1, <2>6, StillPreserves
  <2>7. QED
    BY <2>1, <2>2, <2>3, <2>4, <2>5, <2>6 DEF Next
<1>3. QED
  BY <1>1, <1>2, PTL DEF Spec

\* Accounts, sessions, projects and requests keep their types.
THEOREM TypeCorrect == Spec => []TypeOK
  BY DashboardIInv, PTL DEF IInv

\* No more contracts are imported late into a project than requests are
\* served at a time (dashboardImportContract).
THEOREM LateImports == Spec => []LateImportsBounded
<1>1. IInv => LateImportsBounded
  <2>1. SUFFICES ASSUME IInv, NEW p \in Project
                 PROVE  Cardinality(LateIn(p)) <= Cardinality(Request)
    BY DEF LateImportsBounded, LateIn
  <2>2. TypeOK /\ LateCount
    BY <2>1 DEF IInv
  <2>3. CASE projects[p].status = "archived"
    BY <2>2, <2>3, Finite DEF LateCount
  <2>4. CASE projects[p].status # "archived"
    BY <2>2, <2>4, Finite, FS_EmptySet DEF LateCount
  <2>5. QED
    BY <2>3, <2>4
<1>2. QED
  BY <1>1, DashboardIInv, PTL

\* A project is changed by its owner's requests only, or in its settings
\* through its own API (UpdateAccountApp, ArchiveAccountApp).
THEOREM OwnersOnly == Spec => OnlyOwnerChanges
<1>1. IInv /\ [Next]_vars =>
        [\A p \in Project : projects[p].status # "absent" /\ projects'[p] # projects[p] =>
           /\ projects'[p].owner = projects[p].owner
           /\ \/ projects'[p].status = projects[p].status /\ requestVars' = requestVars
              \/ \E r \in Request : stage[r] = "served" /\ stage'[r] = "idle"
                                    /\ who[r] = projects[p].owner]_vars
  BY ProjectSteps DEF Permitted
<1>2. QED
  BY <1>1, DashboardIInv, PTL DEF Spec, OnlyOwnerChanges

\* An archived project is left as it is (ArchiveAccountApp).
THEOREM ArchivedStays == Spec => ArchivedIsFrozen
<1>1. IInv /\ [Next]_vars =>
        [\A p \in Project : projects[p].status = "archived" => projects'[p] = projects[p]]_vars
  BY ProjectSteps
<1>2. QED
  BY <1>1, DashboardIInv, PTL DEF Spec, ArchivedIsFrozen
=============================================================================
