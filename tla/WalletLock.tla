----------------------------- MODULE WalletLock -----------------------------
(***************************************************************************)
(* The lock nodes of one wallet as the store keeps them (AcquireWalletLock *)
(* and ReleaseWalletLock in internal/store/memgraph.go).  TransactionQueue *)
(* takes an acquire for one atomic step; here it is the transaction it is. *)
(* No uniqueness constraint covers EngineWalletLock, so a MERGE creates a  *)
(* node whenever its snapshot shows none, and two transactions that are    *)
(* open at the same time may both create one.  Two transactions that write *)
(* the same node conflict, and the driver runs the later one again.        *)
(*                                                                         *)
(* An actor is a worker, which passes its transaction's id, or a client of *)
(* the wallet-lock routes, which passes any id it likes.                   *)
(***************************************************************************)
EXTENDS Integers, FiniteSets

CONSTANTS
  Actor,   \* workers and API clients that use the lock
  Id,      \* transaction ids they pass
  NoId,    \* no id
  Node,    \* numbers of lock nodes
  TTLs,    \* seconds asked for
  MaxOpen, \* store transactions open at the same time
  MaxNow   \* bound on the clock

ASSUME IdAssumption == NoId \notin Id
ASSUME FiniteAssumption == IsFiniteSet(Actor) /\ IsFiniteSet(Node) /\ Node \subseteq Nat
ASSUME BoundAssumption == TTLs \subseteq Nat \ {0} /\ MaxOpen \in Nat /\ MaxNow \in Nat

VARIABLES
  node,    \* the lock nodes: holder and lockedUntil
  stage,   \* where each actor stands
  asked,   \* the id, the time and the end of the lock it asks for
  seen,    \* the nodes of its transaction's snapshot
  shared,  \* ids that two actors have passed at the same time
  crashed, \* some actor has died without releasing
  now      \* the clock

vars == <<node, stage, asked, seen, shared, crashed, now>>

Gone     == [holder |-> NoId, until |-> 0]
Lock     == [holder : Id \cup {NoId}, until : Nat]
Nothing  == [id |-> NoId, at |-> 0, until |-> 0]
Request  == [id : Id \cup {NoId}, at : Nat, until : Nat]
Stage    == {"idle", "asking", "open", "holding"}
NoNodes  == [n \in Node |-> Gone]
Exists   == {n \in Node : node[n] # Gone}
InFlight == {a \in Actor : stage[a] = "open"}

TypeOK ==
  /\ node \in [Node -> Lock]
  /\ \A n \in Node : node[n].holder = NoId => node[n] = Gone
  /\ stage \in [Actor -> Stage]
  /\ asked \in [Actor -> Request]
  /\ \A a \in Actor : stage[a] # "idle" => asked[a].id \in Id
  /\ seen \in [Actor -> [Node -> Lock]]
  /\ shared \subseteq Id
  /\ crashed \in BOOLEAN
  /\ now \in 0 .. MaxNow

Init ==
  /\ node = NoNodes
  /\ stage = [a \in Actor |-> "idle"]
  /\ asked = [a \in Actor |-> Nothing]
  /\ seen = [a \in Actor |-> NoNodes]
  /\ shared = {}
  /\ crashed = FALSE
  /\ now = 0

-----------------------------------------------------------------------------
(* AcquireWalletLock.                                                      *)

\* The time is read, and the lock's end computed, before the transaction and
\* once for all its runs.
Ask(a, id, ttl) ==
  /\ stage[a] = "idle"
  /\ stage' = [stage EXCEPT ![a] = "asking"]
  /\ asked' = [asked EXCEPT ![a] = [id |-> id, at |-> now, until |-> now + ttl]]
  /\ shared' = IF \E b \in Actor : asked[b].id = id THEN shared \cup {id} ELSE shared
  /\ UNCHANGED <<node, seen, crashed, now>>

\* The transaction starts, or starts again, on a snapshot of the store.
Open(a) ==
  /\ stage[a] = "asking"
  /\ Cardinality(InFlight) < MaxOpen
  /\ stage' = [stage EXCEPT ![a] = "open"]
  /\ seen' = [seen EXCEPT ![a] = node]
  /\ UNCHANGED <<node, asked, shared, crashed, now>>

\* The transaction is over and so is what it knew; the actor goes on to s.
GoTo(a, s) ==
  /\ stage' = [stage EXCEPT ![a] = s]
  /\ seen' = [seen EXCEPT ![a] = NoNodes]
  /\ asked' = IF s = "idle" THEN [asked EXCEPT ![a] = Nothing] ELSE asked

\* The nodes a transaction's MERGE matches.
Matched(a) == {n \in Node : seen[a][n] # Gone}

\* Variant: a lock may be taken over in its last second.
FreeForEarly(a, n) ==
  \/ seen[a][n].holder = asked[a].id
  \/ seen[a][n].until <= now

\* The WHERE of the SET: the caller's own lock, or one that has expired.
FreeFor(a, n) ==
  \/ seen[a][n].holder = asked[a].id
  \/ seen[a][n].until < asked[a].at

TakenNodes(a) == {n \in Matched(a) : FreeFor(a, n)}

Mine(a) == [holder |-> asked[a].id, until |-> asked[a].until]

Conflict(a) == \E n \in TakenNodes(a) : node[n] # seen[a][n]

\* MERGE found no node and creates one; nothing makes two creations conflict.
Create(a) ==
  /\ stage[a] = "open" /\ Matched(a) = {}
  /\ \E n \in Node \ Exists :
       /\ \A m \in Node \ Exists : n <= m
       /\ node' = [node EXCEPT ![n] = Mine(a)]
  /\ GoTo(a, "holding")
  /\ UNCHANGED <<shared, crashed, now>>

\* Every matched node that is free becomes the caller's.
Take(a) ==
  /\ stage[a] = "open" /\ TakenNodes(a) # {} /\ ~Conflict(a)
  /\ node' = [n \in Node |-> IF n \in TakenNodes(a) THEN Mine(a) ELSE node[n]]
  /\ GoTo(a, "holding")
  /\ UNCHANGED <<shared, crashed, now>>

\* No row, hence "wallet is locked".
Refuse(a) ==
  /\ stage[a] = "open" /\ Matched(a) # {} /\ TakenNodes(a) = {}
  /\ GoTo(a, "idle")
  /\ UNCHANGED <<node, shared, crashed, now>>

\* A conflicting write: ExecuteWrite runs the transaction again or gives up.
Abort(a) ==
  /\ stage[a] = "open" /\ Conflict(a)
  /\ GoTo(a, "asking") \/ GoTo(a, "idle")
  /\ UNCHANGED <<node, shared, crashed, now>>

-----------------------------------------------------------------------------
(* ReleaseWalletLock and the environment.                                  *)

\* DETACH DELETE of the wallet's nodes that carry the id.
Released(id) == [n \in Node |-> IF node[n].holder = id THEN Gone ELSE node[n]]

ReleaseWalletLock(a) ==
  /\ stage[a] = "holding"
  /\ node' = Released(asked[a].id)
  /\ GoTo(a, "idle")
  /\ UNCHANGED <<shared, crashed, now>>

\* The holder dies, or its release is lost.
Crash(a) ==
  /\ stage[a] = "holding"
  /\ GoTo(a, "idle")
  /\ crashed' = TRUE
  /\ UNCHANGED <<node, shared, now>>

Tick ==
  /\ now < MaxNow
  /\ now' = now + 1
  /\ UNCHANGED <<node, stage, asked, seen, shared, crashed>>

AcquireWalletLock(a) == Open(a) \/ Create(a) \/ Take(a) \/ Refuse(a) \/ Abort(a)

Next ==
  \/ \E a \in Actor, id \in Id, ttl \in TTLs : Ask(a, id, ttl)
  \/ \E a \in Actor : AcquireWalletLock(a) \/ ReleaseWalletLock(a) \/ Crash(a)
  \/ Tick

Spec == Init /\ [][Next]_vars

-----------------------------------------------------------------------------
(* Properties.                                                             *)

\* An actor that was granted the lock, whose time has not passed.
Live(a) == stage[a] = "holding" /\ asked[a].until >= now

\* Who holds the lock in time has a node that says so, with the end it asked
\* for, even while there are two nodes: no takeover and nobody else's release
\* removes it, as long as its id was its own.
HolderHasNode ==
  \A a \in Actor : Live(a) /\ asked[a].id \notin shared =>
    \E n \in Node : node[n] = Mine(a)

\* The double nodes a race leaves are at most one for each actor, and a new
\* one is only created when all are gone.
NodesBounded == Cardinality(Exists) <= Cardinality(Actor)

\* With all locks released no node stays behind to be waited for, double ones
\* included.
NothingLeftBehind ==
  ~crashed /\ (\A a \in Actor : stage[a] \in {"idle", "asking"}) => Exists = {}

\* Only one actor with an id of its own has the wallet at a time.  Holds where
\* acquires do not overlap (MaxOpen 1).
Exclusive ==
  \A a, b \in Actor :
    Live(a) /\ Live(b) /\ {asked[a].id, asked[b].id} \cap shared = {} => a = b
=============================================================================
