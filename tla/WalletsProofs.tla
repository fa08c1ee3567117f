---------------------------- MODULE WalletsProofs ----------------------------
(***************************************************************************)
(* Machine-checked proofs about Wallets and its three components, for any  *)
(* actors, requests, users, keys, addresses, writes and clocks.            *)
(*                                                                         *)
(* That acquires overlap costs the exclusion but not the rest: who holds   *)
(* the lock has a node (HolderHasNode), the double nodes are bounded by    *)
(* the actors that opened a transaction before there was any (EmptyOpen),  *)
(* and they go with the releases (HeldNodes).  Where no two transactions   *)
(* are open at once, there is one node and the exclusion holds (Serial).   *)
(*                                                                         *)
(* Wallets are few because a request creates one only when it sees none:   *)
(* stored wallets and requests that may store one are together no more     *)
(* than the requests (DefaultCount, OwnCount).  A wallet that is about to  *)
(* be stored has a key nobody else holds (WalletsHaveKeys, StoringIsNew).  *)
(***************************************************************************)
EXTENDS Wallets, FiniteSetTheorems, TLAPS

\* Two actors with the same id at the same time have shared it; the time an
\* actor has read is past.
OwnIds ==
  /\ \A a, b \in Actor : a # b /\ asked[a].id = asked[b].id /\ asked[a].id # NoId
                           => asked[a].id \in shared
  /\ \A a \in Actor : asked[a].at <= now

\* While nobody died, every node belongs to an actor that has yet to release.
HeldNodes ==
  ~crashed => \A n \in Exists : \E a \in Actor :
                stage[a] = "holding" /\ asked[a].id = node[n].holder

\* Actors whose open transaction sees no node, and may create one.
EmptyOpen == {a \in Actor : stage[a] = "open" /\ Matched(a) = {}}

NodeCount == Cardinality(Exists) + Cardinality(EmptyOpen) <= Cardinality(Actor)

IInv == TypeOK /\ OwnIds /\ HolderHasNode /\ HeldNodes /\ NodeCount

USE IdAssumption, FiniteAssumption, BoundAssumption

-----------------------------------------------------------------------------
(* What the actions are made of.                                           *)

\* The transaction of a is over; nothing else changes for the others.
LEMMA GoToFacts ==
  ASSUME TypeOK, NEW a \in Actor, NEW s \in Stage, GoTo(a, s), stage[a] # "idle"
  PROVE  /\ stage' \in [Actor -> Stage]
         /\ asked' \in [Actor -> Request]
         /\ seen' \in [Actor -> [Node -> Lock]]
         /\ stage'[a] = s
         /\ asked'[a] = IF s = "idle" THEN Nothing ELSE asked[a]
         /\ \A b \in Actor \ {a} : /\ stage'[b] = stage[b]
                                   /\ asked'[b] = asked[b]
                                   /\ seen'[b] = seen[b]
         /\ \A b \in Actor : stage'[b] # "idle" => asked'[b].id \in Id
<1>1. Nothing \in Request /\ NoNodes \in [Node -> Lock]
  BY DEF Nothing, Request, NoNodes, Lock, Gone
<1>2. /\ stage' \in [Actor -> Stage] /\ stage'[a] = s
      /\ \A b \in Actor \ {a} : stage'[b] = stage[b]
  BY DEF TypeOK, GoTo
<1>3. /\ seen' \in [Actor -> [Node -> Lock]]
      /\ \A b \in Actor \ {a} : seen'[b] = seen[b]
  BY <1>1 DEF TypeOK, GoTo
<1>4. /\ asked' \in [Actor -> Request]
      /\ asked'[a] = IF s = "idle" THEN Nothing ELSE asked[a]
      /\ \A b \in Actor \ {a} : asked'[b] = asked[b]
  <2>1. CASE s = "idle"
    BY <1>1, <2>1 DEF TypeOK, GoTo
  <2>2. CASE s # "idle"
    BY <2>2 DEF TypeOK, GoTo
  <2>3. QED
    BY <2>1, <2>2
<1>5. \A b \in Actor : stage'[b] # "idle" => asked'[b].id \in Id
  BY <1>2, <1>4 DEF TypeOK
<1>6. QED
  BY <1>2, <1>3, <1>4, <1>5

\* A lock that an actor asks for is one, and no node without a holder.
LEMMA MineIsLock ==
  ASSUME TypeOK, NEW a \in Actor, stage[a] # "idle"
  PROVE  Mine(a) \in Lock /\ Mine(a).holder = asked[a].id /\ Mine(a) # Gone
         /\ Mine(a).holder # NoId /\ Mine(a).until = asked[a].until
  BY DEF TypeOK, Mine, Lock, Gone, Request

\* No two actors own the id of a third.
LEMMA OwnIdsKept ==
  ASSUME TypeOK, OwnIds, NEW a \in Actor, NEW s \in Stage, GoTo(a, s), stage[a] # "idle",
         UNCHANGED <<shared, now>>
  PROVE  OwnIds'
<1>1. \A b \in Actor : asked'[b] = asked[b] \/ asked'[b] = Nothing
  BY GoToFacts
<1>2. Nothing.id = NoId /\ Nothing.at = 0
  BY DEF Nothing
<1>3. now \in Nat
  BY DEF TypeOK
<1>4. QED
  BY <1>1, <1>2, <1>3 DEF OwnIds

\* The number of nodes, when actor a is through and may have made one.
LEMMA CountFinite ==
  /\ IsFiniteSet(Exists) /\ Cardinality(Exists) \in Nat
  /\ IsFiniteSet(EmptyOpen) /\ Cardinality(EmptyOpen) \in Nat
  /\ Cardinality(EmptyOpen) <= Cardinality(Actor) /\ Cardinality(Actor) \in Nat
<1>1. Exists \subseteq Node /\ EmptyOpen \subseteq Actor
  BY DEF Exists, EmptyOpen
<1>2. QED
  BY <1>1, FS_Subset, FS_CardinalityType

LEMMA CountKept ==
  ASSUME NodeCount, Exists' \subseteq Exists, EmptyOpen' \subseteq EmptyOpen
  PROVE  NodeCount'
<1>1. Cardinality(Exists') <= Cardinality(Exists) /\ Cardinality(Exists') \in Nat
  BY CountFinite, FS_Subset, FS_CardinalityType
<1>2. Cardinality(EmptyOpen') <= Cardinality(EmptyOpen) /\ Cardinality(EmptyOpen') \in Nat
  BY CountFinite, FS_Subset, FS_CardinalityType
<1>3. QED
  BY <1>1, <1>2, CountFinite DEF NodeCount

\* Who is through is not among those that may create a node.
LEMMA GoToEmptyOpen ==
  ASSUME TypeOK, NEW a \in Actor, NEW s \in {"idle", "asking", "holding"}, GoTo(a, s),
         stage[a] # "idle"
  PROVE  EmptyOpen' \subseteq EmptyOpen \ {a}
<1>1. s \in Stage
  BY DEF Stage
<1>2. stage'[a] = s /\ \A b \in Actor \ {a} : stage'[b] = stage[b] /\ seen'[b] = seen[b]
  BY <1>1, GoToFacts
<1>3. QED
  BY <1>2 DEF EmptyOpen, Matched

-----------------------------------------------------------------------------
(* AcquireWalletLock.                                                      *)

LEMMA AskPreserves ==
  ASSUME IInv, NEW a \in Actor, NEW id \in Id, NEW ttl \in TTLs, Ask(a, id, ttl)
  PROVE  IInv'
<1>1. TypeOK /\ OwnIds /\ HolderHasNode /\ HeldNodes /\ NodeCount
  BY DEF IInv
<1>2. now \in Nat /\ now + ttl \in Nat
  <2>1. ttl \in Nat
    OBVIOUS
  <2>2. now \in Nat
    BY <1>1 DEF TypeOK
  <2>3. QED
    BY <2>1, <2>2
<1>3. /\ UNCHANGED <<node, seen, crashed, now>>
      /\ shared \subseteq shared' /\ shared' \subseteq Id
      /\ stage[a] = "idle"
  BY <1>1 DEF Ask, TypeOK
<1>4. /\ stage' \in [Actor -> Stage] /\ stage'[a] = "asking"
      /\ \A b \in Actor \ {a} : stage'[b] = stage[b]
  BY <1>1 DEF Ask, TypeOK, Stage
<1>5. /\ asked' \in [Actor -> Request]
      /\ asked'[a] = [id |-> id, at |-> now, until |-> now + ttl]
      /\ \A b \in Actor \ {a} : asked'[b] = asked[b]
  BY <1>1, <1>2 DEF Ask, TypeOK, Request
<1>6. TypeOK'
  BY <1>1, <1>3, <1>4, <1>5 DEF TypeOK
<1>7. OwnIds'
  <2>1. \A b \in Actor : asked[b].id = id => id \in shared'
    BY DEF Ask
  <2>2. \A b \in Actor : asked'[b].at <= now'
    BY <1>1, <1>2, <1>3, <1>5 DEF OwnIds
  <2>3. \A b, c \in Actor : b # c /\ asked'[b].id = asked'[c].id /\ asked'[b].id # NoId
                              => asked'[b].id \in shared'
    BY <1>1, <1>3, <1>5, <2>1 DEF OwnIds
  <2>4. QED
    BY <2>2, <2>3 DEF OwnIds
<1>8. HolderHasNode'
  BY <1>1, <1>3, <1>4, <1>5 DEF HolderHasNode, Live, Mine
<1>9. HeldNodes'
  <2>1. SUFFICES ASSUME ~crashed, NEW n \in Exists
                 PROVE  \E b \in Actor : stage'[b] = "holding" /\ asked'[b].id = node[n].holder
    BY <1>3 DEF HeldNodes, Exists
  <2>2. PICK b \in Actor : stage[b] = "holding" /\ asked[b].id = node[n].holder
    BY <1>1, <2>1 DEF HeldNodes
  <2>3. QED
    BY <1>3, <1>4, <1>5, <2>2
<1>10. NodeCount'
  <2>1. Exists' = Exists /\ EmptyOpen' \subseteq EmptyOpen
    BY <1>3, <1>4 DEF Exists, EmptyOpen, Matched
  <2>2. QED
    BY <1>1, <2>1, CountKept
<1>11. QED
  BY <1>6, <1>7, <1>8, <1>9, <1>10 DEF IInv

LEMMA OpenPreserves ==
  ASSUME IInv, NEW a \in Actor, Open(a)
  PROVE  IInv'
<1>1. TypeOK /\ OwnIds /\ HolderHasNode /\ HeldNodes /\ NodeCount
  BY DEF IInv
<1>2. UNCHANGED <<node, asked, shared, crashed, now>> /\ stage[a] = "asking"
  BY DEF Open
<1>3. /\ stage' \in [Actor -> Stage] /\ stage'[a] = "open"
      /\ \A b \in Actor \ {a} : stage'[b] = stage[b]
  BY <1>1 DEF Open, TypeOK, Stage
<1>4. /\ seen' \in [Actor -> [Node -> Lock]] /\ seen'[a] = node
      /\ \A b \in Actor \ {a} : seen'[b] = seen[b]
  BY <1>1 DEF Open, TypeOK
<1>5. TypeOK'
  BY <1>1, <1>2, <1>3, <1>4 DEF TypeOK
<1>6. OwnIds'
  BY <1>1, <1>2 DEF OwnIds
<1>7. HolderHasNode'
  BY <1>1, <1>2, <1>3 DEF HolderHasNode, Live, Mine
<1>8. HeldNodes'
  <2>1. SUFFICES ASSUME ~crashed, NEW n \in Exists
                 PROVE  \E b \in Actor : stage'[b] = "holding" /\ asked'[b].id = node[n].holder
    BY <1>2 DEF HeldNodes, Exists
  <2>2. PICK b \in Actor : stage[b] = "holding" /\ asked[b].id = node[n].holder
    BY <1>1, <2>1 DEF HeldNodes
  <2>3. QED
    BY <1>2, <1>3, <2>2
<1>9. NodeCount'
  <2>1. CASE Exists = {}
    <3>1. Exists' = {}
      BY <1>2, <2>1 DEF Exists
    <3>2. EmptyOpen' \subseteq Actor
      BY DEF EmptyOpen
    <3>3. /\ Cardinality(EmptyOpen') <= Cardinality(Actor)
          /\ Cardinality(EmptyOpen') \in Nat
      BY <3>2, FS_Subset, FS_CardinalityType
    <3>4. QED
      BY <3>1, <3>3, FS_EmptySet, CountFinite DEF NodeCount
  <2>2. CASE Exists # {}
    <3>1. Matched(a)' # {}
      BY <1>4, <2>2 DEF Matched, Exists
    <3>2. EmptyOpen' \subseteq EmptyOpen
      BY <1>3, <1>4, <3>1 DEF EmptyOpen, Matched
    <3>3. Exists' = Exists
      BY <1>2 DEF Exists
    <3>4. QED
      BY <1>1, <3>2, <3>3, CountKept
  <2>3. QED
    BY <2>1, <2>2
<1>10. QED
  BY <1>5, <1>6, <1>7, <1>8, <1>9 DEF IInv

-----------------------------------------------------------------------------
(* The end of a transaction or of a lock.                                  *)

\* Holders other than a keep their node, and a gets one with the lock.
LEMMA HolderKept ==
  ASSUME TypeOK, HolderHasNode, NEW a \in Actor, NEW s \in Stage,
         GoTo(a, s), stage[a] # "idle", UNCHANGED <<shared, now>>,
         s = "holding" => \E n \in Node : node'[n] = Mine(a),
         \A b \in Actor \ {a}, n \in Node :
           Live(b) /\ asked[b].id \notin shared /\ node[n] = Mine(b) => node'[n] = Mine(b)
  PROVE  HolderHasNode'
<1>1. SUFFICES ASSUME NEW b \in Actor, stage'[b] = "holding", asked'[b].until >= now',
                      asked'[b].id \notin shared'
               PROVE  \E n \in Node : node'[n] = [holder |-> asked'[b].id, until |-> asked'[b].until]
  BY DEF HolderHasNode, Live, Mine
<1>2. CASE b = a
  <2>1. s = "holding" /\ asked'[a] = asked[a]
    BY <1>1, <1>2, GoToFacts
  <2>2. QED
    BY <1>2, <2>1 DEF Mine
<1>3. CASE b # a
  <2>1. stage'[b] = stage[b] /\ asked'[b] = asked[b]
    BY <1>3, GoToFacts
  <2>2. Live(b) /\ asked[b].id \notin shared
    BY <1>1, <2>1 DEF Live
  <2>3. PICK n \in Node : node[n] = Mine(b)
    BY <2>2 DEF HolderHasNode
  <2>4. node'[n] = Mine(b)
    BY <1>3, <2>2, <2>3
  <2>5. QED
    BY <2>1, <2>4 DEF Mine
<1>4. QED
  BY <1>2, <1>3

\* Every node that stays has a holder that stays.
LEMMA HeldKept ==
  ASSUME TypeOK, HeldNodes, NEW a \in Actor, NEW s \in Stage,
         GoTo(a, s), stage[a] # "idle", UNCHANGED crashed,
         \A n \in Node : node'[n] # Gone =>
           \/ s = "holding" /\ node'[n].holder = asked[a].id
           \/ node'[n] = node[n] /\ (stage[a] = "holding" => node[n].holder # asked[a].id)
  PROVE  HeldNodes'
<1>1. SUFFICES ASSUME ~crashed, NEW n \in Node, node'[n] # Gone
               PROVE  \E b \in Actor : stage'[b] = "holding" /\ asked'[b].id = node'[n].holder
  BY DEF HeldNodes, Exists
<1>2. CASE s = "holding" /\ node'[n].holder = asked[a].id
  BY <1>2, GoToFacts
<1>3. CASE node'[n] = node[n] /\ (stage[a] = "holding" => node[n].holder # asked[a].id)
  <2>1. PICK b \in Actor : stage[b] = "holding" /\ asked[b].id = node[n].holder
    BY <1>1, <1>3 DEF HeldNodes, Exists
  <2>2. b # a
    BY <1>3, <2>1
  <2>3. stage'[b] = stage[b] /\ asked'[b] = asked[b]
    BY <2>2, GoToFacts
  <2>4. QED
    BY <1>3, <2>1, <2>3
<1>4. QED
  BY <1>1, <1>2, <1>3

\* The types, when a step writes locks into nodes.
LEMMA GoToTypes ==
  ASSUME TypeOK, NEW a \in Actor, NEW s \in Stage, GoTo(a, s), stage[a] # "idle",
         UNCHANGED <<shared, crashed, now>>,
         node' \in [Node -> Lock],
         \A n \in Node : node'[n].holder = NoId => node'[n] = Gone
  PROVE  TypeOK'
<1>1. /\ stage' \in [Actor -> Stage]
      /\ asked' \in [Actor -> Request]
      /\ seen' \in [Actor -> [Node -> Lock]]
      /\ \A b \in Actor : stage'[b] # "idle" => asked'[b].id \in Id
  BY GoToFacts
<1>2. QED
  BY <1>1 DEF TypeOK

\* Nobody but a may be asking with the id of an actor that has it alone.
LEMMA OthersId ==
  ASSUME TypeOK, OwnIds, NEW a \in Actor, NEW b \in Actor \ {a}, stage[b] # "idle",
         asked[b].id \notin shared
  PROVE  asked[a].id # asked[b].id
<1>1. asked[b].id # NoId
  BY DEF TypeOK
<1>2. QED
  BY <1>1 DEF OwnIds

LEMMA CreatePreserves ==
  ASSUME IInv, NEW a \in Actor, Create(a)
  PROVE  IInv'
<1>1. TypeOK /\ OwnIds /\ HolderHasNode /\ HeldNodes /\ NodeCount
  BY DEF IInv
<1>2. /\ stage[a] = "open" /\ stage[a] # "idle" /\ Matched(a) = {}
      /\ GoTo(a, "holding") /\ "holding" \in Stage
      /\ UNCHANGED <<shared, crashed, now>>
  BY DEF Create, Stage
<1>3. PICK n \in Node \ Exists : node' = [node EXCEPT ![n] = Mine(a)]
  BY DEF Create
<1>4. Mine(a) \in Lock /\ Mine(a).holder = asked[a].id /\ Mine(a).holder # NoId /\ Mine(a) # Gone
  BY <1>1, <1>2, MineIsLock
<1>5. /\ node' \in [Node -> Lock] /\ node'[n] = Mine(a) /\ node[n] = Gone
      /\ \A m \in Node \ {n} : node'[m] = node[m]
  BY <1>1, <1>3, <1>4 DEF TypeOK, Exists
<1>6. TypeOK'
  <2>1. \A m \in Node : node'[m].holder = NoId => node'[m] = Gone
    BY <1>1, <1>4, <1>5 DEF TypeOK
  <2>2. QED
    BY <1>1, <1>2, <1>5, <2>1, GoToTypes
<1>7. OwnIds'
  BY <1>1, <1>2, OwnIdsKept
<1>8. HolderHasNode'
  <2>1. ASSUME NEW b \in Actor \ {a}, NEW m \in Node, Live(b), node[m] = Mine(b)
        PROVE  node'[m] = Mine(b)
    <3>1. Mine(b) # Gone
      BY <1>1, <2>1, MineIsLock DEF Live
    <3>2. QED
      BY <1>5, <2>1, <3>1
  <2>2. QED
    BY <1>1, <1>2, <1>5, <2>1, HolderKept
<1>9. HeldNodes'
  <2>1. \A m \in Node : node'[m] # Gone =>
          node'[m].holder = asked[a].id \/ node'[m] = node[m]
    BY <1>4, <1>5
  <2>2. QED
    BY <1>1, <1>2, <2>1, HeldKept
<1>10. NodeCount'
  <2>1. Exists' = Exists \cup {n} /\ n \notin Exists
    BY <1>3, <1>4, <1>5 DEF Exists
  <2>2. Cardinality(Exists') = Cardinality(Exists) + 1
    BY <2>1, CountFinite, FS_AddElement
  <2>3. EmptyOpen' \subseteq EmptyOpen \ {a} /\ a \in EmptyOpen
    BY <1>1, <1>2, GoToEmptyOpen DEF EmptyOpen
  <2>4. /\ Cardinality(EmptyOpen \ {a}) = Cardinality(EmptyOpen) - 1
        /\ IsFiniteSet(EmptyOpen \ {a})
    BY <2>3, CountFinite, FS_RemoveElement
  <2>5. /\ Cardinality(EmptyOpen') <= Cardinality(EmptyOpen) - 1
        /\ Cardinality(EmptyOpen') \in Nat
    BY <2>3, <2>4, FS_Subset, FS_CardinalityType
  <2>6. QED
    BY <1>1, <2>2, <2>5, CountFinite DEF NodeCount
<1>11. QED
  BY <1>6, <1>7, <1>8, <1>9, <1>10 DEF IInv

LEMMA TakePreserves ==
  ASSUME IInv, NEW a \in Actor, Take(a)
  PROVE  IInv'
<1>1. TypeOK /\ OwnIds /\ HolderHasNode /\ HeldNodes /\ NodeCount
  BY DEF IInv
<1>2. /\ stage[a] = "open" /\ stage[a] # "idle" /\ TakenNodes(a) # {}
      /\ GoTo(a, "holding") /\ "holding" \in Stage
      /\ UNCHANGED <<shared, crashed, now>>
  BY DEF Take, Stage
<1>3. node' = [n \in Node |-> IF n \in TakenNodes(a) THEN Mine(a) ELSE node[n]]
  BY DEF Take
<1>4. Mine(a) \in Lock /\ Mine(a).holder = asked[a].id /\ Mine(a).holder # NoId /\ Mine(a) # Gone
  BY <1>1, <1>2, MineIsLock
<1>5. \A n \in TakenNodes(a) : /\ n \in Node /\ node[n] = seen[a][n] /\ node[n] # Gone
                               /\ FreeFor(a, n) /\ node'[n] = Mine(a)
  BY <1>3 DEF Take, Conflict, TakenNodes, Matched
<1>6. \A n \in Node \ TakenNodes(a) : node'[n] = node[n]
  BY <1>3
<1>7. TypeOK'
  <2>1. node' \in [Node -> Lock]
    BY <1>1, <1>3, <1>4 DEF TypeOK
  <2>2. \A n \in Node : node'[n].holder = NoId => node'[n] = Gone
    BY <1>1, <1>4, <1>5, <1>6 DEF TypeOK
  <2>3. QED
    BY <1>1, <1>2, <2>1, <2>2, GoToTypes
<1>8. OwnIds'
  BY <1>1, <1>2, OwnIdsKept
<1>9. HolderHasNode'
  <2>1. ASSUME NEW b \in Actor \ {a}, NEW n \in Node, Live(b), asked[b].id \notin shared,
               node[n] = Mine(b)
        PROVE  node'[n] = Mine(b)
    <3>1. CASE n \in TakenNodes(a)
      <4>1. node[n].holder = asked[a].id \/ node[n].until < asked[a].at
        BY <1>5, <3>1 DEF FreeFor
      <4>2. node[n].holder = asked[b].id /\ node[n].until = asked[b].until /\ stage[b] # "idle"
        BY <2>1 DEF Mine, Live
      <4>3. asked[a].id # asked[b].id
        BY <1>1, <2>1, <4>2, OthersId
      <4>4. asked[a].at <= now /\ asked[b].until >= now
        BY <1>1, <2>1 DEF OwnIds, Live
      <4>5. asked[a].at \in Nat /\ now \in Nat /\ asked[b].until \in Nat
        BY <1>1 DEF TypeOK, Request
      <4>6. QED
        BY <4>1, <4>2, <4>3, <4>4, <4>5
    <3>2. CASE n \notin TakenNodes(a)
      BY <1>6, <2>1, <3>2
    <3>3. QED
      BY <3>1, <3>2
  <2>2. \E n \in Node : node'[n] = Mine(a)
    BY <1>2, <1>5
  <2>3. QED
    BY <1>1, <1>2, <2>1, <2>2, HolderKept
<1>10. HeldNodes'
  <2>1. \A n \in Node : node'[n] # Gone =>
          node'[n].holder = asked[a].id \/ node'[n] = node[n]
    BY <1>4, <1>5, <1>6
  <2>2. QED
    BY <1>1, <1>2, <2>1, HeldKept
<1>11. NodeCount'
  <2>1. Exists' \subseteq Exists
    BY <1>5, <1>6 DEF Exists
  <2>2. EmptyOpen' \subseteq EmptyOpen
    BY <1>1, <1>2, GoToEmptyOpen
  <2>3. QED
    BY <1>1, <2>1, <2>2, CountKept
<1>12. QED
  BY <1>7, <1>8, <1>9, <1>10, <1>11 DEF IInv

\* A refusal or a conflict.
LEMMA GiveUpPreserves ==
  ASSUME IInv, NEW a \in Actor, Refuse(a) \/ Abort(a)
  PROVE  IInv'
<1>1. TypeOK /\ OwnIds /\ HolderHasNode /\ HeldNodes /\ NodeCount
  BY DEF IInv
<1>2. /\ stage[a] = "open" /\ stage[a] # "idle" /\ UNCHANGED <<node, shared, crashed, now>>
  BY DEF Refuse, Abort
<1>3. PICK s \in {"idle", "asking"} : GoTo(a, s)
  BY DEF Refuse, Abort
<1>4. s \in Stage /\ s # "holding"
  BY DEF Stage
<1>5. TypeOK'
  BY <1>1, <1>2, <1>3, <1>4, GoToTypes DEF TypeOK
<1>6. OwnIds'
  BY <1>1, <1>2, <1>3, <1>4, OwnIdsKept
<1>7. HolderHasNode'
  BY <1>1, <1>2, <1>3, <1>4, HolderKept
<1>8. HeldNodes'
  BY <1>1, <1>2, <1>3, <1>4, HeldKept
<1>9. NodeCount'
  <2>1. Exists' = Exists
    BY <1>2 DEF Exists
  <2>2. EmptyOpen' \subseteq EmptyOpen
    BY <1>1, <1>2, <1>3, GoToEmptyOpen
  <2>3. QED
    BY <1>1, <2>1, <2>2, CountKept
<1>10. QED
  BY <1>5, <1>6, <1>7, <1>8, <1>9 DEF IInv

-----------------------------------------------------------------------------
(* Releases, crashes and the clock.                                        *)

LEMMA ReleasePreserves ==
  ASSUME IInv, NEW a \in Actor, ReleaseWalletLock(a)
  PROVE  IInv'
<1>1. TypeOK /\ OwnIds /\ HolderHasNode /\ HeldNodes /\ NodeCount
  BY DEF IInv
<1>2. /\ stage[a] = "holding" /\ stage[a] # "idle"
      /\ GoTo(a, "idle") /\ "idle" \in Stage
      /\ UNCHANGED <<shared, crashed, now>>
  BY DEF ReleaseWalletLock, Stage
<1>3. \A n \in Node : node'[n] = IF node[n].holder = asked[a].id THEN Gone ELSE node[n]
  BY DEF ReleaseWalletLock, Released
<1>4. node' \in [Node -> Lock]
  <2>1. Gone \in Lock
    BY DEF Gone, Lock
  <2>2. QED
    BY <1>1, <2>1 DEF ReleaseWalletLock, Released, TypeOK
<1>5. TypeOK'
  BY <1>1, <1>2, <1>3, <1>4, GoToTypes DEF TypeOK
<1>6. OwnIds'
  BY <1>1, <1>2, OwnIdsKept
<1>7. HolderHasNode'
  <2>1. ASSUME NEW b \in Actor \ {a}, NEW n \in Node, Live(b), asked[b].id \notin shared,
               node[n] = Mine(b)
        PROVE  node'[n] = Mine(b)
    <3>1. node[n].holder = asked[b].id /\ stage[b] # "idle"
      BY <2>1 DEF Mine, Live
    <3>2. asked[a].id # asked[b].id
      BY <1>1, <2>1, <3>1, OthersId
    <3>3. QED
      BY <1>3, <2>1, <3>1, <3>2
  <2>2. QED
    BY <1>1, <1>2, <2>1, HolderKept
<1>8. HeldNodes'
  <2>1. \A n \in Node : node'[n] # Gone =>
          node'[n] = node[n] /\ node[n].holder # asked[a].id
    BY <1>3
  <2>2. QED
    BY <1>1, <1>2, <2>1, HeldKept
<1>9. NodeCount'
  <2>1. Exists' \subseteq Exists
    BY <1>3 DEF Exists
  <2>2. EmptyOpen' \subseteq EmptyOpen
    BY <1>1, <1>2, GoToEmptyOpen
  <2>3. QED
    BY <1>1, <2>1, <2>2, CountKept
<1>10. QED
  BY <1>5, <1>6, <1>7, <1>8, <1>9 DEF IInv

LEMMA CrashPreserves ==
  ASSUME IInv, NEW a \in Actor, Crash(a)
  PROVE  IInv'
<1>1. TypeOK /\ OwnIds /\ HolderHasNode /\ NodeCount
  BY DEF IInv
<1>2. /\ stage[a] = "holding" /\ stage[a] # "idle"
      /\ GoTo(a, "idle") /\ "idle" \in Stage
      /\ crashed' = TRUE /\ UNCHANGED <<node, shared, now>>
  BY DEF Crash, Stage
<1>3. TypeOK'
  <2>1. /\ stage' \in [Actor -> Stage]
        /\ asked' \in [Actor -> Request]
        /\ seen' \in [Actor -> [Node -> Lock]]
        /\ \A b \in Actor : stage'[b] # "idle" => asked'[b].id \in Id
    BY <1>1, <1>2, GoToFacts
  <2>2. QED
    BY <1>1, <1>2, <2>1 DEF TypeOK
<1>4. OwnIds'
  BY <1>1, <1>2, OwnIdsKept
<1>5. HolderHasNode'
  BY <1>1, <1>2, HolderKept
<1>6. HeldNodes'
  BY <1>2 DEF HeldNodes
<1>7. NodeCount'
  <2>1. Exists' = Exists
    BY <1>2 DEF Exists
  <2>2. EmptyOpen' \subseteq EmptyOpen
    BY <1>1, <1>2, GoToEmptyOpen
  <2>3. QED
    BY <1>1, <2>1, <2>2, CountKept
<1>8. QED
  BY <1>3, <1>4, <1>5, <1>6, <1>7 DEF IInv

LEMMA StillPreserves ==
  ASSUME IInv, Tick \/ UNCHANGED vars
  PROVE  IInv'
<1>1. TypeOK /\ OwnIds /\ HolderHasNode /\ HeldNodes /\ NodeCount
  BY DEF IInv
<1>2. UNCHANGED <<node, stage, asked, seen, shared, crashed>>
  BY DEF Tick, vars
<1>3. now \in Nat /\ now' \in 0 .. MaxNow /\ now <= now'
  BY <1>1 DEF Tick, vars, TypeOK
<1>4. TypeOK'
  BY <1>1, <1>2, <1>3 DEF TypeOK
<1>5. OwnIds'
  <2>1. \A b \in Actor : asked[b].at \in Nat
    BY <1>1 DEF TypeOK, Request
  <2>2. QED
    BY <1>1, <1>2, <1>3, <2>1 DEF OwnIds
<1>6. HolderHasNode'
  <2>1. \A b \in Actor : asked[b].until \in Nat
    BY <1>1 DEF TypeOK, Request
  <2>2. QED
    BY <1>1, <1>2, <1>3, <2>1 DEF HolderHasNode, Live, Mine
<1>7. HeldNodes'
  BY <1>1, <1>2 DEF HeldNodes, Exists
<1>8. NodeCount'
  BY <1>1, <1>2, CountKept DEF Exists, EmptyOpen, Matched
<1>9. QED
  BY <1>4, <1>5, <1>6, <1>7, <1>8 DEF IInv

-----------------------------------------------------------------------------
(* The theorems for overlapping acquires.                                  *)

\* The inductive invariant: holders have nodes, nodes have holders, and
\* there are no more of them than actors.
THEOREM WalletLockIInv == Spec => []IInv
<1>1. Init => IInv
  <2>1. SUFFICES ASSUME Init PROVE IInv
    OBVIOUS
  <2>2. Exists = {} /\ EmptyOpen = {}
    BY <2>1 DEF Init, Exists, EmptyOpen, NoNodes
  <2>3. NodeCount
    BY <2>2, FS_EmptySet, CountFinite DEF NodeCount
  <2>4. NoNodes \in [Node -> Lock] /\ Nothing \in Request
    BY DEF NoNodes, Gone, Lock, Nothing, Request
  <2>5. TypeOK
    <3>1. /\ node \in [Node -> Lock]
          /\ \A n \in Node : node[n].holder = NoId => node[n] = Gone
      BY <2>1, <2>4 DEF Init, NoNodes
    <3>2. /\ stage \in [Actor -> Stage]
          /\ \A a \in Actor : stage[a] # "idle" => asked[a].id \in Id
      BY <2>1 DEF Init, Stage
    <3>3. asked \in [Actor -> Request] /\ seen \in [Actor -> [Node -> Lock]]
      BY <2>1, <2>4 DEF Init
    <3>4. shared \subseteq Id /\ crashed \in BOOLEAN
      BY <2>1, Zenon DEF Init
    <3>5. now \in 0 .. MaxNow
      BY <2>1 DEF Init
    <3>6. QED
      BY <3>1, <3>2, <3>3, <3>4, <3>5 DEF TypeOK
  <2>6. OwnIds /\ HolderHasNode /\ HeldNodes
    BY <2>1, <2>2 DEF Init, OwnIds, HolderHasNode, HeldNodes, Live, Nothing
  <2>7. QED
    BY <2>3, <2>5, <2>6 DEF IInv
<1>2. IInv /\ [Next]_vars => IInv'
  <2>1. SUFFICES ASSUME IInv, [Next]_vars PROVE IInv'
    OBVIOUS
  <2>2. ASSUME NEW a \in Actor, NEW id \in Id, NEW ttl \in TTLs, Ask(a, id, ttl) PROVE IInv'
    BY <2>1, <2>2, AskPreserves
  <2>3. ASSUME NEW a \in Actor, AcquireWalletLock(a) PROVE IInv'
    BY <2>1, <2>3, OpenPreserves, CreatePreserves, TakePreserves, GiveUpPreserves
       DEF AcquireWalletLock
  <2>4. ASSUME NEW a \in Actor, ReleaseWalletLock(a) \/ Crash(a) PROVE IInv'
    BY <2>1, <2>4, ReleasePreserves, CrashPreserves
  <2>5. CASE Tick \/ UNCHANGED vars
    BY <2>1, <2>5, StillPreserves
  <2>6. QED
    BY <2>1, <2>2, <2>3, <2>4, <2>5 DEF Next
<1>3. QED
  BY <1>1, <1>2, PTL DEF Spec

\* Nodes, requests and snapshots keep their types.
THEOREM TypeCorrect == Spec => []TypeOK
  BY WalletLockIInv, PTL DEF IInv

\* Who holds the lock in time has a node that says so, even while there are
\* two (AcquireWalletLock, ReleaseWalletLock).
THEOREM HoldersHaveNodes == Spec => []HolderHasNode
  BY WalletLockIInv, PTL DEF IInv

\* There are no more double nodes than actors (MERGE in AcquireWalletLock).
THEOREM NodesAreFew == Spec => []NodesBounded
<1>1. IInv => NodesBounded
  BY CountFinite DEF IInv, NodeCount, NodesBounded
<1>2. QED
  BY <1>1, WalletLockIInv, PTL

\* With all locks released no node stays behind (ReleaseWalletLock).
THEOREM NodesAreReleased == Spec => []NothingLeftBehind
<1>1. IInv => NothingLeftBehind
  BY DEF IInv, HeldNodes, NothingLeftBehind, Stage
<1>2. QED
  BY <1>1, WalletLockIInv, PTL

-----------------------------------------------------------------------------
(* Acquires that do not overlap.                                           *)

\* There is one node at most, and none when somebody may create one.
Serial ==
  /\ \A a, b \in Actor : stage[a] = "open" /\ stage[b] = "open" => a = b
  /\ \A n, m \in Exists : n = m
  /\ EmptyOpen # {} => Exists = {}

\* A step that creates no node and opens no transaction.
LEMMA SerialKept ==
  ASSUME Serial, Exists' \subseteq Exists,
         \A b \in Actor : stage'[b] = "open" => stage[b] = "open" /\ seen'[b] = seen[b]
  PROVE  Serial'
<1>1. EmptyOpen' \subseteq EmptyOpen
  BY DEF EmptyOpen, Matched
<1>2. QED
  BY <1>1 DEF Serial

\* A transaction that is over opens no other.
LEMMA GoToOpens ==
  ASSUME TypeOK, NEW a \in Actor, NEW s \in {"idle", "asking", "holding"}, GoTo(a, s),
         stage[a] # "idle"
  PROVE  \A b \in Actor : stage'[b] = "open" => b # a /\ stage[b] = "open" /\ seen'[b] = seen[b]
<1>1. s \in Stage /\ s # "open"
  BY DEF Stage
<1>2. QED
  BY <1>1, GoToFacts

LEMMA SerialStep ==
  ASSUME MaxOpen <= 1, IInv, Serial, [Next]_vars
  PROVE  Serial'
<1>1. TypeOK
  BY DEF IInv
<1>2. ASSUME NEW a \in Actor, NEW id \in Id, NEW ttl \in TTLs, Ask(a, id, ttl)
      PROVE  Serial'
  <2>1. Exists' = Exists
    BY <1>2 DEF Ask, Exists
  <2>2. \A b \in Actor : stage'[b] = "open" => stage[b] = "open" /\ seen'[b] = seen[b]
    BY <1>1, <1>2 DEF Ask, TypeOK
  <2>3. QED
    BY <2>1, <2>2, SerialKept
<1>3. ASSUME NEW a \in Actor, Open(a)
      PROVE  Serial'
  <2>1. InFlight = {}
    <3>1. InFlight \subseteq Actor
      BY DEF InFlight
    <3>2. IsFiniteSet(InFlight) /\ Cardinality(InFlight) \in Nat
      BY <3>1, FS_Subset, FS_CardinalityType
    <3>3. Cardinality(InFlight) < 1
      BY <1>3, <3>2 DEF Open
    <3>4. QED
      BY <3>2, <3>3, FS_EmptySet
  <2>2. /\ \A b \in Actor \ {a} : stage'[b] # "open"
        /\ seen'[a] = node /\ UNCHANGED node
    BY <1>1, <1>3, <2>1 DEF Open, InFlight, TypeOK
  <2>3. Exists' = Exists
    BY <2>2 DEF Exists
  <2>4. EmptyOpen' # {} => Exists = {}
    BY <2>2 DEF EmptyOpen, Matched, Exists
  <2>5. QED
    BY <2>2, <2>3, <2>4 DEF Serial
<1>4. ASSUME NEW a \in Actor, Create(a)
      PROVE  Serial'
  <2>1. a \in EmptyOpen /\ GoTo(a, "holding") /\ stage[a] = "open"
    BY <1>4 DEF Create, EmptyOpen
  <2>2. Exists = {} /\ \A b \in Actor : stage[b] = "open" => b = a
    BY <2>1 DEF Serial
  <2>3. PICK n \in Node : node' = [node EXCEPT ![n] = Mine(a)]
    BY <1>4 DEF Create
  <2>4. Exists' \subseteq {n}
    BY <1>1, <2>2, <2>3 DEF Exists, TypeOK
  <2>5. \A b \in Actor : stage'[b] # "open"
    BY <1>1, <2>1, <2>2, GoToOpens
  <2>6. EmptyOpen' = {}
    BY <2>5 DEF EmptyOpen
  <2>7. QED
    BY <2>4, <2>5, <2>6 DEF Serial
<1>5. ASSUME NEW a \in Actor,
             Take(a) \/ Refuse(a) \/ Abort(a) \/ ReleaseWalletLock(a) \/ Crash(a)
      PROVE  Serial'
  <2>1. stage[a] # "idle" /\ \E s \in {"idle", "asking", "holding"} : GoTo(a, s)
    BY <1>5 DEF Take, Refuse, Abort, ReleaseWalletLock, Crash
  <2>2. \A b \in Actor : stage'[b] = "open" => stage[b] = "open" /\ seen'[b] = seen[b]
    BY <1>1, <2>1, GoToOpens
  <2>3. Exists' \subseteq Exists
    <3>1. CASE Take(a)
      BY <3>1 DEF Take, Conflict, TakenNodes, Matched, Exists
    <3>2. CASE ReleaseWalletLock(a)
      BY <3>2 DEF ReleaseWalletLock, Released, Exists
    <3>3. CASE Refuse(a) \/ Abort(a) \/ Crash(a)
      BY <3>3 DEF Refuse, Abort, Crash, Exists
    <3>4. QED
      BY <1>5, <3>1, <3>2, <3>3
  <2>4. QED
    BY <2>2, <2>3, SerialKept
<1>6. CASE Tick \/ UNCHANGED vars
  BY <1>6, SerialKept DEF Tick, vars, Exists
<1>7. QED
  BY <1>2, <1>3, <1>4, <1>5, <1>6 DEF Next, AcquireWalletLock

\* Where acquires do not overlap, one actor with an id of its own has the
\* wallet at a time: the double creation is all that stands in the way of
\* the exclusion (AcquireWalletLock).
THEOREM ExclusiveWhenSerial ==
  ASSUME MaxOpen <= 1
  PROVE  Spec => []Exclusive
<1>1. Init => Serial
  BY DEF Init, Serial, Exists, EmptyOpen, NoNodes
<1>2. IInv /\ Serial /\ [Next]_vars => Serial'
  BY SerialStep
<1>3. IInv /\ Serial => Exclusive
  <2>1. SUFFICES ASSUME IInv, Serial, NEW a \in Actor, NEW b \in Actor, Live(a), Live(b),
                        {asked[a].id, asked[b].id} \cap shared = {}
                 PROVE  a = b
    BY DEF Exclusive
  <2>2. TypeOK /\ OwnIds /\ HolderHasNode
    BY <2>1 DEF IInv
  <2>3. stage[a] # "idle" /\ stage[b] # "idle"
    BY <2>1 DEF Live
  <2>4. PICK n \in Node, m \in Node : node[n] = Mine(a) /\ node[m] = Mine(b)
    BY <2>1, <2>2 DEF HolderHasNode
  <2>5. n \in Exists /\ m \in Exists
    BY <2>2, <2>3, <2>4, MineIsLock DEF Exists
  <2>6. asked[a].id = asked[b].id
    <3>1. Mine(a) = Mine(b)
      BY <2>1, <2>4, <2>5 DEF Serial
    <3>2. QED
      BY <2>2, <2>3, <3>1, MineIsLock
  <2>7. asked[a].id # NoId
    BY <2>2, <2>3 DEF TypeOK
  <2>8. QED
    BY <2>1, <2>2, <2>6, <2>7 DEF OwnIds
<1>4. QED
  BY <1>1, <1>2, <1>3, WalletLockIInv, PTL DEF Spec

-----------------------------------------------------------------------------
(* The server wallets of a project.                                        *)

\* Default wallets and requests that may still store one, together.
DefaultCount ==
  Cardinality(pwIsDefault) + Cardinality(Project!CreatingDefault) <= Cardinality(ProjectRequest)

\* A write that names no wallet was queued for a default one, which it stays.
QueuedForDefault ==
  \A w \in Write : ~pwWrites[w].named /\ pwWrites[w].status # "absent"
                     => pwWrites[w].signer \in pwIsDefault

\* A queued write has an attempt left.
AttemptLeft == \A w \in Write : pwWrites[w].status = "queued" => pwWrites[w].attempts < MaxAttempts

ProjectIInv ==
  /\ Project!TypeOK
  /\ AttemptLeft
  /\ Project!WalletsHaveKeys
  /\ DefaultCount
  /\ Project!SignedByDefault
  /\ QueuedForDefault
  /\ Project!RefusedOnlyAfterRace

USE ProjectAssumption DEF Project!NoAddressAssumption, Project!FiniteAssumption,
                          Project!BoundsAssumption

\* Requests leave the queued writes alone, and the worker the wallets.
LEMMA RequestFrame ==
  ASSUME NEW r \in ProjectRequest, Project!RequestStep(r)
  PROVE  pwWrites' = pwWrites /\ pwNow' = pwNow
BY DEF Project!RequestStep, Project!EnsureProjectDefaultAdminWallet, Project!CreateWallet,
       Project!StartCreating, Project!VaultCreatesWallet, Project!VaultFails,
       Project!CreateProjectWallet, Project!StoreFails, Project!Answer

LEMMA WriteFrame ==
  ASSUME NEW w \in Write, Project!ContractWrite(w) \/ Project!Attempt(w)
  PROVE  UNCHANGED <<pwVault, pwWallets, pwIsDefault, pwCreatedAt, pwStage, pwWanted,
                     pwAddress, pwStamp, pwNow>>
BY DEF Project!ContractWrite, Project!ConsoleWrite, Project!Enqueue, Project!Attempt,
       Project!storeVars, Project!requestVars

WriteType == [signer: ProjectKey \cup {NoAddress}, named: BOOLEAN,
              attempts: 0 .. MaxAttempts, status: Project!WriteStatus]

\* The operators of FiniteSets are the same in every instance.
LEMMA ProjectFinite ==
  /\ \A S : Project!Cardinality(S) = Cardinality(S)
  /\ \A S : Project!IsFiniteSet(S) <=> IsFiniteSet(S)
BY DEF Project!Cardinality, Cardinality, Project!IsFiniteSet, IsFiniteSet

\* What a request or the worker writes has its type.
LEMMA ProjectTypes ==
  ASSUME Project!TypeOK, AttemptLeft, Project!WalletsHaveKeys, Project!Next
  PROVE  Project!TypeOK' /\ AttemptLeft'
<1> USE DEF Project!TypeOK, Project!Stage
<1>1. ASSUME NEW r \in ProjectRequest, Project!RequestStep(r)
      PROVE  Project!TypeOK' /\ AttemptLeft'
  <2>0. AttemptLeft'
    BY <1>1, RequestFrame DEF AttemptLeft
  <2> SUFFICES Project!TypeOK'
    BY <2>0
  <2>1. CASE Project!EnsureProjectDefaultAdminWallet(r)
    <3>1. CASE Project!StartCreating(r, TRUE)
      BY <3>1 DEF Project!StartCreating, Project!storeVars
    <3>2. CASE ~Project!StartCreating(r, TRUE)
      <4>1. PICK a \in pwIsDefault :
              /\ pwStage'   = [pwStage EXCEPT ![r] = "served"]
              /\ pwWanted'  = [pwWanted EXCEPT ![r] = TRUE]
              /\ pwAddress' = [pwAddress EXCEPT ![r] = a]
              /\ UNCHANGED <<pwVault, pwWallets, pwIsDefault, pwCreatedAt, pwStamp, pwWrites, pwNow>>
        BY <2>1, <3>2 DEF Project!EnsureProjectDefaultAdminWallet,
                          Project!GetProjectDefaultAdminWallet, Project!storeVars
      <4> QED
        BY <4>1
    <3> QED
      BY <3>1, <3>2
  <2>2. CASE Project!CreateWallet(r)
    BY <2>2 DEF Project!CreateWallet, Project!StartCreating, Project!storeVars
  <2>3. CASE Project!VaultCreatesWallet(r) \/ Project!VaultFails(r)
    BY <2>3 DEF Project!VaultCreatesWallet, Project!VaultFails, Project!FreshKey,
                Project!storeVars
  <2>4. ASSUME pwStage[r] = "storing", Project!Store(r)
        PROVE  /\ pwWallets' \subseteq ProjectKey
               /\ pwIsDefault' \subseteq pwWallets'
               /\ pwCreatedAt' \in [ProjectKey -> 0 .. ProjectMaxNow]
    <3>1. pwAddress[r] \in ProjectKey /\ pwStamp[r] \in 0 .. ProjectMaxNow
      BY <2>4 DEF Project!WalletsHaveKeys
    <3> QED
      BY <2>4, <3>1 DEF Project!Store
  <2>5. CASE Project!CreateProjectWallet(r)
    BY <2>4, <2>5 DEF Project!CreateProjectWallet
  <2>6. CASE Project!StoreFails(r)
    BY <2>4, <2>6 DEF Project!StoreFails, Project!storeVars
  <2>7. CASE Project!Answer(r)
    BY <2>7 DEF Project!Answer, Project!storeVars
  <2> QED
    BY <1>1, <2>1, <2>2, <2>3, <2>5, <2>6, <2>7 DEF Project!RequestStep
<1>2. ASSUME NEW w \in Write, Project!ContractWrite(w) \/ Project!Attempt(w)
      PROVE  Project!TypeOK' /\ AttemptLeft'
  <2>1. UNCHANGED <<pwVault, pwWallets, pwIsDefault, pwCreatedAt, pwStage, pwWanted,
                    pwAddress, pwStamp, pwNow>>
    BY <1>2, WriteFrame
  <2>0. pwWrites \in [Write -> WriteType]
    BY DEF WriteType
  <2>2. ASSUME Project!ContractWrite(w)
        PROVE  /\ pwWrites' \in [Write -> WriteType]
               /\ AttemptLeft'
    <3>1. PICK a \in ProjectKey, named \in BOOLEAN : Project!Enqueue(w, a, named)
      BY <2>2 DEF Project!ContractWrite, Project!ConsoleWrite,
                  Project!GetProjectDefaultAdminWallet
    <3> QED
      BY <3>1 DEF Project!Enqueue, Project!WriteStatus, AttemptLeft, WriteType
  <2>3. ASSUME Project!Attempt(w)
        PROVE  /\ pwWrites' \in [Write -> WriteType]
               /\ AttemptLeft'
    <3>1. PICK n \in 1 .. MaxAttempts : n = pwWrites[w].attempts + 1
      BY <2>3 DEF Project!Attempt, AttemptLeft
    <3>2. PICK a \in ProjectKey \cup {NoAddress}, s \in Project!WriteStatus :
            /\ s = "queued" => n < MaxAttempts
            /\ pwWrites' = [pwWrites EXCEPT ![w].status = s, ![w].attempts = n, ![w].signer = a]
      <4> USE DEF Project!WriteStatus
      <4>1. CASE \E a \in Project!GetProjectDefaultAdminWalletSecret :
                   pwWrites' = [pwWrites EXCEPT ![w].status = "signed", ![w].attempts = n,
                                                ![w].signer = a]
        BY <4>1 DEF Project!GetProjectDefaultAdminWalletSecret,
                    Project!GetProjectDefaultAdminWallet
      <4>2. CASE pwWrites' = [pwWrites EXCEPT ![w].attempts = n,
                                              ![w].status = Project!AttemptStatus(n)]
        <5>1. PICK s \in Project!WriteStatus :
                /\ s = "queued" => n < MaxAttempts
                /\ pwWrites' = [pwWrites EXCEPT ![w].attempts = n, ![w].status = s]
          BY <3>1, <4>2 DEF Project!AttemptStatus
        <5>2. pwWrites' = [pwWrites EXCEPT ![w].status = s, ![w].attempts = n,
                                           ![w].signer = pwWrites[w].signer]
          BY <5>1
        <5> QED
          BY <5>1, <5>2
      <4> QED
        BY <2>3, <3>1, <4>1, <4>2 DEF Project!Attempt
    <3>3. /\ pwWrites' \in [Write -> WriteType]
          /\ pwWrites'[w].status = s /\ pwWrites'[w].attempts = n
          /\ \A v \in Write \ {w} : pwWrites'[v] = pwWrites[v]
      BY <2>0, <3>1, <3>2 DEF WriteType
    <3> QED
      BY <3>2, <3>3 DEF AttemptLeft
  <2> QED
    BY <1>2, <2>1, <2>2, <2>3 DEF WriteType
<1>3. CASE Project!Tick
  BY <1>3 DEF Project!Tick, Project!storeVars, Project!requestVars, AttemptLeft
<1> QED
  BY <1>1, <1>2, <1>3 DEF Project!Next

\* No key is lost, no default wallet ceases to be one, and what a request
\* stores is its own.
LEMMA ProjectGrows ==
  ASSUME Project!TypeOK, Project!Next
  PROVE  /\ pwVault \subseteq pwVault'
         /\ pwIsDefault \subseteq pwIsDefault'
BY DEF Project!TypeOK, Project!Next, Project!RequestStep, Project!EnsureProjectDefaultAdminWallet,
       Project!CreateWallet, Project!StartCreating, Project!VaultCreatesWallet,
       Project!VaultFails, Project!CreateProjectWallet, Project!StoreFails, Project!Store,
       Project!Answer, Project!ContractWrite, Project!ConsoleWrite, Project!Enqueue,
       Project!Attempt, Project!Tick, Project!storeVars

LEMMA ProjectKeys ==
  ASSUME Project!TypeOK, Project!WalletsHaveKeys, Project!Next
  PROVE  Project!WalletsHaveKeys'
<1> USE DEF Project!TypeOK, Project!Stage, Project!WalletsHaveKeys
<1>1. ASSUME NEW r \in ProjectRequest, Project!RequestStep(r)
      PROVE  Project!WalletsHaveKeys'
  <2>1. CASE Project!VaultCreatesWallet(r)
    BY <2>1 DEF Project!VaultCreatesWallet, Project!FreshKey, Project!storeVars
  <2>2. CASE Project!VaultFails(r)
    BY <2>2 DEF Project!VaultFails, Project!FreshKey, Project!storeVars
  <2>3. CASE Project!CreateProjectWallet(r)
    BY <2>3 DEF Project!CreateProjectWallet, Project!Store
  <2>4. CASE Project!StoreFails(r)
    BY <2>4 DEF Project!StoreFails, Project!Store, Project!storeVars
  <2>5. CASE Project!EnsureProjectDefaultAdminWallet(r) \/ Project!CreateWallet(r)
             \/ Project!Answer(r)
    <3>1. /\ UNCHANGED <<pwVault, pwWallets>>
          /\ \A q \in ProjectRequest : pwStage'[q] = "storing" =>
               pwStage[q] = "storing" /\ pwAddress'[q] = pwAddress[q]
      BY <2>5 DEF Project!EnsureProjectDefaultAdminWallet, Project!CreateWallet,
                  Project!StartCreating, Project!Answer, Project!storeVars
    <3> QED
      BY <3>1
  <2> QED
    BY <1>1, <2>1, <2>2, <2>3, <2>4, <2>5 DEF Project!RequestStep
<1>2. ASSUME NEW w \in Write, Project!ContractWrite(w) \/ Project!Attempt(w)
      PROVE  Project!WalletsHaveKeys'
  BY <1>2, WriteFrame
<1>3. CASE Project!Tick
  BY <1>3 DEF Project!Tick, Project!storeVars, Project!requestVars
<1> QED
  BY <1>1, <1>2, <1>3 DEF Project!Next

\* A request that starts to create a default wallet sees none; one that
\* stores a default wallet creates none any more.
LEMMA DefaultsCounted ==
  ASSUME Project!TypeOK, Project!WalletsHaveKeys, DefaultCount, Project!Next
  PROVE  DefaultCount'
<1> DEFINE C == Project!CreatingDefault
<1> USE DEF Project!TypeOK, Project!Stage
<1>0. /\ IsFiniteSet(ProjectRequest) /\ IsFiniteSet(pwIsDefault)
      /\ C \subseteq ProjectRequest /\ IsFiniteSet(C)
      /\ Cardinality(pwIsDefault) \in Nat /\ Cardinality(C) \in Nat
      /\ Cardinality(ProjectRequest) \in Nat
  <2>1. IsFiniteSet(ProjectRequest) /\ IsFiniteSet(ProjectKey)
    BY ProjectFinite
  <2>2. pwIsDefault \subseteq ProjectKey /\ C \subseteq ProjectRequest
    BY DEF Project!CreatingDefault
  <2> QED
    BY <2>1, <2>2, FS_Subset, FS_CardinalityType
<1>1. ASSUME pwIsDefault' = pwIsDefault, C' \subseteq C
      PROVE  DefaultCount'
  <2>1. Cardinality(C') <= Cardinality(C) /\ Cardinality(C') \in Nat
    BY <1>0, <1>1, FS_Subset, FS_CardinalityType
  <2> QED
    BY <1>0, <1>1, <2>1 DEF DefaultCount
<1>2. ASSUME NEW r \in ProjectRequest, Project!RequestStep(r)
      PROVE  DefaultCount'
  <2>1. CASE Project!EnsureProjectDefaultAdminWallet(r)
    <3>1. CASE pwIsDefault = {} /\ Project!StartCreating(r, TRUE)
      <4>1. pwIsDefault' = {} /\ C' \subseteq ProjectRequest
        BY <3>1 DEF Project!StartCreating, Project!storeVars, Project!CreatingDefault
      <4>2. Cardinality(pwIsDefault') = 0 /\ Cardinality(C') <= Cardinality(ProjectRequest)
            /\ Cardinality(C') \in Nat
        BY <1>0, <4>1, FS_EmptySet, FS_Subset, FS_CardinalityType
      <4> QED
        BY <1>0, <4>2 DEF DefaultCount
    <3>2. CASE ~(pwIsDefault = {} /\ Project!StartCreating(r, TRUE))
      <4>1. pwIsDefault' = pwIsDefault /\ C' \subseteq C
        BY <2>1, <3>2 DEF Project!EnsureProjectDefaultAdminWallet, Project!storeVars,
                          Project!CreatingDefault
      <4> QED
        BY <1>1, <4>1
    <3> QED
      BY <3>1, <3>2
  <2>2. CASE \/ Project!CreateWallet(r) \/ Project!VaultCreatesWallet(r)
             \/ Project!VaultFails(r) \/ Project!Answer(r)
    <3>1. pwIsDefault' = pwIsDefault /\ C' \subseteq C
      BY <2>2 DEF Project!CreateWallet, Project!StartCreating, Project!VaultCreatesWallet,
                  Project!VaultFails, Project!Answer, Project!storeVars, Project!CreatingDefault
    <3> QED
      BY <1>1, <3>1
  <2>3. CASE Project!CreateProjectWallet(r) \/ Project!StoreFails(r)
    <3>1. /\ pwStage[r] = "storing"
          /\ C' = C \ {r}
          /\ pwIsDefault' \in {pwIsDefault, pwIsDefault \cup {pwAddress[r]}}
          /\ r \notin C => pwIsDefault' = pwIsDefault
      BY <2>3 DEF Project!CreateProjectWallet, Project!StoreFails, Project!Store,
                  Project!storeVars, Project!CreatingDefault
    <3>2. CASE r \notin C
      BY <1>1, <3>1, <3>2
    <3>3. CASE r \in C
      <4>1. Cardinality(C') = Cardinality(C) - 1
        BY <1>0, <3>1, <3>3, FS_RemoveElement
      <4>2. Cardinality(pwIsDefault') <= Cardinality(pwIsDefault) + 1
            /\ Cardinality(pwIsDefault') \in Nat
        <5>1. /\ IsFiniteSet(pwIsDefault \cup {pwAddress[r]})
              /\ Cardinality(pwIsDefault \cup {pwAddress[r]}) \in
                   {Cardinality(pwIsDefault), Cardinality(pwIsDefault) + 1}
          BY <1>0, FS_AddElement
        <5>2. CASE pwIsDefault' = pwIsDefault
          BY ONLY <1>0, <5>2
        <5>3. CASE pwIsDefault' = pwIsDefault \cup {pwAddress[r]}
          BY ONLY <1>0, <5>1, <5>3
        <5> QED
          BY <3>1, <5>2, <5>3
      <4> HIDE DEF C
      <4> QED
        BY <1>0, <4>1, <4>2 DEF DefaultCount, C
    <3> QED
      BY <3>2, <3>3
  <2> QED
    BY <1>2, <2>1, <2>2, <2>3 DEF Project!RequestStep
<1>3. ASSUME NEW w \in Write, Project!ContractWrite(w) \/ Project!Attempt(w)
      PROVE  DefaultCount'
  BY <1>1, <1>3, WriteFrame DEF Project!CreatingDefault
<1>4. CASE Project!Tick
  BY <1>1, <1>4 DEF Project!Tick, Project!storeVars, Project!requestVars, Project!CreatingDefault
<1> QED
  BY <1>2, <1>3, <1>4 DEF Project!Next

\* The worker signs with a default wallet only, refuses a wallet only when
\* another is the default, and what is queued names a default wallet.
LEMMA WritesKept ==
  ASSUME Project!TypeOK, AttemptLeft, Project!WalletsHaveKeys, Project!SignedByDefault,
         QueuedForDefault, Project!RefusedOnlyAfterRace, Project!Next
  PROVE  Project!SignedByDefault' /\ QueuedForDefault' /\ Project!RefusedOnlyAfterRace'
<1> USE DEF Project!SignedByDefault, QueuedForDefault, Project!RefusedOnlyAfterRace
<1>0. /\ pwWrites \in [Write -> WriteType]
      /\ pwVault \subseteq pwVault' /\ pwIsDefault \subseteq pwIsDefault'
  BY ProjectGrows DEF Project!TypeOK, WriteType
<1>1. CASE pwWrites' = pwWrites
  BY <1>0, <1>1
<1>2. ASSUME NEW w \in Write, Project!ContractWrite(w)
      PROVE  Project!SignedByDefault' /\ QueuedForDefault' /\ Project!RefusedOnlyAfterRace'
  <2>1. PICK a \in ProjectKey, named \in BOOLEAN :
          /\ ~named => a \in pwIsDefault
          /\ Project!Enqueue(w, a, named)
    BY <1>2 DEF Project!ContractWrite, Project!ConsoleWrite,
                Project!GetProjectDefaultAdminWallet, Project!TypeOK
  <2>2. /\ pwWrites'[w] = [signer |-> a, named |-> named, attempts |-> 0, status |-> "queued"]
        /\ \A v \in Write \ {w} : pwWrites'[v] = pwWrites[v]
    BY <1>0, <2>1 DEF Project!Enqueue
  <2> QED
    BY <1>0, <2>1, <2>2
<1>3. ASSUME NEW w \in Write, Project!Attempt(w)
      PROVE  Project!SignedByDefault' /\ QueuedForDefault' /\ Project!RefusedOnlyAfterRace'
  <2>0. /\ pwWrites[w].status = "queued" /\ pwWrites[w].named \in BOOLEAN
        /\ pwIsDefault' = pwIsDefault /\ pwVault' = pwVault /\ pwIsDefault \subseteq pwVault
    BY <1>0, <1>3 DEF Project!Attempt, Project!storeVars, WriteType, Project!TypeOK,
                      Project!WalletsHaveKeys
  <2>1. ASSUME NEW a \in pwIsDefault, pwWrites[w].signer = a,
               pwWrites' = [pwWrites EXCEPT ![w].status = "signed",
                              ![w].attempts = pwWrites[w].attempts + 1, ![w].signer = a]
        PROVE  Project!SignedByDefault' /\ QueuedForDefault' /\ Project!RefusedOnlyAfterRace'
    <3>1. /\ pwWrites'[w].status = "signed" /\ pwWrites'[w].signer = a
          /\ \A v \in Write \ {w} : pwWrites'[v] = pwWrites[v]
      BY <1>0, <2>1 DEF WriteType
    <3> QED
      BY <1>0, <2>0, <2>1, <3>1
  <2>2. ASSUME pwIsDefault = {} \/ \E a \in pwIsDefault : pwWrites[w].signer # a,
               pwWrites' = [pwWrites EXCEPT ![w].attempts = pwWrites[w].attempts + 1,
                              ![w].status = Project!AttemptStatus(pwWrites[w].attempts + 1)]
        PROVE  Project!SignedByDefault' /\ QueuedForDefault' /\ Project!RefusedOnlyAfterRace'
    <3>1. /\ pwWrites'[w].status \in {"queued", "failed"}
          /\ pwWrites'[w].signer = pwWrites[w].signer /\ pwWrites'[w].named = pwWrites[w].named
          /\ \A v \in Write \ {w} : pwWrites'[v] = pwWrites[v]
      BY <1>0, <2>2 DEF WriteType, Project!AttemptStatus
    <3>2. ~pwWrites[w].named => \E a, b \in pwIsDefault : a # b
      BY <2>0, <2>2
    <3> QED
      BY <1>0, <2>0, <3>1, <3>2
  <2> QED
    BY <1>3, <2>1, <2>2 DEF Project!Attempt, Project!GetProjectDefaultAdminWalletSecret,
                            Project!GetProjectDefaultAdminWallet, Project!SignerPayload
<1> QED
  <2>1. \/ pwWrites' = pwWrites
        \/ \E w \in Write : Project!ContractWrite(w) \/ Project!Attempt(w)
    BY RequestFrame DEF Project!Next, Project!Tick
  <2> QED
    BY <1>1, <1>2, <1>3, <2>1

\* The server wallets are in order whatever requests race, steps fail and
\* writes wait.
LEMMA ProjectInvariant == Project!Spec => []ProjectIInv
<1>1. Project!Init => ProjectIInv
  <2> SUFFICES ASSUME Project!Init PROVE ProjectIInv
    OBVIOUS
  <2> USE DEF Project!Init
  <2>1. Project!TypeOK
    BY DEF Project!TypeOK, Project!Stage, Project!NoWrite, Project!WriteStatus
  <2>2. AttemptLeft /\ QueuedForDefault /\ Project!SignedByDefault
        /\ Project!RefusedOnlyAfterRace /\ Project!WalletsHaveKeys
    BY DEF AttemptLeft, QueuedForDefault, Project!SignedByDefault,
           Project!RefusedOnlyAfterRace, Project!WalletsHaveKeys, Project!NoWrite
  <2>3. DefaultCount
    <3>1. pwIsDefault = {} /\ Project!CreatingDefault = {}
      BY DEF Project!CreatingDefault
    <3>2. Cardinality(ProjectRequest) \in Nat
      BY ProjectFinite, FS_CardinalityType
    <3> QED
      BY <3>1, <3>2, FS_EmptySet DEF DefaultCount
  <2> QED
    BY <2>1, <2>2, <2>3 DEF ProjectIInv
<1>2. ProjectIInv /\ [Project!Next]_(Project!vars) => ProjectIInv'
  <2>1. CASE Project!Next
    BY <2>1, ProjectTypes, ProjectKeys, DefaultsCounted, WritesKept DEF ProjectIInv
  <2>2. CASE UNCHANGED Project!vars
    BY <2>2 DEF Project!vars, Project!storeVars, Project!requestVars, ProjectIInv,
                Project!TypeOK, AttemptLeft, QueuedForDefault, Project!SignedByDefault,
                Project!RefusedOnlyAfterRace, Project!WalletsHaveKeys, DefaultCount,
                Project!CreatingDefault
  <2> QED
    BY <2>1, <2>2
<1> QED
  BY <1>1, <1>2, PTL DEF Project!Spec

-----------------------------------------------------------------------------
(* The managed wallets of users.                                           *)

\* The reference of a stored wallet is the one of its own key, and the vault has
\* it, or one that a client has registered.
RefsAreKeys ==
  \A a \in UserAddress : uwRef[a] # NoRef =>
    /\ uwStatus[a] # "absent"
    /\ (uwRef[a] = a /\ a \in uwVault) \/ uwRef[a] \in ClientRef

\* A request that is about to store a wallet holds a new key, which no client
\* has registered and no other request holds.
StoringIsNew ==
  \A r \in UserRequest : uwStage[r] = "storing" =>
    /\ uwAddress[r] \in uwVault /\ uwStatus[uwAddress[r]] = "absent"
    /\ \A q \in UserRequest : uwStage[q] = "storing" /\ uwAddress[q] = uwAddress[r] => q = r

\* Only wallets that were stored are answered with; an idle request has none.
ServedIsStored ==
  \A r \in UserRequest :
    /\ uwStage[r] = "idle" => uwAddress[r] = NoRef
    /\ uwStage[r] \in {"creating", "storing", "served"} => uwUser[r] \in User
    /\ uwStage[r] = "served" => uwAddress[r] \in UserAddress /\ uwStatus[uwAddress[r]] # "absent"
    /\ uwStage[r] \in {"signing", "signed"} => uwAddress[r] \in UserAddress

\* Requests that may still store a wallet for user u.
Creators(u) == {r \in UserRequest : uwStage[r] \in {"creating", "storing"} /\ uwUser[r] = u}

OwnCount ==
  \A u \in User : Cardinality(uwOwn[u]) + Cardinality(Creators(u)) <= Cardinality(UserRequest)

UsersSafe ==
  /\ RefsAreKeys
  /\ StoringIsNew
  /\ ServedIsStored
  /\ Users!OwnCanSign
  /\ Users!NoOneElsesWallet
  /\ Users!SigningHasKey

UsersIInv == Users!TypeOK /\ UsersSafe /\ OwnCount

USE UsersAssumption DEF Users!AddressAssumption, Users!UserAssumption,
                        Users!FiniteAssumption, Users!MaxNowAssumption

LEMMA UsersFinite ==
  /\ \A S : Users!Cardinality(S) = Cardinality(S)
  /\ \A S : Users!IsFiniteSet(S) <=> IsFiniteSet(S)
BY DEF Users!Cardinality, Cardinality, Users!IsFiniteSet, IsFiniteSet

\* What an upsert changes in the wallet at a, and that it changes no other.
LEMMA UpsertFacts ==
  ASSUME Users!TypeOK, NEW a \in UserAddress, NEW u \in User, NEW c \in Users!Custody,
         NEW k \in Users!Ref, Users!Upsert(a, u, c, k)
  PROVE  /\ uwStatus' \in [UserAddress -> Users!Status]
         /\ uwOwner' \in [UserAddress -> User \cup {NoUser}]
         /\ uwCustody' \in [UserAddress -> Users!Custody]
         /\ uwRef' \in [UserAddress -> Users!Ref]
         /\ uwLastSeen' \in [UserAddress -> 0 .. UserMaxNow]
         /\ uwStatus'[a] = IF uwStatus[a] = "absent" THEN "active" ELSE uwStatus[a]
         /\ uwOwner'[a] = u /\ uwCustody'[a] = c
         /\ uwRef'[a] = IF k = NoRef THEN uwRef[a] ELSE k
         /\ \A b \in UserAddress \ {a} :
              UNCHANGED <<uwStatus[b], uwOwner[b], uwCustody[b], uwRef[b], uwLastSeen[b]>>
<1> USE DEF Users!TypeOK, Users!Status, Users!Custody
<1>1. PICK t \in 0 .. uwNow : uwLastSeen' = [uwLastSeen EXCEPT ![a] = t]
  BY DEF Users!Upsert
<1>2. t \in 0 .. UserMaxNow
  OBVIOUS
<1> QED
  BY <1>1, <1>2 DEF Users!Upsert, Users!StatusOnCreate, Users!RefKept

LEMMA UsersTypes ==
  ASSUME Users!TypeOK, UsersSafe, Users!Next
  PROVE  Users!TypeOK'
<1> USE DEF Users!TypeOK, Users!Stage
<1>1. ASSUME NEW r \in UserRequest, Users!StoreManaged(r)
      PROVE  Users!TypeOK'
  <2>1. uwAddress[r] \in UserKey /\ uwUser[r] \in User /\ uwAddress[r] \in UserAddress
    BY <1>1 DEF Users!StoreManaged, Users!StoreWallet, UsersSafe, StoringIsNew, ServedIsStored
  <2>2. Users!Upsert(uwAddress[r], uwUser[r], "managed", uwAddress[r])
    BY <1>1 DEF Users!StoreManaged, Users!StoreWallet
  <2>3. /\ uwStatus' \in [UserAddress -> Users!Status]
        /\ uwOwner' \in [UserAddress -> User \cup {NoUser}]
        /\ uwCustody' \in [UserAddress -> Users!Custody]
        /\ uwRef' \in [UserAddress -> Users!Ref]
        /\ uwLastSeen' \in [UserAddress -> 0 .. UserMaxNow]
    <3>1. uwAddress[r] \in Users!Ref
      BY <2>1 DEF Users!Ref
    <3> QED
      BY <2>1, <2>2, <3>1, UpsertFacts DEF Users!Custody
  <2>4. uwOwn' \in [User -> SUBSET UserKey] /\ uwStage' \in [UserRequest -> Users!Stage]
    BY <1>1, <2>1 DEF Users!StoreManaged, Users!StoreWallet
  <2> QED
    BY <1>1, <2>3, <2>4 DEF Users!StoreManaged, Users!StoreWallet
<1>2. ASSUME NEW a \in UserAddress, NEW u \in User, NEW c \in Users!Custody,
             NEW k \in ClientRef \cup {NoRef}, Users!UpsertUserWallet(a, u, c, k)
      PROVE  Users!TypeOK'
  <2>1. Users!Upsert(a, u, c, k) /\ k \in Users!Ref
    BY <1>2 DEF Users!UpsertUserWallet, Users!Ref
  <2>2. /\ uwStatus' \in [UserAddress -> Users!Status]
        /\ uwOwner' \in [UserAddress -> User \cup {NoUser}]
        /\ uwCustody' \in [UserAddress -> Users!Custody]
        /\ uwRef' \in [UserAddress -> Users!Ref]
        /\ uwLastSeen' \in [UserAddress -> 0 .. UserMaxNow]
    BY <2>1, UpsertFacts
  <2> QED
    BY <1>2, <2>2 DEF Users!UpsertUserWallet, Users!requestVars
<1>3. ASSUME NEW r \in UserRequest, NEW u \in User, Users!CreateManagedUserWallet(r, u)
      PROVE  Users!TypeOK'
  BY <1>3 DEF Users!CreateManagedUserWallet, Users!GetActiveManagedUserWallet, Users!Managed,
              Users!walletVars
<1>4. ASSUME NEW r \in UserRequest, Users!VaultCreatesWallet(r) \/ Users!VaultFails(r)
      PROVE  Users!TypeOK'
  BY <1>4 DEF Users!VaultCreatesWallet, Users!VaultFails, Users!walletVars
<1>5. ASSUME NEW r \in UserRequest,
             Users!StoreFails(r) \/ Users!ManagedTransfer(r) \/ Users!Sign(r) \/ Users!Answer(r)
      PROVE  Users!TypeOK'
  BY <1>5 DEF Users!StoreFails, Users!ManagedTransfer, Users!Sign, Users!Answer,
              Users!GetActiveManagedUserWalletSecretByAddress, Users!walletVars, Users!Ref
<1>6. ASSUME NEW a \in UserAddress, Users!DeleteUserWallet(a)
      PROVE  Users!TypeOK'
  BY <1>6 DEF Users!DeleteUserWallet, Users!requestVars, Users!Status
<1>7. CASE Users!Tick
  BY <1>7 DEF Users!Tick, Users!requestVars, Users!walletVars
<1> QED
  BY <1>1, <1>2, <1>3, <1>4, <1>5, <1>6, <1>7 DEF Users!Next, Users!RequestStep

\* A step that writes no wallet keeps what is known of the wallets, and of
\* the requests that only went on with the wallet they had.
LEMMA WalletsUntouched ==
  ASSUME Users!TypeOK, UsersSafe,
         UNCHANGED <<uwStatus, uwOwner, uwCustody, uwRef, uwOwn>>, uwVault \subseteq uwVault'
  PROVE  RefsAreKeys' /\ Users!OwnCanSign'
BY DEF UsersSafe, RefsAreKeys, Users!OwnCanSign, Users!Managed, Users!TypeOK,
       Users!GetActiveManagedUserWalletSecretByAddress

LEMMA SafeCreate ==
  ASSUME Users!TypeOK, UsersSafe, NEW r \in UserRequest, NEW u \in User,
         Users!CreateManagedUserWallet(r, u)
  PROVE  UsersSafe'
<1> USE DEF Users!TypeOK
<1>1. /\ uwStage[r] = "idle" /\ UNCHANGED <<uwVault, uwStatus, uwOwner, uwCustody, uwRef, uwOwn>>
      /\ uwUser'[r] = u
      /\ uwSigner' = uwSigner
      /\ \A q \in UserRequest \ {r} : UNCHANGED <<uwStage[q], uwUser[q], uwAddress[q]>>
      /\ \/ uwStage'[r] = "creating" /\ uwAddress'[r] = uwAddress[r]
         \/ uwStage'[r] = "served" /\ uwAddress'[r] \in Users!Managed(u)
  BY DEF Users!CreateManagedUserWallet, Users!walletVars, Users!GetActiveManagedUserWallet
<1>2. RefsAreKeys' /\ Users!OwnCanSign'
  BY <1>1, WalletsUntouched
<1>3. StoringIsNew' /\ Users!SigningHasKey'
  BY <1>1 DEF UsersSafe, StoringIsNew, Users!SigningHasKey
<1>4. ServedIsStored'
  BY <1>1 DEF UsersSafe, ServedIsStored, Users!Managed
<1>5. Users!NoOneElsesWallet'
  <2> SUFFICES ASSUME NEW q \in UserRequest, NEW v \in User, uwStage'[q] = "served",
                      uwAddress'[q] \in uwOwn[v]
               PROVE  v = uwUser'[q]
    BY <1>1 DEF Users!NoOneElsesWallet
  <2>1. CASE q = r
    <3>1. uwAddress'[r] \in Users!Managed(u) /\ uwAddress'[r] \in Users!Managed(v)
      BY <1>1, <2>1 DEF UsersSafe, Users!OwnCanSign
    <3> QED
      BY <1>1, <2>1, <3>1 DEF Users!Managed
  <2>2. CASE q # r
    BY <1>1, <2>2 DEF UsersSafe, Users!NoOneElsesWallet
  <2> QED
    BY <2>1, <2>2
<1> QED
  BY <1>2, <1>3, <1>4, <1>5 DEF UsersSafe

LEMMA SafeVault ==
  ASSUME Users!TypeOK, UsersSafe, NEW r \in UserRequest,
         Users!VaultCreatesWallet(r) \/ Users!VaultFails(r)
  PROVE  UsersSafe'
<1> USE DEF Users!TypeOK
<1>1. /\ uwStage[r] = "creating" /\ UNCHANGED <<uwStatus, uwOwner, uwCustody, uwRef, uwOwn, uwUser>>
      /\ uwVault \subseteq uwVault' /\ uwSigner' = uwSigner
      /\ \A q \in UserRequest \ {r} : UNCHANGED <<uwStage[q], uwAddress[q]>>
      /\ \/ uwStage'[r] = "refused"
         \/ /\ uwStage'[r] = "storing"
            /\ \E a \in UserKey \ uwVault : /\ uwStatus[a] = "absent" /\ a \in uwVault'
                                            /\ uwAddress'[r] = a
  BY DEF Users!VaultCreatesWallet, Users!VaultFails, Users!walletVars
<1>2. RefsAreKeys' /\ Users!OwnCanSign'
  BY <1>1, WalletsUntouched
<1>3. StoringIsNew' /\ Users!SigningHasKey'
  BY <1>1 DEF UsersSafe, StoringIsNew, Users!SigningHasKey
<1>4. ServedIsStored' /\ Users!NoOneElsesWallet'
  BY <1>1 DEF UsersSafe, ServedIsStored, Users!NoOneElsesWallet
<1> QED
  BY <1>2, <1>3, <1>4 DEF UsersSafe

LEMMA SafeStore ==
  ASSUME Users!TypeOK, UsersSafe, NEW r \in UserRequest, Users!StoreManaged(r)
  PROVE  UsersSafe'
<1> DEFINE a == uwAddress[r]
           u == uwUser[r]
<1> USE DEF Users!TypeOK
<1>1. /\ uwStage[r] = "storing" /\ UNCHANGED <<uwVault, uwUser, uwAddress, uwSigner>>
      /\ Users!Upsert(a, u, "managed", a)
      /\ uwOwn' = [uwOwn EXCEPT ![u] = @ \cup {a}]
      /\ uwStage'[r] \in {"served", "refused"}
      /\ \A q \in UserRequest \ {r} : uwStage'[q] = uwStage[q]
  BY DEF Users!StoreManaged, Users!StoreWallet
<1>2. /\ a \in uwVault /\ a \in UserKey /\ a \in UserAddress /\ a # NoRef /\ u \in User /\ uwStatus[a] = "absent"
      /\ \A q \in UserRequest \ {r} : uwStage[q] = "storing" => uwAddress[q] # a
  BY <1>1 DEF UsersSafe, StoringIsNew, ServedIsStored
<1>3. /\ uwStatus'[a] = "active" /\ uwOwner'[a] = u /\ uwCustody'[a] = "managed" /\ uwRef'[a] = a
      /\ \A b \in UserAddress \ {a} : UNCHANGED <<uwStatus[b], uwOwner[b], uwCustody[b], uwRef[b]>>
  <2>1. a \in Users!Ref
    BY <1>2 DEF Users!Ref
  <2> QED
    BY <1>1, <1>2, <2>1, UpsertFacts DEF Users!Custody
<1>4. \A v \in User : /\ v # u => uwOwn'[v] = uwOwn[v]
                      /\ uwOwn'[v] \subseteq uwOwn[v] \cup {a}
                      /\ uwOwn[v] \subseteq UserAddress
                      /\ a \notin uwOwn[v]
  BY <1>1, <1>2 DEF UsersSafe, Users!OwnCanSign, Users!Managed
<1> HIDE DEF a, u
<1>5. RefsAreKeys'
  BY <1>1, <1>2, <1>3 DEF UsersSafe, RefsAreKeys
<1>6. Users!OwnCanSign'
  <2> SUFFICES ASSUME NEW v \in User, NEW b \in uwOwn'[v]
               PROVE  /\ b \in UserAddress /\ b \in uwVault /\ uwStatus'[b] = "active"
                      /\ uwCustody'[b] = "managed" /\ uwRef'[b] = b /\ b # NoRef
                      /\ uwOwner'[b] = v
    BY <1>1 DEF Users!OwnCanSign, Users!Managed, Users!GetActiveManagedUserWalletSecretByAddress
  <2>1. CASE b = a
    BY <1>2, <1>3, <1>4, <2>1
  <2>2. CASE b # a
    <3>1. b \in uwOwn[v] /\ b \in UserAddress
      BY <1>4, <2>2
    <3> QED
      BY <1>3, <2>2, <3>1 DEF UsersSafe, Users!OwnCanSign, Users!Managed,
                              Users!GetActiveManagedUserWalletSecretByAddress
  <2> QED
    BY <2>1, <2>2
<1>7. StoringIsNew'
  <2> SUFFICES ASSUME NEW q \in UserRequest, uwStage'[q] = "storing"
               PROVE  /\ uwAddress[q] \in uwVault /\ uwStatus'[uwAddress[q]] = "absent"
                      /\ \A p \in UserRequest : uwStage'[p] = "storing"
                            /\ uwAddress[p] = uwAddress[q] => p = q
    BY <1>1 DEF StoringIsNew
  <2>1. q # r /\ uwStage[q] = "storing"
    BY <1>1
  <2> QED
    BY <1>1, <1>2, <1>3, <2>1 DEF UsersSafe, StoringIsNew
<1>8. ServedIsStored' /\ Users!SigningHasKey'
  BY <1>1, <1>2, <1>3 DEF UsersSafe, ServedIsStored, Users!SigningHasKey, a, u
<1>9. Users!NoOneElsesWallet'
  <2> SUFFICES ASSUME NEW q \in UserRequest, NEW v \in User, uwStage'[q] = "served",
                      uwAddress[q] \in uwOwn'[v]
               PROVE  v = uwUser[q]
    BY <1>1 DEF Users!NoOneElsesWallet
  <2>1. CASE q = r
    BY <1>4, <2>1 DEF a, u
  <2>2. CASE q # r
    <3>1. uwStage[q] = "served" /\ uwAddress[q] # a
      BY <1>1, <1>2, <2>2 DEF UsersSafe, ServedIsStored
    <3> QED
      BY <1>4, <3>1 DEF UsersSafe, Users!NoOneElsesWallet
  <2> QED
    BY <2>1, <2>2
<1> QED
  BY <1>5, <1>6, <1>7, <1>8, <1>9 DEF UsersSafe

\* What a client writes may end the service of a wallet and name another
\* reference, and takes no key.
LEMMA SafeClient ==
  ASSUME Users!TypeOK, UsersSafe, NEW a \in UserAddress,
         \/ \E u \in User, c \in Users!Custody, k \in ClientRef \cup {NoRef} :
              Users!UpsertUserWallet(a, u, c, k)
         \/ Users!DeleteUserWallet(a)
  PROVE  UsersSafe'
<1> DEFINE OnlyWritten ==
             /\ UNCHANGED <<uwVault, uwStage, uwUser, uwAddress, uwSigner>>
             /\ uwOwn' = [v \in User |-> uwOwn[v] \ {a}]
             /\ \A b \in UserAddress \ {a} :
                  UNCHANGED <<uwStatus[b], uwOwner[b], uwCustody[b], uwRef[b]>>
             /\ uwRef'[a] = uwRef[a] \/ uwRef'[a] \in ClientRef
             /\ uwStatus'[a] # "absent"
             /\ a \in uwVault => uwStatus[a] # "absent"
<1> USE DEF Users!TypeOK
<1>1. OnlyWritten
  <2>1. ASSUME NEW u \in User, NEW c \in Users!Custody, NEW k \in ClientRef \cup {NoRef},
               Users!UpsertUserWallet(a, u, c, k)
        PROVE  OnlyWritten
    <3>1. Users!Upsert(a, u, c, k) /\ k \in Users!Ref
      BY <2>1 DEF Users!UpsertUserWallet, Users!Ref
    <3>2. /\ uwStatus'[a] # "absent"
          /\ uwRef'[a] = IF k = NoRef THEN uwRef[a] ELSE k
          /\ \A b \in UserAddress \ {a} :
               UNCHANGED <<uwStatus[b], uwOwner[b], uwCustody[b], uwRef[b]>>
      BY <3>1, UpsertFacts
    <3> QED
      BY <2>1, <3>2 DEF Users!UpsertUserWallet, Users!requestVars
  <2>2. ASSUME Users!DeleteUserWallet(a)
        PROVE  OnlyWritten
    BY <2>2 DEF Users!DeleteUserWallet, Users!requestVars
  <2> QED
    BY <2>1, <2>2
<1>2. RefsAreKeys'
  BY <1>1 DEF UsersSafe, RefsAreKeys
<1>3. Users!SigningHasKey' /\ Users!NoOneElsesWallet'
  BY <1>1 DEF UsersSafe, Users!SigningHasKey, Users!NoOneElsesWallet
<1>4. StoringIsNew'
  BY <1>1 DEF UsersSafe, StoringIsNew
<1>5. ServedIsStored'
  BY <1>1 DEF UsersSafe, ServedIsStored
<1>6. Users!OwnCanSign'
  BY <1>1 DEF UsersSafe, Users!OwnCanSign, Users!Managed,
              Users!GetActiveManagedUserWalletSecretByAddress
<1> QED
  BY <1>2, <1>3, <1>4, <1>5, <1>6 DEF UsersSafe

\* The other steps write no wallet.
LEMMA SafeRequest ==
  ASSUME Users!TypeOK, UsersSafe, NEW r \in UserRequest,
         Users!StoreFails(r) \/ Users!ManagedTransfer(r) \/ Users!Sign(r) \/ Users!Answer(r)
  PROVE  UsersSafe'
<1> USE DEF Users!TypeOK
<1>1. /\ UNCHANGED <<uwVault, uwStatus, uwOwner, uwCustody, uwRef, uwOwn>>
      /\ \A q \in UserRequest \ {r} :
           UNCHANGED <<uwStage[q], uwUser[q], uwAddress[q], uwSigner[q]>>
      /\ \/ uwStage'[r] = "refused"
         \/ uwStage'[r] = "idle" /\ uwAddress'[r] = NoRef
         \/ /\ uwStage'[r] = "signing" /\ uwAddress'[r] \in UserAddress
            /\ uwRef[uwAddress'[r]] # NoRef /\ uwSigner'[r] = uwRef[uwAddress'[r]]
         \/ /\ uwStage[r] = "signing" /\ uwStage'[r] = "signed"
            /\ UNCHANGED <<uwAddress[r], uwSigner[r]>>
  BY DEF Users!StoreFails, Users!ManagedTransfer, Users!Sign, Users!Answer, Users!walletVars,
         Users!GetActiveManagedUserWalletSecretByAddress
<1>2. RefsAreKeys' /\ Users!OwnCanSign'
  BY <1>1, WalletsUntouched
<1>3. StoringIsNew' /\ ServedIsStored' /\ Users!NoOneElsesWallet'
  BY <1>1 DEF UsersSafe, StoringIsNew, ServedIsStored, Users!NoOneElsesWallet
<1>4. Users!SigningHasKey'
  BY <1>1 DEF UsersSafe, Users!SigningHasKey, RefsAreKeys
<1> QED
  BY <1>2, <1>3, <1>4 DEF UsersSafe

\* A request creates a wallet for a user who has none that is his own.
LEMMA OwnCounted ==
  ASSUME Users!TypeOK, UsersSafe, OwnCount, Users!Next
  PROVE  OwnCount'
<1> USE DEF Users!TypeOK
<1>0. /\ IsFiniteSet(UserRequest) /\ Cardinality(UserRequest) \in Nat
      /\ \A v \in User : /\ IsFiniteSet(uwOwn[v]) /\ Cardinality(uwOwn[v]) \in Nat
                         /\ Creators(v) \subseteq UserRequest /\ IsFiniteSet(Creators(v))
                         /\ Cardinality(Creators(v)) \in Nat
  <2>1. IsFiniteSet(UserRequest) /\ IsFiniteSet(UserAddress)
    BY UsersFinite
  <2>2. \A v \in User : uwOwn[v] \subseteq UserAddress /\ Creators(v) \subseteq UserRequest
    BY DEF Creators
  <2> QED
    BY <2>1, <2>2, FS_Subset, FS_CardinalityType
<1>1. ASSUME NEW v \in User, uwOwn'[v] \subseteq uwOwn[v], Creators(v)' \subseteq Creators(v)
      PROVE  Cardinality(uwOwn'[v]) + Cardinality(Creators(v)') <= Cardinality(UserRequest)
  <2>1. /\ Cardinality(uwOwn'[v]) <= Cardinality(uwOwn[v]) /\ Cardinality(uwOwn'[v]) \in Nat
        /\ Cardinality(Creators(v)') <= Cardinality(Creators(v))
        /\ Cardinality(Creators(v)') \in Nat
    BY <1>0, <1>1, FS_Subset, FS_CardinalityType
  <2> QED
    BY <1>0, <2>1 DEF OwnCount
<1>2. ASSUME NEW r \in UserRequest, NEW u \in User, Users!CreateManagedUserWallet(r, u)
      PROVE  OwnCount'
  <2> SUFFICES ASSUME NEW v \in User
               PROVE  Cardinality(uwOwn'[v]) + Cardinality(Creators(v)') <= Cardinality(UserRequest)
    BY DEF OwnCount
  <2>1. CASE v = u /\ Users!Managed(u) = {}
    <3>1. uwOwn'[v] = {} /\ Creators(v)' \subseteq UserRequest
      BY <1>2, <2>1 DEF Users!CreateManagedUserWallet, UsersSafe, Users!OwnCanSign, Creators
    <3>2. Cardinality(uwOwn'[v]) = 0 /\ Cardinality(Creators(v)') <= Cardinality(UserRequest)
          /\ Cardinality(Creators(v)') \in Nat
      BY <1>0, <3>1, FS_EmptySet, FS_Subset, FS_CardinalityType
    <3> QED
      BY <1>0, <3>2
  <2>2. CASE ~(v = u /\ Users!Managed(u) = {})
    <3>1. uwOwn'[v] \subseteq uwOwn[v] /\ Creators(v)' \subseteq Creators(v)
      BY <1>2, <2>2 DEF Users!CreateManagedUserWallet, Creators,
                        Users!GetActiveManagedUserWallet
    <3> QED
      BY <1>1, <3>1
  <2> QED
    BY <2>1, <2>2
<1>3. ASSUME NEW r \in UserRequest, Users!StoreManaged(r)
      PROVE  OwnCount'
  <2> SUFFICES ASSUME NEW v \in User
               PROVE  Cardinality(uwOwn'[v]) + Cardinality(Creators(v)') <= Cardinality(UserRequest)
    BY DEF OwnCount
  <2>1. CASE v = uwUser[r]
    <3>1. /\ uwOwn'[v] = uwOwn[v] \cup {uwAddress[r]}
          /\ r \in Creators(v) /\ Creators(v)' = Creators(v) \ {r}
      BY <1>3, <2>1 DEF Users!StoreManaged, Users!StoreWallet, Creators
    <3>2. Cardinality(Creators(v)') = Cardinality(Creators(v)) - 1
      BY <1>0, <3>1, FS_RemoveElement
    <3>3. Cardinality(uwOwn'[v]) \in {Cardinality(uwOwn[v]), Cardinality(uwOwn[v]) + 1}
      <4>1. Cardinality(uwOwn[v] \cup {uwAddress[r]}) \in
              {Cardinality(uwOwn[v]), Cardinality(uwOwn[v]) + 1}
        BY <1>0, FS_AddElement
      <4> QED
        BY ONLY <3>1, <4>1
    <3> QED
      BY <1>0, <3>2, <3>3 DEF OwnCount
  <2>2. CASE v # uwUser[r]
    <3>1. uwOwn'[v] \subseteq uwOwn[v] /\ Creators(v)' \subseteq Creators(v)
      BY <1>3, <2>2 DEF Users!StoreManaged, Users!StoreWallet, Creators, UsersSafe,
                        ServedIsStored
    <3> QED
      BY <1>1, <3>1
  <2> QED
    BY <2>1, <2>2
<1>4. ASSUME \A v \in User : uwOwn'[v] \subseteq uwOwn[v] /\ Creators(v)' \subseteq Creators(v)
      PROVE  OwnCount'
  BY <1>1, <1>4 DEF OwnCount
<1>5. ASSUME NEW r \in UserRequest,
             \/ Users!VaultCreatesWallet(r) \/ Users!VaultFails(r) \/ Users!StoreFails(r)
             \/ Users!ManagedTransfer(r) \/ Users!Sign(r) \/ Users!Answer(r)
      PROVE  OwnCount'
  <2>1. /\ uwOwn' = uwOwn
        /\ \A q \in UserRequest \ {r} : uwStage'[q] = uwStage[q] /\ uwUser'[q] = uwUser[q]
        /\ \/ uwStage'[r] \notin {"creating", "storing"}
           \/ uwStage[r] = "creating" /\ uwUser'[r] = uwUser[r]
    BY <1>5 DEF Users!VaultCreatesWallet, Users!VaultFails, Users!StoreFails,
                Users!ManagedTransfer, Users!Sign, Users!Answer
  <2> QED
    BY <1>4, <2>1 DEF Creators
<1>6. ASSUME NEW a \in UserAddress,
             \/ \E u \in User, c \in Users!Custody, k \in ClientRef \cup {NoRef} :
                  Users!UpsertUserWallet(a, u, c, k)
             \/ Users!DeleteUserWallet(a)
      PROVE  OwnCount'
  <2>1. uwOwn' = [v \in User |-> uwOwn[v] \ {a}] /\ UNCHANGED <<uwStage, uwUser>>
    BY <1>6 DEF Users!UpsertUserWallet, Users!DeleteUserWallet, Users!requestVars
  <2> QED
    BY <1>4, <2>1 DEF Creators
<1>7. CASE Users!Tick
  BY <1>4, <1>7 DEF Users!Tick, Users!requestVars, Creators
<1> QED
  BY <1>2, <1>3, <1>5, <1>6, <1>7 DEF Users!Next, Users!RequestStep

\* The managed wallets are in order whatever requests and clients race.
LEMMA UsersInvariant == Users!Spec => []UsersIInv
<1>1. Users!Init => UsersIInv
  <2> SUFFICES ASSUME Users!Init PROVE UsersIInv
    OBVIOUS
  <2> USE DEF Users!Init
  <2>1. Users!TypeOK
    BY DEF Users!TypeOK, Users!Status, Users!Custody, Users!Stage, Users!Ref
  <2>2. UsersSafe
    BY DEF UsersSafe, RefsAreKeys, StoringIsNew, ServedIsStored, Users!OwnCanSign,
           Users!NoOneElsesWallet, Users!SigningHasKey
  <2>3. OwnCount
    <3>1. Cardinality(UserRequest) \in Nat
      BY UsersFinite, FS_CardinalityType
    <3>2. \A u \in User : uwOwn[u] = {} /\ Creators(u) = {}
      BY DEF Creators
    <3>3. \A u \in User : Cardinality(uwOwn[u]) + Cardinality(Creators(u)) = 0
      BY <3>2, FS_EmptySet
    <3> QED
      BY <3>1, <3>3 DEF OwnCount
  <2> QED
    BY <2>1, <2>2, <2>3 DEF UsersIInv
<1>2. UsersIInv /\ [Users!Next]_(Users!vars) => UsersIInv'
  <2>1. CASE Users!Next
    <3> SUFFICES ASSUME UsersIInv PROVE UsersIInv'
      BY <2>1
    <3>1. Users!TypeOK' /\ OwnCount'
      BY <2>1, UsersTypes, OwnCounted DEF UsersIInv
    <3>2. UsersSafe'
      <4>1. CASE Users!Tick
        BY <4>1 DEF Users!Tick, Users!walletVars, Users!requestVars, UsersIInv, UsersSafe,
                    RefsAreKeys, StoringIsNew, ServedIsStored, Users!OwnCanSign, Users!Managed,
                    Users!GetActiveManagedUserWalletSecretByAddress, Users!NoOneElsesWallet,
                    Users!SigningHasKey
      <4> QED
        BY <2>1, <4>1, SafeCreate, SafeVault, SafeStore, SafeClient, SafeRequest
           DEF Users!Next, Users!RequestStep, UsersIInv
    <3> QED
      BY <3>1, <3>2 DEF UsersIInv
  <2>2. CASE UNCHANGED Users!vars
    BY <2>2 DEF Users!vars, Users!walletVars, Users!requestVars, UsersIInv, Users!TypeOK,
                UsersSafe, RefsAreKeys, StoringIsNew, ServedIsStored, Users!OwnCanSign,
                Users!Managed, Users!GetActiveManagedUserWalletSecretByAddress,
                Users!NoOneElsesWallet, Users!SigningHasKey, OwnCount, Creators
  <2> QED
    BY <2>1, <2>2
<1> QED
  BY <1>1, <1>2, PTL DEF Users!Spec

-----------------------------------------------------------------------------
(* The properties of the composition.                                      *)

\* Whatever part a behaviour is of, it is a behaviour of every component.
LEMMA PartsRun ==
  SpecPart => Spec /\ Project!Spec /\ Users!Spec
<1>1. InitPart => Init /\ Project!Init /\ Users!Init
  BY DEF InitPart
<1>2. [NextPart]_allVars => [Next]_vars
  BY DEF NextPart, allVars
<1>3. [NextPart]_allVars => [Project!Next]_(Project!vars)
  BY DEF NextPart, allVars, pwVars, Project!vars, Project!storeVars, Project!requestVars
<1>4. [NextPart]_allVars => [Users!Next]_(Users!vars)
  BY DEF NextPart, allVars, uwVars, Users!vars, Users!walletVars, Users!requestVars
<1> QED
  BY <1>1, <1>2, <1>3, <1>4, PTL DEF SpecPart, Spec, Project!Spec, Users!Spec

\* Locks, server wallets and managed wallets keep their types.
THEOREM WalletTypes == SpecPart => []TypesOK
<1>1. IInv /\ ProjectIInv /\ UsersIInv => TypesOK
  BY DEF IInv, ProjectIInv, UsersIInv, TypesOK
<1> QED
  BY <1>1, PartsRun, WalletLockIInv, ProjectInvariant, UsersInvariant, PTL

\* Server wallets can sign, are few, sign alone, and refuse a write queued for
\* the default wallet only when there are two (ensureProjectDefaultAdminWallet,
\* projectSignerPayloadForWallet).
THEOREM ProjectSigns == SpecPart => []ProjectCanSign
<1>1. ProjectIInv => ProjectCanSign
  <2> SUFFICES ASSUME ProjectIInv PROVE ProjectCanSign
    OBVIOUS
  <2>1. Project!DefaultsBounded
    <3>1. IsFiniteSet(ProjectRequest) /\ IsFiniteSet(pwIsDefault)
          /\ IsFiniteSet(Project!CreatingDefault)
      <4>1. IsFiniteSet(ProjectRequest) /\ IsFiniteSet(ProjectKey)
        BY ProjectFinite
      <4> QED
        BY <4>1, FS_Subset DEF ProjectIInv, Project!TypeOK, Project!CreatingDefault
    <3>2. /\ Cardinality(ProjectRequest) \in Nat /\ Cardinality(pwIsDefault) \in Nat
          /\ Cardinality(Project!CreatingDefault) \in Nat
      BY <3>1, FS_CardinalityType
    <3>3. Cardinality(pwIsDefault) <= Cardinality(ProjectRequest)
      BY <3>2 DEF ProjectIInv, DefaultCount
    <3> QED
      BY <3>3, ProjectFinite DEF Project!DefaultsBounded
  <2> QED
    BY <2>1 DEF ProjectIInv, ProjectCanSign
<1> QED
  BY <1>1, PartsRun, ProjectInvariant, PTL

\* A user's own wallets sign with their own keys, serve nobody else and are
\* few (createManagedUserWallet, GetActiveManagedUserWallet).
THEOREM UsersAreServed == SpecPart => []OwnWalletServes
<1>1. UsersIInv => OwnWalletServes
  <2> SUFFICES ASSUME UsersIInv PROVE OwnWalletServes
    OBVIOUS
  <2>1. Users!OwnBounded
    <3> SUFFICES ASSUME NEW u \in User
                 PROVE  Cardinality(uwOwn[u]) <= Cardinality(UserRequest)
      BY UsersFinite DEF Users!OwnBounded
    <3>1. IsFiniteSet(UserRequest) /\ IsFiniteSet(uwOwn[u]) /\ IsFiniteSet(Creators(u))
      <4>1. IsFiniteSet(UserRequest) /\ IsFiniteSet(UserAddress)
        BY UsersFinite
      <4>2. uwOwn[u] \subseteq UserAddress /\ Creators(u) \subseteq UserRequest
        BY DEF UsersIInv, Users!TypeOK, Creators
      <4> QED
        BY <4>1, <4>2, FS_Subset
    <3>2. /\ Cardinality(UserRequest) \in Nat /\ Cardinality(uwOwn[u]) \in Nat
          /\ Cardinality(Creators(u)) \in Nat
      BY <3>1, FS_CardinalityType
    <3> QED
      BY <3>2 DEF UsersIInv, OwnCount
  <2> QED
    BY <2>1 DEF UsersIInv, UsersSafe, OwnWalletServes
<1> QED
  BY <1>1, PartsRun, UsersInvariant, PTL

\* References are replaced by nothing but what clients register
\* (UpsertUserWallet).
LEMMA KeysRemembered == Users!Spec => Users!KeyNeverForgotten
<1>1. UsersIInv /\ [Users!Next]_(Users!vars) =>
        [\A a \in UserAddress : uwRef[a] # NoRef /\ uwRef'[a] # uwRef[a] =>
           uwRef'[a] \in ClientRef]_(Users!vars)
  <2> SUFFICES ASSUME UsersIInv, Users!Next, NEW a \in UserAddress, uwRef[a] # NoRef
               PROVE  uwRef'[a] = uwRef[a] \/ uwRef'[a] \in ClientRef
    OBVIOUS
  <2>0. Users!TypeOK /\ UsersSafe /\ uwStatus[a] # "absent"
    BY DEF UsersIInv, UsersSafe, RefsAreKeys
  <2>1. ASSUME NEW b \in UserAddress, NEW u \in User, NEW c \in Users!Custody,
               NEW k \in ClientRef \cup {NoRef}, Users!UpsertUserWallet(b, u, c, k)
        PROVE  uwRef'[a] = uwRef[a] \/ uwRef'[a] \in ClientRef
    <3>1. Users!Upsert(b, u, c, k) /\ k \in Users!Ref
      BY <2>1 DEF Users!UpsertUserWallet, Users!Ref
    <3> QED
      BY <2>0, <3>1, UpsertFacts
  <2>2. ASSUME NEW r \in UserRequest, Users!StoreManaged(r)
        PROVE  uwRef'[a] = uwRef[a]
    <3>1. /\ uwAddress[r] \in UserAddress /\ uwAddress[r] \in Users!Ref /\ uwUser[r] \in User
          /\ uwStatus[uwAddress[r]] = "absent"
          /\ Users!Upsert(uwAddress[r], uwUser[r], "managed", uwAddress[r])
      BY <2>0, <2>2 DEF Users!StoreManaged, Users!StoreWallet, UsersSafe, StoringIsNew,
                        ServedIsStored, Users!TypeOK, Users!Ref
    <3>2. "managed" \in Users!Custody /\ a # uwAddress[r]
      BY <2>0, <3>1 DEF Users!Custody
    <3> QED
      BY <2>0, <3>1, <3>2, UpsertFacts
  <2>3. CASE \/ \E b \in UserAddress : Users!DeleteUserWallet(b)
             \/ Users!Tick
             \/ \E r \in UserRequest :
                  \/ \E u \in User : Users!CreateManagedUserWallet(r, u)
                  \/ Users!VaultCreatesWallet(r) \/ Users!VaultFails(r) \/ Users!StoreFails(r)
                  \/ Users!ManagedTransfer(r) \/ Users!Sign(r) \/ Users!Answer(r)
    BY <2>3 DEF Users!DeleteUserWallet, Users!Tick, Users!CreateManagedUserWallet,
                Users!VaultCreatesWallet, Users!VaultFails, Users!StoreFails,
                Users!ManagedTransfer, Users!Sign, Users!Answer, Users!walletVars
  <2> QED
    BY <2>1, <2>2, <2>3 DEF Users!Next, Users!RequestStep
<1> QED
  BY <1>1, UsersInvariant, PTL DEF Users!Spec, Users!KeyNeverForgotten

\* A deleted wallet is neither served nor signed for (UpsertUserWallet).
LEMMA DeletedStays == Users!Spec => Users!DeletedStaysDeleted
<1>1. UsersIInv /\ [Users!Next]_(Users!vars) =>
        [\A a \in UserAddress : uwStatus[a] = "deleted" =>
           /\ uwStatus'[a] = "deleted"
           /\ \A r \in UserRequest : uwStage[r] = "idle" => uwAddress'[r] # a]_(Users!vars)
  <2> SUFFICES ASSUME UsersIInv, Users!Next, NEW a \in UserAddress, uwStatus[a] = "deleted"
               PROVE  /\ uwStatus'[a] = "deleted"
                      /\ \A r \in UserRequest : uwStage[r] = "idle" => uwAddress'[r] # a
    OBVIOUS
  <2>0. /\ Users!TypeOK /\ UsersSafe
        /\ \A r \in UserRequest : uwStage[r] = "idle" => uwAddress[r] # a
    BY DEF UsersIInv, UsersSafe, ServedIsStored
  <2>1. ASSUME NEW b \in UserAddress, NEW u \in User, NEW c \in Users!Custody,
               NEW k \in Users!Ref, Users!Upsert(b, u, c, k)
        PROVE  uwStatus'[a] = "deleted"
    BY <2>0, <2>1, UpsertFacts
  <2>2. ASSUME NEW r \in UserRequest, Users!StoreManaged(r)
        PROVE  uwStatus'[a] = "deleted" /\ uwAddress' = uwAddress
    <3>1. /\ uwAddress[r] \in UserAddress /\ uwAddress[r] \in Users!Ref /\ uwUser[r] \in User
          /\ uwAddress' = uwAddress
          /\ Users!Upsert(uwAddress[r], uwUser[r], "managed", uwAddress[r])
      BY <2>0, <2>2 DEF Users!StoreManaged, Users!StoreWallet, UsersSafe, StoringIsNew,
                        ServedIsStored, Users!TypeOK, Users!Ref
    <3> QED
      BY <2>1, <3>1 DEF Users!Custody
  <2>3. ASSUME NEW b \in UserAddress, NEW u \in User, NEW c \in Users!Custody,
               NEW k \in ClientRef \cup {NoRef}, Users!UpsertUserWallet(b, u, c, k)
        PROVE  uwStatus'[a] = "deleted" /\ uwAddress' = uwAddress
    BY <2>1, <2>3 DEF Users!UpsertUserWallet, Users!requestVars, Users!Ref
  <2>4. ASSUME NEW b \in UserAddress, Users!DeleteUserWallet(b)
        PROVE  uwStatus'[a] = "deleted" /\ uwAddress' = uwAddress
    BY <2>0, <2>4 DEF Users!DeleteUserWallet, Users!TypeOK, Users!requestVars
  <2>5. ASSUME NEW r \in UserRequest,
               \/ \E u \in User : Users!CreateManagedUserWallet(r, u)
               \/ Users!VaultCreatesWallet(r) \/ Users!VaultFails(r) \/ Users!StoreFails(r)
               \/ Users!ManagedTransfer(r) \/ Users!Sign(r) \/ Users!Answer(r)
        PROVE  /\ uwStatus' = uwStatus
               /\ \A q \in UserRequest : uwStage[q] = "idle" =>
                    uwAddress'[q] = uwAddress[q] \/ uwStatus[uwAddress'[q]] = "active"
    BY <2>0, <2>5 DEF Users!CreateManagedUserWallet, Users!VaultCreatesWallet, Users!VaultFails,
       Users!StoreFails, Users!ManagedTransfer, Users!Sign, Users!Answer, Users!walletVars,
       Users!TypeOK, Users!GetActiveManagedUserWallet, Users!Managed,
       Users!GetActiveManagedUserWalletSecretByAddress
  <2>6. CASE Users!Tick
    BY <2>0, <2>6 DEF Users!Tick, Users!walletVars, Users!requestVars
  <2> QED
    BY <2>0, <2>2, <2>3, <2>4, <2>5, <2>6 DEF Users!Next, Users!RequestStep
<1> QED
  BY <1>1, UsersInvariant, PTL DEF Users!Spec, Users!DeletedStaysDeleted

\* The signer of a project only ever changes to an older wallet
\* (GetProjectDefaultAdminWallet).
LEMMA DefaultsAge == Project!Spec => Project!DefaultOnlyGetsOlder
<1>1. ProjectIInv /\ [Project!Next]_(Project!vars) =>
        [/\ pwIsDefault \subseteq pwIsDefault'
         /\ \A a \in Project!GetProjectDefaultAdminWallet,
               b \in Project!GetProjectDefaultAdminWallet' :
              pwCreatedAt'[b] <= pwCreatedAt[a]]_(Project!vars)
  <2> SUFFICES ASSUME ProjectIInv, Project!Next
               PROVE  /\ pwIsDefault \subseteq pwIsDefault'
                      /\ \A a \in Project!GetProjectDefaultAdminWallet,
                            b \in Project!GetProjectDefaultAdminWallet' :
                           pwCreatedAt'[b] <= pwCreatedAt[a]
    OBVIOUS
  <2>1. pwIsDefault \subseteq pwIsDefault'
    BY ProjectGrows DEF ProjectIInv
  <2>2. \A a \in pwWallets : pwCreatedAt'[a] = pwCreatedAt[a]
    <3>1. CASE pwCreatedAt' = pwCreatedAt
      BY <3>1
    <3>2. ASSUME NEW r \in ProjectRequest, pwStage[r] = "storing", Project!Store(r)
          PROVE  \A a \in pwWallets : pwCreatedAt'[a] = pwCreatedAt[a]
      BY <3>2 DEF Project!Store, ProjectIInv, Project!TypeOK, Project!WalletsHaveKeys
    <3>3. \/ pwCreatedAt' = pwCreatedAt
          \/ \E r \in ProjectRequest : pwStage[r] = "storing" /\ Project!Store(r)
      BY DEF Project!Next, Project!RequestStep, Project!EnsureProjectDefaultAdminWallet,
             Project!CreateWallet, Project!StartCreating, Project!VaultCreatesWallet,
             Project!VaultFails, Project!CreateProjectWallet, Project!StoreFails,
             Project!Answer, Project!ContractWrite, Project!ConsoleWrite, Project!Enqueue,
             Project!Attempt, Project!Tick, Project!storeVars
    <3> QED
      BY <3>1, <3>2, <3>3
  <2> QED
    BY <2>1, <2>2 DEF Project!GetProjectDefaultAdminWallet, ProjectIInv, Project!TypeOK
<1> QED
  BY <1>1, ProjectInvariant, PTL DEF Project!Spec, Project!DefaultOnlyGetsOlder

\* Only the wallet a write was queued for signs it (projectSignerPayloadForWallet).
LEMMA SignedAsQueued == Project!Spec => Project!SignsWhatWasQueued
<1>1. ProjectIInv /\ [Project!Next]_(Project!vars) =>
        [\A w \in Write : pwWrites[w].status = "queued" /\ pwWrites'[w].status = "signed"
           => pwWrites'[w].signer = pwWrites[w].signer]_(Project!vars)
  <2> SUFFICES ASSUME ProjectIInv, Project!Next, NEW w \in Write, pwWrites[w].status = "queued",
                      pwWrites'[w].status = "signed"
               PROVE  pwWrites'[w].signer = pwWrites[w].signer
    OBVIOUS
  <2>0. pwWrites \in [Write -> WriteType]
    BY DEF ProjectIInv, Project!TypeOK, WriteType
  <2>1. CASE pwWrites' = pwWrites
    BY <2>1
  <2>2. ASSUME NEW v \in Write, Project!ContractWrite(v)
        PROVE  pwWrites'[w].signer = pwWrites[w].signer
    BY <2>0, <2>2 DEF Project!ContractWrite, Project!ConsoleWrite, Project!Enqueue, WriteType
  <2>3. ASSUME NEW v \in Write, Project!Attempt(v)
        PROVE  pwWrites'[w].signer = pwWrites[w].signer
    <3>1. CASE v # w
      BY <2>0, <2>3, <3>1 DEF Project!Attempt, WriteType
    <3>2. CASE v = w
      <4>1. CASE \E a \in Project!GetProjectDefaultAdminWalletSecret :
              /\ pwWrites[w].signer = a
              /\ pwWrites' = [pwWrites EXCEPT ![w].status = "signed",
                   ![w].attempts = pwWrites[w].attempts + 1, ![w].signer = a]
        BY <2>0, <4>1 DEF WriteType
      <4>2. CASE pwWrites' = [pwWrites EXCEPT ![w].attempts = pwWrites[w].attempts + 1,
                   ![w].status = Project!AttemptStatus(pwWrites[w].attempts + 1)]
        BY <2>0, <4>2 DEF WriteType, Project!AttemptStatus
      <4> QED
        BY <2>3, <3>2, <4>1, <4>2 DEF Project!Attempt, Project!SignerPayload
    <3> QED
      BY <3>1, <3>2
  <2>4. \/ pwWrites' = pwWrites
        \/ \E v \in Write : Project!ContractWrite(v) \/ Project!Attempt(v)
    BY RequestFrame DEF Project!Next, Project!Tick
  <2> QED
    BY <2>1, <2>2, <2>3, <2>4
<1> QED
  BY <1>1, ProjectInvariant, PTL DEF Project!Spec, Project!SignsWhatWasQueued

\* What became of a wallet stands (UpsertUserWallet,
\* GetProjectDefaultAdminWallet, projectSignerPayloadForWallet).
THEOREM WalletsKept == SpecPart => WalletsStand
BY PartsRun, KeysRemembered, DeletedStays, DefaultsAge, SignedAsQueued, PTL DEF WalletsStand
=============================================================================
